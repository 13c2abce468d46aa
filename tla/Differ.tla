------------------------------- MODULE Differ -------------------------------
(***************************************************************************)
(* Patches between two versions of a file (internal/livesync/differ.go).   *)
(*                                                                         *)
(* Contents are sequences of bytes: ASCII characters, Nul, and bytes that  *)
(* are no UTF-8.  Text goes through the diff library as runes, for which   *)
(* each invalid byte is U+FFFD, three bytes when it comes back; of the     *)
(* library nothing is assumed but that it returns some diff of the runes.  *)
(***************************************************************************)
EXTENDS Integers, SequencesExt, FiniteSetsExt

CONSTANTS
    Letters,    \* ASCII characters
    Invalid     \* bytes that are no UTF-8

Nul     == "nul"
Unknown == "U+FFFD"

DiffContents(size) == SeqOf(Letters \cup Invalid \cup {Nul}, size)

insert(at, data)       == [type |-> "insert", offset |-> at, length |-> 0, data |-> data]
delete(at, n)          == [type |-> "delete", offset |-> at, length |-> n, data |-> <<>>]
replace(at, n, data)   == [type |-> "replace", offset |-> at, length |-> n, data |-> data]

isTextSafe(s) == Nul \notin Range(s)

-----------------------------------------------------------------------------
(***************************************************************************)
(* textDiff.                                                               *)
(***************************************************************************)
Runes(s) == [i \in DOMAIN s |-> IF s[i] \in Invalid THEN Unknown ELSE s[i]]
Bytes(r) == FlattenSeq([i \in DOMAIN r |-> IF r[i] = Unknown
                                           THEN <<"0xEF", "0xBF", "0xBD">> ELSE <<r[i]>>])

(* What a diff may leave equal: pairs of places that hold the same rune,   *)
(* the two orders agreeing.                                                *)
Matchings(a, b) ==
    {P \in SUBSET {p \in (DOMAIN a) \X (DOMAIN b) : a[p[1]] = b[p[2]]} :
        \A p, q \in P : p = q \/ (p[1] < q[1] /\ p[2] < q[2]) \/ (q[1] < p[1] /\ q[2] < p[2])}

(* The patches of one diff: before each place that is left equal, and at   *)
(* the end, what is deleted and then what is inserted.                     *)
Between(s, from, to) == Bytes(SubSeq(s, from + 1, to - 1))
PatchesFor(a, b, P) ==
    LET ends == <<<<0, 0>>>> \o SetToSortSeq(P, LAMBDA p, q : p[1] < q[1])
                \o <<<<Len(a) + 1, Len(b) + 1>>>>
        Gap(g) ==
            LET old == Between(a, ends[g][1], ends[g + 1][1])
                new == Between(b, ends[g][2], ends[g + 1][2])
                at  == Len(Bytes(SubSeq(a, 1, ends[g][1])))
            IN  (IF old = <<>> THEN <<>> ELSE <<delete(at, Len(old))>>)
                \o (IF new = <<>> THEN <<>> ELSE <<insert(at + Len(old), new)>>)
    IN  FlattenSeq([g \in 1 .. Len(ends) - 1 |-> Gap(g)])

textDiff(old, new) ==
    LET a == Runes(old)  b == Runes(new)
    IN  IF a = b THEN {<<>>} ELSE {PatchesFor(a, b, P) : P \in Matchings(a, b)}

-----------------------------------------------------------------------------
(***************************************************************************)
(* byteDiff: what is between the common prefix and the common suffix.      *)
(***************************************************************************)
Shorter(old, new) == Min({Len(old), Len(new)})
Prefix(old, new) ==
    Max({n \in 0 .. Shorter(old, new) : SubSeq(old, 1, n) = SubSeq(new, 1, n)})

(* Mutant: the suffix may reach into the prefix.                           *)
SuffixOverlapping(old, new) ==
    Max({n \in 0 .. Shorter(old, new) :
            SubSeq(old, Len(old) - n + 1, Len(old)) = SubSeq(new, Len(new) - n + 1, Len(new))})

Suffix(old, new) ==
    Max({n \in 0 .. Shorter(old, new) - Prefix(old, new) :
            SubSeq(old, Len(old) - n + 1, Len(old)) = SubSeq(new, Len(new) - n + 1, Len(new))})

byteDiff(old, new) ==
    LET p == Prefix(old, new)
        oldMid == SubSeq(old, p + 1, Len(old) - Suffix(old, new))
        newMid == SubSeq(new, p + 1, Len(new) - Suffix(old, new))
    IN  IF oldMid = <<>> THEN <<insert(p, newMid)>>
        ELSE IF newMid = <<>> THEN <<delete(p, Len(oldMid))>>
        ELSE <<replace(p, Len(oldMid), newMid)>>

(* The patches that Diff may return.                                       *)
Diff(old, new) ==
    IF old = new THEN {<<>>}
    ELSE IF isTextSafe(old) /\ isTextSafe(new) THEN textDiff(old, new)
    ELSE {byteDiff(old, new)}

-----------------------------------------------------------------------------
(* ApplyPatches.  A patch beyond the end of what there is panics.          *)
Panic == <<"slice bounds out of range">>
Apply(s, p) ==
    LET pos == p.offset + s.adjustment
    IN  IF s.result = Panic \/ pos + p.length > Len(s.result) THEN [s EXCEPT !.result = Panic]
        ELSE [result |-> SubSeq(s.result, 1, pos) \o p.data
                         \o SubSeq(s.result, pos + p.length + 1, Len(s.result)),
              adjustment |-> s.adjustment + Len(p.data) - p.length]
ApplyPatches(base, patches) ==
    FoldLeft(Apply, [result |-> base, adjustment |-> 0], patches).result
=============================================================================
