------------------------------- MODULE Merger -------------------------------
(***************************************************************************)
(* The three-way merge of live sync (internal/livesync/merger.go).  It     *)
(* works on lines by their position: the lines at one place of three texts *)
(* are compared, whatever was inserted or deleted before them.             *)
(*                                                                         *)
(* A text is the sequence of its lines; Blank is the empty line.  The text *)
(* of one blank line is the empty text, which has no lines.                *)
(***************************************************************************)
EXTENDS Integers, SequencesExt, FiniteSetsExt

CONSTANTS Lines, Blank

TextOf(lines) == IF lines = <<Blank>> THEN <<>> ELSE lines
MergeTexts(size) == SeqOf(Lines \cup {Blank}, size) \ {<<Blank>>}

getLine(lines, i) == IF i <= Len(lines) THEN lines[i] ELSE Blank
Changed(base, lines, i) == getLine(base, i) # getLine(lines, i)

Conflicting(base, ours, theirs) ==
    {i \in 1 .. Max({Len(ours), Len(theirs), Len(base)}) :
        Changed(base, ours, i) /\ Changed(base, theirs, i)}

(* Mutant: a line that both have changed is taken from theirs.             *)
LineOfTheirs(base, ours, theirs, i) ==
    LET by == IF Changed(base, theirs, i) THEN theirs
              ELSE IF Changed(base, ours, i) THEN ours ELSE base
    IN  IF i > Len(by) \/ (i \in Conflicting(base, ours, theirs) /\ by[i] = Blank) THEN <<>>
        ELSE <<by[i]>>

(* What stands at place i: ours where we have changed it, also in a        *)
(* conflict, in which a blank line is left out.                            *)
LineAt(base, ours, theirs, i) ==
    LET by == IF Changed(base, ours, i) THEN ours
              ELSE IF Changed(base, theirs, i) THEN theirs ELSE base
    IN  IF i > Len(by) \/ (i \in Conflicting(base, ours, theirs) /\ by[i] = Blank) THEN <<>>
        ELSE <<by[i]>>

(* Mutant: a line beyond the base is appended whether it is there or not.  *)
AddLineAgain(result, line) == Append(result, line)

AddLine(result, line) == IF line \in Range(result) THEN result ELSE Append(result, line)

Beyond(base, lines) == SubSeq(lines, Len(base) + 1, Len(lines))

(* ThreeWayMerge: the text, and the conflicts as what the reports hold.    *)
ThreeWayMerge(base, ours, theirs) ==
    IF ours = theirs THEN [merged |-> ours, conflicts |-> {}]
    ELSE LET places == 1 .. Max({Len(base), Len(ours), Len(theirs)})
             inPlace == FlattenSeq([i \in places |-> LineAt(base, ours, theirs, i)])
         IN  [merged |-> TextOf(FoldLeft(AddLine, inPlace,
                                         Beyond(base, ours) \o Beyond(base, theirs))),
              conflicts |-> {[at |-> i, ours |-> getLine(ours, i), theirs |-> getLine(theirs, i)] :
                                i \in Conflicting(base, ours, theirs)}]
=============================================================================
