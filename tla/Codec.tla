------------------------------- MODULE Codec -------------------------------
(***************************************************************************)
(* How contents become shards and contents again (internal/erasure): a     *)
(* Chunker cuts them into segments, an Encoder each segment into K data    *)
(* and M parity shards, and any K shards of a segment give it back.  The   *)
(* arithmetic of the Reed-Solomon library is left out: a parity shard is   *)
(* what it was computed from, which K shards together determine.           *)
(***************************************************************************)
EXTENDS Integers, SequencesExt, FiniteSetsExt

CONSTANTS
    K, M,           \* data and parity shards of the encoder
    SegmentSize     \* of the chunker

ASSUME CodecAssumption == /\ K \in Nat \ {0} /\ M \in Nat
                          /\ SegmentSize \in Nat \ {0} /\ SegmentSize % K = 0

Zero == "zero"      \* the byte that pads

(* Mutant: the last segment is as long as what is left.                    *)
ChunkUnpadded(data) ==
    [i \in 1 .. (Len(data) + SegmentSize - 1) \div SegmentSize |->
        SubSeq(data, (i - 1) * SegmentSize + 1, Min({i * SegmentSize, Len(data)}))]

(* The last segment is padded.                                             *)
Chunk(data) ==
    [i \in 1 .. (Len(data) + SegmentSize - 1) \div SegmentSize |->
        [j \in 1 .. SegmentSize |->
            LET at == (i - 1) * SegmentSize + j
            IN  IF at <= Len(data) THEN data[at] ELSE Zero]]

(* Encode; what is left of a segment whose size K does not divide is in no *)
(* shard.                                                                  *)
DataShards(segment) ==
    LET size == Len(segment) \div K
    IN  [i \in 0 .. K - 1 |-> SubSeq(segment, i * size + 1, (i + 1) * size)]
Parity(i, shards) == [number |-> i, of |-> shards]
Encode(segment) ==
    [i \in 0 .. K + M - 1 |->
        IF i < K THEN DataShards(segment)[i] ELSE Parity(i, DataShards(segment))]

(* Reconstruct: the data shards from K shards of one segment.              *)
Reconstruct(shards) ==
    IF 0 .. K - 1 \subseteq DOMAIN shards THEN [i \in 0 .. K - 1 |-> shards[i]]
    ELSE shards[CHOOSE i \in DOMAIN shards : i >= K].of

Undecodable == <<"need at least k shards">>
Decode(shards) ==
    IF Cardinality(DOMAIN shards) < K THEN Undecodable
    ELSE FlattenSeq([i \in 1 .. K |-> Reconstruct(shards)[i - 1]])

(* Read and Reassemble: the segments in a row, without the padding.        *)
Reassemble(segments, size) ==
    LET all == FlattenSeq(segments) IN SubSeq(all, 1, Min({size, Len(all)}))

(* Contents as they are read back from the shards S of each segment.       *)
ReadFrom(data, S) ==
    Reassemble([i \in DOMAIN Chunk(data) |->
                   LET all == Encode(Chunk(data)[i]) IN Decode([s \in S |-> all[s]])],
               Len(data))
=============================================================================
