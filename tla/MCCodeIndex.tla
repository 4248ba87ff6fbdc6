---------------------------- MODULE MCCodeIndex ----------------------------
(* Instances of CodeIndex for TLC: the indexers and the files may be       *)
(* exchanged.                                                              *)
EXTENDS CodeIndex, TLC

\* Every edit is beyond the first 100 characters of a file's first chunk, and
\* moves the lines at which the others start.
MCId == [c \in Chunk |-> IF c[3] = 1 THEN <<c[1], 0, 1>> ELSE c]

Swaps == Permutations(Indexers) \cup Permutations(Files)
=============================================================================
