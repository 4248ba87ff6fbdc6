---------------------------- MODULE MCTaskManager ----------------------------
(* TLC instances of TaskManager.                                            *)
EXTENDS TaskManager, SequencesExt

Symmetry == Permutations(Ids)

\* A list of two edges is what a refused update can partly have had before.
ShortBlockLists == {L \in SUBSET Refs : Cardinality(L) <= 2}
SingleBlockedBy == {L \in SUBSET Ids : Cardinality(L) <= 1}

\* One order of each set; the theorem SearchAnswersRight is about all.
OneOrder(S) == {SetToSeq(S)}

=============================================================================
