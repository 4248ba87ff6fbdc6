SPECIFICATION Spec
CONSTANTS
  Words <- MCWords
  Contents <- MCContents
  Jobs <- MCJobs
  Typed <- MCTyped
  Edits = {e1, e2}
  Rejects = {k1, k2}
  None = None
  MaxTyped = 1
SYMMETRY Symmetry
INVARIANTS HunkLocatesText RejectedWasReversed ReversedOnce
PROPERTIES RollbackRestores WriteUndone
CHECK_DEADLOCK FALSE
