SPECIFICATION Spec
CONSTANTS
  Words <- MCWords
  Contents <- MCContents
  Jobs <- MCJobs
  Typed <- MCTyped
  Edits = {e1}
  Rejects = {k1}
  None = None
  MaxTyped = 0
PROPERTY EditUndone
CHECK_DEADLOCK FALSE
