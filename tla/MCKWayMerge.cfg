SPECIFICATION Spec
CONSTANTS
  v1 = v1
  v2 = v2
  v3 = v3
  Key = {1, 2}
  Value = {v1, v2, v3}
  Tombstone = Tombstone
  Absent = Absent
  End = End
  CompactorInputs <- MCInputs
INVARIANTS TypeOK OutputAscends MergedSoFar ResultAllowed
PROPERTY Terminates
\* The loop stops when it is done.
CHECK_DEADLOCK FALSE
