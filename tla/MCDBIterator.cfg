SPECIFICATION Spec
CONSTANTS
  v1 = v1
  v2 = v2
  Key = {1, 2, 3}
  Value = {v1, v2}
  Tombstone = Tombstone
  Absent = Absent
  Nil = Nil
  Stores <- MCStores
  Starts = {0, 2, 3}
  Ends = {0, 2}
  MaxPast = 2
INVARIANTS TypeOK ReturnsLive NothingSkipped InRange
PROPERTY Ascends
\* A step on freed memory has no outcome to go on from.
CHECK_DEADLOCK FALSE
