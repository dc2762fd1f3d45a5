SPECIFICATION Spec
CONSTANTS
  Key = {k1, k2}
  TimestampKey = {}
  Value = {v1, v2}
  Empty = Empty
  Garbage = Garbage
  Absent = Absent
  Nil = Nil
  MaxLog = 2
  MaxTears = 1
INVARIANT AckedSurvive
