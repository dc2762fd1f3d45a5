SPECIFICATION Spec
CONSTANTS
  Key = {k1, q}
  TimestampKey = {q}
  Value = {v1}
  Empty = Empty
  Garbage = Garbage
  Absent = Absent
  Nil = Nil
  MaxLog = 2
  MaxTears = 0
INVARIANT AckedSurvive
