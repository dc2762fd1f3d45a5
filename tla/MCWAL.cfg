SPECIFICATION Spec
CONSTANTS
  Key = {k1, k2, q}
  TimestampKey = {q}
  Value = {v1}
  Empty = Empty
  Garbage = Garbage
  Absent = Absent
  Nil = Nil
  MaxLog = 3
  MaxTears = 2
INVARIANTS TypeOK LastAckSurvives PrecedingPreserved
PROPERTY AppendKeepsRecovered
SYMMETRY Symmetry
