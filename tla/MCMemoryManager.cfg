\* Two sessions, the prefix of one of which covers the other.
SPECIFICATION Spec
CONSTANTS
  a = a
  ab = ab
  m1 = m1
  m2 = m2
  m3 = m3
  d1 = d1
  d2 = d2
  d3 = d3
  t1 = t1
  t2 = t2
  Session = {a, ab}
  Message = {m1, m2, m3}
  Doc = {d1, d2, d3}
  Thread = {t1, t2}
  None = None
  Covers <- PrefixOf
  KeyLess <- KeyOrder
  MaxTurn = 2
  MaxVector = 2
  MaxCrashes = 1
  MaxBegun = 3
  MaxRefused = 1
SYMMETRY Symmetry
INVARIANTS MemoryTypeOK HistoryKeepsAcked TurnsContiguous VectorsKept SearchFindsAdded
PROPERTY StoredVectorsImmutable

\* The callers stop when all messages and documents are used.
CHECK_DEADLOCK FALSE
