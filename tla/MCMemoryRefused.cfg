\* One thread, one refused call.
SPECIFICATION Spec
CONSTANTS
  a = a
  ab = ab
  m1 = m1
  m2 = m2
  m3 = m3
  d1 = d1
  d2 = d2
  d3 = d3
  t1 = t1
  t2 = t2
  Session = {a, ab}
  Message = {m1}
  Doc = {d1}
  Thread = {t1}
  None = None
  Covers <- PrefixOf
  KeyLess <- KeyOrder
  MaxTurn = 2
  MaxVector = 2
  MaxCrashes = 0
  MaxBegun = 2
  MaxRefused = 1
INVARIANT AddedIsStored

\* The callers stop when all messages and documents are used.
CHECK_DEADLOCK FALSE
