\* The only failure: one append to MANIFEST that is refused or stops half way.
SPECIFICATION FaultySpec
CONSTANTS
  Key <- OneKey
  Value = {v1}
  Tombstone = Tombstone
  Absent = Absent
  Nil = Nil
  Partial = Partial
  Junk = Junk
  Directory = Directory
  Kinds <- AppendOnly
  MaxFaults = 1
  Threshold = 2
  WriteBuffer = 1
  FirstId = 0
  MaxId = 2
  MaxLog = 1
INVARIANT NothingLost
