\* A directory that starts empty: the first compaction sees file id 0.
SPECIFICATION Spec
CONSTANTS
  Tombstone = Tombstone
  Absent = Absent
  Nil = Nil
  Partial = Partial
  Key = {k1}
  Value = {v1, v2}
  Threshold = 2
  WriteBuffer = 2
  FirstId = 0
  MaxId = 3
  MaxLog = 2
PROPERTY CompactionKeepsNewest
