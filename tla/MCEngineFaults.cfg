\* From an empty directory, so that file id 0 and the replacement by id occur.
SPECIFICATION FaultySpec
CONSTANTS
  Key <- OneKey
  Value = {v1}
  Tombstone = Tombstone
  Absent = Absent
  Nil = Nil
  Partial = Partial
  Junk = Junk
  Directory = Directory
  Kinds <- AllKinds
  MaxFaults = 2
  Threshold = 2
  WriteBuffer = 1
  FirstId = 0
  MaxId = 2
  MaxLog = 1
INVARIANTS FaultyTypeOK ServesEveryWrite CompactionFindsInputs
PROPERTIES NamedFilesImmutable CompactionHeals OperationsReturn
