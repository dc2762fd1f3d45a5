SPECIFICATION Spec
CONSTANTS
  Key = {k1, k2}
  Value = {v1}
  Tombstone = Tombstone
  Absent = Absent
  Nil = Nil
  Partial = Partial
  Threshold = 2
  WriteBuffer = 2
  FirstId = 2
  MaxId = 5
  MaxLog = 2
SYMMETRY Symmetry
INVARIANTS TypeOK CrashLosesNothing ManifestReadable ReadersMirrorManifest NewestFirst
PROPERTIES LiveFilesImmutable CompactionKeepsNewest ImplementsKVStore
