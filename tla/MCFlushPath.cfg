\* Nodes of 2 bytes, values of 2 (a tombstone has 0); every second record is indexed.
SPECIFICATION Spec
CONSTANTS
  Key <- FourKeys
  HeadNode = 0
  Nil = Nil
  MaxHeight = 2
  ValueSize = {2}
  Tombstone = Tombstone
  Absent = Absent
  NodeBytes = 2
  Word = 32
  BitCount = 5
  HashCount = 2
  Word64 = 8
  kSparseIndexInterval = 2
  Hash <- Hashes
  WriteBuffer = 9
  MaxReplay = 2
  MaxWrites = 2
INVARIANTS FlushTypeOK LevelsNested SeekSkipsNothing CountersExact TableFaithful
