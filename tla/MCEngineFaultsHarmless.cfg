\* From a directory without data_0, through two merges: failures during and after
\* a merge, none of which may cost data.
SPECIFICATION FaultySpec
CONSTANTS
  Key <- OneKey
  Value = {v1}
  Tombstone = Tombstone
  Absent = Absent
  Nil = Nil
  Partial = Partial
  Junk = Junk
  Directory = Directory
  Kinds <- HarmlessOnly
  MaxFaults = 3
  Threshold = 2
  WriteBuffer = 1
  FirstId = 2
  MaxId = 5
  MaxLog = 1
INVARIANT HarmlessLosesNothing
