SPECIFICATION Spec
CONSTANTS
  Kinds <- MCKinds
  Base = 4
  BigLen = 6
  LargeSize = 4
  Body <- MCBody
  MaxLevel = 2
  ZsetMaxEntries = 2
  ZsetMaxValue = 5
  Hash <- MCHash
  InitialSize = 1
  ForceRatio = 1
  Bits = 4
  ListMaxEntries = 3
  HashMaxEntries = 2
  IntsetMaxEntries = 3
  MinFill = 50
  MaxValue = 5
  IsInteger <- MCIsInteger
  Registers = 4
  ZeroMaxLen = 2
  ValMaxLen = 2
  ValMax = 2
  SparseMaxBytes = 3
  Stale = Stale
  foo = foo
  ListValues = {1, 2, 3, 4}
  ListMax = 4
  SetValues <- MCSetValues
  HashFields = {1, 2, 3}
  HashValues = {1, 3, 4}
  Elements = {1, 2, 3, 4}
  Scores = {0, 1}
  Counts = {1, 2, 3}
  Merges <- MCMerges
  LenLimit = 4
  MaxIntLen = 3
  LzfLen = 30
  RdbVersion = 6
  ItemsPerCmd = 2
  LoadLimits = {1, 3}
  Keys = {1, 2, 3}
INVARIANTS Represents ScanComplete Reloads

