SPECIFICATION SentinelsSpec
CONSTANTS
  s1 = s1
  s2 = s2
  s3 = s3
  r1 = r1
  r2 = r2
  r3 = r3
  Sentinels = {s1, s2, s3}
  First = r1
  Quorum = 2
  ParallelSyncs = 1
  Rank <- Order
  Active = {s1, s2}
  Scenarios <- Bounds
  None = None
  MaxChanges = 2
  MaxCrashes = 1
SYMMETRY Symmetric
INVARIANTS OneLeaderPerEpoch PromotedInPlace FileNamesInstances ConfigReloads
