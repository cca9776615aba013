SPECIFICATION CopiesSpec
CONSTANTS
  s1 = s1
  s2 = s2
  s3 = s3
  Servers = {s1, s2, s3}
  DbNum = 2
  None = None
  Scenarios <- Bounds
  Plans <- DiskBounds
INVARIANT ResumesWhereItLeft
CHECK_DEADLOCK FALSE
