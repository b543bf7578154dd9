SPECIFICATION LcSpec
CONSTANTS
  h1 = h1
  h2 = h2
  Handlers = {h1, h2}
  NTables = 2
  Chunk = 2
  ExportMax = 2
  Serial = FALSE
  Failures = {}
  MaxRows = 3
  MaxFailures = 0
INVARIANT CountedExactlyOnce
CHECK_DEADLOCK FALSE
