SPECIFICATION SuiteSpec
CONSTANTS
  ShipBatch = 2
  Mishaps = {"crash", "timeout", "drop", "refuse", "save", "purge", "prune", "read"}
  MaxLogged = 4
  MaxMishaps = 3
  h1 = h1
  h2 = h2
  Handlers = {h1, h2}
  NTables = 2
  Chunk = 2
  ExportMax = 2
  Serial = TRUE
  Failures = {"abort", "crash", "send", "save", "read"}
  MaxRows = 3
  MaxFailures = 2
INVARIANTS NothingUnshippedIsDropped ArrivesInOrder RepetitionsNeedMishaps CountedExactlyOnce ExportsEveryRow
PROPERTIES AllShipped AllCounted
CHECK_DEADLOCK FALSE
