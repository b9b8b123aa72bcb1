CONSTANTS
  Names = {a, b}
  Unclaimable = {b}
  a = a
  b = b
  Read <- MCRead
  Disks <- MCDisks
  Dirs <- MCDirs
  SerialSpace = 3
  HasMetrics = TRUE
  Zephyr = FALSE
  MaxPeers = 1
  MaxInputs = 3
  MaxEvents = 1
SPECIFICATION Spec
INVARIANTS ReloadsInFlight NamesAgree SettledOnDisk
PROPERTIES ReloadAnswered
CHECK_DEADLOCK FALSE
