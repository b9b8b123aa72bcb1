CONSTANTS
  a = a
  b = b
  Names = {a, b}
  Unclaimable = {b}
  Dirs <- MCDirs
  Read <- MCRead
  Disks <- MCDisks
  SerialSpace = 3
  HasMetrics = FALSE
  Zephyr = TRUE
  MaxPeers = 2
  MaxInputs = 1
  MaxEvents = 0
SPECIFICATION Spec
PROPERTIES ListenersReleasedEmpty
CHECK_DEADLOCK FALSE
