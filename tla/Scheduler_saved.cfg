SPECIFICATION Spec
CONSTANTS
  Main = main
  Hands = {}
  Boot = boot
  Schedulers = {s1}
  Savers = {w1}
  Intervals = {1}
  DiskFails = FALSE
  Signals = FALSE
  MaxRestarts = 0
INVARIANT SavedIsSaved
CHECK_DEADLOCK FALSE
