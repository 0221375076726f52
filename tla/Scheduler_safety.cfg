SPECIFICATION Spec
CONSTANTS
  Main = main
  Hands = {}
  Boot = boot
  Schedulers = {s1}
  Savers = {w1}
  Intervals = {0, 1}
  DiskFails = FALSE
  Signals = TRUE
  MaxRestarts = 1
INVARIANTS TypeOK OneScheduler EnabledIsServed
CHECK_DEADLOCK FALSE
