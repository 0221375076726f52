SPECIFICATION FairSpec
CONSTANTS
  Main = main
  Hands = {h1}
  Boot = boot
  Schedulers = {s1}
  Savers = {w1}
  Intervals = {1}
  DiskFails = TRUE
  Signals = FALSE
  MaxRestarts = 0
PROPERTIES BackupsKeepComing DisabledGoesQuiet
CHECK_DEADLOCK FALSE
