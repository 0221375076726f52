SPECIFICATION VFairSpec
CONSTANTS
  Files = {a, u, v}
  Late = {u, v}
  Good = {a}
  Mine = {a, u, v}
  Undated = {}
  Cleaners = {u, v}
  RetentionDays = 1
  DayLen = 1
  HalfRange = 4
  PageSize = 1
  Today = 0
  LastTime = 2
INVARIANTS TypeOK CountsEachOnce Thorough
PROPERTIES KeepsYoung NeverTheLast KeepContracts CleanupsEnd
CHECK_DEADLOCK FALSE
