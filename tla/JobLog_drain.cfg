SPECIFICATION Spec
CONSTANTS
  Viewers = {v1, v2}
  LogChCap = 2
  MaxLines = 4
PROPERTY DrainsOnlyShown
CHECK_DEADLOCK FALSE
