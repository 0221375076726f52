SPECIFICATION FairSpec
CONSTANTS
  Viewers = {v1, v2}
  LogChCap = 2
  MaxLines = 4
INVARIANTS TypeOK SoleViewerSeesAll
PROPERTIES KeepsStream NoSendAfterClose StreamsEnd
CHECK_DEADLOCK FALSE
