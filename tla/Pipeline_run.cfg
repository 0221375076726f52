SPECIFICATION FairSpec
CONSTANTS
  Whole = 3
  StdoutCap = 2
INVARIANTS TypeOK NeverStuck StoredIsArchive WaitAfterDrain Conserved
PROPERTIES KeepsContract RunReturns GoroutinesEnd
