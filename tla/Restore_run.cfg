CONSTANTS
  Whole = 2
  MaxCommands = 3
SPECIFICATION FairSpec
INVARIANTS TypeOK RestoredIsArchive CopyIsExact Conserved
PROPERTIES KeepsContract CommandEnds DecryptorEnds
