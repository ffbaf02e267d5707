SPECIFICATION FairSpec
CONSTANTS
  MaxCommands = 3
  MaxEvents = 3
INVARIANTS TypeOK InputIsAsShown EndIsClean
PROPERTY EndsWhenAsked
