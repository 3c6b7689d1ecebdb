SPECIFICATION FairSpec
CONSTANTS
  Worlds <- AllWorlds
INVARIANT VerdictIsTrue
PROPERTY Converges
CHECK_DEADLOCK FALSE
