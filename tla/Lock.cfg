SPECIFICATION LiveSpec
CONSTANTS
  Hosts = {h1, h2, h3}
  h3 = h3
  NoHost = NoHost
  Dead = Dead
  Stale = 3
  Update = 1
  Block = 1
  Patience = 5
  MaxDeaths = 1
  h1 = h1
  h2 = h2
INVARIANT ExclusiveWithoutDeath
INVARIANT OutlastsTheDead
PROPERTY NeverDeclaredDead
PROPERTY CallsEnd
