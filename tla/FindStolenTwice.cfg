SPECIFICATION Spec
CONSTANTS
  Hosts = {h1, h2, h3}
  NoHost = NoHost
  Dead = Dead
  Stale = 2
  Update = 1
  Block = 1
  Patience = 7
  MaxDeaths = 1
  h1 = h1
  h2 = h2
  h3 = h3
INVARIANT MutualExclusion
