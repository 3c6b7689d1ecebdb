SPECIFICATION FairSpec
CONSTANTS
  h1 = h1
  h2 = h2
  Hosts = {h1, h2}
  Notes = {n1, n2}
  Commits = {c1}
  Ids = {id1, id2}
  Worlds <- AllWorlds
INVARIANT UpIsMigrated
INVARIANT QuietIsWhole
PROPERTY ConfigComesLast
PROPERTY OpenEnds
CHECK_DEADLOCK FALSE
