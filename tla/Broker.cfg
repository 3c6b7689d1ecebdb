SPECIFICATION Spec
CONSTANTS
  h1 = h1 h2 = h2
  note = note draft = draft copy = copy secret = secret
  a1 = a1 a2 = a2
  c1 = c1 c2 = c2 g = g
  Governed = Governed Plain = Plain NoId = NoId NoOp = NoOp NoHost = NoHost
  Absent = Absent Basename = Basename Unappliable = Unappliable
  Contents = {c1, c2, g}
  Provenance <- MCProvenance Zone <- MCZone Tracked <- MCTracked OnDisk <- MCOnDisk
  Workers = {h1, h2} Paths = {note, draft, copy, secret} Ids = {a1, a2}
  Proposals <- AllProposals Direct <- AllDirect StatusFlips <- Flips
  HumanContents = {c1, c2, g, Absent}
  Worlds <- AllWorlds
SYMMETRY Symmetry
INVARIANTS GovernedKept RowsTellTheTruth AppliedOnce OneRowPerCommit NoFalseClose NothingUnrecorded ZonesRespected UndoMirrors
