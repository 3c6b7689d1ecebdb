SPECIFICATION Spec
CONSTANTS
  h1 = h1
  h2 = h2
  NoNote = NoNote
  NoRow = NoRow
  NoMem = NoMem
  Hosts = {h1, h2}
  Memories = {1, 2, 3}
  Texts <- AllTexts
  Worlds <- AllWorlds
INVARIANT ContradictionFlagged
INVARIANT RelationsTellCitations
PROPERTY ClosedStaysClosed
PROPERTY DeathFlagged
PROPERTY SweepsFind
CHECK_DEADLOCK FALSE
