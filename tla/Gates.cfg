SPECIFICATION Spec
CONSTANTS
  Segments <- MCSegments
  SkippedDirs = {".ledger", ".git", ".obsidian", "trash"}
  Vaults <- MCVaults
  Frontmatters <- MCFrontmatters
  Nodes = {"n1", "n2"}
  Dates = {"d1", "d2"}
  Scalars = {"x", "kai", "7", "null", "NaN"}
  Strings = {"kai"}
  Texts = {"a", "b"}
  NewText = "new"
  MaxLines = 4
  MaxHunks = 2
  MaxHunkLines = 2
  LineBytes = 200
  Threshold = 50
INVARIANT ZoneIsByTheBook
INVARIANT GuardIsExact
INVARIANT AppliedAsDeclared
PROPERTY ProposedIsSafe
PROPERTY CleanBillLasts
CHECK_DEADLOCK FALSE
