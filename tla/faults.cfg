SPECIFICATION FaultsSpec
CONSTANTS
  a = a
  b = b
  Name = {a, b}
  Path <- Siblings
  Meta = {m1}
  Data = {}
  NoBytes = nobytes
  Handle = {h1, h2}
  Asserts = TRUE
  Checked = FALSE
  Drops = TRUE
  MaxCommits = 1
  MaxCrashes = 2
SYMMETRY HandlesAlike
ACTION_CONSTRAINT Step
INVARIANTS
  StoreClosed
  RootIsThere
PROPERTIES
  HistoryStays
  DeleteDeletesAlone
