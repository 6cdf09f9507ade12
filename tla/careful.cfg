SPECIFICATION FairSpec
CONSTANTS
  a = a
  b = b
  m1 = m1
  m2 = m2
  d1 = d1
  d2 = d2
  nobytes = nobytes
  Name = {a, b}
  Path <- CarefulPaths
  Meta = {m1, m2}
  Data = {d1, d2, nobytes}
  NoBytes = nobytes
  Handle = {h1}
  Asserts = TRUE
  Checked = TRUE
  Drops = FALSE
  MaxCommits = 2
  MaxCrashes = 0
ACTION_CONSTRAINT OneOfThem
INVARIANTS
  TypeOK
  ReadsAgree
  CommitFindsChildren
PROPERTIES
  Implements
  DeleteDeletes
  StoreStores
  CallsReturn
