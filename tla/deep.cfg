SPECIFICATION Spec
CONSTANTS
  a = a
  b = b
  m1 = m1
  d1 = d1
  nobytes = nobytes
  Name = {a, b}
  Path <- ThreeWithSibling
  Meta = {m1}
  Data = {d1}
  NoBytes = nobytes
  Handle = {h1}
  Asserts = TRUE
  Checked = TRUE
  Drops = FALSE
  MaxCommits = 2
  MaxCrashes = 0
ACTION_CONSTRAINT Step
INVARIANTS
  ReadsAgree
  CommitFindsChildren
PROPERTIES
  Implements
  OnlyItsPath
