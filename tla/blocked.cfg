SPECIFICATION Spec
CONSTANTS
  a = a
  b = b
  Name = {a, b}
  Path <- ThreeWithSibling
  Meta = {m1}
  Data = {d1}
  NoBytes = nobytes
  Handle = {h1}
  Asserts = TRUE
  Checked = TRUE
  Drops = FALSE
  MaxCommits = 2
  MaxCrashes = 0
INVARIANT CommitFindsChildren
