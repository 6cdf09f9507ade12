SPECIFICATION Spec
CONSTANTS
  a = a
  b = b
  Name = {a}
  Path <- TwoLevels
  Meta = {m1}
  Data = {d1}
  NoBytes = nobytes
  Handle = {h1}
  Asserts = TRUE
  Checked = TRUE
  Drops = FALSE
  MaxCommits = 1
  MaxCrashes = 0
INVARIANT SegmentsAreTracked
