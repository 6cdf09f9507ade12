SPECIFICATION Spec
CONSTANTS
  a = a
  f = f
  b = b
  t1 = t1
  t2 = t2
  w1 = w1
  w2 = w2
  Walk <- MCWalk
  Folder <- MCFolder
  Tool <- MCTool
  None = None
  Master = master
  Unknown = unknown
  Name <- MCName
  Data = {cloud, nobytes}
  Unsized = {cloud}
  NoBytes = nobytes
  NoData = nodata
  Time = {1, 2}
  MaxCommits = 2
  MaxEdits = 2
SYMMETRY Alike
INVARIANT Tells
PROPERTY HistoryGrows
