SPECIFICATION Spec
CONSTANTS
  Frame <- MCFrame
  CacheTime = 100
  MaxDepth = 3
  Lists <- MCLists
  Stamps = {2, 6}
  Clouds = {2, 4, 6}
  MaxLoad = 2
  MaxInputs = 2
  MaxJobs = 2
INVARIANTS
  StoredIsFound
  Coherent
  LatestIsLatest
  CombineKeepsOthers
  CombinesInside
PROPERTIES
  AddingKeeps
CHECK_DEADLOCK FALSE
