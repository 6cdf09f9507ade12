SPECIFICATION Spec
CONSTANTS
  Object = {o1, o2}
  Data = {d1, d2}
  File = {f1, f2}
  None = None
  MaxSets = 2
SYMMETRY Symmetry
INVARIANTS
  Regular
  ReadYourWrites
  StoreStays
