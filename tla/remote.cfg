SPECIFICATION FairSpec
CONSTANTS
  viewer = viewer
  tool = tool
  loader = loader
  gui = gui
  main = main
  Process <- MCProcess
  Thread <- MCThread
  ProcessOf <- MCProcessOf
  Settings <- MCSettings
  MaxCalls = 3
  MaxFrames = 2
INVARIANTS
  TypeOK
  InTurns
  NoPartsLeft
PROPERTIES
  Implements
  CallsEnd
CHECK_DEADLOCK FALSE
