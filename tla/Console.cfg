SPECIFICATION FairSpec
CONSTANTS
  CONSBUFSIZE = 3
  SerialChar = {0, 1, 2}
  KeyChar = {0, 3}
  Mouse = Mouse
  MouseBytes = 1
  MaxTyped = 5
  MaxWaiting = 2
INVARIANT ZeroMeansNone
PROPERTIES ImplementsQueue EveryCharArrives
CHECK_DEADLOCK FALSE
