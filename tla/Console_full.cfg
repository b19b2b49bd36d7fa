SPECIFICATION Spec
CONSTANTS
  CONSBUFSIZE = 3
  SerialChar = {1}
  KeyChar = {3}
  Mouse = Mouse
  MouseBytes = 0
  MaxTyped = 6
  MaxWaiting = 3
INVARIANT ZeroMeansNone
CHECK_DEADLOCK FALSE
