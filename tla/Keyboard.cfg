SPECIFICATION KeySpec
CONSTANTS
  Key = {"lctl", "rctl", "lshift", "rshift", "alt", "caps", "a", "one", "enter", "up", "del"}
  MaxWire = 4
  MaxHeld = 3
INVARIANT InStep
PROPERTY DecodedAsTyped
