SPECIFICATION Spec
CONSTANTS
  Parts = {"raid"}
  NoBot = NoBot
  NoSeat = NoSeat
  Stranger = Stranger
  None = None
  Setup <- Tried
INVARIANTS MostHurtIsShown
CHECK_DEADLOCK FALSE
