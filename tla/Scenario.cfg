SPECIFICATION Spec
CONSTANTS
  Parts = {"rebuild", "revive", "pace", "water", "shields", "casts", "pay", "director", "steer", "probe", "match", "player", "hide", "motion", "sight", "fires", "dual", "shield", "bands", "talents", "wear", "trade", "party", "raid"}
  NoBot = NoBot
  NoSeat = NoSeat
  Stranger = Stranger
  None = None
  Setup <- Tried
INVARIANTS SeatsRebuilt PressesCounted SeatPaidInFull SidesSettled SensesAreItsOwn CharactersFit BooksBalance PartyAccounted
PROPERTIES NeverSteps
CHECK_DEADLOCK FALSE
