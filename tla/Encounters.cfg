SPECIFICATION Spec
CONSTANTS
  Arenas = {"flag", "ladder", "creature", "quest", "gather", "town", "pack", "gauntlet", "sequence", "owned", "ambush", "ambushed", "trip", "dives", "boss"}
  NoFight = NoFight
  Setup <- Tried
INVARIANTS FlagsAndSlotsKept LadderSound FightsSettled ErrandsSettled PullsSettled TripsSettled
PROPERTIES NeverSteps
