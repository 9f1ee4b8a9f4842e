SPECIFICATION Spec
CONSTANTS
  Table <- CurriculumStages
  Classes = {"warrior", "rogue"}
  Stealthy = {"rogue"}
  Named = {"companion", "duo", "crossroads"}
  MaxCut = 1
  MaxPlans = 2
INVARIANTS TypeOK PlansSound SeedsSound
CHECK_DEADLOCK FALSE
