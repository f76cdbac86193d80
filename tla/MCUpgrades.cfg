SPECIFICATION Spec
CONSTANTS
  PlanNames <- MCPlanNames
  OldHandlers <- MCOldHandlers
  NoPlan = NoPlan
  MaxHeight = 4
  MaxCrashes = 2
INVARIANTS
  TokenFactoryReady
PROPERTIES
  StoreAddedOnce
  CustomParamsKept
  UpgradeCompletes
CHECK_DEADLOCK FALSE
