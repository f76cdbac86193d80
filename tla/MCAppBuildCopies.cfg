SPECIFICATION BuildSpec
CONSTANTS
  Commands <- MCCommands
  Latest = 3
INVARIANTS
  EveryCopyBuilt
