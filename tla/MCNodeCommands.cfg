SPECIFICATION CommandsSpec
CONSTANTS
  Commands <- MCCommands
  Latest = 3
  MaxValidators = 3
  MaxRuns = 3
  Operators = {op1, op2, op3}
  NewOperator = op3
  Accounts = {alice}
  NotAnAddress = empty
  MaxLaunches = 2
INVARIANTS
  CopiesFinal
  LoadsComplete
  NetworkComplete
  RefusedOnlyWhenSmaller
  TestnetGoesOn
  OnlyNewValidator
