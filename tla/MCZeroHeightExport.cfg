SPECIFICATION Spec
CONSTANTS
  v1 = v1
  v2 = v2
  d1 = d1
  d2 = d2
  Validators = {v1, v2}
  Delegations <- MCDelegations
  Rewards = {3}
  InitialPeriods = 4
  Allowed = {v1}
INVARIANTS
  RewardsConserved
  HooksNeverPanic
  ReferencesExact
  FreshStart
