SPECIFICATION Spec
CONSTANTS
  r1 = r1
  Repos = {r1}
  Roles <- OneRole
  ProviderOf <- ItsProvider
  Capacity <- TwoSlots
  Backoff = 1
  MaxItems = 1
  MaxWorkers = 2
  Restarts = FALSE
  WritesFail = FALSE
  MaxSilent = 0
CHECK_DEADLOCK FALSE
INVARIANTS
  TypeOK
  ClaimGapIsReserved
  OnlySettledAreCleaned
PROPERTIES
  BlockedRolesStayEmpty
