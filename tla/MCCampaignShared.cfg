SPECIFICATION Spec
CONSTANTS
  r1 = r1
  Repos = {r1}
  Roles <- TwoRoles
  ProviderOf <- OneProvider
  Capacity <- OneEach
  Backoff = 1
  MaxItems = 1
  MaxWorkers = 2
  Restarts = FALSE
  WritesFail = FALSE
  MaxSilent = 0
CHECK_DEADLOCK FALSE
PROPERTIES
  BlockedRolesStayEmpty
