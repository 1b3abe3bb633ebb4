SPECIFICATION FairSpec
CONSTANTS
  r1 = r1
  Repos = {r1}
  Roles <- OneRole
  ProviderOf <- ItsProvider
  Capacity <- OneSlot
  Backoff = 1
  MaxItems = 1
  MaxWorkers = 1
  Restarts = TRUE
  WritesFail = FALSE
  MaxSilent = 1
INVARIANTS
  ActiveIsReconciled
PROPERTIES
  StopCompletes
