SPECIFICATION Spec
CONSTANTS
  r1 = r1
  Repos = {r1}
  Roles <- OneRole
  ProviderOf <- ItsProvider
  Capacity <- OneSlot
  Backoff = 1
  MaxItems = 1
  MaxWorkers = 2
  Restarts = TRUE
  WritesFail = TRUE
  MaxSilent = 0
INVARIANTS
  DiskIsCurrent
  HaltReasonSurvives
PROPERTIES
  CapacityKept
  StopEndsLaunches
