SPECIFICATION FairSpec
CONSTANTS
  node = node
  Managers = {node}
  Adapters = {"host", "oci"}
  Ignores = {TRUE, FALSE}
INVARIANTS
  TypeOK
  WorkIsRetained
  NothingRunsAfterStop
  KitIsRecordedFirst
  CleanedIsGone
PROPERTIES
  StoppedWorkIsKept
  CleanupConverges
  BoundStopIsHonoured
