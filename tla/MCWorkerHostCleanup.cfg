SPECIFICATION FairSpec
CONSTANTS
  node = node
  Managers = {node}
  Adapters = {"host"}
  Ignores = {TRUE, FALSE}
PROPERTIES
  HostCleanupConverges
