SPECIFICATION FairSpec
CONSTANTS
  r1 = r1
  r2 = r2
  a1 = a1
  a2 = a2
  e1 = e1
  e2 = e2
  v1 = v1
  v2 = v2
  local = local
  Releases <- MCReleases
  Spoilable <- MCSpoilable
  Args <- MCArgs
  Envs <- MCEnvs
  Plans <- MCPlans
  VersionOf <- MCVersionOf
  ListenOf <- MCListenOf
INVARIANTS
  TypeOK
  ReportedIsSo
PROPERTIES
  NodeConverges
