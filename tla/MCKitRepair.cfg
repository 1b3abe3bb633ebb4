\* Nobody touches the kit: only node up, and only killed.
SPECIFICATION FairSpec
CONSTANTS
  s1 = s1
  s2 = s2
  f1 = f1
  f2 = f2
  claude = claude
  node = node
  Skills <- MCSkills
  Floors = {f1}
  embedded = f1
  r1 = r1
  r2 = r2
  Revisions = {r1}
  Damage = {}
  Providers = {claude}
  Launchers = {node}
PROPERTY UpRepairsKit
CHECK_DEADLOCK FALSE
