SPECIFICATION FairSpec
CONSTANTS
  s1 = s1
  s2 = s2
  f1 = f1
  f2 = f2
  claude = claude
  node = node
  Skills <- MCSkills
  Floors = {f1, f2}
  embedded = f1
  r1 = r1
  r2 = r2
  Revisions = {r1, r2}
  Damage = {"drifted"}
  Providers = {claude}
  Launchers = {node}
INVARIANTS
  TypeOK
  ActiveIsWhole
  StartsOnActiveKit
PROPERTIES
  KitConverges
CHECK_DEADLOCK FALSE
