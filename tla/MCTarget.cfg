SPECIFICATION FairSpec
CONSTANTS
  feature = feature
  renamed = renamed
  Refs <- MCRefs
  MaxChanges = 4
  Background = TRUE
INVARIANTS
  TypeOK
PROPERTIES
  PushKeepsOthers
  PushConverges
