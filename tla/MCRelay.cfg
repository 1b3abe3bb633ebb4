SPECIFICATION Spec
CONSTANTS
  i1 = i1
  i2 = i2
  Items <- MCItems
  NoItem = NoItem
  Interval = 2
  LeaseTicks = 2
  MaxClaims = 2
  MarkerWritesFail = FALSE
SYMMETRY Symmetry
INVARIANTS
  TypeOK
  BeliefIsBacked
  RenewalIsForHeldLease
  LapseIsNoticed
  OneLeasePerWorker
  AttemptIsWrittenAhead
  LossIsJustified
  Custody
PROPERTIES
  LossIsFinal
  ContractKept
