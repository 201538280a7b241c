SPECIFICATION FairSpec
CONSTANTS
  Creds = {c1, c2}
  Abandoned = {c2}
  Workers = {w1}
  Limit = 1
  MaxFaults = 2
CHECK_DEADLOCK FALSE
INVARIANTS
  DeliveryInv
PROPERTIES
  DeletesExactly
  SecretsGo
  KnownIsCleaned
