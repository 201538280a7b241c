SPECIFICATION FairSpec
CONSTANTS
  Workers = {w1, w2}
  MaxCreates = 5
  MaxFaults = 2
CHECK_DEADLOCK FALSE
INVARIANTS
  StorageInv
  ReadyIsProven
PROPERTIES
  ProvisioningEnds
  DeletionEnds
