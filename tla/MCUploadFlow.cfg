SPECIFICATION Spec
CONSTANTS
  b1 = b1
  b2 = b2
  Batches <- MCBatches
  Nobody = Nobody
  MaxLoads = 2
  MaxMoves = 3
  MaxFailures = 1
CHECK_DEADLOCK FALSE
INVARIANTS TypeOK AddressIsShown
PROPERTIES ConfirmedIsOpened MovesOn
