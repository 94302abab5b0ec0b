SPECIFICATION FairSpec
CONSTANTS
  Orders = {o1}
  Items = {i1}
  None = None
  MaxProofs = 3
  Overlap = TRUE
INVARIANTS
  PaidBeforeGoods
  ReceiptDecidedOnce
PROPERTIES
  ContractSpec
  LapsedHoldEnds
CHECK_DEADLOCK FALSE
