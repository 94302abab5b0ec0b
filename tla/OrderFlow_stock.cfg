SPECIFICATION Spec
CONSTANTS
  Orders = {o1, o2}
  Items = {i1}
  None = None
  MaxProofs = 1
  Overlap = TRUE
SYMMETRY Symmetry
INVARIANTS
  StockOwned
  CancelledHoldsNothing
  ReturnedThroughAnEnd
PROPERTIES
  EndedStaysEnded
CHECK_DEADLOCK FALSE
