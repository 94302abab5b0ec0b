SPECIFICATION Spec
CONSTANTS
  Orders = {o1, o2, o3}
  Items = {i1}
  None = None
  MaxProofs = 1
  Overlap = FALSE
SYMMETRY Symmetry
INVARIANTS
  NoDoubleSale
CHECK_DEADLOCK FALSE
