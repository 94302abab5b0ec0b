SPECIFICATION Spec
CONSTANTS
  Orders = {o1}
  Items = {i1}
  None = None
  MaxProofs = 1
  Overlap = TRUE
PROPERTIES
  LegalStatusSteps
CHECK_DEADLOCK FALSE
