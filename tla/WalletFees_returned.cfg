SPECIFICATION Spec
CONSTANTS
  Orders = {o1, o2}
  Price = 2
  Fee = 1
  Discounts = {1, 3}
  StartBalance = 1
  MaxExcess = 1
  MaxVersions = 2
  MaxCash = 3
INVARIANTS
  FeeReturned
CHECK_DEADLOCK FALSE
