SPECIFICATION Spec
CONSTANTS
  Friends = {f1, f2}
  Creator = f1
  Required = 2
  Price = 5
  Fee = 2
  Autoflush = {FALSE}
INVARIANTS
  CountIncludesPayer
CHECK_DEADLOCK FALSE
