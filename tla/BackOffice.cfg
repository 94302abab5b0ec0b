SPECIFICATION OfficeSpec
CONSTANTS
  Nobody = Nobody
  Orders = {u, v}
  Price = 2
  Fee = 1
  Discounts = {1, 3}
  StartBalance = 1
  MaxExcess = 1
  MaxVersions = 2
  MaxCash = 3
  Sales = {u, v, w}
  InviterSales = {w}
  Net = 1
  Reward = 2
  Dues = {d1, d2}
  Admins = {x, y}
  Platforms = {u, v}
  Desks = {x, y}
  MaxUses = 1
  MaxPeriods = 3
  Processes = {u, v}
  Askers = {x, y}
  MaxGeneration = 2
SYMMETRY Symmetry
INVARIANTS OfficeTypeOK LedgerExplainsBalance RefundWithinFee NeverUndercharged
  PointsExplained AskedWithinRevenue DecisionsHold NeverCutShort CurrentGenerationIsFresh
PROPERTIES ChargedExactly
CHECK_DEADLOCK FALSE
