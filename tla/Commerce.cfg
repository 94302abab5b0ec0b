SPECIFICATION CommerceSpec
CONSTANTS
  Nobody = Nobody
  Friends = {f1, f2, f3, f4}
  Creator = f1
  Required = 3
  Price = 5
  Fee = 2
  Autoflush = {TRUE, FALSE}
  Claims = {1, 2}
  Spares = {1}
  First = 0
  Staff = {s1}
  MaxTripFaults = 1
  CodeOrders = {o1}
  MaxCodes = 2
  MaxRows = 3
  Taps = {t1, t2}
  Readers = {d1, d2}
  MaxMails = 2
  MaxMailFaults = 1
  Purchases = {p1, p2}
  Components = {c1, c2}
  Stocked = {c1}
  ItemsEach = 2
  Files = {1, 2, 3}
  Invoices = {1, 2}
  Transfers = {"t1", "t2", "t3"}
  ApiInvoices = {1}
INVARIANTS CommerceTypeOK EscrowExact RefundsExact AllPaidBeforeDelivery
  ReplacementsOwned CodeOnce SharesPostedOnce InvoiceBookedOnce
PROPERTIES ReplacementFinishes HeldIsReleased DebtIsEnforced
CHECK_DEADLOCK FALSE
