SPECIFICATION BillingSpec
CONSTANTS
  Nobody = Nobody
  Invoices = {1}
  Transfers = {"t1"}
  ApiInvoices = {}
INVARIANTS BackAfterPayment
CHECK_DEADLOCK FALSE
