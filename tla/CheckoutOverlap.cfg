\* Two requests overlap on every endpoint that pays, edits, activates or bills.
SPECIFICATION Spec
CONSTANTS
  h1 = h1
  h2 = h2
  k1 = k1
  k2 = k2
  l1 = l1
  l2 = l2
  l3 = l3
  Handlers = {h1, h2}
  Keys = {k1, k2}
  LineIds = {l1, l2}
  Amounts = {1, 2}
  Totals = {2, 3}
  Discounts = {"within"}
  Endpoints = {"create", "update", "submit", "bank", "override", "activate", "reevaluate", "cleanup"}
  PartialPaymentEnabled = TRUE
  RequireFullPayment = TRUE
  Trigger = "ON_PAID"
  MaxFailures = 0
  MaxCredit = 4
  MaxInvoiced = 0
SYMMETRY Interchangeable
CHECK_DEADLOCK FALSE
INVARIANTS
  TypeOK
  IntentConsistent
  KeysSettleOnce
  ApprovedInvoiceIsCovered
