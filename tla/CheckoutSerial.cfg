\* One request at a time, every endpoint, failures half way.
SPECIFICATION Spec
CONSTANTS
  h1 = h1
  h2 = h2
  k1 = k1
  k2 = k2
  l1 = l1
  l2 = l2
  l3 = l3
  Handlers = {h1}
  Keys = {k1, k2}
  LineIds = {l1, l2, l3}
  Amounts = {1, 2}
  Totals = {2, 3}
  Discounts = {"within", "aboveThreshold"}
  Endpoints = {"create", "update", "submit", "bank", "override", "activate", "reevaluate", "invoice", "cleanup"}
  PartialPaymentEnabled = FALSE
  RequireFullPayment = TRUE
  Trigger = "ON_PAID"
  MaxFailures = 2
  MaxCredit = 4
  MaxInvoiced = 3
SYMMETRY Interchangeable
CHECK_DEADLOCK FALSE
INVARIANTS
  CommercialTermsLocked
  DraftHasNoIntent
PROPERTIES
  ExactLedger
