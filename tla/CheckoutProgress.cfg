\* Fair requests that overlap and do not fail; two sides bill the order.
SPECIFICATION FairSpec
CONSTANTS
  h1 = h1
  h2 = h2
  k1 = k1
  k2 = k2
  l1 = l1
  l2 = l2
  l3 = l3
  Handlers = {h1, h2}
  Keys = {k1, k2}
  LineIds = {l1, l2}
  Amounts = {2}
  Totals = {2}
  Discounts = {"within"}
  Endpoints = {"create", "update", "submit", "bank", "activate", "invoice", "cleanup"}
  PartialPaymentEnabled = TRUE
  RequireFullPayment = FALSE
  Trigger = "ON_PAID"
  MaxFailures = 0
  MaxCredit = 4
  MaxInvoiced = 1
CHECK_DEADLOCK FALSE
PROPERTIES
  RequestsFinish
  StaysPaidGetsInvoice
