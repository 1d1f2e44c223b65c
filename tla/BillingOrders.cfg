\* Two requests on one order and its invoice: edits, decisions, archiving,
\* billing and payments.
SPECIFICATION Spec
CONSTANTS
  o1 = o1
  e1 = e1
  e2 = e2
  h1 = h1
  h2 = h2
  none = none
  Orders = {o1}
  Edits = {e1}
  Handlers = {h1, h2}
  Amounts = {1, 2}
  Periods = {1}
  IncreaseIsFree = TRUE
  DecreaseIsHeld = TRUE
  DueDates = {1}
  MaxFailures = 1
  None = none
  Endpoints = {"update", "archive", "decide", "edit", "bill", "amend", "move", "void", "allocate"}
SYMMETRY Interchangeable
INVARIANTS
  TypeOK
  ArchivedOrderIsSettled
  PaidIsAllocated
PROPERTIES
  DecreaseIsApproved
