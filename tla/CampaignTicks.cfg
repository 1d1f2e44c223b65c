\* Two processes run the timer over one campaign; it can be started again, deleted, or given other accounts.
SPECIFICATION Spec
CONSTANTS
  p1 = p1
  p2 = p2
  z1 = z1
  z2 = z2
  k1 = k1
  k2 = k2
  s1 = s1
  s2 = s2
  o1 = o1
  o2 = o2
  none = none
  Campaigns = {p1}
  Accounts = {z1}
  Customers = {k1, k2}
  Reach <- FirstOnly
  Selects <- ForAll
  Lists <- OneList
  Schedulers = {s1, s2}
  Operators = {o1, o2}
  OpKinds <- DraftsApart
  MaxErrors = 1
  MaxAttempts = 2
  MaxCrashes = 0
  DaysPass = FALSE
  None = none
CHECK_DEADLOCK FALSE
SYMMETRY ProcessesAlike
INVARIANTS
  OneMessagePerCustomer
