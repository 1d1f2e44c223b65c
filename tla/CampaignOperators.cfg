\* Two campaigns that may share an account, every operator request, one process.
SPECIFICATION Spec
CONSTANTS
  p1 = p1
  p2 = p2
  z1 = z1
  z2 = z2
  k1 = k1
  k2 = k2
  s1 = s1
  s2 = s2
  o1 = o1
  o2 = o2
  none = none
  Campaigns = {p1, p2}
  Accounts = {z1, z2}
  Customers = {k1}
  Reach <- FirstOnly
  Selects <- FirstForOne
  Lists <- OneAccountLists
  Schedulers = {s1}
  Operators = {o1}
  OpKinds <- Everything
  MaxErrors = 1
  MaxAttempts = 1
  MaxCrashes = 0
  DaysPass = FALSE
  None = none
SYMMETRY AccountsAlike
CHECK_DEADLOCK FALSE
INVARIANTS
  TypeOK
  AccountRunsOnce
