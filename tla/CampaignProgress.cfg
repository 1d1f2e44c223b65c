\* One campaign, fair ticks, retries and a restart in the middle of a tick.
SPECIFICATION FairSpec
CONSTANTS
  p1 = p1
  p2 = p2
  z1 = z1
  z2 = z2
  k1 = k1
  k2 = k2
  s1 = s1
  s2 = s2
  o1 = o1
  o2 = o2
  none = none
  Campaigns = {p1}
  Accounts = {z1}
  Customers = {k1, k2}
  Reach <- Everybody
  Selects <- ForAll
  Lists <- OneList
  Schedulers = {s1}
  Operators = {o1}
  OpKinds <- StartOnly
  MaxErrors = 1
  MaxAttempts = 2
  MaxCrashes = 1
  DaysPass = TRUE
  None = none
INVARIANTS
  QuotaKept
  StopIsSoon
PROPERTIES
  CampaignFinishes
