\* Two dispatchers on one event, callbacks one after the other, two crashes.
SPECIFICATION FairSpec
CONSTANTS
  j1 = j1
  d1 = d1
  d2 = d2
  c1 = c1
  none = none
  Jobs = {j1}
  Dispatchers = {d1, d2}
  Callbacks = {c1}
  MaxAttempts = 2
  MaxCrashes = 2
  None = none
INVARIANTS
  TypeOK
  AtMostOneReply
  RetryBudget
  NothingLost
PROPERTIES
  OutcomeStays
  QueueDrains
