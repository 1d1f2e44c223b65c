\* One request at a time, failures half way, one run of the scheduler at a time.
SPECIFICATION FairSpec
CONSTANTS
  h1 = h1
  h2 = h2
  t1 = t1
  t2 = t2
  ann = ann
  bob = bob
  requester = requester
  Handlers = {h1}
  Timers = {t1}
  Users = {ann, bob}
  Requester = requester
  EscalateTo = {bob}
  Steps = {"review", "final"}
  Visits = {1, 2, 3}
  MaxFailures = 1
  Decisions = {"approve", "reject", "handover", "escalate"}
  Definitions <- Usual
CHECK_DEADLOCK FALSE
INVARIANTS
  TypeOK
  SomebodyDecides
  OrderFollowsWorkflow
PROPERTIES
  OutcomeStays
  ImplementsProcess
  OverdueEscalates
  RequestsFinish
