\* Two overlapping runs of the scheduler and one request at a time.
SPECIFICATION Spec
CONSTANTS
  h1 = h1
  h2 = h2
  t1 = t1
  t2 = t2
  ann = ann
  bob = bob
  requester = requester
  Handlers = {h1}
  Timers = {t1, t2}
  Users = {ann, bob}
  Requester = bob
  EscalateTo = {ann}
  Steps = {"review", "final"}
  Visits = {1, 2}
  MaxFailures = 1
  Decisions = {"approve", "reject", "handover", "escalate"}
  Definitions <- WithoutLoop
CHECK_DEADLOCK FALSE
INVARIANTS
  EscalatedOnce
