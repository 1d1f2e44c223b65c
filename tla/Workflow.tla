------------------------------ MODULE Workflow ------------------------------
(***************************************************************************)
(* One approval workflow, submitted for an edited order: its instance, its *)
(* approvals, the decisions taken on them and the escalation of the ones   *)
(* that are overdue (workflows.service.ts, and the timer of                *)
(* workflow-escalation-scheduler.service.ts).                              *)
(*                                                                         *)
(* No operation runs in a transaction: every statement commits by itself,  *)
(* so a request is one action per statement that reads what a later        *)
(* statement relies on, or that writes.  req[h] carries what was read.     *)
(* The approvals of a step are created each time the instance enters it:   *)
(* one visit per entry, at most one approval per visit and assignee.       *)
(***************************************************************************)
EXTENDS Integers, FiniteSets

CONSTANTS
  Handlers,     \* requests that can be in flight together
  Timers,       \* runs of the escalation scheduler that can overlap
  Users,        \* users that may hold an approval
  Requester,    \* the user who submits
  EscalateTo,   \* users with the role that overdue approvals escalate to
  Steps,        \* step keys
  Decisions,    \* what users ask for on an approval
  Definitions,  \* active workflow definitions (graphs) to choose from
  Visits,       \* bound: 1 .. number of times a step is entered
  MaxFailures   \* bound: requests and timer runs that fail half way

VARIABLES
  graph,        \* definitionJson: the steps, their assignees and transitions
  instance,     \* the WorkflowInstance row
  approvals,    \* the Approval rows, by visit and first assignee
  overdue,      \* visits whose dueAt has passed
  order,        \* status of the Order the workflow was submitted for
  req,          \* what each request in flight has read
  scan,         \* what each run of the escalation scheduler has read
  autoEscalated, \* history: automatic escalations of each approval
  failures      \* requests and runs that have failed half way

vars == <<graph, instance, approvals, overdue, order, req, scan,
          autoEscalated, failures>>

(* Operators marked "mutant" are not part of the specification: each is a  *)
(* plausible defect of the definition after it.                            *)
-----------------------------------------------------------------------------
Terminal == {"APPROVED", "REJECTED", "ARCHIVED"}
Modes == {"ANY", "ALL", "MIN_N"}

(* A step: who is assigned, what happens if nobody is, how many approvals  *)
(* it asks for and where each decision leads.  Conditions of transitions   *)
(* and assignment rules depend on the context alone, which never changes.  *)
StepRecord ==
  [assignees : SUBSET Users, autoApprove : BOOLEAN, mode : Modes, min : Nat,
   approve : Steps \cup Terminal, reject : Steps \cup Terminal]

ASSUME WorkflowAssumption ==
  /\ IsFiniteSet(Users)
  /\ EscalateTo \subseteq Users
  /\ Steps \cap Terminal = {}
  /\ \A d \in Definitions : d.initial \in Steps /\ d.steps \in [Steps -> StepRecord]
  /\ Decisions \subseteq {"approve", "reject", "handover", "escalate"}
  /\ Visits \subseteq Nat
  /\ MaxFailures \in Nat

Ids == Visits \X Users
NoApproval ==
  [status |-> "NONE", step |-> "NONE", approver |-> Requester,
   escalated |-> FALSE]
Idle == [pc |-> "idle"]

Created == {id \in Ids : approvals[id].status # "NONE"}
OfStep(s) == {id \in Created : approvals[id].step = s}
Having(ids, status) == {id \in ids : approvals[id].status = status}
Fresh == {v \in Visits : \A u \in Users : approvals[<<v, u>>].status = "NONE"}

(* resolveApprovalGate, for a number of assigned approvals.                *)
AtLeast(a, b) == IF a >= b THEN a ELSE b
AtMost(a, b) == IF a <= b THEN a ELSE b
Required(s, assigned) ==
  CASE graph.steps[s].mode = "ANY"   -> AtMost(1, assigned)
    [] graph.steps[s].mode = "MIN_N" -> AtMost(AtLeast(1, graph.steps[s].min),
                                               AtLeast(1, assigned))
    [] OTHER                         -> AtLeast(1, assigned)

Init ==
  /\ graph \in Definitions
  /\ instance = [status |-> "NONE", step |-> "NONE"]
  /\ approvals = [id \in Ids |-> NoApproval]
  /\ overdue = {}
  /\ order = "OPEN"
  /\ req = [h \in Handlers |-> Idle]
  /\ scan = [t \in Timers |-> Idle]
  /\ autoEscalated = [id \in Ids |-> 0]
  /\ failures = 0

Continue(h, r) == req' = [req EXCEPT ![h] = r]
Done(h) == Continue(h, Idle)
At(h, pc) == req[h].pc = pc

(* Statements that leave everything but the request, and the rows they     *)
(* write, alone.                                                           *)
Reads == UNCHANGED <<graph, instance, approvals, overdue, order, scan,
                     autoEscalated, failures>>
WritesApprovals == UNCHANGED <<graph, instance, overdue, order, scan,
                               autoEscalated, failures>>
WritesInstance == UNCHANGED <<graph, approvals, overdue, order, scan,
                              autoEscalated, failures>>
WritesOrder == UNCHANGED <<graph, instance, approvals, overdue, scan,
                           autoEscalated, failures>>

Decide(ids, status) ==
  approvals' = [id \in Ids |->
                 IF id \in ids THEN [approvals[id] EXCEPT !.status = status]
                               ELSE approvals[id]]
Give(id, user, escalated) ==
  approvals' = [approvals EXCEPT ![id].approver = user,
                                 ![id].escalated = escalated]
-----------------------------------------------------------------------------
(* submitInstance, called by updateOrder of the sales module, which sets   *)
(* the order PENDING once the instance and its approvals are there.        *)
Submit(h) ==
  /\ req[h] = Idle
  /\ instance.status = "NONE"
  /\ instance' = [status |-> "PENDING", step |-> graph.initial]
  /\ Continue(h, [pc |-> "assign", step |-> graph.initial, then |-> "mark"])
  /\ WritesInstance

(* ensureStepApprovals: one statement creates the approvals of the step; a *)
(* step nobody is assigned to approves itself or fails.                    *)
Assign(h) ==
  /\ At(h, "assign")
  /\ LET step == graph.steps[req[h].step]
     IN  \/ /\ step.assignees # {}
            /\ \E v \in Fresh :
                 /\ \A w \in Fresh : v <= w
                 /\ approvals' = [id \in Ids |->
                      IF id[1] = v /\ id[2] \in step.assignees
                      THEN [status |-> "PENDING", step |-> req[h].step,
                            approver |-> id[2], escalated |-> FALSE]
                      ELSE approvals[id]]
            /\ Continue(h, [pc |-> req[h].then])
            /\ WritesApprovals
         \/ /\ step.assignees = {} /\ step.autoApprove
            /\ Continue(h, [pc |-> "advance", action |-> "approve",
                            then |-> req[h].then])
            /\ Reads
         \/ /\ step.assignees = {} /\ ~step.autoApprove
            /\ Done(h)
            /\ Reads

(* updateOrder: the order waits for the workflow.                          *)
Mark(h) ==
  /\ At(h, "mark")
  /\ order' = "PENDING"
  /\ Done(h)
  /\ WritesOrder
-----------------------------------------------------------------------------
(* The first read of every decision; as many visits stay unused as         *)
(* requests could need (bound).                                            *)
ReadInstance(h) ==
  /\ req[h] = Idle
  /\ instance.status = "PENDING"
  /\ Cardinality(Fresh) >= Cardinality(Handlers)
  /\ Continue(h, [pc |-> "pick", step |-> instance.step])
  /\ Reads

(* pickPendingApproval and assertSeparationOfDuties: a pending approval of *)
(* the step, of the user who decides and who is not the requester.         *)
Pick(h) ==
  /\ At(h, "pick")
  /\ \/ \E id \in Having(OfStep(req[h].step), "PENDING"),
           decision \in Decisions :
          /\ approvals[id].approver # Requester
          /\ Continue(h, [pc |-> decision, step |-> req[h].step, id |-> id])
     \/ Done(h)
  /\ Reads

(* approveInstance: the approval, by its id alone.                         *)
Approve(h) ==
  /\ At(h, "approve")
  /\ Decide({req[h].id}, "APPROVED")
  /\ Continue(h, [pc |-> "gate", step |-> req[h].step])
  /\ WritesApprovals

Advance(action) == [pc |-> "advance", action |-> action, then |-> "idle"]

(* The gate counts every approval the step ever had.                       *)
GateOpenOnFirst(s) == Having(OfStep(s), "APPROVED") # {} \* mutant
GateOpenAbove(s) == \* mutant
  Cardinality(Having(OfStep(s), "APPROVED"))
    > Required(s, Cardinality(OfStep(s)))
GateOpen(s) ==
  Cardinality(Having(OfStep(s), "APPROVED"))
    >= Required(s, Cardinality(OfStep(s)))

Gate(h) ==
  /\ At(h, "gate")
  /\ LET s == req[h].step
     IN  \/ ~GateOpen(s) /\ Done(h)
         \/ /\ GateOpen(s) /\ Having(OfStep(s), "PENDING") # {}
            /\ Continue(h, [pc |-> "skip", step |-> s])
         \/ /\ GateOpen(s) /\ Having(OfStep(s), "PENDING") = {}
            /\ Continue(h, Advance("approve"))
  /\ Reads

(* The approvals the mode does not need are archived.                      *)
Skip(h) ==
  /\ At(h, "skip")
  /\ Decide(Having(OfStep(req[h].step), "PENDING"), "ARCHIVED")
  /\ Continue(h, Advance("approve"))
  /\ WritesApprovals

(* rejectInstance: one rejection rejects what is pending on the step.      *)
RejectPending(h) ==
  /\ At(h, "reject")
  /\ Decide(Having(OfStep(req[h].step), "PENDING"), "REJECTED")
  /\ Continue(h, [req[h] EXCEPT !.pc = "rejectOwn"])
  /\ WritesApprovals

RejectOwn(h) ==
  /\ At(h, "rejectOwn")
  /\ Decide({req[h].id}, "REJECTED")
  /\ Continue(h, Advance("reject"))
  /\ WritesApprovals

(* advanceByDecision: the instance is read again, but whether it is still  *)
(* pending and on the step that was decided is not tested.                 *)
TransitionOfFirst(s, action) == \* mutant
  IF action = "approve" THEN graph.steps[graph.initial].approve
                        ELSE graph.steps[graph.initial].reject
Transition(s, action) ==
  IF action = "approve" THEN graph.steps[s].approve ELSE graph.steps[s].reject

AdvanceRead(h) ==
  /\ At(h, "advance")
  /\ Continue(h, [pc |-> "move", then |-> req[h].then,
                  target |-> Transition(instance.step, req[h].action)])
  /\ Reads

Move(h) ==
  /\ At(h, "move")
  /\ LET target == req[h].target
     IN  \/ /\ target \in Steps
            /\ instance' = [status |-> "PENDING", step |-> target]
            /\ Continue(h, [pc |-> "assign", step |-> target,
                            then |-> req[h].then])
         \/ /\ target \in Terminal
            /\ instance' = [instance EXCEPT !.status = target]
            /\ Continue(h, [pc |-> "sync", status |-> target,
                            then |-> req[h].then])
  /\ WritesInstance

(* syncTargetAfterWorkflowDecision: one transaction rewrites the order and *)
(* its lines as approved, or rejects the edit.                             *)
OrderStatusCopied(status) == status \* mutant
OrderStatusUnlessRejected(status) == \* mutant
  IF status = "REJECTED" THEN "REJECTED" ELSE "APPROVED"
OrderStatus(status) == IF status = "APPROVED" THEN "APPROVED" ELSE "REJECTED"

Sync(h) ==
  /\ At(h, "sync")
  /\ order' = OrderStatus(req[h].status)
  /\ Continue(h, [pc |-> req[h].then])
  /\ WritesOrder
-----------------------------------------------------------------------------
(* reassignInstance and delegateInstance write by id alone; a manual       *)
(* escalation (escalateInstance) finds its approval still pending or does  *)
(* nothing.                                                                *)
Handover(h) ==
  /\ At(h, "handover")
  /\ \E user \in Users :
       Give(req[h].id, user, approvals[req[h].id].escalated)
  /\ Done(h)
  /\ WritesApprovals

Escalate(h) ==
  /\ At(h, "escalate")
  /\ \/ /\ approvals[req[h].id].status = "PENDING"
        /\ \E user \in Users : Give(req[h].id, user, TRUE)
     \/ /\ approvals[req[h].id].status # "PENDING"
        /\ UNCHANGED approvals
  /\ Done(h)
  /\ WritesApprovals

(* cancelInstance: what is pending is rejected, the instance archived; the *)
(* order is left as it is.                                                 *)
CancellableUnlessArchived(status) == status # "ARCHIVED" \* mutant
Cancellable(status) == status \notin Terminal

CancelRead(h) ==
  /\ req[h] = Idle
  /\ instance.status # "NONE"
  /\ Cancellable(instance.status)
  /\ Continue(h, [pc |-> "cancel"])
  /\ Reads

CancelApprovals(h) ==
  /\ At(h, "cancel")
  /\ Decide(Having(Created, "PENDING"), "REJECTED")
  /\ Continue(h, [pc |-> "cancelled"])
  /\ WritesApprovals

CancelInstance(h) ==
  /\ At(h, "cancelled")
  /\ instance' = [instance EXCEPT !.status = "ARCHIVED"]
  /\ Done(h)
  /\ WritesInstance
-----------------------------------------------------------------------------
(* runAutoEscalation: one read selects the overdue approvals, then each    *)
(* one is read again and written if it is still pending and not escalated. *)
Open(id) == approvals[id].status = "PENDING" /\ ~approvals[id].escalated

(* Where clause of the guarded write.                                      *)
PendingOnly(id) == approvals[id].status = "PENDING" \* mutant
StillOpen(id) == Open(id)

Early(id) == id[1] \notin overdue \* mutant
Late(id) == id[1] \in overdue

RunOn(t, todo) == scan' = [scan EXCEPT ![t] = IF todo = {} THEN Idle
                               ELSE [pc |-> "next", todo |-> todo]]
Scans == UNCHANGED <<graph, instance, approvals, overdue, order, req,
                     autoEscalated, failures>>

ScanBegin(t) ==
  /\ scan[t] = Idle
  /\ instance.status = "PENDING"
  /\ LET todo == {id \in Created : Late(id) /\ Open(id)}
     IN  todo # {} /\ RunOn(t, todo)
  /\ Scans

(* autoEscalateTask: the approval, then the instance, then the guarded     *)
(* write.                                                                  *)
ScanTask(t) ==
  /\ scan[t].pc = "next"
  /\ \E id \in scan[t].todo :
       \/ /\ Open(id)
          /\ scan' = [scan EXCEPT ![t] = [pc |-> "instance", id |-> id,
                                          todo |-> scan[t].todo \ {id}]]
       \/ /\ ~Open(id)
          /\ RunOn(t, scan[t].todo \ {id})
  /\ Scans

ScanInstance(t) ==
  /\ scan[t].pc = "instance"
  /\ \/ /\ instance.status = "PENDING"
        /\ scan' = [scan EXCEPT ![t].pc = "write"]
     \/ /\ instance.status # "PENDING"
        /\ RunOn(t, scan[t].todo)
  /\ Scans

ScanWrite(t) ==
  /\ scan[t].pc = "write"
  /\ LET id == scan[t].id
     IN  \/ /\ StillOpen(id)
            /\ \E user \in EscalateTo : Give(id, user, TRUE)
            /\ autoEscalated' = [autoEscalated EXCEPT ![id] = @ + 1]
         \/ /\ ~StillOpen(id)
            /\ UNCHANGED <<approvals, autoEscalated>>
  /\ RunOn(t, scan[t].todo)
  /\ UNCHANGED <<graph, instance, overdue, order, req, failures>>

(* The approvals of one visit were given one dueAt.                        *)
FallDue(v) ==
  /\ v \notin Fresh \cup overdue
  /\ overdue' = overdue \cup {v}
  /\ UNCHANGED <<graph, instance, approvals, order, req, scan, autoEscalated,
                 failures>>

(* A statement fails or the process stops: what was written stays.         *)
RequestFails(h) ==
  /\ req[h] # Idle
  /\ failures < MaxFailures
  /\ failures' = failures + 1
  /\ Done(h)
  /\ UNCHANGED <<graph, instance, approvals, overdue, order, scan,
                 autoEscalated>>

TimerFails(t) ==
  /\ scan[t] # Idle
  /\ failures < MaxFailures
  /\ failures' = failures + 1
  /\ scan' = [scan EXCEPT ![t] = Idle]
  /\ UNCHANGED <<graph, instance, approvals, overdue, order, req,
                 autoEscalated>>
-----------------------------------------------------------------------------
RequestStep(h) ==
  \/ Assign(h) \/ Mark(h) \/ Pick(h) \/ Approve(h) \/ Gate(h) \/ Skip(h)
  \/ RejectPending(h) \/ RejectOwn(h) \/ AdvanceRead(h) \/ Move(h) \/ Sync(h)
  \/ Handover(h) \/ Escalate(h) \/ CancelApprovals(h) \/ CancelInstance(h)

Timer(t) == ScanBegin(t) \/ ScanTask(t) \/ ScanInstance(t) \/ ScanWrite(t)

Next ==
  \/ \E h \in Handlers : \/ Submit(h) \/ ReadInstance(h) \/ CancelRead(h)
                         \/ RequestStep(h) \/ RequestFails(h)
  \/ \E t \in Timers : Timer(t) \/ TimerFails(t)
  \/ \E v \in Visits : FallDue(v)

Spec == Init /\ [][Next]_vars

(* A request that was started runs on, and the scheduler runs again and    *)
(* again (setInterval); nobody has to decide, and nothing has to be late.  *)
FairSpec ==
  /\ Spec
  /\ \A h \in Handlers : WF_vars(RequestStep(h))
  /\ \A t \in Timers : WF_vars(Timer(t))
-----------------------------------------------------------------------------
RowStatuses == {"NONE", "PENDING"} \cup Terminal
Rows ==
  [status : RowStatuses, step : Steps \cup {"NONE"},
   approver : Users \cup {Requester}, escalated : BOOLEAN]
Returns == {"idle", "mark"}
Requests ==
  {Idle}
  \cup [pc : {"mark", "cancel", "cancelled"}]
  \cup [pc : {"pick", "gate", "skip"}, step : Steps]
  \cup [pc : {"approve", "reject", "rejectOwn", "handover", "escalate"},
        step : Steps, id : Ids]
  \cup [pc : {"advance"}, action : {"approve", "reject"}, then : Returns]
  \cup [pc : {"move"}, target : Steps \cup Terminal, then : Returns]
  \cup [pc : {"assign"}, step : Steps, then : Returns]
  \cup [pc : {"sync"}, status : Terminal, then : Returns]
Runs ==
  {Idle}
  \cup [pc : {"next"}, todo : SUBSET Ids]
  \cup [pc : {"instance", "write"}, todo : SUBSET Ids, id : Ids]

(* What the variables hold; a request beyond submission finds an instance  *)
(* that is on a step of its graph.                                         *)
TypeOK ==
  /\ graph \in Definitions
  /\ instance \in [status : RowStatuses, step : Steps \cup {"NONE"}]
  /\ instance.status # "NONE" => instance.step \in Steps
  /\ approvals \in [Ids -> Rows]
  /\ overdue \subseteq Visits
  /\ order \in {"OPEN", "PENDING", "APPROVED", "REJECTED"}
  /\ req \in [Handlers -> Requests]
  /\ \A h \in Handlers : req[h] # Idle => instance.status # "NONE"
  /\ scan \in [Timers -> Runs]
  /\ autoEscalated \in [Ids -> Nat]
  /\ failures \in Nat
-----------------------------------------------------------------------------
(* Runs of the scheduler that overlap, in one process or in several, and   *)
(* manual escalations between their reads and their writes, escalate an    *)
(* approval automatically at most once.                                    *)
EscalatedOnce == \A id \in Ids : autoEscalated[id] <= 1

(* What is decided stays decided: neither the scheduler nor a later        *)
(* decision gives a decided approval to somebody else or decides it again, *)
(* and a finished workflow is neither reopened nor given another outcome.  *)
DecidedStays ==
  [][\A id \in Ids : approvals[id].status \in Terminal
                      => approvals'[id] = approvals[id]]_approvals
InstanceStays ==
  [][instance.status \in Terminal => instance' = instance]_instance
OutcomeStays == DecidedStays /\ InstanceStays

LatestVisit(s) ==
  LET ids == OfStep(s)
  IN  {id \in ids : \A other \in ids : other[1] <= id[1]}
Ballot(s) ==
  LET latest == LatestVisit(s)
  IN  [asked |-> Cardinality(latest), given |-> Cardinality(Having(latest, "APPROVED"))]
Ballots == [s \in Steps |-> Ballot(s)]
Entering == \E h \in Handlers : At(h, "assign")
Process == INSTANCE ApprovalProcess WITH asking <- Entering, ballot <- Ballots

(* ADR-024: whatever statements, scheduler runs and failures lie between,  *)
(* the workflow walks along its graph; a step is left by approval only     *)
(* when the approvals of this visit carry it, and the order is settled     *)
(* once, by the outcome (approveInstance, resolveApprovalGate,             *)
(* advanceByDecision, syncTargetAfterWorkflowDecision).                    *)
ImplementsProcess == Process!ProcessSpec

Quiet == \A h \in Handlers : req[h] = Idle

(* While a workflow is pending and no request has failed half way, there   *)
(* is an approval left to decide on its step: it is never stuck.           *)
SomebodyDecides ==
  Quiet /\ failures = 0 /\ instance.status = "PENDING" =>
    Having(OfStep(instance.step), "PENDING") # {}

(* The edited order shares the outcome of its workflow: approved if and    *)
(* only if the workflow is, and waiting as long as the workflow is.        *)
OrderFollowsWorkflow ==
  Quiet /\ failures = 0 =>
    /\ order = "APPROVED" <=> instance.status = "APPROVED"
    /\ instance.status = "PENDING" => order = "PENDING"

(* No approval of a pending workflow stays overdue: again and again the    *)
(* scheduler has escalated every one that nobody decided.                  *)
OverdueEscalates ==
  []<>~(instance.status = "PENDING" /\ \E id \in Created : id[1] \in overdue /\ Open(id))

(* Every request ends.                                                     *)
RequestsFinish == \A h \in Handlers : []<>(req[h] = Idle)
=============================================================================
