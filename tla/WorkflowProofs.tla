---------------------------- MODULE WorkflowProofs ----------------------------
(***************************************************************************)
(* Machine-checked theorems about Workflow, for every set of definitions,  *)
(* users, steps and visits, and every number of requests and timers.       *)
(***************************************************************************)
EXTENDS Workflow, TLAPS

(* What a request in flight carries, by the step it stands at.             *)
LEMMA RequestKinds ==
  ASSUME NEW r \in Requests
  PROVE /\ r.pc \in {"pick", "gate", "skip"} =>
             r \in [pc : {"pick", "gate", "skip"}, step : Steps]
        /\ r.pc \in {"approve", "reject", "rejectOwn", "handover", "escalate"} =>
             r \in [pc : {"approve", "reject", "rejectOwn", "handover",
                          "escalate"}, step : Steps, id : Ids]
        /\ r.pc = "advance" => r \in [pc : {"advance"},
                                 action : {"approve", "reject"}, then : Returns]
        /\ r.pc = "move" => r \in [pc : {"move"}, target : Steps \cup Terminal,
                                   then : Returns]
        /\ r.pc = "assign" => r \in [pc : {"assign"}, step : Steps,
                                     then : Returns]
        /\ r.pc = "sync" => r \in [pc : {"sync"}, status : Terminal,
                                   then : Returns]
        /\ r.pc = "idle" <=> r = Idle
BY DEF Requests, Idle

(* Every request the actions build is well-formed.                         *)
LEMMA RequestForms ==
  /\ \A pc \in {"idle", "mark", "cancel", "cancelled"} : [pc |-> pc] \in Requests
  /\ \A pc \in {"pick", "gate", "skip"}, s \in Steps :
       [pc |-> pc, step |-> s] \in Requests
  /\ \A pc \in {"approve", "reject", "rejectOwn", "handover", "escalate"},
        s \in Steps, id \in Ids :
       [pc |-> pc, step |-> s, id |-> id] \in Requests
  /\ \A action \in {"approve", "reject"}, then \in Returns :
       [pc |-> "advance", action |-> action, then |-> then] \in Requests
  /\ \A target \in Steps \cup Terminal, then \in Returns :
       [pc |-> "move", then |-> then, target |-> target] \in Requests
  /\ \A s \in Steps, then \in Returns :
       [pc |-> "assign", step |-> s, then |-> then] \in Requests
  /\ \A status \in Terminal, then \in Returns :
       [pc |-> "sync", status |-> status, then |-> then] \in Requests
BY DEF Requests, Idle

(* What a run of the scheduler carries, and the runs its steps build.      *)
LEMMA RunKinds ==
  ASSUME NEW r \in Runs
  PROVE /\ r.pc = "next" => r \in [pc : {"next"}, todo : SUBSET Ids]
        /\ r.pc \in {"instance", "write"} =>
             r \in [pc : {"instance", "write"}, todo : SUBSET Ids, id : Ids]
BY DEF Runs, Idle

LEMMA RunOnType ==
  ASSUME scan \in [Timers -> Runs], NEW t \in Timers, NEW todo \in SUBSET Ids,
         RunOn(t, todo)
  PROVE  scan' \in [Timers -> Runs]
BY DEF RunOn, Runs

(* Writing one well-formed request keeps the table of requests well-formed *)
(* and leaves the others alone.                                            *)
LEMMA ContinueType ==
  ASSUME req \in [Handlers -> Requests], NEW h \in Handlers,
         NEW r \in Requests, Continue(h, r)
  PROVE  /\ req' \in [Handlers -> Requests]
         /\ req'[h] = r
         /\ \A g \in Handlers : g # h => req'[g] = req[g]
BY DEF Continue

LEMMA DoneType ==
  ASSUME req \in [Handlers -> Requests], NEW h \in Handlers, Done(h)
  PROVE  /\ req' \in [Handlers -> Requests]
         /\ req'[h] = Idle
         /\ \A g \in Handlers : g # h => req'[g] = req[g]
BY ContinueType DEF Done, Requests

(* Deciding and handing over keep the rows well-formed.                    *)
LEMMA DecideType ==
  ASSUME approvals \in [Ids -> Rows], NEW ids \in SUBSET Ids,
         NEW status \in Terminal, Decide(ids, status)
  PROVE  /\ approvals' \in [Ids -> Rows]
         /\ \A id \in Ids : approvals'[id] =
              IF id \in ids THEN [approvals[id] EXCEPT !.status = status]
                            ELSE approvals[id]
<1>1. \A id \in Ids : [approvals[id] EXCEPT !.status = status] \in Rows
  BY DEF Rows, RowStatuses
<1> QED
  BY <1>1 DEF Decide

LEMMA GiveType ==
  ASSUME approvals \in [Ids -> Rows], NEW id \in Ids, NEW user \in Users,
         NEW escalated \in BOOLEAN, Give(id, user, escalated)
  PROVE  /\ approvals' \in [Ids -> Rows]
         /\ approvals'[id] = [approvals[id] EXCEPT !.approver = user,
                                                   !.escalated = escalated]
         /\ \A other \in Ids : other # id => approvals'[other] = approvals[other]
<1>1. [approvals[id] EXCEPT !.approver = user, !.escalated = escalated] \in Rows
  BY DEF Rows
<1>2. approvals' = [approvals EXCEPT
        ![id] = [approvals[id] EXCEPT !.approver = user, !.escalated = escalated]]
  BY DEF Give
<1> QED
  BY <1>1, <1>2

LEMMA StepFields ==
  ASSUME graph \in Definitions, NEW s \in Steps
  PROVE  /\ graph.initial \in Steps
         /\ graph.steps[s].assignees \subseteq Users
         /\ \A action \in {"approve", "reject"} :
              Transition(s, action) \in Steps \cup Terminal
BY WorkflowAssumption DEF StepRecord, Transition

(* Whether requests are idle and where the instance stands matter to the   *)
(* type invariant together.                                                *)
LEMMA InFlight ==
  ASSUME TypeOK, NEW h \in Handlers, NEW r \in Requests, Continue(h, r),
         instance'.status # "NONE"
  PROVE  /\ req' \in [Handlers -> Requests]
         /\ \A g \in Handlers : req'[g] # Idle => instance'.status # "NONE"
BY ContinueType DEF TypeOK

LEMMA Finished ==
  ASSUME TypeOK, NEW h \in Handlers, Done(h), instance' = instance
  PROVE  /\ req' \in [Handlers -> Requests]
         /\ \A g \in Handlers : req'[g] # Idle => instance'.status # "NONE"
BY DoneType DEF TypeOK

(* Every reachable state has well-formed rows and requests.                *)
THEOREM TypeCorrect == Spec => []TypeOK
<1>1. Init => TypeOK
  BY WorkflowAssumption DEF Init, TypeOK, Rows, RowStatuses, NoApproval,
     Requests, Runs, Idle, Ids
<1>2. TypeOK /\ [Next]_vars => TypeOK'
  <2> SUFFICES ASSUME TypeOK, [Next]_vars PROVE TypeOK'
    OBVIOUS
  <2>0. \A h \in Handlers : req[h] \in Requests
    BY DEF TypeOK
  <2>1. ASSUME NEW h \in Handlers, Submit(h) PROVE TypeOK'
    <3>1. graph.initial \in Steps /\ "mark" \in Returns
      BY StepFields, WorkflowAssumption DEF TypeOK, Returns
    <3>2. [pc |-> "assign", step |-> graph.initial, then |-> "mark"] \in Requests
      BY <3>1, RequestForms
    <3>3. instance' = [status |-> "PENDING", step |-> graph.initial]
      BY <2>1 DEF Submit
    <3> QED
      BY <2>1, <3>1, <3>2, <3>3, InFlight DEF Submit, WritesInstance, TypeOK, RowStatuses
  <2>2. ASSUME NEW h \in Handlers, Assign(h) PROVE TypeOK'
    <3>1. req[h].step \in Steps /\ req[h].then \in Returns
            /\ instance.status # "NONE"
      BY <2>2, <2>0, RequestKinds DEF Assign, At, TypeOK, Idle
    <3>2. CASE graph.steps[req[h].step].assignees # {}
      <4>1. PICK v \in Fresh :
              /\ approvals' = [id \in Ids |->
                   IF id[1] = v /\ id[2] \in graph.steps[req[h].step].assignees
                   THEN [status |-> "PENDING", step |-> req[h].step,
                         approver |-> id[2], escalated |-> FALSE]
                   ELSE approvals[id]]
        BY <2>2, <3>2 DEF Assign
      <4>2. approvals' \in [Ids -> Rows]
        BY <4>1, <3>1, StepFields DEF TypeOK, Rows, RowStatuses, Ids
      <4>3. [pc |-> req[h].then] \in Requests /\ Continue(h, [pc |-> req[h].then])
              /\ WritesApprovals
        BY <2>2, <3>1, <3>2, RequestForms DEF Assign, Returns
      <4> QED
        BY <3>1, <4>2, <4>3, InFlight DEF WritesApprovals, TypeOK
    <3>3. CASE graph.steps[req[h].step].assignees = {}
      <4>1. [pc |-> "advance", action |-> "approve", then |-> req[h].then] \in Requests
        BY <3>1, RequestForms
      <4>2. Reads /\ (\/ Done(h)
                      \/ Continue(h, [pc |-> "advance", action |-> "approve",
                                      then |-> req[h].then]))
        BY <2>2, <3>3 DEF Assign
      <4> QED
        BY <3>1, <4>1, <4>2, InFlight, Finished DEF Reads, TypeOK
    <3> QED
      BY <3>2, <3>3
  <2>3. ASSUME NEW h \in Handlers, Mark(h) PROVE TypeOK'
    BY <2>3, Finished DEF Mark, WritesOrder, TypeOK
  <2>4. ASSUME NEW h \in Handlers, ReadInstance(h) PROVE TypeOK'
    <3>1. [pc |-> "pick", step |-> instance.step] \in Requests
      BY <2>4, RequestForms DEF ReadInstance, TypeOK
    <3> QED
      BY <2>4, <3>1, InFlight DEF ReadInstance, Reads, TypeOK
  <2>5. ASSUME NEW h \in Handlers, Pick(h) PROVE TypeOK'
    <3>1. req[h].step \in Steps /\ instance.status # "NONE"
      BY <2>5, <2>0, RequestKinds DEF Pick, At, TypeOK, Idle
    <3>2. CASE Done(h)
      BY <2>5, <3>2, Finished DEF Pick, Reads, TypeOK
    <3>3. CASE \E id \in Ids, decision \in Decisions :
                 Continue(h, [pc |-> decision, step |-> req[h].step, id |-> id])
      <4>1. PICK id \in Ids, decision \in Decisions :
                 Continue(h, [pc |-> decision, step |-> req[h].step, id |-> id])
        BY <3>3
      <4>2. [pc |-> decision, step |-> req[h].step, id |-> id] \in Requests
        BY <3>1, RequestForms, WorkflowAssumption
      <4> QED
        BY <2>5, <3>1, <4>1, <4>2, InFlight DEF Pick, Reads, TypeOK
    <3> QED
      BY <2>5, <3>2, <3>3 DEF Pick, Having, OfStep, Created
  <2>6. ASSUME NEW h \in Handlers, Approve(h) PROVE TypeOK'
    <3>1. req[h].step \in Steps /\ req[h].id \in Ids
            /\ instance.status # "NONE"
      BY <2>6, <2>0, RequestKinds DEF Approve, At, TypeOK, Idle
    <3>2. approvals' \in [Ids -> Rows]
      BY <2>6, <3>1, DecideType DEF Approve, TypeOK, Terminal
    <3>3. [pc |-> "gate", step |-> req[h].step] \in Requests
      BY <3>1, RequestForms DEF Advance, Returns
    <3> QED
      BY <2>6, <3>1, <3>2, <3>3, InFlight DEF Approve, WritesApprovals, TypeOK
  <2>7. ASSUME NEW h \in Handlers, RejectOwn(h) PROVE TypeOK'
    <3>1. req[h].step \in Steps /\ req[h].id \in Ids
            /\ instance.status # "NONE"
      BY <2>7, <2>0, RequestKinds DEF RejectOwn, At, TypeOK, Idle
    <3>2. approvals' \in [Ids -> Rows]
      BY <2>7, <3>1, DecideType DEF RejectOwn, TypeOK, Terminal
    <3>3. Advance("reject") \in Requests
      BY <3>1, RequestForms DEF Advance, Returns
    <3> QED
      BY <2>7, <3>1, <3>2, <3>3, InFlight DEF RejectOwn, WritesApprovals, TypeOK
  <2>8. ASSUME NEW h \in Handlers, Gate(h) PROVE TypeOK'
    <3>1. req[h].step \in Steps /\ instance.status # "NONE"
      BY <2>8, <2>0, RequestKinds DEF Gate, At, TypeOK, Idle
    <3>2. [pc |-> "skip", step |-> req[h].step] \in Requests
            /\ Advance("approve") \in Requests
      BY <3>1, RequestForms DEF Advance, Returns
    <3> QED
      BY <2>8, <3>1, <3>2, InFlight, Finished DEF Gate, Reads, TypeOK
  <2>9. ASSUME NEW h \in Handlers, Skip(h) PROVE TypeOK'
    <3>1. req[h].step \in Steps /\ instance.status # "NONE"
      BY <2>9, <2>0, RequestKinds DEF Skip, At, TypeOK, Idle
    <3>2. approvals' \in [Ids -> Rows]
      BY <2>9, <3>1, DecideType DEF Skip, TypeOK, Terminal, Having, OfStep, Created
    <3>3. Advance("approve") \in Requests
      BY <3>1, RequestForms DEF Advance, Returns
    <3> QED
      BY <2>9, <3>1, <3>2, <3>3, InFlight DEF Skip, WritesApprovals, TypeOK
  <2>10. ASSUME NEW h \in Handlers, RejectPending(h) PROVE TypeOK'
    <3>1. req[h].step \in Steps /\ instance.status # "NONE"
      BY <2>10, <2>0, RequestKinds DEF RejectPending, At, TypeOK, Idle
    <3>2. approvals' \in [Ids -> Rows]
      BY <2>10, <3>1, DecideType DEF RejectPending, TypeOK, Terminal, Having, OfStep, Created
    <3>3. [req[h] EXCEPT !.pc = "rejectOwn"] \in Requests
      <4>1. req[h] \in [pc : {"approve", "reject", "rejectOwn", "handover",
                              "escalate"}, step : Steps, id : Ids]
        BY <2>10, <2>0, RequestKinds DEF RejectPending, At
      <4> QED
        BY <4>1 DEF Requests
    <3> QED
      BY <2>10, <3>1, <3>2, <3>3, InFlight DEF RejectPending, WritesApprovals, TypeOK
  <2>11. ASSUME NEW h \in Handlers, AdvanceRead(h) PROVE TypeOK'
    <3>1. req[h].action \in {"approve", "reject"} /\ req[h].then \in Returns
            /\ instance.status # "NONE"
      BY <2>11, <2>0, RequestKinds DEF AdvanceRead, At, TypeOK, Idle
    <3>2. Transition(instance.step, req[h].action) \in Steps \cup Terminal
      BY <3>1, StepFields DEF TypeOK
    <3>3. [pc |-> "move", then |-> req[h].then,
           target |-> Transition(instance.step, req[h].action)] \in Requests
      BY <3>1, <3>2, RequestForms
    <3> QED
      BY <2>11, <3>1, <3>3, InFlight DEF AdvanceRead, Reads, TypeOK
  <2>12. ASSUME NEW h \in Handlers, Move(h) PROVE TypeOK'
    <3>1. req[h].target \in Steps \cup Terminal /\ req[h].then \in Returns
            /\ instance.status # "NONE"
      BY <2>12, <2>0, RequestKinds DEF Move, At, TypeOK, Idle
    <3>2. CASE req[h].target \in Steps
      <4>1. [pc |-> "assign", step |-> req[h].target, then |-> req[h].then] \in Requests
        BY <3>1, <3>2, RequestForms
      <4>2. /\ instance' = [status |-> "PENDING", step |-> req[h].target]
            /\ Continue(h, [pc |-> "assign", step |-> req[h].target,
                            then |-> req[h].then])
        BY <2>12, <3>2, WorkflowAssumption DEF Move
      <4> QED
        BY <2>12, <3>2, <4>1, <4>2, InFlight DEF Move, WritesInstance, TypeOK, RowStatuses
    <3>3. CASE req[h].target \in Terminal
      <4>1. [pc |-> "sync", status |-> req[h].target, then |-> req[h].then] \in Requests
        BY <3>1, <3>3, RequestForms
      <4>2. /\ instance' = [instance EXCEPT !.status = req[h].target]
            /\ Continue(h, [pc |-> "sync", status |-> req[h].target,
                            then |-> req[h].then])
        BY <2>12, <3>3, WorkflowAssumption DEF Move
      <4>3. instance'.status = req[h].target /\ instance'.step = instance.step
              /\ req[h].target # "NONE"
        BY <3>3, <4>2 DEF TypeOK, Terminal
      <4> QED
        BY <2>12, <3>1, <3>3, <4>1, <4>2, <4>3, InFlight DEF Move, WritesInstance, TypeOK,
           RowStatuses
    <3> QED
      BY <3>1, <3>2, <3>3
  <2>13. ASSUME NEW h \in Handlers, Sync(h) PROVE TypeOK'
    <3>1. req[h].then \in Returns /\ instance.status # "NONE"
      BY <2>13, <2>0, RequestKinds DEF Sync, At, TypeOK, Idle
    <3>2. [pc |-> req[h].then] \in Requests
      BY <3>1, RequestForms DEF Returns
    <3> QED
      BY <2>13, <3>1, <3>2, InFlight DEF Sync, OrderStatus, WritesOrder, TypeOK
  <2>14. ASSUME NEW h \in Handlers, Handover(h) PROVE TypeOK'
    <3>1. req[h].id \in Ids
      BY <2>14, <2>0, RequestKinds DEF Handover, At
    <3>2. approvals[req[h].id].escalated \in BOOLEAN
      BY <3>1 DEF TypeOK, Rows
    <3>3. PICK user \in Users :
            Give(req[h].id, user, approvals[req[h].id].escalated)
      BY <2>14 DEF Handover
    <3>4. approvals' \in [Ids -> Rows]
      <4> DEFINE row == [approvals[req[h].id] EXCEPT !.approver = user,
                           !.escalated = approvals[req[h].id].escalated]
      <4>1. approvals' = [approvals EXCEPT ![req[h].id] = row]
        BY <3>3 DEF Give
      <4>2. row \in Rows
        BY <3>1, <3>2 DEF TypeOK, Rows
      <4> QED
        BY <4>1, <4>2 DEF TypeOK
    <3> QED
      BY <2>14, <3>4, Finished DEF Handover, WritesApprovals, TypeOK
  <2>15. ASSUME NEW h \in Handlers, Escalate(h) PROVE TypeOK'
    <3>1. req[h].id \in Ids
      BY <2>15, <2>0, RequestKinds DEF Escalate, At
    <3>3. approvals' \in [Ids -> Rows]
      BY <2>15, <3>1, GiveType DEF Escalate, TypeOK
    <3> QED
      BY <2>15, <3>3, Finished DEF Escalate, WritesApprovals, TypeOK
  <2>16. ASSUME NEW h \in Handlers, CancelRead(h) PROVE TypeOK'
    <3>1. [pc |-> "cancel"] \in Requests
      BY RequestForms
    <3> QED
      BY <2>16, <3>1, InFlight DEF CancelRead, Reads, TypeOK
  <2>17. ASSUME NEW h \in Handlers, CancelApprovals(h) PROVE TypeOK'
    <3>1. [pc |-> "cancelled"] \in Requests /\ instance.status # "NONE"
      BY <2>17, RequestForms DEF CancelApprovals, At, TypeOK, Idle
    <3>2. approvals' \in [Ids -> Rows]
      BY <2>17, DecideType DEF CancelApprovals, TypeOK, Terminal, Having, Created
    <3> QED
      BY <2>17, <3>1, <3>2, InFlight DEF CancelApprovals, WritesApprovals, TypeOK
  <2>18. ASSUME NEW h \in Handlers, CancelInstance(h) PROVE TypeOK'
    <3>1. instance' = [instance EXCEPT !.status = "ARCHIVED"]
            /\ instance.status # "NONE"
      BY <2>18 DEF CancelInstance, At, TypeOK, Idle
    <3>2. instance'.status = "ARCHIVED" /\ instance'.step = instance.step
      BY <3>1 DEF TypeOK
    <3>3. req' \in [Handlers -> Requests]
      BY <2>18, DoneType DEF CancelInstance, TypeOK
    <3> QED
      BY <2>18, <3>1, <3>2, <3>3 DEF CancelInstance, WritesInstance, TypeOK, RowStatuses,
         Terminal
  <2>19. ASSUME NEW h \in Handlers, RequestFails(h) PROVE TypeOK'
    BY <2>19, Finished DEF RequestFails, TypeOK
  <2>20. ASSUME NEW t \in Timers, ScanBegin(t) PROVE TypeOK'
    BY <2>20, RunOnType DEF ScanBegin, Scans, TypeOK, Created
  <2>21. ASSUME NEW t \in Timers, ScanTask(t) PROVE TypeOK'
    <3>1. scan[t] \in [pc : {"next"}, todo : SUBSET Ids]
      BY <2>21, RunKinds DEF ScanTask, TypeOK
    <3>2. PICK id \in scan[t].todo :
            \/ scan' = [scan EXCEPT ![t] = [pc |-> "instance", id |-> id,
                                            todo |-> scan[t].todo \ {id}]]
            \/ RunOn(t, scan[t].todo \ {id})
      BY <2>21 DEF ScanTask
    <3>3. [pc |-> "instance", id |-> id, todo |-> scan[t].todo \ {id}] \in Runs
      BY <3>1, <3>2 DEF Runs
    <3>4. scan' \in [Timers -> Runs]
      BY <3>1, <3>2, <3>3, RunOnType DEF TypeOK
    <3> QED
      BY <2>21, <3>4 DEF ScanTask, Scans, TypeOK
  <2>22. ASSUME NEW t \in Timers, ScanInstance(t) PROVE TypeOK'
    <3>1. scan[t] \in [pc : {"instance", "write"}, todo : SUBSET Ids, id : Ids]
      BY <2>22, RunKinds DEF ScanInstance, TypeOK
    <3>2. [scan[t] EXCEPT !.pc = "write"] \in Runs
      BY <3>1 DEF Runs
    <3>3. scan' \in [Timers -> Runs]
      BY <2>22, <3>1, <3>2, RunOnType DEF ScanInstance, TypeOK
    <3> QED
      BY <2>22, <3>3 DEF ScanInstance, Scans, TypeOK
  <2>23. ASSUME NEW t \in Timers, ScanWrite(t) PROVE TypeOK'
    <3>1. scan[t] \in [pc : {"instance", "write"}, todo : SUBSET Ids, id : Ids]
      BY <2>23, RunKinds DEF ScanWrite, TypeOK
    <3>2. scan' \in [Timers -> Runs]
      BY <2>23, <3>1, RunOnType DEF ScanWrite, TypeOK
    <3>3. approvals' \in [Ids -> Rows]
      BY <2>23, <3>1, GiveType, WorkflowAssumption DEF ScanWrite, TypeOK
    <3>4. autoEscalated' \in [Ids -> Nat]
      <4>1. autoEscalated \in [Ids -> Nat] /\ scan[t].id \in Ids
        BY <3>1 DEF TypeOK
      <4>2. \/ autoEscalated' = [autoEscalated EXCEPT ![scan[t].id] = @ + 1]
            \/ autoEscalated' = autoEscalated
        BY <2>23 DEF ScanWrite
      <4> QED
        BY <4>1, <4>2
    <3> QED
      BY <2>23, <3>2, <3>3, <3>4 DEF ScanWrite, TypeOK
  <2>24. ASSUME NEW t \in Timers, TimerFails(t) PROVE TypeOK'
    BY <2>24 DEF TimerFails, TypeOK, Runs
  <2>25. ASSUME NEW v \in Visits, FallDue(v) PROVE TypeOK'
    BY <2>25 DEF FallDue, TypeOK
  <2>26. CASE UNCHANGED vars
    BY <2>26 DEF vars, TypeOK
  <2> QED
    BY <2>1, <2>2, <2>3, <2>4, <2>5, <2>6, <2>7, <2>8, <2>9, <2>10, <2>11, <2>12, <2>13, <2>14, <2>15, <2>16, <2>17, <2>18, <2>19, <2>20, <2>21, <2>22, <2>23, <2>24, <2>25, <2>26 DEF Next, RequestStep, Timer
<1> QED
  BY <1>1, <1>2, PTL DEF Spec
-----------------------------------------------------------------------------
(* An automatic escalation leaves its mark on the approval, and nothing    *)
(* removes it: what makes EscalatedOnce inductive.                         *)
EscalationMarked ==
  \A id \in Ids :
    /\ autoEscalated[id] <= 1
    /\ autoEscalated[id] # 0 =>
         approvals[id].escalated /\ approvals[id].status # "NONE"

(* Deciding approvals keeps the mark.                                      *)
LEMMA DecideMarked ==
  ASSUME TypeOK, EscalationMarked, NEW ids \in SUBSET Ids,
         NEW status \in Terminal, Decide(ids, status),
         autoEscalated' = autoEscalated
  PROVE  EscalationMarked'
<1> SUFFICES ASSUME NEW id \in Ids
    PROVE /\ autoEscalated'[id] <= 1
          /\ autoEscalated'[id] # 0 =>
               approvals'[id].escalated /\ approvals'[id].status # "NONE"
  BY DEF EscalationMarked
<1>1. approvals[id] \in Rows
  BY DEF TypeOK
<1>2. approvals'[id] = IF id \in ids THEN [approvals[id] EXCEPT !.status = status]
                                     ELSE approvals[id]
  BY DecideType DEF TypeOK
<1>3. approvals'[id].escalated = approvals[id].escalated
  BY <1>1, <1>2 DEF Rows
<1>4. approvals[id].status # "NONE" => approvals'[id].status # "NONE"
  BY <1>1, <1>2 DEF Rows, Terminal
<1> QED
  BY <1>3, <1>4 DEF EscalationMarked

(* Any number of scheduler runs, in any number of processes, overlapping   *)
(* each other and every decision, escalate an approval at most once.       *)
THEOREM EscalatesOnce == Spec => []EscalatedOnce
<1>1. Init => EscalationMarked
  BY DEF Init, EscalationMarked
<1>2. TypeOK /\ EscalationMarked /\ [Next]_vars => EscalationMarked'
  <2> SUFFICES ASSUME TypeOK, EscalationMarked, [Next]_vars
               PROVE  EscalationMarked'
    OBVIOUS
  <2>0. /\ \A h \in Handlers : req[h] \in Requests
        /\ \A t \in Timers : scan[t] \in Runs
        /\ \A id \in Ids : approvals[id] \in Rows
        /\ autoEscalated \in [Ids -> Nat]
    BY DEF TypeOK
  <2>1. ASSUME approvals' = approvals, autoEscalated' = autoEscalated
        PROVE  EscalationMarked'
    BY <2>1 DEF EscalationMarked
  <2>2. ASSUME NEW h \in Handlers, Assign(h) PROVE EscalationMarked'
    <3>1. CASE graph.steps[req[h].step].assignees # {}
      <4>1. PICK v \in Fresh :
              /\ approvals' = [id \in Ids |->
                   IF id[1] = v /\ id[2] \in graph.steps[req[h].step].assignees
                   THEN [status |-> "PENDING", step |-> req[h].step,
                         approver |-> id[2], escalated |-> FALSE]
                   ELSE approvals[id]]
        BY <2>2, <3>1 DEF Assign
      <4>2. autoEscalated' = autoEscalated
        BY <2>2 DEF Assign, Reads, WritesApprovals
      <4>3. \A id \in Ids : id[1] = v => autoEscalated[id] = 0
        BY <2>0 DEF Fresh, Ids, EscalationMarked
      <4> QED
        BY <4>1, <4>2, <4>3 DEF EscalationMarked
    <3>2. CASE graph.steps[req[h].step].assignees = {}
      BY <2>1, <2>2, <3>2 DEF Assign, Reads
    <3> QED
      BY <3>1, <3>2
  <2>3. ASSUME NEW h \in Handlers,
               Approve(h) \/ RejectOwn(h) \/ Skip(h) \/ RejectPending(h)
                 \/ CancelApprovals(h)
        PROVE  EscalationMarked'
    <3>1. req[h].pc \in {"approve", "rejectOwn"} => req[h].id \in Ids
      BY <2>0, RequestKinds
    <3>2. \E ids \in SUBSET Ids, status \in Terminal : Decide(ids, status)
      BY <2>3, <3>1 DEF Approve, RejectOwn, Skip, RejectPending,
         CancelApprovals, At, Terminal, Having, OfStep, Created
    <3>3. autoEscalated' = autoEscalated
      BY <2>3 DEF Approve, RejectOwn, Skip, RejectPending, CancelApprovals,
         WritesApprovals
    <3> QED
      BY <3>2, <3>3, DecideMarked
  <2>4. ASSUME NEW h \in Handlers, Handover(h) PROVE EscalationMarked'
    <3>1. req[h].id \in Ids
      BY <2>0, <2>4, RequestKinds DEF Handover, At
    <3>2. PICK user \in Users :
            Give(req[h].id, user, approvals[req[h].id].escalated)
      BY <2>4 DEF Handover
    <3>3. approvals' = [approvals EXCEPT ![req[h].id] =
            [approvals[req[h].id] EXCEPT !.approver = user,
               !.escalated = approvals[req[h].id].escalated]]
      BY <3>2 DEF Give
    <3>4. \A id \in Ids : /\ approvals'[id].escalated = approvals[id].escalated
                          /\ approvals'[id].status = approvals[id].status
      BY <2>0, <3>1, <3>3 DEF TypeOK, Rows
    <3>5. autoEscalated' = autoEscalated
      BY <2>4 DEF Handover, WritesApprovals
    <3> QED
      BY <3>4, <3>5 DEF EscalationMarked
  <2>5. ASSUME NEW id \in Ids, NEW user \in Users, Give(id, user, TRUE)
        PROVE  /\ approvals'[id].escalated
               /\ \A other \in Ids :
                    /\ approvals[other].escalated => approvals'[other].escalated
                    /\ approvals'[other].status = approvals[other].status
    <3>1. approvals' = [approvals EXCEPT ![id] =
            [approvals[id] EXCEPT !.approver = user, !.escalated = TRUE]]
      BY <2>5 DEF Give
    <3> QED
      BY <2>0, <3>1 DEF TypeOK, Rows
  <2>6. ASSUME NEW h \in Handlers, Escalate(h) PROVE EscalationMarked'
    <3>1. req[h].id \in Ids
      BY <2>0, <2>6, RequestKinds DEF Escalate, At
    <3>2. autoEscalated' = autoEscalated
      BY <2>6 DEF Escalate, WritesApprovals
    <3>3. CASE \E user \in Users : Give(req[h].id, user, TRUE)
      BY <2>5, <3>1, <3>2, <3>3 DEF EscalationMarked
    <3> QED
      BY <2>1, <2>6, <3>2, <3>3 DEF Escalate
  <2>7. ASSUME NEW t \in Timers, ScanWrite(t) PROVE EscalationMarked'
    <3> DEFINE task == scan[t].id
    <3>1. task \in Ids
      BY <2>0, <2>7, RunKinds DEF ScanWrite
    <3>2. CASE StillOpen(task)
      <4>1. PICK user \in EscalateTo : Give(task, user, TRUE)
        BY <2>7, <3>2 DEF ScanWrite
      <4>2. user \in Users
        BY WorkflowAssumption
      <4>3. autoEscalated[task] = 0
        BY <2>0, <3>1, <3>2 DEF StillOpen, Open, EscalationMarked
      <4>4. autoEscalated' = [autoEscalated EXCEPT ![task] = @ + 1]
        BY <2>7, <3>2 DEF ScanWrite
      <4>5. approvals[task].status = "PENDING"
        BY <3>2 DEF StillOpen, Open
      <4>6. /\ approvals'[task].escalated
            /\ \A other \in Ids :
                 /\ approvals[other].escalated => approvals'[other].escalated
                 /\ approvals'[other].status = approvals[other].status
        BY <2>5, <3>1, <4>1, <4>2
      <4>7. /\ autoEscalated'[task] = 1
            /\ \A other \in Ids : other # task =>
                 autoEscalated'[other] = autoEscalated[other]
        BY <2>0, <3>1, <4>3, <4>4
      <4> QED
        BY <3>1, <4>5, <4>6, <4>7 DEF EscalationMarked
    <3>3. CASE ~StillOpen(task)
      BY <2>1, <2>7, <3>3 DEF ScanWrite
    <3> QED
      BY <3>2, <3>3
  <2>8. ASSUME NEW h \in Handlers,
               Submit(h) \/ Mark(h) \/ ReadInstance(h) \/ Pick(h) \/ Gate(h)
                 \/ AdvanceRead(h) \/ Move(h) \/ Sync(h) \/ CancelRead(h)
                 \/ CancelInstance(h) \/ RequestFails(h)
        PROVE  EscalationMarked'
    BY <2>1, <2>8 DEF Submit, Mark, ReadInstance, Pick, Gate, AdvanceRead, Move,
       Sync, CancelRead, CancelInstance, RequestFails, Reads, WritesInstance,
       WritesOrder
  <2>9. ASSUME NEW t \in Timers,
               ScanBegin(t) \/ ScanTask(t) \/ ScanInstance(t) \/ TimerFails(t)
        PROVE  EscalationMarked'
    BY <2>1, <2>9 DEF ScanBegin, ScanTask, ScanInstance, TimerFails, Scans
  <2>10. ASSUME NEW v \in Visits, FallDue(v) PROVE EscalationMarked'
    BY <2>1, <2>10 DEF FallDue
  <2>11. CASE UNCHANGED vars
    BY <2>1, <2>11 DEF vars
  <2> QED
    BY <2>2, <2>3, <2>4, <2>6, <2>7, <2>8, <2>9, <2>10, <2>11
       DEF Next, RequestStep, Timer
<1>3. EscalationMarked => EscalatedOnce
  BY DEF EscalationMarked, EscalatedOnce
<1> QED
  BY <1>1, <1>2, <1>3, TypeCorrect, PTL DEF Spec
-----------------------------------------------------------------------------
(* What holds when requests do not overlap, whatever the scheduler does.   *)
OneAtATime == \A g, h \in Handlers : g = h

(* What a request under way may rely on: the approval it picked is still   *)
(* pending until it decides it, and the workflow until it moves it.        *)
Undisturbed ==
  \A h \in Handlers :
    /\ req[h].pc \in {"approve", "reject", "handover", "escalate"} =>
         /\ approvals[req[h].id].status = "PENDING"
         /\ approvals[req[h].id].step = req[h].step
    /\ req[h].pc = "rejectOwn" => approvals[req[h].id].status = "REJECTED"
    /\ req[h].pc \notin {"idle", "mark", "sync"} => instance.status = "PENDING"

(* The scheduler leaves status and step of every approval alone.           *)
LEMMA ScanWriteKeeps ==
  ASSUME TypeOK, NEW t \in Timers, ScanWrite(t)
  PROVE  \A id \in Ids :
           /\ approvals'[id].status = approvals[id].status
           /\ approvals'[id].step = approvals[id].step
           /\ approvals[id].status # "PENDING" => approvals'[id] = approvals[id]
<1>1. CASE approvals' = approvals
  BY <1>1
<1>2. CASE StillOpen(scan[t].id)
  <2>1. PICK user \in EscalateTo : Give(scan[t].id, user, TRUE)
    BY <1>2 DEF ScanWrite
  <2>2. approvals' = [approvals EXCEPT ![scan[t].id] =
          [approvals[scan[t].id] EXCEPT !.approver = user, !.escalated = TRUE]]
    BY <2>1 DEF Give
  <2>3. \A id \in Ids : approvals[id] \in Rows
    BY DEF TypeOK
  <2> QED
    BY <1>2, <2>2, <2>3 DEF TypeOK, Rows, StillOpen, Open
<1> QED
  BY <1>1, <1>2 DEF ScanWrite

(* Steps of the only request keep what it relies on.                       *)
LEMMA UndisturbedInductive ==
  ASSUME OneAtATime
  PROVE  TypeOK /\ Undisturbed /\ [Next]_vars => Undisturbed'
<1> SUFFICES ASSUME TypeOK, Undisturbed, [Next]_vars,
                    NEW g \in Handlers
             PROVE  /\ req'[g].pc \in {"approve", "reject", "handover", "escalate"} =>
                         /\ approvals'[req'[g].id].status = "PENDING"
                         /\ approvals'[req'[g].id].step = req'[g].step
                    /\ req'[g].pc = "rejectOwn" =>
                         approvals'[req'[g].id].status = "REJECTED"
                    /\ req'[g].pc \notin {"idle", "mark", "sync"} =>
                         instance'.status = "PENDING"
  BY DEF Undisturbed
<1>0. /\ req[g] \in Requests
      /\ req \in [Handlers -> Requests]
      /\ \A id \in Ids : approvals[id] \in Rows
      /\ \A h \in Handlers : h = g
  BY DEF TypeOK, OneAtATime
<1>c. ASSUME NEW r, Continue(g, r) PROVE req'[g] = r
  BY <1>0, <1>c DEF Continue
<1>d. ASSUME Done(g) PROVE req'[g].pc = "idle"
  BY <1>0, <1>d DEF Continue, Done, Idle
<1>1. CASE Submit(g)
  <2>1. req'[g].pc = "assign"
    BY <1>1, <1>c DEF Submit
  <2>2. instance'.status = "PENDING"
    BY <1>1 DEF Submit
  <2> QED
    BY <2>1, <2>2
<1>2. CASE Assign(g)
  <2>1. req[g].then \in Returns
    BY <1>0, <1>2, RequestKinds DEF Assign, At
  <2>2. req'[g].pc \in {"idle", "mark", "advance"}
    BY <1>2, <1>c, <1>d, <2>1 DEF Assign, Returns
  <2>3. instance'.status = "PENDING"
    BY <1>2 DEF Assign, At, Undisturbed, Reads, WritesApprovals
  <2> QED
    BY <2>2, <2>3
<1>3. CASE Mark(g) \/ CancelInstance(g) \/ Handover(g) \/ Escalate(g)
             \/ RequestFails(g)
  BY <1>3, <1>d DEF Mark, CancelInstance, Handover, Escalate, RequestFails
<1>4. CASE ReadInstance(g)
  <2>1. req'[g].pc = "pick" /\ instance'.status = "PENDING"
    BY <1>4, <1>c DEF ReadInstance, Reads
  <2> QED
    BY <2>1
<1>5. CASE Pick(g)
  <2>1. instance'.status = "PENDING" /\ approvals' = approvals
    BY <1>5 DEF Pick, At, Undisturbed, Reads
  <2>2. CASE Done(g)
    BY <1>d, <2>2
  <2>3. CASE ~Done(g)
    <3>1. PICK id \in Having(OfStep(req[g].step), "PENDING"),
               decision \in Decisions :
            Continue(g, [pc |-> decision, step |-> req[g].step, id |-> id])
      BY <1>5, <2>3 DEF Pick
    <3>2. approvals[id].status = "PENDING" /\ approvals[id].step = req[g].step
      BY DEF Having, OfStep
    <3>3. req'[g] = [pc |-> decision, step |-> req[g].step, id |-> id]
      BY <1>c, <3>1
    <3> QED
      BY <2>1, <3>2, <3>3, WorkflowAssumption
  <2> QED
    BY <2>2, <2>3
<1>6. CASE Approve(g) \/ Skip(g) \/ RejectOwn(g)
  <2>1. req'[g].pc \in {"gate", "advance"}
    BY <1>6, <1>c DEF Approve, Skip, RejectOwn, Advance
  <2>2. instance'.status = "PENDING"
    BY <1>6 DEF Approve, Skip, RejectOwn, At, Undisturbed, WritesApprovals
  <2> QED
    BY <2>1, <2>2
<1>7. CASE Gate(g)
  <2>1. req'[g].pc \in {"idle", "skip", "advance"}
    BY <1>7, <1>c, <1>d DEF Gate, Advance
  <2>2. instance'.status = "PENDING"
    BY <1>7 DEF Gate, At, Undisturbed, Reads
  <2> QED
    BY <2>1, <2>2
<1>8. CASE RejectPending(g)
  <2>1. req[g] \in [pc : {"approve", "reject", "rejectOwn", "handover",
                          "escalate"}, step : Steps, id : Ids]
    BY <1>0, <1>8, RequestKinds DEF RejectPending, At
  <2>2. req'[g] = [req[g] EXCEPT !.pc = "rejectOwn"]
    BY <1>8, <1>c DEF RejectPending
  <2>3. req'[g].pc = "rejectOwn" /\ req'[g].id = req[g].id
    BY <2>1, <2>2
  <2>4. instance'.status = "PENDING"
    BY <1>8 DEF RejectPending, At, Undisturbed, WritesApprovals
  <2>5. req[g].id \in Having(OfStep(req[g].step), "PENDING")
    BY <1>8, <2>1 DEF RejectPending, At, Undisturbed, Having, OfStep, Created
  <2>6. approvals'[req[g].id] = [approvals[req[g].id] EXCEPT !.status = "REJECTED"]
    BY <1>8, <2>1, <2>5 DEF RejectPending, Decide
  <2>7. approvals'[req[g].id].status = "REJECTED"
    BY <1>0, <2>1, <2>6 DEF Rows
  <2> QED
    BY <2>3, <2>4, <2>7
<1>9. CASE AdvanceRead(g)
  <2>1. req'[g].pc = "move"
    BY <1>9, <1>c DEF AdvanceRead
  <2>2. instance'.status = "PENDING"
    BY <1>9 DEF AdvanceRead, At, Undisturbed, Reads
  <2> QED
    BY <2>1, <2>2
<1>10. CASE Move(g)
  <2>1. \/ req'[g].pc = "assign" /\ instance'.status = "PENDING"
        \/ req'[g].pc = "sync"
    BY <1>10, <1>c DEF Move
  <2> QED
    BY <2>1
<1>11. CASE Sync(g)
  <2>1. req[g].then \in Returns
    BY <1>0, <1>11, RequestKinds DEF Sync, At
  <2>2. req'[g].pc \in {"idle", "mark"}
    BY <1>11, <1>c, <2>1 DEF Sync, Returns
  <2> QED
    BY <2>2
<1>12. CASE CancelRead(g)
  <2>1. req'[g].pc = "cancel"
    BY <1>12, <1>c DEF CancelRead
  <2>2. instance'.status = "PENDING"
    BY <1>12 DEF CancelRead, Cancellable, Reads, TypeOK, RowStatuses
  <2> QED
    BY <2>1, <2>2
<1>13. CASE CancelApprovals(g)
  <2>1. req'[g].pc = "cancelled"
    BY <1>13, <1>c DEF CancelApprovals
  <2>2. instance'.status = "PENDING"
    BY <1>13 DEF CancelApprovals, At, Undisturbed, WritesApprovals
  <2> QED
    BY <2>1, <2>2
<1>14. ASSUME req' = req, instance' = instance,
              \A id \in Ids : /\ approvals'[id].status = approvals[id].status
                              /\ approvals'[id].step = approvals[id].step
       PROVE  Undisturbed'
  <2>1. \A h \in Handlers :
          req[h].pc \in {"approve", "reject", "rejectOwn", "handover", "escalate"}
            => req[h].id \in Ids
    BY RequestKinds DEF TypeOK
  <2> QED
    BY <1>14, <2>1 DEF Undisturbed
<1>15. ASSUME NEW t \in Timers, Timer(t) \/ TimerFails(t) PROVE Undisturbed'
  BY <1>14, <1>15, ScanWriteKeeps DEF Timer, TimerFails, ScanBegin, ScanTask,
     ScanInstance, ScanWrite, Scans
<1>16. ASSUME NEW v \in Visits, FallDue(v) PROVE Undisturbed'
  BY <1>14, <1>16 DEF FallDue
<1>17. CASE UNCHANGED vars
  BY <1>14, <1>17 DEF vars, Undisturbed
<1>18. CASE \E h \in Handlers : \/ Submit(h) \/ ReadInstance(h) \/ CancelRead(h)
                                \/ RequestStep(h) \/ RequestFails(h)
  BY <1>0, <1>1, <1>2, <1>3, <1>4, <1>5, <1>6, <1>7, <1>8, <1>9, <1>10, <1>11,
     <1>12, <1>13, <1>18 DEF RequestStep
<1> QED
  BY <1>15, <1>16, <1>17, <1>18 DEF Next, Undisturbed

(* Nothing is under way at the beginning.                                  *)
LEMMA InitUndisturbed == Init => Undisturbed
BY DEF Init, Undisturbed, Idle

(* While requests do not overlap, a decided approval is never decided      *)
(* again or given to somebody else, although the scheduler runs between    *)
(* any two statements of the request.                                      *)
THEOREM DecisionsStay ==
  ASSUME OneAtATime
  PROVE  Spec => DecidedStays
<1>1. TypeOK /\ Undisturbed /\ [Next]_vars =>
        [\A id \in Ids : approvals[id].status \in Terminal
                         => approvals'[id] = approvals[id]]_approvals
  <2> SUFFICES ASSUME TypeOK, Undisturbed, [Next]_vars, NEW id \in Ids,
                      approvals[id].status \in Terminal
               PROVE  approvals'[id] = approvals[id]
    OBVIOUS
  <2>0. /\ approvals[id] \in Rows
        /\ approvals[id].status \notin {"NONE", "PENDING"}
        /\ \A h \in Handlers : req[h] \in Requests
    BY DEF TypeOK, Terminal
  <2>1. ASSUME NEW h \in Handlers, Assign(h) PROVE approvals'[id] = approvals[id]
    <3>1. CASE graph.steps[req[h].step].assignees # {}
      <4>1. PICK v \in Fresh :
              approvals' = [other \in Ids |->
                IF other[1] = v
                     /\ other[2] \in graph.steps[req[h].step].assignees
                THEN [status |-> "PENDING", step |-> req[h].step,
                      approver |-> other[2], escalated |-> FALSE]
                ELSE approvals[other]]
        BY <2>1, <3>1 DEF Assign
      <4>2. id[1] # v
        BY <2>0 DEF Fresh, Ids
      <4> QED
        BY <4>1, <4>2
    <3>2. CASE graph.steps[req[h].step].assignees = {}
      BY <2>1, <3>2 DEF Assign, Reads
    <3> QED
      BY <3>1, <3>2
  <2>2. ASSUME NEW h \in Handlers, Approve(h) PROVE approvals'[id] = approvals[id]
    <3>1. id # req[h].id
      BY <2>0, <2>2 DEF Approve, At, Undisturbed
    <3> QED
      BY <2>2, <3>1 DEF Approve, Decide
  <2>3. ASSUME NEW h \in Handlers, RejectOwn(h) PROVE approvals'[id] = approvals[id]
    <3>1. CASE id = req[h].id
      <4>1. approvals[id].status = "REJECTED"
        BY <2>3, <3>1 DEF RejectOwn, At, Undisturbed
      <4>2. approvals'[id] = [approvals[id] EXCEPT !.status = "REJECTED"]
        BY <2>3, <3>1 DEF RejectOwn, Decide
      <4> QED
        BY <2>0, <4>1, <4>2 DEF Rows
    <3>2. CASE id # req[h].id
      BY <2>3, <3>2 DEF RejectOwn, Decide
    <3> QED
      BY <3>1, <3>2
  <2>4. ASSUME NEW h \in Handlers, Skip(h) \/ RejectPending(h) \/ CancelApprovals(h)
        PROVE  approvals'[id] = approvals[id]
    BY <2>0, <2>4 DEF Skip, RejectPending, CancelApprovals, Decide, Having
  <2>5. ASSUME NEW h \in Handlers, Handover(h) PROVE approvals'[id] = approvals[id]
    <3>1. id # req[h].id
      BY <2>0, <2>5 DEF Handover, At, Undisturbed
    <3> QED
      BY <2>5, <3>1 DEF Handover, Give, TypeOK
  <2>6. ASSUME NEW h \in Handlers, Escalate(h) PROVE approvals'[id] = approvals[id]
    <3>1. id # req[h].id
      BY <2>0, <2>6 DEF Escalate, At, Undisturbed
    <3> QED
      BY <2>6, <3>1 DEF Escalate, Give, TypeOK
  <2>7. ASSUME NEW t \in Timers, ScanWrite(t) PROVE approvals'[id] = approvals[id]
    BY <2>0, <2>7, ScanWriteKeeps
  <2>8. ASSUME NEW h \in Handlers,
               Submit(h) \/ Mark(h) \/ ReadInstance(h) \/ Pick(h) \/ Gate(h)
                 \/ AdvanceRead(h) \/ Move(h) \/ Sync(h) \/ CancelRead(h)
                 \/ CancelInstance(h) \/ RequestFails(h)
        PROVE  approvals'[id] = approvals[id]
    BY <2>8 DEF Submit, Mark, ReadInstance, Pick, Gate, AdvanceRead, Move, Sync,
       CancelRead, CancelInstance, RequestFails, Reads, WritesInstance, WritesOrder
  <2>9. ASSUME NEW t \in Timers,
               ScanBegin(t) \/ ScanTask(t) \/ ScanInstance(t) \/ TimerFails(t)
        PROVE  approvals'[id] = approvals[id]
    BY <2>9 DEF ScanBegin, ScanTask, ScanInstance, TimerFails, Scans
  <2>10. ASSUME NEW v \in Visits, FallDue(v) PROVE approvals'[id] = approvals[id]
    BY <2>10 DEF FallDue
  <2>11. CASE UNCHANGED vars
    BY <2>11 DEF vars
  <2> QED
    BY <2>1, <2>2, <2>3, <2>4, <2>5, <2>6, <2>7, <2>8, <2>9, <2>10, <2>11
       DEF Next, RequestStep, Timer
<1> QED
  BY <1>1, InitUndisturbed, UndisturbedInductive, TypeCorrect, PTL
     DEF Spec, DecidedStays

(* While requests do not overlap, a workflow that has ended stays so, and  *)
(* keeps its outcome.                                                      *)
LEMMA InstancesStay ==
  ASSUME OneAtATime
  PROVE  Spec => InstanceStays
<1>1. TypeOK /\ Undisturbed /\ [Next]_vars =>
        [instance.status \in Terminal => instance' = instance]_instance
  <2> SUFFICES ASSUME TypeOK, Undisturbed, [Next]_vars,
                      instance.status \in Terminal
               PROVE  instance' = instance
    OBVIOUS
  <2>0. instance.status \notin {"NONE", "PENDING"}
    BY DEF Terminal
  <2>1. ASSUME NEW h \in Handlers, Submit(h) \/ Move(h) \/ CancelInstance(h)
        PROVE  FALSE
    BY <2>0, <2>1 DEF Submit, Move, CancelInstance, At, Undisturbed
  <2>2. ASSUME NEW h \in Handlers,
               \/ ReadInstance(h) \/ CancelRead(h) \/ RequestFails(h) \/ Assign(h)
               \/ Mark(h) \/ Pick(h) \/ Approve(h) \/ Gate(h) \/ Skip(h)
               \/ RejectPending(h) \/ RejectOwn(h) \/ AdvanceRead(h) \/ Sync(h)
               \/ Handover(h) \/ Escalate(h) \/ CancelApprovals(h)
        PROVE  instance' = instance
    BY <2>2 DEF ReadInstance, CancelRead, RequestFails, Assign, Mark, Pick,
       Approve, Gate, Skip, RejectPending, RejectOwn, AdvanceRead, Sync,
       Handover, Escalate, CancelApprovals, Reads, WritesApprovals, WritesOrder
  <2>3. ASSUME NEW t \in Timers, Timer(t) \/ TimerFails(t)
        PROVE  instance' = instance
    BY <2>3 DEF Timer, TimerFails, ScanBegin, ScanTask, ScanInstance, ScanWrite,
       Scans
  <2>4. ASSUME NEW v \in Visits, FallDue(v) PROVE instance' = instance
    BY <2>4 DEF FallDue
  <2>5. CASE UNCHANGED vars
    BY <2>5 DEF vars
  <2> QED
    BY <2>1, <2>2, <2>3, <2>4, <2>5 DEF Next, RequestStep
<1> QED
  BY <1>1, InitUndisturbed, UndisturbedInductive, TypeCorrect, PTL
     DEF Spec, InstanceStays

(* While requests do not overlap, what is decided stays decided: approvals *)
(* and the workflow itself.                                                *)
THEOREM OutcomesStay ==
  ASSUME OneAtATime
  PROVE  Spec => OutcomeStays
BY DecisionsStay, InstancesStay DEF OutcomeStays
-----------------------------------------------------------------------------
(* What order and workflow have in common while the only request is at     *)
(* work, and what that request carries of it.                              *)
OrderAgrees ==
  /\ order = "APPROVED" <=> instance.status = "APPROVED"
  /\ instance.status = "PENDING" => order = "PENDING"

Accompanied(r) ==
  /\ r.pc \notin {"assign", "mark", "sync"} => OrderAgrees
  /\ r.pc = "mark" => instance.status = "PENDING"
  /\ r.pc = "assign" => IF r.then = "mark" THEN r.step = graph.initial ELSE OrderAgrees
  /\ r.pc \in {"advance", "move", "sync"} => r.then = "idle"
  /\ r.pc = "sync" => instance.status = r.status

Followed ==
  failures = 0 => /\ Quiet => OrderAgrees
                  /\ \A h \in Handlers : Accompanied(req[h])

(* The step a workflow starts on has somebody to approve it.               *)
FirstStepAssigned == \A d \in Definitions : d.steps[d.initial].assignees # {}

LEMMA FollowedContinue ==
  ASSUME OneAtATime, TypeOK, NEW h \in Handlers, NEW r, Continue(h, r),
         Accompanied(r)'
  PROVE  Followed'
<1>1. \A g \in Handlers : req'[g] = r
  BY DEF Continue, TypeOK, OneAtATime
<1>2. \A g \in Handlers : Accompanied(req[g])'
  BY <1>1 DEF Accompanied
<1>3. Quiet' => OrderAgrees'
  BY <1>1 DEF Quiet, Idle, Accompanied
<1> QED
  BY <1>2, <1>3 DEF Followed

LEMMA FollowedDone ==
  ASSUME OneAtATime, TypeOK, NEW h \in Handlers, Done(h), OrderAgrees'
  PROVE  Followed'
<1>1. Accompanied(Idle)'
  BY DEF Accompanied, Idle
<1> QED
  BY <1>1, FollowedContinue DEF Done

(* A step that leaves order and workflow alone: it goes on with a request  *)
(* for which they agree.                                                   *)
LEMMA FollowedPlain ==
  ASSUME OneAtATime, TypeOK, NEW h \in Handlers, NEW r, Continue(h, r),
         OrderAgrees, UNCHANGED <<order, instance>>,
         r.pc \notin {"assign", "mark", "sync"},
         r.pc \in {"advance", "move"} => r.then = "idle"
  PROVE  Followed'
<1>1. Accompanied(r)'
  BY DEF Accompanied, OrderAgrees
<1> QED
  BY <1>1, FollowedContinue

(* While requests do not overlap and none has failed half way, the order   *)
(* follows its workflow.                                                   *)
LEMMA FollowedInductive ==
  ASSUME OneAtATime, FirstStepAssigned, TypeOK, Undisturbed, Followed, [Next]_vars
  PROVE  Followed'
<1>0. failures \in Nat /\ graph \in Definitions
  BY DEF TypeOK
<1>a. ASSUME NEW h \in Handlers, failures = 0
      PROVE  /\ Accompanied(req[h]) /\ req[h] \in Requests
             /\ req[h].pc \notin {"idle", "mark", "sync"} => instance.status = "PENDING"
  BY <1>a DEF Followed, TypeOK, Undisturbed
<1>b. ASSUME failures' # 0 PROVE Followed'
  BY <1>b DEF Followed
<1>c. ASSUME UNCHANGED <<graph, order, instance, req, failures>> PROVE Followed'
  BY <1>c DEF Followed, Accompanied, OrderAgrees, Quiet
<1>1. ASSUME NEW h \in Handlers,
             Submit(h) \/ ReadInstance(h) \/ CancelRead(h) \/ RequestStep(h),
             failures' = 0
      PROVE  Followed'
  <2>0. failures = 0
    BY <1>1 DEF Submit, ReadInstance, CancelRead, RequestStep, Assign, Mark, Pick,
      Approve, Gate, Skip, RejectPending, RejectOwn, AdvanceRead, Move, Sync, Handover,
      Escalate, CancelApprovals, CancelInstance, Reads, WritesApprovals, WritesInstance,
      WritesOrder
  <2>a. /\ Accompanied(req[h]) /\ req[h] \in Requests
        /\ req[h].pc \notin {"idle", "mark", "sync"} => instance.status = "PENDING"
    BY <1>a, <2>0
  <2>1. CASE Submit(h)
    <3>1. /\ Continue(h, [pc |-> "assign", step |-> graph.initial, then |-> "mark"])
          /\ graph' = graph
      BY <2>1 DEF Submit, WritesInstance
    <3>2. Accompanied([pc |-> "assign", step |-> graph.initial, then |-> "mark"])'
      BY <3>1 DEF Accompanied
    <3> QED
      BY <3>1, <3>2, FollowedContinue
  <2>2. CASE Assign(h)
    <3>1. /\ req[h].pc = "assign" /\ UNCHANGED <<order, instance>>
          /\ instance.status = "PENDING" /\ req[h].then \in {"idle", "mark"}
      BY <2>2, <2>a, RequestKinds DEF Assign, At, Reads, WritesApprovals, Returns
    <3>2. CASE req[h].then = "mark"
      <4>1. graph.steps[req[h].step].assignees # {}
        BY <1>0, <2>a, <3>1, <3>2 DEF Accompanied, FirstStepAssigned
      <4>2. Continue(h, [pc |-> "mark"])
        BY <2>2, <3>2, <4>1 DEF Assign
      <4>3. Accompanied([pc |-> "mark"])'
        BY <3>1 DEF Accompanied
      <4> QED
        BY <4>2, <4>3, FollowedContinue
    <3>3. CASE req[h].then = "idle"
      <4>1. OrderAgrees
        BY <2>a, <3>1, <3>3 DEF Accompanied
      <4>2. \/ Continue(h, [pc |-> "idle"])
            \/ Continue(h, [pc |-> "advance", action |-> "approve", then |-> "idle"])
        BY <2>2, <3>3 DEF Assign, Done, Idle
      <4> QED
        BY <3>1, <4>1, <4>2, FollowedPlain
    <3> QED
      BY <3>1, <3>2, <3>3
  <2>3. CASE Mark(h)
    <3>1. Done(h) /\ order' = "PENDING" /\ instance'.status = "PENDING"
      BY <2>3, <2>a DEF Mark, At, WritesOrder, Accompanied
    <3>2. OrderAgrees'
      BY <3>1 DEF OrderAgrees
    <3> QED
      BY <3>1, <3>2, FollowedDone
  <2>4. CASE ReadInstance(h) \/ CancelRead(h) \/ Pick(h) \/ Approve(h) \/ Gate(h) \/ Skip(h)
             \/ RejectPending(h) \/ RejectOwn(h) \/ Handover(h) \/ Escalate(h)
             \/ CancelApprovals(h)
    <3>1. /\ req[h].pc \notin {"assign", "mark", "sync"}
          /\ UNCHANGED <<order, instance>>
      <4>1. CASE ReadInstance(h) \/ CancelRead(h)
        BY <4>1 DEF ReadInstance, CancelRead, Idle, Reads
      <4>2. CASE Pick(h) \/ Gate(h)
        BY <4>2 DEF Pick, Gate, At, Reads
      <4>3. CASE Approve(h) \/ Skip(h) \/ RejectPending(h) \/ RejectOwn(h)
                 \/ CancelApprovals(h)
        BY <4>3 DEF Approve, Skip, RejectPending, RejectOwn, CancelApprovals, At,
           WritesApprovals
      <4>4. CASE Handover(h) \/ Escalate(h)
        BY <4>4 DEF Handover, Escalate, At, WritesApprovals
      <4> QED
        BY <2>4, <4>1, <4>2, <4>3, <4>4
    <3>2. OrderAgrees
      BY <2>a, <3>1 DEF Accompanied
    <3>3. ASSUME NEW r, Continue(h, r), r.pc \notin {"assign", "mark", "sync", "move"},
                 r.pc = "advance" => r.then = "idle"
          PROVE  Followed'
      BY <3>1, <3>2, <3>3, FollowedPlain
    <3>4. CASE Pick(h)
      <4>1. \/ Done(h)
            \/ \E id \in Ids, decision \in Decisions :
                 Continue(h, [pc |-> decision, step |-> req[h].step, id |-> id])
        BY <3>4 DEF Pick, Having, OfStep, Created
      <4> QED
        BY <3>3, <4>1, WorkflowAssumption DEF Done, Idle
    <3>5. CASE RejectPending(h)
      <4>1. req[h] \in [pc : {"approve", "reject", "rejectOwn", "handover",
                              "escalate"}, step : Steps, id : Ids]
        BY <2>a, <3>5, RequestKinds DEF RejectPending, At
      <4>2. PICK r : r = [req[h] EXCEPT !.pc = "rejectOwn"]
        OBVIOUS
      <4>3. r.pc = "rejectOwn" /\ Continue(h, r)
        BY <3>5, <4>1, <4>2 DEF RejectPending
      <4> QED
        BY <3>3, <4>3
    <3>6. CASE Gate(h) \/ Skip(h) \/ RejectOwn(h) \/ Approve(h)
      <4>1. \/ Done(h) \/ Continue(h, [pc |-> "skip", step |-> req[h].step])
            \/ Continue(h, [pc |-> "gate", step |-> req[h].step])
            \/ Continue(h, Advance("approve")) \/ Continue(h, Advance("reject"))
        BY <3>6 DEF Gate, Skip, RejectOwn, Approve
      <4> QED
        BY <3>3, <4>1 DEF Done, Idle, Advance
    <3>7. CASE ReadInstance(h) \/ CancelRead(h) \/ CancelApprovals(h) \/ Handover(h)
               \/ Escalate(h)
      <4>1. \/ Done(h) \/ Continue(h, [pc |-> "pick", step |-> instance.step])
            \/ Continue(h, [pc |-> "cancel"]) \/ Continue(h, [pc |-> "cancelled"])
        BY <3>7 DEF ReadInstance, CancelRead, CancelApprovals, Handover, Escalate
      <4> QED
        BY <3>3, <4>1 DEF Done, Idle
    <3> QED
      BY <2>4, <3>4, <3>5, <3>6, <3>7
  <2>5. CASE AdvanceRead(h)
    <3>1. /\ req[h].pc = "advance" /\ UNCHANGED <<order, instance>>
          /\ OrderAgrees /\ req[h].then = "idle"
      BY <2>5, <2>a DEF AdvanceRead, At, Reads, Accompanied
    <3>2. PICK target : Continue(h, [pc |-> "move", then |-> "idle", target |-> target])
      BY <2>5, <3>1 DEF AdvanceRead
    <3> QED
      BY <3>1, <3>2, FollowedPlain
  <2>6. CASE Move(h)
    <3>1. /\ req[h].pc = "move" /\ UNCHANGED <<graph, order>>
          /\ OrderAgrees /\ req[h].then = "idle" /\ instance.status = "PENDING"
      BY <2>6, <2>a DEF Move, At, WritesInstance, Accompanied
    <3>2. CASE req[h].target \in Steps
      <4>1. /\ instance'.status = "PENDING"
            /\ Continue(h, [pc |-> "assign", step |-> req[h].target, then |-> "idle"])
        BY <2>6, <3>1, <3>2, WorkflowAssumption DEF Move
      <4>2. OrderAgrees'
        BY <3>1, <4>1 DEF OrderAgrees
      <4>3. PICK r : r = [pc |-> "assign", step |-> req[h].target, then |-> "idle"]
        OBVIOUS
      <4>4. Accompanied(r)'
        BY <4>2, <4>3 DEF Accompanied
      <4> QED
        BY <4>1, <4>3, <4>4, FollowedContinue
    <3>3. CASE req[h].target \notin Steps
      <4>1. /\ instance' = [instance EXCEPT !.status = req[h].target]
            /\ Continue(h, [pc |-> "sync", status |-> req[h].target, then |-> "idle"])
        BY <2>6, <3>1, <3>3 DEF Move
      <4>2. instance'.status = req[h].target
        BY <4>1 DEF TypeOK
      <4>3. PICK r : r = [pc |-> "sync", status |-> req[h].target, then |-> "idle"]
        OBVIOUS
      <4>4. Accompanied(r)'
        BY <4>2, <4>3 DEF Accompanied
      <4> QED
        BY <4>1, <4>3, <4>4, FollowedContinue
    <3> QED
      BY <3>2, <3>3
  <2>7. CASE Sync(h)
    <3>1. /\ req[h].pc = "sync" /\ instance' = instance
          /\ req[h].then = "idle" /\ instance.status = req[h].status
          /\ req[h].status \in Terminal
          /\ order' = OrderStatus(req[h].status)
      BY <2>7, <2>a, RequestKinds DEF Sync, At, WritesOrder, Accompanied
    <3>2. OrderAgrees'
      BY <3>1 DEF OrderAgrees, OrderStatus, Terminal
    <3>3. Done(h)
      BY <2>7, <3>1 DEF Sync, Done, Idle
    <3> QED
      BY <3>2, <3>3, FollowedDone
  <2>8. CASE CancelInstance(h)
    <3>1. /\ req[h].pc = "cancelled" /\ instance.status = "PENDING" /\ OrderAgrees
          /\ order' = order /\ Done(h)
          /\ instance' = [instance EXCEPT !.status = "ARCHIVED"]
      BY <2>8, <2>a DEF CancelInstance, At, WritesInstance, Accompanied
    <3>2. instance'.status = "ARCHIVED"
      BY <3>1 DEF TypeOK
    <3>3. OrderAgrees'
      BY <3>1, <3>2 DEF OrderAgrees
    <3> QED
      BY <3>1, <3>3, FollowedDone
  <2> QED
    BY <1>1, <2>1, <2>2, <2>3, <2>4, <2>5, <2>6, <2>7, <2>8 DEF RequestStep
<1>2. ASSUME NEW h \in Handlers, RequestFails(h) PROVE failures' # 0
  BY <1>0, <1>2 DEF RequestFails
<1>3. ASSUME NEW t \in Timers, Timer(t) \/ TimerFails(t) PROVE Followed'
  <2>1. CASE TimerFails(t)
    <3>1. failures' # 0
      BY <1>0, <2>1 DEF TimerFails
    <3> QED
      BY <1>b, <3>1
  <2>2. CASE Timer(t)
    BY <1>c, <2>2 DEF Timer, ScanBegin, ScanTask, ScanInstance, ScanWrite, Scans
  <2> QED
    BY <1>3, <2>1, <2>2
<1>4. ASSUME NEW v \in Visits, FallDue(v) PROVE Followed'
  BY <1>4, <1>c DEF FallDue
<1>5. CASE UNCHANGED vars
  BY <1>5, <1>c DEF vars
<1> QED
  BY <1>1, <1>2, <1>3, <1>4, <1>5, <1>b, Zenon DEF Next

(* The edited order shares the outcome of its workflow and waits as long   *)
(* as the workflow does, for every set of definitions whose first step is  *)
(* assigned, if requests do not overlap and none fails half way            *)
(* (advanceByDecision, syncTargetAfterWorkflowDecision).                   *)
THEOREM OrdersFollow ==
  ASSUME OneAtATime, FirstStepAssigned
  PROVE  Spec => []OrderFollowsWorkflow
<1>1. Init => Followed
  BY DEF Init, Followed, Accompanied, OrderAgrees, Idle
<1>2. TypeOK /\ Undisturbed /\ Followed /\ [Next]_vars => Followed'
  BY FollowedInductive
<1>3. Followed => OrderFollowsWorkflow
  BY DEF Followed, OrderAgrees, OrderFollowsWorkflow
<1> QED
  BY <1>1, <1>2, <1>3, InitUndisturbed, UndisturbedInductive, TypeCorrect, PTL DEF Spec
=============================================================================
