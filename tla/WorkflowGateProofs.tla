-------------------------- MODULE WorkflowGateProofs --------------------------
(***************************************************************************)
(* When a workflow leaves a step, and that it never gets stuck on one:     *)
(* theorems about Workflow for every set of definitions that excludes what *)
(* the gate, which counts every approval a step ever had, does not judge   *)
(* by the present visit.  Requests do not overlap (OneAtATime); the        *)
(* scheduler and failures are free.                                        *)
(***************************************************************************)
EXTENDS WorkflowProofs, FiniteSetTheorems

Actions == {"approve", "reject"}
Target(d, s, action) ==
  IF action = "approve" THEN d.steps[s].approve ELSE d.steps[s].reject

(* Steps that can follow s once it was left by one of these actions; s is  *)
(* not among them.                                                         *)
Past(d, s, actions, after) ==
  /\ s \notin after
  /\ \A action \in actions : Target(d, s, action) \in after \cup Terminal
  /\ \A r \in after, action \in Actions : Target(d, r, action) \in after \cup Terminal
NoReturn(d, s, actions) == \E after \in SUBSET Steps : Past(d, s, actions, after)

Assigned(d, s) == d.steps[s].assignees # {}

(* Approval does not archive, as cancelling does, and no step that asks    *)
(* for several approvals out of more is entered twice.                     *)
GateJudgesVisit ==
  \A d \in Definitions, s \in Steps :
    /\ Target(d, s, "approve") # "ARCHIVED"
    /\ Assigned(d, s) /\ d.steps[s].mode = "MIN_N" =>
         d.steps[s].min <= 1 \/ NoReturn(d, s, Actions)

(* Every step has somebody or approves itself, what it asks for can be     *)
(* given, and a step that all must approve is not entered again after it   *)
(* was rejected.                                                           *)
StepsDecidable ==
  \A d \in Definitions, s \in Steps :
    /\ Assigned(d, s) \/ d.steps[s].autoApprove
    /\ Assigned(d, s) /\ d.steps[s].mode = "MIN_N" =>
         d.steps[s].min <= Cardinality(d.steps[s].assignees)
    /\ Assigned(d, s) /\ d.steps[s].mode = "ALL" => NoReturn(d, s, {"reject"})
-----------------------------------------------------------------------------
(* Visits follow each other: a new one is later than all that were used,   *)
(* and what is pending belongs to the latest visit of the present step.    *)
VisitsInOrder ==
  /\ IsFiniteSet(Created)
  /\ instance.status = "NONE" => Created = {}
  /\ \A id \in Created, w \in Fresh : id[1] < w
  /\ \A id \in Having(Created, "PENDING") : id \in LatestVisit(instance.step)

(* A request decides on the step the workflow is on, and nothing is        *)
(* pending any more when it advances it.                                   *)
Deciding(r) ==
  /\ r.pc \in {"pick", "gate", "skip", "assign", "approve", "reject", "rejectOwn",
               "handover", "escalate"} => r.step = instance.step
  /\ r.pc \in {"rejectOwn", "advance", "move", "assign", "cancelled"} =>
       Having(Created, "PENDING") = {}
  /\ r.pc = "sync" => instance.status \in Terminal

OneVisit(s) == \A id, other \in OfStep(s) : id[1] = other[1]

(* A step that cannot be returned to has been left for good, or is in its  *)
(* only visit.                                                             *)
EnteredOnce(r) ==
  \A s \in Steps, after \in SUBSET Steps :
    Past(graph, s, Actions, after) =>
      /\ OneVisit(s)
      /\ OfStep(s) # {} => instance.step \in after \cup {s}
      /\ OfStep(s) # {} /\ r.pc = "assign" => instance.step \in after

(* The present visit was approved by somebody, and has the approvals the   *)
(* mode of the step requires, if the definitions are such that the gate    *)
(* can tell.                                                               *)
Satisfied(s) ==
  Cardinality(Having(LatestVisit(s), "APPROVED")) >= Required(s, Cardinality(LatestVisit(s)))
Passable(s) ==
  Assigned(graph, s) =>
    Having(LatestVisit(s), "APPROVED") # {} /\ (GateJudgesVisit => Satisfied(s))

(* What a request knows of the gate by the time it moves the workflow.     *)
Judged(r) ==
  /\ r.pc = "gate" => Having(LatestVisit(r.step), "APPROVED") # {}
  /\ r.pc = "skip" => Passable(r.step)
  /\ r.pc = "advance" /\ r.action = "approve" => Passable(instance.step)
  /\ r.pc = "move" => \/ r.target = Transition(instance.step, "reject")
                      \/ /\ r.target = Transition(instance.step, "approve")
                         /\ Passable(instance.step)

Gated ==
  /\ VisitsInOrder
  /\ \A h \in Handlers : Deciding(req[h]) /\ EnteredOnce(req[h]) /\ Judged(req[h])
Outcome(target) == IF target \in Steps THEN [status |-> "PENDING", step |-> target]
                   ELSE [instance EXCEPT !.status = target]
LeavesBy(decision, s) ==
  /\ instance.status = "PENDING" /\ instance.step = s
  /\ instance' = Outcome(Transition(s, decision))

(* ADR-024: a step is left by approval only when as many of the approvals  *)
(* that were asked for on this visit have been given as its mode requires. *)
StepLeftByGate ==
  [][\A s \in Steps :
       LeavesBy("approve", s) /\ ~LeavesBy("reject", s)
         /\ graph.steps[s].assignees # {}
       => Cardinality(Having(LatestVisit(s), "APPROVED"))
            >= Required(s, Cardinality(LatestVisit(s)))]_instance
-----------------------------------------------------------------------------
(* Where the workflow stands or is about to stand.                         *)
Heads(r) ==
  CASE r.pc = "rejectOwn" -> Transition(instance.step, "reject")
    [] r.pc = "advance" -> Transition(instance.step, r.action)
    [] r.pc = "move" -> r.target
    [] r.pc = "cancelled" -> "ARCHIVED"
    [] OTHER -> IF instance.status \in Terminal THEN instance.status ELSE instance.step

(* An approval that is neither pending nor given stands in the way of a    *)
(* step that all must approve; such a step is not returned to.             *)
Refused(s) == OfStep(s) \ (Having(OfStep(s), "PENDING") \cup Having(OfStep(s), "APPROVED"))
LeftRefused(r) ==
  /\ \A s \in Steps, after \in SUBSET Steps :
       /\ Past(graph, s, {"reject"}, after) /\ graph.steps[s].mode = "ALL"
       /\ Refused(s) # {}
       => Heads(r) \in after \cup Terminal
  /\ r.pc = "skip" => graph.steps[r.step].mode # "ALL"

(* Everybody assigned in the present visit has approved or still can.      *)
Winnable(s) ==
  \E v \in Visits : \A u \in graph.steps[s].assignees :
    <<v, u>> \in OfStep(s) \ Refused(s)
Waiting(r) ==
  instance.status = "PENDING" =>
    /\ r.pc \in {"idle", "mark", "pick", "approve", "reject", "handover", "escalate",
                 "cancel", "gate"} =>
         Assigned(graph, instance.step) /\ Winnable(instance.step)
    /\ r.pc \in {"idle", "mark", "pick", "approve", "reject", "handover", "escalate",
                 "cancel"} =>
         Having(OfStep(instance.step), "PENDING") # {}

Unstuck == failures = 0 => \A h \in Handlers : LeftRefused(req[h]) /\ Waiting(req[h])
-----------------------------------------------------------------------------
(* A step that creates no approval and makes none pending leaves visits    *)
(* and steps as they are.                                                  *)
KeptRows ==
  \A id \in Ids :
    /\ approvals'[id].step = approvals[id].step
    /\ approvals'[id].status = "NONE" <=> approvals[id].status = "NONE"
    /\ approvals'[id].status = "PENDING" => approvals[id].status = "PENDING"

LEMMA KeptTables ==
  ASSUME KeptRows
  PROVE  /\ Created' = Created /\ Fresh' = Fresh
         /\ \A s : OfStep(s)' = OfStep(s)
         /\ \A s : LatestVisit(s)' = LatestVisit(s)
<1>1. Created' = Created
  BY DEF KeptRows, Created
<1>2. Fresh' = Fresh
  BY DEF KeptRows, Fresh, Ids
<1>3. ASSUME NEW s PROVE OfStep(s)' = OfStep(s)
  BY <1>1 DEF KeptRows, OfStep, Created
<1>4. ASSUME NEW s PROVE LatestVisit(s)' = LatestVisit(s)
  BY <1>3 DEF LatestVisit
<1> QED
  BY <1>1, <1>2, <1>3, <1>4

(* Approvals that were there are decided.                                  *)
LEMMA DecideKeeps ==
  ASSUME TypeOK, NEW ids \in SUBSET Created, NEW status \in Terminal,
         Decide(ids, status)
  PROVE  /\ KeptRows
         /\ \A id \in Ids : approvals'[id].status =
              IF id \in ids THEN status ELSE approvals[id].status
<1>1. \A id \in Ids : approvals[id] \in Rows
  BY DEF TypeOK
<1>2. \A id \in Ids : approvals'[id] = IF id \in ids THEN [approvals[id] EXCEPT !.status = status]
                                       ELSE approvals[id]
  BY DEF Decide
<1>3. \A id \in Ids : /\ approvals'[id].status = IF id \in ids THEN status ELSE approvals[id].status
                      /\ approvals'[id].step = approvals[id].step
  BY <1>1, <1>2 DEF Rows
<1> QED
  BY <1>3 DEF KeptRows, Created, Terminal

(* Handing over and escalating do not touch status and step.               *)
SameRows ==
  \A id \in Ids : /\ approvals'[id].step = approvals[id].step
                  /\ approvals'[id].status = approvals[id].status

LEMMA GiveKeeps ==
  ASSUME TypeOK, NEW id \in Ids, NEW user, NEW escalated, Give(id, user, escalated)
  PROVE  SameRows
<1>1. \A other \in Ids : approvals[other] \in Rows
  BY DEF TypeOK
<1>2. approvals' = [approvals EXCEPT
        ![id] = [approvals[id] EXCEPT !.approver = user, !.escalated = escalated]]
  BY DEF Give
<1> QED
  BY <1>1, <1>2 DEF SameRows, TypeOK, Rows

LEMMA SameKept == SameRows => KeptRows
BY DEF SameRows, KeptRows

LEMMA SameApproved ==
  ASSUME SameRows
  PROVE  /\ \A s, status : Having(OfStep(s), status)' = Having(OfStep(s), status)
         /\ \A s, status : Having(LatestVisit(s), status)' = Having(LatestVisit(s), status)
         /\ \A status : Having(Created, status)' = Having(Created, status)
         /\ \A s : Refused(s)' = Refused(s)
<1>1. /\ Created' = Created
      /\ \A s : OfStep(s)' = OfStep(s) /\ LatestVisit(s)' = LatestVisit(s)
  BY SameKept, KeptTables
<1>2. ASSUME NEW s PROVE OfStep(s) \subseteq Ids /\ LatestVisit(s) \subseteq Ids
  BY DEF LatestVisit, OfStep, Created
<1>3. ASSUME NEW s, NEW status PROVE Having(OfStep(s), status)' = Having(OfStep(s), status)
  BY <1>1, <1>2 DEF Having, SameRows
<1>4. ASSUME NEW s, NEW status
      PROVE  Having(LatestVisit(s), status)' = Having(LatestVisit(s), status)
  BY <1>1, <1>2 DEF Having, SameRows
<1>5. ASSUME NEW status PROVE Having(Created, status)' = Having(Created, status)
  BY <1>1 DEF Having, SameRows, Created
<1>6. ASSUME NEW s PROVE Refused(s)' = Refused(s)
  BY <1>1, <1>3 DEF Refused
<1> QED
  BY <1>3, <1>4, <1>5, <1>6
-----------------------------------------------------------------------------
(* The gate, which counts all visits, judges the latest one as its mode    *)
(* requires.                                                               *)
LEMMA VisitFinite ==
  ASSUME IsFiniteSet(Created), NEW s, NEW status
  PROVE  /\ IsFiniteSet(OfStep(s)) /\ IsFiniteSet(LatestVisit(s))
         /\ IsFiniteSet(Having(OfStep(s), status))
         /\ IsFiniteSet(Having(LatestVisit(s), status))
         /\ Cardinality(OfStep(s)) \in Nat /\ Cardinality(LatestVisit(s)) \in Nat
         /\ Cardinality(Having(OfStep(s), status)) \in Nat
         /\ Cardinality(Having(LatestVisit(s), status)) \in Nat
<1>1. /\ OfStep(s) \in SUBSET Created /\ LatestVisit(s) \in SUBSET Created
      /\ Having(OfStep(s), status) \in SUBSET Created
      /\ Having(LatestVisit(s), status) \in SUBSET Created
  BY DEF OfStep, LatestVisit, Having
<1>2. ASSUME NEW S \in SUBSET Created PROVE IsFiniteSet(S) /\ Cardinality(S) \in Nat
  BY FS_Subset, FS_CardinalityType
<1> QED
  BY <1>1, <1>2

LEMMA AllApproved ==
  ASSUME IsFiniteSet(Created), NEW s, graph.steps[s].mode = "ALL", GateOpen(s)
  PROVE  Having(OfStep(s), "APPROVED") = OfStep(s)
<1>0. Cardinality(OfStep(s)) \in Nat /\ IsFiniteSet(OfStep(s))
  BY VisitFinite
<1>1. Cardinality(Having(OfStep(s), "APPROVED")) >= Cardinality(OfStep(s))
  <2>1. Cardinality(Having(OfStep(s), "APPROVED")) \in Nat
    BY VisitFinite
  <2>2. Cardinality(Having(OfStep(s), "APPROVED")) >= AtLeast(1, Cardinality(OfStep(s)))
    BY DEF GateOpen, Required
  <2> QED
    BY <1>0, <2>1, <2>2 DEF AtLeast
<1>2. Having(OfStep(s), "APPROVED") \in SUBSET OfStep(s)
  BY DEF Having
<1> QED
  <2>1. Cardinality(Having(OfStep(s), "APPROVED")) <= Cardinality(OfStep(s))
    BY <1>0, <1>2, FS_Subset
  <2>2. Cardinality(Having(OfStep(s), "APPROVED")) = Cardinality(OfStep(s))
    BY <1>0, <1>1, <2>1, VisitFinite
  <2> QED
    BY <1>0, <1>2, <2>2, FS_Subset

LEMMA GateSatisfies ==
  ASSUME TypeOK, VisitsInOrder, NEW r, EnteredOnce(r),
         NEW s \in Steps, GateOpen(s), Having(LatestVisit(s), "APPROVED") # {}
  PROVE  Passable(s)
<1> DEFINE given == Having(LatestVisit(s), "APPROVED")
<1>1. /\ Cardinality(OfStep(s)) \in Nat /\ Cardinality(LatestVisit(s)) \in Nat
      /\ IsFiniteSet(given) /\ Cardinality(given) \in Nat
      /\ IsFiniteSet(OfStep(s))
  BY VisitFinite DEF VisitsInOrder
<1>2. Cardinality(given) >= 1
  BY <1>1, FS_EmptySet
<1>3. SUFFICES ASSUME GateJudgesVisit, Assigned(graph, s) PROVE Satisfied(s)
  BY DEF Passable
<1>4. graph.steps[s].mode \in Modes /\ graph.steps[s].min \in Nat /\ graph \in Definitions
  BY WorkflowAssumption DEF TypeOK, StepRecord
<1>5. CASE graph.steps[s].mode = "ANY"
  BY <1>1, <1>2, <1>5 DEF Satisfied, Required, AtMost
<1>6. CASE graph.steps[s].mode = "ALL"
  <2>3. Having(OfStep(s), "APPROVED") = OfStep(s)
    BY <1>6, AllApproved DEF VisitsInOrder
  <2>4. given = LatestVisit(s)
    BY <2>3 DEF Having, LatestVisit
  <2> QED
    BY <1>1, <1>2, <1>6, <2>4 DEF Satisfied, Required, AtLeast
<1>7. CASE graph.steps[s].mode = "MIN_N" /\ graph.steps[s].min <= 1
  BY <1>1, <1>2, <1>4, <1>7 DEF Satisfied, Required, AtLeast, AtMost
<1>8. CASE graph.steps[s].mode = "MIN_N" /\ NoReturn(graph, s, Actions)
  <2>1. OneVisit(s)
    BY <1>8 DEF NoReturn, EnteredOnce
  <2>2. LatestVisit(s) = OfStep(s)
    <3>1. \A id \in OfStep(s) : id[1] \in Nat
      BY WorkflowAssumption DEF OfStep, Created, Ids
    <3> QED
      BY <2>1, <3>1 DEF OneVisit, LatestVisit
  <2> QED
    BY <2>2 DEF GateOpen, Satisfied
<1> QED
  BY <1>3, <1>4, <1>5, <1>6, <1>7, <1>8 DEF GateJudgesVisit, Modes
-----------------------------------------------------------------------------
(* The request that is under way is the only one.                          *)
LEMMA GatedContinue ==
  ASSUME OneAtATime, TypeOK, NEW h \in Handlers, NEW r, Continue(h, r),
         VisitsInOrder', Deciding(r)', EnteredOnce(r)', Judged(r)'
  PROVE  Gated'
<1>1. \A g \in Handlers : req'[g] = r
  BY DEF Continue, TypeOK, OneAtATime
<1>2. \A g \in Handlers : Deciding(req[g])' /\ EnteredOnce(req[g])' /\ Judged(req[g])'
  BY <1>1 DEF Deciding, EnteredOnce, Judged
<1> QED
  BY <1>2 DEF Gated

LEMMA VisitsKept ==
  ASSUME VisitsInOrder, KeptRows, instance'.step = instance.step,
         instance'.status = "NONE" <=> instance.status = "NONE"
  PROVE  VisitsInOrder'
<1>1. Created' = Created /\ Fresh' = Fresh
        /\ LatestVisit(instance.step)' = LatestVisit(instance.step)
  BY KeptTables DEF LatestVisit, OfStep
<1>2. \A id \in Having(Created, "PENDING")' : id \in Having(Created, "PENDING")
  BY <1>1 DEF Having, KeptRows, Created
<1> QED
  BY <1>1, <1>2 DEF VisitsInOrder

(* A request that does not create approvals and stays on the step.         *)
LEMMA GatedKept ==
  ASSUME OneAtATime, TypeOK, Gated, KeptRows, graph' = graph,
         instance'.step = instance.step,
         instance'.status = "NONE" <=> instance.status = "NONE",
         NEW h \in Handlers, NEW r, Continue(h, r), r.pc # "assign",
         Deciding(r)', Judged(r)'
  PROVE  Gated'
<1>1. VisitsInOrder'
  BY VisitsKept DEF Gated
<1>2. EnteredOnce(req[h])
  BY DEF Gated
<1>3. EnteredOnce(r)'
  <2>1. \A s \in Steps, after \in SUBSET Steps :
          Past(graph, s, Actions, after)' <=> Past(graph, s, Actions, after)
    BY DEF Past, Target
  <2>2. \A s : OfStep(s)' = OfStep(s)
    BY KeptTables
  <2>3. \A s : OneVisit(s)' <=> OneVisit(s)
    BY <2>2 DEF OneVisit
  <2> QED
    BY <1>2, <2>1, <2>2, <2>3 DEF EnteredOnce
<1> QED
  BY <1>1, <1>3, GatedContinue

LEMMA GatedDone ==
  ASSUME OneAtATime, TypeOK, Gated, KeptRows, graph' = graph,
         instance'.step = instance.step,
         instance'.status = "NONE" <=> instance.status = "NONE",
         NEW h \in Handlers, Done(h)
  PROVE  Gated'
<1>1. PICK r : r = Idle
  OBVIOUS
<1>2. r.pc = "idle" /\ Continue(h, r)
  BY <1>1 DEF Idle, Done
<1>3. Deciding(r)' /\ Judged(r)'
  BY <1>2 DEF Deciding, Judged
<1> QED
  BY <1>2, <1>3, GatedKept

(* New approvals make up the latest visit of the step that was entered.    *)
Asked(v, s) == {id \in Ids : id[1] = v /\ id[2] \in graph.steps[s].assignees}

LEMMA AssignTables ==
  ASSUME TypeOK, VisitsInOrder, NEW s \in Steps, NEW v \in Fresh,
         \A w \in Fresh : v <= w,
         approvals' = [id \in Ids |->
           IF id[1] = v /\ id[2] \in graph.steps[s].assignees
           THEN [status |-> "PENDING", step |-> s, approver |-> id[2], escalated |-> FALSE]
           ELSE approvals[id]]
  PROVE  /\ Created' = Created \cup Asked(v, s) /\ Created \cap Asked(v, s) = {}
         /\ OfStep(s)' = OfStep(s) \cup Asked(v, s)
         /\ \A other : other # s => OfStep(other)' = OfStep(other)
         /\ \A id \in Asked(v, s) : approvals'[id].status = "PENDING" /\ id[1] = v
         /\ \A id \in Ids \ Asked(v, s) : approvals'[id] = approvals[id]
         /\ Fresh' \subseteq Fresh
         /\ Assigned(graph, s) => v \notin Fresh'
         /\ \A id \in Created : id[1] < v
         /\ IsFiniteSet(Asked(v, s))
<1> DEFINE new == {id \in Ids : id[1] = v /\ id[2] \in graph.steps[s].assignees}
<1>0. Asked(v, s) = new
  BY DEF Asked
<1>1. /\ \A id \in new : /\ approvals'[id].status = "PENDING" /\ approvals'[id].step = s
                         /\ approvals[id].status = "NONE"
      /\ \A id \in Ids \ new : approvals'[id] = approvals[id]
  BY DEF Fresh, Ids
<1>2. Created' = Created \cup new /\ Created \cap new = {}
  BY <1>1 DEF Created
<1>3. OfStep(s)' = OfStep(s) \cup new
  BY <1>1, <1>2 DEF OfStep, Created
<1>4. \A other : other # s => OfStep(other)' = OfStep(other)
  BY <1>1, <1>2 DEF OfStep, Created
<1>5. Fresh' \subseteq Fresh
  <2>1. ASSUME NEW w \in Visits, NEW u \in Users, approvals'[<<w, u>>].status = "NONE"
        PROVE  approvals[<<w, u>>].status = "NONE"
    <3>1. <<w, u>> \in Ids
      BY DEF Ids
    <3> QED
      BY <1>1, <2>1, <3>1
  <2> QED
    BY <2>1 DEF Fresh
<1>6. ASSUME Assigned(graph, s) PROVE v \notin Fresh'
  <2>1. PICK u \in graph.steps[s].assignees : u \in Users
    BY <1>6, StepFields DEF Assigned, TypeOK
  <2>2. <<v, u>> \in new
    BY <2>1 DEF Ids, Fresh
  <2> QED
    BY <1>1, <2>1, <2>2 DEF Fresh
<1>7. IsFiniteSet(new)
  <2>1. IsFiniteSet({v} \X Users)
    BY FS_Singleton, FS_Product, WorkflowAssumption
  <2>2. new \in SUBSET ({v} \X Users)
    BY DEF Ids
  <2> QED
    BY <2>1, <2>2, FS_Subset
<1>8. \A id \in Created : id[1] < v
  BY DEF VisitsInOrder
<1> QED
  BY <1>0, <1>1, <1>2, <1>3, <1>4, <1>5, <1>6, <1>7, <1>8

LEMMA GatedAssign ==
  ASSUME OneAtATime, TypeOK, Undisturbed, Gated, NEW h \in Handlers, Assign(h),
         Assigned(graph, req[h].step)
  PROVE  Gated'
<1>0. /\ req[h].pc = "assign" /\ req[h].step \in Steps /\ req[h].then \in Returns
      /\ instance.status = "PENDING"
  BY RequestKinds DEF Assign, At, TypeOK, Undisturbed
<1> DEFINE s == instance.step
<1>1. req[h].step = s /\ Having(Created, "PENDING") = {}
  BY <1>0 DEF Gated, Deciding
<1>2. PICK v \in Fresh :
        /\ \A w \in Fresh : v <= w
        /\ approvals' = [id \in Ids |->
             IF id[1] = v /\ id[2] \in graph.steps[s].assignees
             THEN [status |-> "PENDING", step |-> s, approver |-> id[2], escalated |-> FALSE]
             ELSE approvals[id]]
        /\ Continue(h, [pc |-> req[h].then]) /\ WritesApprovals
  BY <1>1 DEF Assign, Assigned
<1>4. graph' = graph /\ instance' = instance
  BY <1>2 DEF WritesApprovals
<1>a. PICK step : step = s
  OBVIOUS
<1>b. PICK new : new = Asked(v, s)
  OBVIOUS
<1>3. /\ Created' = Created \cup new /\ OfStep(s)' = OfStep(s) \cup new
      /\ \A other : other # s => OfStep(other)' = OfStep(other)
      /\ \A id \in Ids \ new : approvals'[id] = approvals[id]
      /\ Fresh' \subseteq Fresh /\ v \notin Fresh'
      /\ \A id \in new : id[1] = v
      /\ \A id \in Created : id[1] < v
      /\ IsFiniteSet(new)
  <2>1. /\ step \in Steps /\ VisitsInOrder /\ Assigned(graph, step)
        /\ approvals' = [id \in Ids |->
             IF id[1] = v /\ id[2] \in graph.steps[step].assignees
             THEN [status |-> "PENDING", step |-> step, approver |-> id[2], escalated |-> FALSE]
             ELSE approvals[id]]
    BY <1>0, <1>1, <1>2, <1>a DEF Gated
  <2>2. OfStep(s)' = OfStep(step)' /\ OfStep(s) = OfStep(step) /\ Asked(v, step) = new
    BY <1>4, <1>a, <1>b DEF OfStep, Asked
  <2> QED
    BY <1>2, <1>a, <2>1, <2>2, AssignTables
<1>5. VisitsInOrder'
  <2>1. IsFiniteSet(Created')
    BY <1>3, FS_Union DEF Gated, VisitsInOrder
  <2>2. ASSUME NEW id \in Created', NEW w \in Fresh' PROVE id[1] < w
    <3>1. v \in Nat /\ w \in Nat /\ v < w
      <4>1. \A x \in Fresh : x \in Nat
        BY WorkflowAssumption DEF Fresh
      <4>2. w \in Fresh /\ v <= w /\ v # w
        BY <1>2, <1>3
      <4> QED
        BY <1>2, <4>1, <4>2
    <3> QED
      BY <1>3, <3>1 DEF Gated, VisitsInOrder
  <2>3. ASSUME NEW id \in Having(Created, "PENDING")' PROVE id \in LatestVisit(s)'
    <3>1. id \in new
      BY <1>1, <1>3 DEF Having, Created
    <3>2. \A other \in OfStep(s)' : other[1] <= id[1]
      <4>1. v \in Nat /\ \A other \in Created : other[1] \in Nat
        BY WorkflowAssumption DEF Fresh, Created, Ids
      <4> QED
        BY <1>3, <3>1, <4>1 DEF OfStep
    <3> QED
      BY <1>3, <3>1, <3>2 DEF LatestVisit
  <2> QED
    BY <1>0, <1>4, <2>1, <2>2, <2>3 DEF VisitsInOrder
<1>6. PICK r : r = [pc |-> req[h].then]
  OBVIOUS
<1>7. r.pc \in {"idle", "mark"} /\ Continue(h, r)
  BY <1>0, <1>2, <1>6 DEF Returns
<1>8. Deciding(r)' /\ Judged(r)'
  BY <1>7 DEF Deciding, Judged
<1>9. EnteredOnce(r)'
  <2> SUFFICES ASSUME NEW other \in Steps, NEW after \in SUBSET Steps,
                      Past(graph, other, Actions, after)
               PROVE  /\ OneVisit(other)'
                      /\ OfStep(other)' # {} => s \in after \cup {other}
    BY <1>4, <1>7 DEF EnteredOnce, Past, Target
  <2>1. CASE other = s
    <3>1. OfStep(s) = {}
      BY <1>0, <2>1 DEF Gated, EnteredOnce, Past
    <3> QED
      <4>1. OfStep(other)' = new
        BY <1>3, <1>4, <2>1, <3>1 DEF OfStep
      <4> QED
        BY <1>3, <2>1, <4>1 DEF OneVisit
  <2>2. CASE other # s
    <3>1. OneVisit(other) /\ (OfStep(other) # {} => s \in after \cup {other})
      BY DEF Gated, EnteredOnce
    <3> QED
      BY <1>3, <2>2, <3>1 DEF OneVisit
  <2> QED
    BY <2>1, <2>2
<1> QED
  BY <1>5, <1>7, <1>8, <1>9, GatedContinue

(* The steps of the only request keep what the gate relies on.             *)
LEMMA GatedInductive ==
  ASSUME OneAtATime, TypeOK, Undisturbed, Gated, [Next]_vars
  PROVE  Gated'
<1>0. \A h \in Handlers :
        /\ req[h] \in Requests /\ Deciding(req[h]) /\ EnteredOnce(req[h]) /\ Judged(req[h])
        /\ req[h].pc \notin {"idle", "mark", "sync"} => instance.status = "PENDING"
  BY DEF TypeOK, Gated, Undisturbed
<1>a. VisitsInOrder
  BY DEF Gated
<1>b. ASSUME UNCHANGED <<graph, instance>>,
             NEW h \in Handlers, NEW r, Continue(h, r), r.pc # "assign", KeptRows,
             Deciding(r)', Judged(r)'
      PROVE  Gated'
  BY <1>b, GatedKept
<1>c. ASSUME UNCHANGED <<graph, instance>>, NEW h \in Handlers, Done(h), KeptRows PROVE Gated'
  BY <1>c, GatedDone
<1>d. ASSUME UNCHANGED approvals PROVE SameRows /\ KeptRows
  BY <1>d DEF SameRows, KeptRows
<1>e. ASSUME NEW s, Having(OfStep(s), "PENDING") = {}, s = instance.step
      PROVE  Having(Created, "PENDING") = {}
  BY <1>a, <1>e DEF VisitsInOrder, Having, LatestVisit
<1>f. \A id \in Having(OfStep(instance.step), "PENDING") : id \in Created
  BY DEF Having, OfStep
<1>1. ASSUME NEW h \in Handlers, Submit(h) PROVE Gated'
  <2>1. /\ Created = {} /\ instance' = [status |-> "PENDING", step |-> graph.initial]
        /\ UNCHANGED <<graph, approvals>>
    BY <1>1, <1>a DEF Submit, WritesInstance, VisitsInOrder
  <2>2. PICK r : r = [pc |-> "assign", step |-> graph.initial, then |-> "mark"]
    OBVIOUS
  <2>3. /\ r.pc = "assign" /\ r.step = graph.initial /\ Continue(h, r)
    BY <1>1, <2>2 DEF Submit
  <2>4. /\ Created' = {} /\ \A s : OfStep(s)' = {}
    BY <2>1 DEF Created, OfStep
  <2>5. VisitsInOrder'
    BY <2>1, <2>4, FS_EmptySet DEF VisitsInOrder, Having
  <2>6. Deciding(r)' /\ EnteredOnce(r)' /\ Judged(r)'
    BY <2>1, <2>3, <2>4 DEF Deciding, EnteredOnce, OneVisit, Judged, Having
  <2> QED
    BY <2>3, <2>5, <2>6, GatedContinue
<1>2. ASSUME NEW h \in Handlers, Assign(h) PROVE Gated'
  <2>1. CASE Assigned(graph, req[h].step)
    BY <1>2, <2>1, GatedAssign
  <2>2. CASE ~Assigned(graph, req[h].step)
    <3>1. /\ UNCHANGED <<graph, instance, approvals>>
          /\ \/ Done(h)
             \/ Continue(h, [pc |-> "advance", action |-> "approve", then |-> req[h].then])
      BY <1>2, <2>2 DEF Assign, Assigned, Reads
    <3>2. CASE Done(h)
      BY <1>c, <1>d, <3>1, <3>2
    <3>3. CASE Continue(h, [pc |-> "advance", action |-> "approve", then |-> req[h].then])
      <4>1. PICK r : r = [pc |-> "advance", action |-> "approve", then |-> req[h].then]
        OBVIOUS
      <4>2. r.pc = "advance" /\ Continue(h, r)
        BY <3>3, <4>1
      <4>3. req[h].step = instance.step /\ Having(Created, "PENDING") = {}
        BY <1>0, <1>2 DEF Assign, At, Deciding
      <4>4. Deciding(r)'
        BY <1>d, <3>1, <4>2, <4>3, SameApproved DEF Deciding
      <4>5. Judged(r)'
        BY <2>2, <3>1, <4>2, <4>3 DEF Judged, Passable, Assigned
      <4> QED
        BY <1>b, <1>d, <3>1, <4>2, <4>4, <4>5
    <3> QED
      BY <3>1, <3>2, <3>3
  <2> QED
    BY <2>1, <2>2
<1>3. ASSUME NEW h \in Handlers, Mark(h) \/ RequestFails(h) PROVE Gated'
  BY <1>3, <1>c, <1>d DEF Mark, WritesOrder, RequestFails
<1>4. ASSUME NEW h \in Handlers, ReadInstance(h) PROVE Gated'
  <2>1. UNCHANGED <<graph, instance, approvals>>
    BY <1>4 DEF ReadInstance, Reads
  <2>2. PICK r : r = [pc |-> "pick", step |-> instance.step]
    OBVIOUS
  <2>3. r.pc = "pick" /\ r.step = instance.step /\ Continue(h, r)
    BY <1>4, <2>2 DEF ReadInstance
  <2>4. Deciding(r)' /\ Judged(r)'
    BY <2>1, <2>3 DEF Deciding, Judged
  <2> QED
    BY <1>b, <1>d, <2>1, <2>3, <2>4
<1>5. ASSUME NEW h \in Handlers, Pick(h) PROVE Gated'
  <2>1. UNCHANGED <<graph, instance, approvals>> /\ req[h].step = instance.step
    BY <1>0, <1>5 DEF Pick, At, Deciding, Reads
  <2>2. CASE Done(h)
    BY <1>c, <1>d, <2>1, <2>2
  <2>3. ASSUME NEW id, NEW decision \in Decisions,
               Continue(h, [pc |-> decision, step |-> req[h].step, id |-> id])
        PROVE  Gated'
    <3>1. PICK r : r = [pc |-> decision, step |-> req[h].step, id |-> id]
      OBVIOUS
    <3>2. /\ r.pc \in {"approve", "reject", "handover", "escalate"}
          /\ r.step = instance.step /\ Continue(h, r)
      BY <2>1, <2>3, <3>1, WorkflowAssumption
    <3>3. Deciding(r)' /\ Judged(r)'
      BY <2>1, <3>2 DEF Deciding, Judged
    <3> QED
      BY <1>b, <1>d, <2>1, <3>2, <3>3
  <2> QED
    BY <1>5, <2>2, <2>3 DEF Pick
<1>6. ASSUME NEW h \in Handlers, Approve(h) PROVE Gated'
  <2>1. /\ UNCHANGED <<graph, instance>> /\ req[h].step = instance.step
        /\ req[h].id \in Ids /\ Decide({req[h].id}, "APPROVED")
        /\ approvals[req[h].id].status = "PENDING"
    BY <1>0, <1>6, RequestKinds DEF Approve, At, Deciding, Undisturbed, WritesApprovals
  <2>2. req[h].id \in Having(Created, "PENDING") /\ req[h].id \in LatestVisit(instance.step)
    BY <1>a, <2>1 DEF VisitsInOrder, Having, Created
  <2>3. KeptRows /\ approvals'[req[h].id].status = "APPROVED"
    BY <2>1, <2>2, DecideKeeps DEF Having, Terminal
  <2>4. PICK r : r = [pc |-> "gate", step |-> req[h].step]
    OBVIOUS
  <2>5. r.pc = "gate" /\ r.step = instance.step /\ Continue(h, r)
    BY <1>6, <2>1, <2>4 DEF Approve
  <2>6. Deciding(r)'
    BY <2>1, <2>5 DEF Deciding
  <2>7. Judged(r)'
    <3>1. LatestVisit(r.step)' = LatestVisit(instance.step)
      BY <2>3, <2>5, KeptTables
    <3>2. Having(LatestVisit(r.step), "APPROVED")' # {}
      BY <2>2, <2>3, <3>1 DEF Having
    <3> QED
      BY <2>5, <3>2 DEF Judged
  <2> QED
    BY <1>b, <2>1, <2>3, <2>5, <2>6, <2>7
<1>7. ASSUME NEW h \in Handlers, Gate(h) PROVE Gated'
  <2>1. /\ UNCHANGED <<graph, instance, approvals>> /\ req[h].step = instance.step
        /\ req[h].step \in Steps
        /\ Having(LatestVisit(req[h].step), "APPROVED") # {}
    BY <1>0, <1>7, RequestKinds DEF Gate, At, Deciding, Judged, Reads
  <2>2. CASE Done(h)
    BY <1>c, <1>d, <2>1, <2>2
  <2>3. CASE ~Done(h)
    <3>1. GateOpen(req[h].step)
      BY <1>7, <2>3 DEF Gate
    <3>2. Passable(req[h].step)
      BY <1>0, <1>a, <2>1, <3>1, GateSatisfies
    <3>4. CASE Continue(h, [pc |-> "skip", step |-> req[h].step])
      <4>1. PICK r : r = [pc |-> "skip", step |-> req[h].step]
        OBVIOUS
      <4>2. r.pc = "skip" /\ r.step = instance.step /\ Continue(h, r)
        BY <2>1, <3>4, <4>1
      <4>3. Deciding(r)' /\ Judged(r)'
        BY <2>1, <3>2, <4>2 DEF Deciding, Judged, Passable, Satisfied, Required, Assigned,
           LatestVisit, OfStep, Created, Having
      <4> QED
        BY <1>b, <1>d, <2>1, <4>2, <4>3
    <3>5. CASE Having(OfStep(req[h].step), "PENDING") = {} /\ Continue(h, Advance("approve"))
      <4>1. PICK r : r = Advance("approve")
        OBVIOUS
      <4>2. r.pc = "advance" /\ Continue(h, r)
        BY <3>5, <4>1 DEF Advance
      <4>3. Deciding(r)'
        BY <1>d, <1>e, <2>1, <3>5, <4>2, SameApproved DEF Deciding
      <4>4. Judged(r)'
        BY <2>1, <3>2, <4>2 DEF Judged, Passable, Satisfied, Required, Assigned, LatestVisit,
           OfStep, Created, Having
      <4> QED
        BY <1>b, <1>d, <2>1, <4>2, <4>3, <4>4
    <3> QED
      BY <1>7, <2>3, <3>4, <3>5 DEF Gate
  <2> QED
    BY <2>2, <2>3
<1>8. ASSUME NEW h \in Handlers, Skip(h) \/ RejectPending(h) PROVE Gated'
  <2>1. /\ UNCHANGED <<graph, instance>> /\ req[h].step = instance.step
        /\ req[h].step \in Steps
    BY <1>0, <1>8, RequestKinds DEF Skip, RejectPending, At, Deciding, WritesApprovals
  <2>2. PICK ids \in SUBSET Created, status \in {"ARCHIVED", "REJECTED"} :
          ids = Having(OfStep(instance.step), "PENDING") /\ Decide(ids, status)
    BY <1>8, <1>f, <2>1 DEF Skip, RejectPending
  <2>3. /\ KeptRows
        /\ \A id \in Ids : approvals'[id].status =
             IF id \in ids THEN status ELSE approvals[id].status
    BY <2>2, DecideKeeps DEF Terminal
  <2>4. Having(Created, "PENDING")' = {}
    <3>1. \A id \in Having(Created, "PENDING") : id \in ids
      BY <1>a, <2>2 DEF VisitsInOrder, Having, LatestVisit
    <3>2. Created' = Created
      BY <2>3, KeptTables
    <3> QED
      BY <2>2, <2>3, <3>1, <3>2 DEF Having, Created
  <2>5. CASE Skip(h)
    <3>1. PICK r : r = Advance("approve")
      OBVIOUS
    <3>2. r.pc = "advance" /\ Continue(h, r)
      BY <2>5, <3>1 DEF Skip, Advance
    <3>3. Passable(instance.step)
      BY <1>0, <2>1, <2>5 DEF Skip, At, Judged
    <3>4. Passable(instance.step)'
      <4>1. LatestVisit(instance.step)' = LatestVisit(instance.step)
        BY <2>1, <2>3, KeptTables DEF LatestVisit, OfStep
      <4>2. \A id \in LatestVisit(instance.step) :
              approvals'[id].status = "APPROVED" <=> approvals[id].status = "APPROVED"
        BY <2>2, <2>3 DEF LatestVisit, OfStep, Created, Having
      <4>3. Having(LatestVisit(instance.step), "APPROVED")'
              = Having(LatestVisit(instance.step), "APPROVED")
        BY <4>1, <4>2 DEF Having
      <4> QED
        BY <2>1, <3>3, <4>1, <4>3 DEF Passable, Satisfied, Required, Assigned
    <3>5. Deciding(r)' /\ Judged(r)'
      BY <2>4, <3>2, <3>4 DEF Deciding, Judged
    <3> QED
      BY <1>b, <2>1, <2>3, <3>2, <3>5
  <2>6. CASE RejectPending(h)
    <3>1. req[h] \in [pc : {"approve", "reject", "rejectOwn", "handover", "escalate"},
                      step : Steps, id : Ids]
      BY <1>0, <2>6, RequestKinds DEF RejectPending, At
    <3>2. PICK r : r = [req[h] EXCEPT !.pc = "rejectOwn"]
      OBVIOUS
    <3>3. r.pc = "rejectOwn" /\ r.step = instance.step /\ Continue(h, r)
      BY <2>1, <2>6, <3>1, <3>2 DEF RejectPending
    <3>4. Deciding(r)' /\ Judged(r)'
      BY <2>1, <2>4, <3>3 DEF Deciding, Judged
    <3> QED
      BY <1>b, <2>1, <2>3, <3>3, <3>4
  <2> QED
    BY <1>8, <2>5, <2>6
<1>9. ASSUME NEW h \in Handlers, RejectOwn(h) PROVE Gated'
  <2>1. /\ UNCHANGED <<graph, instance>> /\ req[h].id \in Ids
        /\ Decide({req[h].id}, "REJECTED") /\ approvals[req[h].id].status = "REJECTED"
        /\ Having(Created, "PENDING") = {}
    BY <1>0, <1>9, RequestKinds DEF RejectOwn, At, Deciding, Undisturbed, WritesApprovals
  <2>2. SameRows
    <3>1. req[h].id \in Created
      BY <2>1 DEF Created
    <3> QED
      BY <2>1, <3>1, DecideKeeps DEF SameRows, KeptRows, Terminal
  <2>3. PICK r : r = Advance("reject")
    OBVIOUS
  <2>4. r.pc = "advance" /\ r.action = "reject" /\ Continue(h, r)
    BY <1>9, <2>3 DEF RejectOwn, Advance
  <2>5. Deciding(r)' /\ Judged(r)'
    BY <2>1, <2>2, <2>4, SameApproved DEF Deciding, Judged
  <2> QED
    BY <1>b, <2>1, <2>2, <2>4, <2>5, SameKept
<1>10. ASSUME NEW h \in Handlers, AdvanceRead(h) PROVE Gated'
  <2>1. /\ UNCHANGED <<graph, instance, approvals>> /\ req[h].pc = "advance"
        /\ req[h].action \in {"approve", "reject"}
        /\ Having(Created, "PENDING") = {}
        /\ req[h].action = "approve" => Passable(instance.step)
    BY <1>0, <1>10, RequestKinds DEF AdvanceRead, At, Deciding, Judged, Reads
  <2>2. PICK r : r = [pc |-> "move", then |-> req[h].then,
                      target |-> Transition(instance.step, req[h].action)]
    OBVIOUS
  <2>3. /\ r.pc = "move" /\ r.target = Transition(instance.step, req[h].action)
        /\ Continue(h, r)
    BY <1>10, <2>2 DEF AdvanceRead
  <2>4. Deciding(r)'
    BY <1>d, <2>1, <2>3, SameApproved DEF Deciding
  <2>5. \A s, action : Transition(s, action)' = Transition(s, action)
    BY <2>1 DEF Transition
  <2>6. Passable(instance.step)' <=> Passable(instance.step)
    BY <2>1 DEF Passable, Satisfied, Required, Assigned, LatestVisit, OfStep, Created, Having
  <2>7. Judged(r)'
    <3>1. Transition(instance.step, "approve")' = Transition(instance.step, "approve")
            /\ Transition(instance.step, "reject")' = Transition(instance.step, "reject")
      BY <2>1 DEF Transition
    <3> QED
      BY <2>1, <2>3, <2>6, <3>1 DEF Judged
  <2> QED
    BY <1>b, <1>d, <2>1, <2>3, <2>4, <2>7
<1>11. ASSUME NEW h \in Handlers, Move(h) PROVE Gated'
  <2>1. /\ UNCHANGED <<graph, approvals>> /\ req[h].pc = "move"
        /\ instance.status = "PENDING" /\ Having(Created, "PENDING") = {}
        /\ req[h].target = Transition(instance.step, "reject")
             \/ req[h].target = Transition(instance.step, "approve")
    BY <1>0, <1>11 DEF Move, At, Deciding, Judged, WritesInstance
  <2>2. Having(Created, "PENDING")' = {}
    BY <1>d, <2>1, SameApproved
  <2>3. CASE req[h].target \in Steps
    <3>1. instance' = [status |-> "PENDING", step |-> req[h].target]
      BY <1>11, <2>3, WorkflowAssumption DEF Move
    <3>2. PICK r : r = [pc |-> "assign", step |-> req[h].target, then |-> req[h].then]
      OBVIOUS
    <3>3. r.pc = "assign" /\ r.step = instance'.step /\ Continue(h, r)
      BY <1>11, <2>3, <3>1, <3>2, WorkflowAssumption DEF Move
    <3>4. VisitsInOrder'
      <4>1. Created' = Created /\ Fresh' = Fresh
        BY <1>d, <2>1, KeptTables
      <4> QED
        BY <1>a, <2>2, <3>1, <4>1 DEF VisitsInOrder
    <3>5. EnteredOnce(r)'
      <4> SUFFICES ASSUME NEW s \in Steps, NEW after \in SUBSET Steps,
                          Past(graph, s, Actions, after)
                   PROVE  OneVisit(s)' /\ (OfStep(s)' # {} => instance'.step \in after)
        BY <2>1 DEF EnteredOnce, Past, Target
      <4>1. OneVisit(s) /\ (OfStep(s) # {} => instance.step \in after \cup {s})
        BY <1>0 DEF EnteredOnce
      <4>2. OfStep(s)' = OfStep(s)
        BY <1>d, <2>1, KeptTables
      <4>3. ASSUME instance.step \in after \cup {s} PROVE instance'.step \in after
        BY <2>1, <2>3, <3>1, <4>3, WorkflowAssumption DEF Past, Actions, Target, Transition
      <4> QED
        BY <4>1, <4>2, <4>3 DEF OneVisit
    <3>6. Deciding(r)' /\ Judged(r)'
      BY <2>2, <3>3 DEF Deciding, Judged
    <3> QED
      BY <3>3, <3>4, <3>5, <3>6, GatedContinue
  <2>4. CASE req[h].target \in Terminal
    <3>1. instance' = [instance EXCEPT !.status = req[h].target]
      BY <1>11, <2>4, WorkflowAssumption DEF Move
    <3>2. instance'.status = req[h].target /\ instance'.step = instance.step
      BY <3>1 DEF TypeOK
    <3>3. PICK r : r = [pc |-> "sync", status |-> req[h].target, then |-> req[h].then]
      OBVIOUS
    <3>4. r.pc = "sync" /\ Continue(h, r)
      BY <1>11, <2>4, <3>3, WorkflowAssumption DEF Move
    <3>5. Deciding(r)' /\ Judged(r)'
      BY <2>4, <3>2, <3>4 DEF Deciding, Judged
    <3> QED
      BY <1>d, <2>1, <2>4, <3>2, <3>4, <3>5, GatedKept DEF Terminal
  <2> QED
    BY <1>11, <2>3, <2>4 DEF Move
<1>12. ASSUME NEW h \in Handlers, Sync(h) PROVE Gated'
  <2>1. UNCHANGED <<graph, instance, approvals>> /\ req[h].then \in Returns
    BY <1>0, <1>12, RequestKinds DEF Sync, At, WritesOrder
  <2>2. PICK r : r = [pc |-> req[h].then]
    OBVIOUS
  <2>3. r.pc \in {"idle", "mark"} /\ Continue(h, r)
    BY <1>12, <2>1, <2>2 DEF Sync, Returns
  <2>4. Deciding(r)' /\ Judged(r)'
    BY <2>3 DEF Deciding, Judged
  <2> QED
    BY <1>b, <1>d, <2>1, <2>3, <2>4
<1>13. ASSUME NEW h \in Handlers, Handover(h) \/ Escalate(h) PROVE Gated'
  <2>1. UNCHANGED <<graph, instance>> /\ Done(h) /\ req[h].id \in Ids
    BY <1>0, <1>13, RequestKinds DEF Handover, Escalate, At, WritesApprovals
  <2>2. UNCHANGED approvals \/ \E user, escalated : Give(req[h].id, user, escalated)
    BY <1>13 DEF Handover, Escalate
  <2>3. KeptRows
    BY <1>d, <2>1, <2>2, GiveKeeps, SameKept
  <2> QED
    BY <1>c, <2>1, <2>3
<1>14. ASSUME NEW h \in Handlers, CancelRead(h) PROVE Gated'
  <2>1. UNCHANGED <<graph, instance, approvals>>
    BY <1>14 DEF CancelRead, Reads
  <2>2. PICK r : r = [pc |-> "cancel"]
    OBVIOUS
  <2>3. r.pc = "cancel" /\ Continue(h, r)
    BY <1>14, <2>2 DEF CancelRead
  <2>4. Deciding(r)' /\ Judged(r)'
    BY <2>3 DEF Deciding, Judged
  <2> QED
    BY <1>b, <1>d, <2>1, <2>3, <2>4
<1>15. ASSUME NEW h \in Handlers, CancelApprovals(h) PROVE Gated'
  <2>1. UNCHANGED <<graph, instance>> /\ Decide(Having(Created, "PENDING"), "REJECTED")
    BY <1>15 DEF CancelApprovals, WritesApprovals
  <2>2. PICK ids \in SUBSET Created : ids = Having(Created, "PENDING")
    BY DEF Having
  <2>3. /\ KeptRows
        /\ \A id \in Ids : approvals'[id].status =
             IF id \in ids THEN "REJECTED" ELSE approvals[id].status
    BY <2>1, <2>2, DecideKeeps DEF Terminal
  <2>4. Having(Created, "PENDING")' = {}
    <3>1. Created' = Created
      BY <2>3, KeptTables
    <3> QED
      BY <2>2, <2>3, <3>1 DEF Having, Created
  <2>5. PICK r : r = [pc |-> "cancelled"]
    OBVIOUS
  <2>6. r.pc = "cancelled" /\ Continue(h, r)
    BY <1>15, <2>5 DEF CancelApprovals
  <2>7. Deciding(r)' /\ Judged(r)'
    BY <2>4, <2>6 DEF Deciding, Judged
  <2> QED
    BY <1>b, <2>1, <2>3, <2>6, <2>7
<1>16. ASSUME NEW h \in Handlers, CancelInstance(h) PROVE Gated'
  <2>1. /\ UNCHANGED <<graph, approvals>> /\ Done(h)
        /\ instance' = [instance EXCEPT !.status = "ARCHIVED"]
        /\ instance.status = "PENDING"
    BY <1>0, <1>16 DEF CancelInstance, At, WritesInstance
  <2>2. instance'.status = "ARCHIVED" /\ instance'.step = instance.step
    BY <2>1 DEF TypeOK
  <2> QED
    BY <1>d, <2>1, <2>2, GatedDone
<1>17. ASSUME SameRows, UNCHANGED <<graph, instance, req>> PROVE Gated'
  <2>1. VisitsInOrder'
    BY <1>17, <1>a, SameKept, VisitsKept
  <2>2. /\ \A s, status : Having(OfStep(s), status)' = Having(OfStep(s), status)
        /\ \A s, status : Having(LatestVisit(s), status)' = Having(LatestVisit(s), status)
        /\ \A status : Having(Created, status)' = Having(Created, status)
        /\ \A s : OfStep(s)' = OfStep(s) /\ LatestVisit(s)' = LatestVisit(s)
    BY <1>17, SameApproved, SameKept, KeptTables
  <2>3. \A s : Passable(s)' <=> Passable(s)
    BY <1>17, <2>2 DEF Passable, Satisfied, Required, Assigned
  <2>4. PICK s : s = instance.step
    OBVIOUS
  <2>5. ASSUME NEW h \in Handlers PROVE Deciding(req[h])' /\ EnteredOnce(req[h])' /\ Judged(req[h])'
    <3>1. PICK r : r = req[h]
      OBVIOUS
    <3>2. Deciding(r) /\ EnteredOnce(r) /\ Judged(r) /\ req'[h] = r
      BY <1>0, <1>17, <3>1
    <3>3. Deciding(r)'
      BY <1>17, <2>2, <3>2 DEF Deciding
    <3>4. EnteredOnce(r)'
      BY <1>17, <2>2, <3>2 DEF EnteredOnce, OneVisit, Past, Target
    <3>5. Judged(r)'
      <4>1. Judged(r) <=>
              /\ r.pc = "gate" => Having(LatestVisit(r.step), "APPROVED") # {}
              /\ r.pc = "skip" => Passable(r.step)
              /\ r.pc = "advance" /\ r.action = "approve" => Passable(s)
              /\ r.pc = "move" => \/ r.target = Transition(s, "reject")
                                  \/ r.target = Transition(s, "approve") /\ Passable(s)
        BY <2>4 DEF Judged
      <4>2. Judged(r)' <=>
              /\ r.pc = "gate" => Having(LatestVisit(r.step), "APPROVED")' # {}
              /\ r.pc = "skip" => Passable(r.step)'
              /\ r.pc = "advance" /\ r.action = "approve" => Passable(s)'
              /\ r.pc = "move" => \/ r.target = Transition(s, "reject")'
                                  \/ r.target = Transition(s, "approve")' /\ Passable(s)'
        BY <1>17, <2>4 DEF Judged, Passable, Satisfied, Required, Assigned, Transition,
           LatestVisit, OfStep, Having, Created
      <4> QED
        BY <1>17, <2>2, <2>3, <3>2, <4>1, <4>2 DEF Transition
    <3> QED
      BY <3>2, <3>3, <3>4, <3>5 DEF Deciding, EnteredOnce, Judged
  <2> QED
    BY <2>1, <2>5 DEF Gated
<1>18. ASSUME NEW t \in Timers, Timer(t) \/ TimerFails(t) PROVE Gated'
  <2>1. SameRows
    BY <1>d, <1>18, ScanWriteKeeps DEF Timer, TimerFails, ScanBegin, ScanTask,
       ScanInstance, Scans, SameRows
  <2> QED
    BY <1>17, <1>18, <2>1 DEF Timer, TimerFails, ScanBegin, ScanTask, ScanInstance,
       ScanWrite, Scans
<1>19. ASSUME NEW v \in Visits, FallDue(v) PROVE Gated'
  BY <1>17, <1>19, <1>d DEF FallDue
<1>20. CASE UNCHANGED vars
  BY <1>17, <1>20, <1>d DEF vars
<1> QED
  BY <1>1, <1>2, <1>3, <1>4, <1>5, <1>6, <1>7, <1>8, <1>9, <1>10, <1>11, <1>12, <1>13, <1>14,
     <1>15, <1>16, <1>18, <1>19, <1>20 DEF Next, RequestStep

LEMMA InitGated == Init => Gated
<1> SUFFICES ASSUME Init PROVE Gated
  OBVIOUS
<1>1. Created = {} /\ \A s : OfStep(s) = {}
  BY DEF Init, Created, OfStep, NoApproval
<1>2. VisitsInOrder
  BY <1>1, FS_EmptySet DEF VisitsInOrder, Having
<1>3. \A h \in Handlers : Deciding(req[h]) /\ EnteredOnce(req[h]) /\ Judged(req[h])
  BY <1>1 DEF Init, Idle, Deciding, EnteredOnce, OneVisit, Judged
<1> QED
  BY <1>2, <1>3 DEF Gated

(* ADR-024: a step is left by approval only when as many of the approvals  *)
(* that were asked for on this visit have been given as its mode requires  *)
(* (resolveApprovalGate, advanceByDecision), while requests do not         *)
(* overlap.                                                                *)
THEOREM StepsAreLeftByGate ==
  ASSUME OneAtATime, GateJudgesVisit
  PROVE  Spec => StepLeftByGate
<1>1. TypeOK /\ Undisturbed /\ Gated /\ [Next]_vars =>
        [\A s \in Steps :
           LeavesBy("approve", s) /\ ~LeavesBy("reject", s) /\ graph.steps[s].assignees # {}
           => Cardinality(Having(LatestVisit(s), "APPROVED"))
                >= Required(s, Cardinality(LatestVisit(s)))]_instance
  <2> SUFFICES ASSUME TypeOK, Undisturbed, Gated, [Next]_vars, instance' # instance,
                      NEW s \in Steps, LeavesBy("approve", s), ~LeavesBy("reject", s),
                      Assigned(graph, s)
               PROVE  Satisfied(s)
    BY DEF Satisfied, Assigned
  <2>0. instance.status = "PENDING" /\ instance.step = s
    BY DEF LeavesBy
  <2>1. ASSUME NEW h \in Handlers, Move(h) PROVE Satisfied(s)
    <3>1. instance' = Outcome(req[h].target)
      BY <2>1, WorkflowAssumption DEF Move, Outcome
    <3>2. Judged(req[h]) /\ req[h].pc = "move"
      BY <2>1 DEF Gated, Move, At
    <3> QED
      BY <2>0, <3>1, <3>2 DEF Judged, LeavesBy, Passable
  <2>2. ASSUME NEW h \in Handlers, Submit(h) PROVE FALSE
    BY <2>0, <2>2 DEF Submit
  <2>3. ASSUME NEW h \in Handlers, CancelInstance(h) PROVE FALSE
    <3>1. instance'.status = "ARCHIVED"
      BY <2>3 DEF CancelInstance, TypeOK
    <3>2. Transition(s, "approve") # "ARCHIVED"
      BY DEF GateJudgesVisit, Target, Transition, TypeOK
    <3>3. Outcome(Transition(s, "approve")).status # "ARCHIVED"
      BY <2>0, <3>2 DEF Outcome, TypeOK
    <3> QED
      BY <3>1, <3>3 DEF LeavesBy
  <2>4. ASSUME NEW h \in Handlers,
               \/ ReadInstance(h) \/ CancelRead(h) \/ RequestFails(h) \/ Assign(h)
               \/ Mark(h) \/ Pick(h) \/ Approve(h) \/ Gate(h) \/ Skip(h)
               \/ RejectPending(h) \/ RejectOwn(h) \/ AdvanceRead(h) \/ Sync(h)
               \/ Handover(h) \/ Escalate(h) \/ CancelApprovals(h)
        PROVE  FALSE
    BY <2>4 DEF ReadInstance, CancelRead, RequestFails, Assign, Mark, Pick,
       Approve, Gate, Skip, RejectPending, RejectOwn, AdvanceRead, Sync,
       Handover, Escalate, CancelApprovals, Reads, WritesApprovals, WritesOrder
  <2>5. ASSUME NEW t \in Timers, Timer(t) \/ TimerFails(t) PROVE FALSE
    BY <2>5 DEF Timer, TimerFails, ScanBegin, ScanTask, ScanInstance, ScanWrite, Scans
  <2>6. ASSUME NEW v \in Visits, FallDue(v) PROVE FALSE
    BY <2>6 DEF FallDue
  <2> QED
    BY <2>1, <2>2, <2>3, <2>4, <2>5, <2>6 DEF Next, RequestStep, vars
<1>2. TypeOK /\ Undisturbed /\ Gated /\ [Next]_vars => Gated'
  BY GatedInductive
<1> QED
  BY <1>1, <1>2, InitGated, InitUndisturbed, UndisturbedInductive, TypeCorrect, PTL
     DEF Spec, StepLeftByGate
-----------------------------------------------------------------------------
(* A step that everybody still can approve, and nobody has to any more,    *)
(* passes its gate.                                                        *)
LEMMA GateOpens ==
  ASSUME StepsDecidable, TypeOK, IsFiniteSet(Created), NEW s \in Steps,
         Assigned(graph, s), Winnable(s), Having(OfStep(s), "PENDING") = {},
         Having(OfStep(s), "APPROVED") # {},
         graph.steps[s].mode = "ALL" => Refused(s) = {}
  PROVE  GateOpen(s)
<1> DEFINE given == Having(OfStep(s), "APPROVED")
<1>1. /\ Cardinality(OfStep(s)) \in Nat /\ IsFiniteSet(OfStep(s))
      /\ IsFiniteSet(given) /\ Cardinality(given) \in Nat
  BY VisitFinite
<1>2. Cardinality(given) >= 1
  BY <1>1, FS_EmptySet
<1>3. graph.steps[s].mode \in Modes /\ graph.steps[s].min \in Nat /\ graph \in Definitions
  BY WorkflowAssumption DEF TypeOK, StepRecord
<1>4. CASE graph.steps[s].mode = "ANY"
  BY <1>1, <1>2, <1>4 DEF GateOpen, Required, AtMost
<1>5. CASE graph.steps[s].mode = "ALL"
  <2>1. given = OfStep(s)
    BY <1>5 DEF Refused, Having
  <2> QED
    BY <1>1, <1>2, <1>5, <2>1 DEF GateOpen, Required, AtLeast
<1>6. CASE graph.steps[s].mode = "MIN_N"
  <2> DEFINE asked == graph.steps[s].assignees
  <2>1. PICK v \in Visits : \A u \in asked : <<v, u>> \in OfStep(s) \ Refused(s)
    BY DEF Winnable
  <2>2. \A u \in asked : <<v, u>> \in given
    BY <2>1 DEF Refused
  <2>3. [u \in asked |-> <<v, u>>] \in Injection(asked, given)
    BY <2>2 DEF Injection, IsInjective
  <2>4. Cardinality(asked) <= Cardinality(given) /\ Cardinality(asked) \in Nat
    BY <1>1, <2>3, FS_Injection, FS_CardinalityType
  <2>5. graph.steps[s].min <= Cardinality(asked)
    BY <1>3, <1>6 DEF StepsDecidable
  <2>6. graph.steps[s].min <= Cardinality(given)
    BY <1>1, <1>3, <2>4, <2>5
  <2> QED
    BY <1>1, <1>2, <1>3, <1>6, <2>6 DEF GateOpen, Required, AtLeast, AtMost
<1> QED
  BY <1>3, <1>4, <1>5, <1>6 DEF Modes

LEMMA UnstuckContinue ==
  ASSUME OneAtATime, TypeOK, NEW h \in Handlers, NEW r, Continue(h, r),
         LeftRefused(r)', Waiting(r)'
  PROVE  Unstuck'
<1>1. \A g \in Handlers : req'[g] = r
  BY DEF Continue, TypeOK, OneAtATime
<1>2. \A g \in Handlers : LeftRefused(req[g])' /\ Waiting(req[g])'
  BY <1>1 DEF LeftRefused, Waiting, Heads, Transition
<1> QED
  BY <1>2 DEF Unstuck

(* Going on along the graph does not lead back to what was passed.         *)
LEMMA LeftGoesOn ==
  ASSUME TypeOK, graph' = graph, \A s : Refused(s)' = Refused(s), NEW p, LeftRefused(p),
         NEW r, r.pc # "skip",
         \/ Heads(r)' = Heads(p)
         \/ Heads(p) \in Steps /\ \E action \in Actions : Heads(r)' = Transition(Heads(p), action)
  PROVE  LeftRefused(r)'
<1> SUFFICES ASSUME NEW s \in Steps, NEW after \in SUBSET Steps,
                    Past(graph, s, {"reject"}, after), graph.steps[s].mode = "ALL",
                    Refused(s) # {}
             PROVE  Heads(r)' \in after \cup Terminal
  BY DEF LeftRefused, Past, Target
<1>1. Heads(p) \in after \cup Terminal
  BY DEF LeftRefused
<1>2. CASE Heads(r)' = Heads(p)
  BY <1>1, <1>2
<1>3. ASSUME Heads(p) \in Steps, NEW action \in Actions,
             Heads(r)' = Transition(Heads(p), action)
      PROVE  Heads(r)' \in after \cup Terminal
  BY <1>1, <1>3, WorkflowAssumption DEF Past, Target, Transition, Actions
<1> QED
  BY <1>2, <1>3

LEMMA WaitsOn ==
  ASSUME SameRows, UNCHANGED <<graph, instance>>, NEW p, Waiting(p), NEW r,
         p.pc \in {"idle", "mark", "pick", "approve", "reject", "handover", "escalate", "cancel"},
         r.pc \in {"idle", "mark", "pick", "approve", "reject", "handover", "escalate", "cancel"}
  PROVE  Waiting(r)'
<1>1. PICK s : s = instance.step
  OBVIOUS
<1>2. /\ OfStep(s)' = OfStep(s) /\ Refused(s)' = Refused(s)
      /\ Having(OfStep(s), "PENDING")' = Having(OfStep(s), "PENDING")
  BY SameApproved, SameKept, KeptTables
<1>3. Winnable(s)' <=> Winnable(s)
  BY <1>2 DEF Winnable
<1>4. instance.status = "PENDING" =>
        Assigned(graph, s) /\ Winnable(s) /\ Having(OfStep(s), "PENDING") # {}
  BY <1>1 DEF Waiting
<1>5. instance'.status = "PENDING" =>
        Assigned(graph, s)' /\ Winnable(s)' /\ Having(OfStep(s), "PENDING")' # {}
  BY <1>2, <1>3, <1>4 DEF Assigned
<1>6. instance'.step = s
  BY <1>1
<1> QED
  BY <1>5, <1>6 DEF Waiting, Winnable, Assigned, Having, OfStep, Created, Refused

(* The timers and what they leave alone.                                   *)
LEMMA UnstuckFrame ==
  ASSUME TypeOK, SameRows, UNCHANGED <<graph, instance, req>>, Unstuck,
         failures' = 0 => failures = 0
  PROVE  Unstuck'
<1> SUFFICES ASSUME failures = 0, NEW h \in Handlers
             PROVE  LeftRefused(req[h])' /\ Waiting(req[h])'
  BY DEF Unstuck
<1>1. PICK r : r = req[h]
  OBVIOUS
<1>2. LeftRefused(r) /\ Waiting(r) /\ req'[h] = r
  BY <1>1 DEF Unstuck
<1>3. LeftRefused(r)'
  <2>1. \A s : Refused(s)' = Refused(s)
    BY SameApproved
  <2>2. Heads(r)' = Heads(r)
    BY DEF Heads, Transition
  <2> QED
    BY <1>2, <2>1, <2>2 DEF LeftRefused, Past, Target
<1>4. Waiting(r)'
  <2>1. PICK s : s = instance.step
    OBVIOUS
  <2>2. /\ OfStep(s)' = OfStep(s) /\ Refused(s)' = Refused(s)
        /\ Having(OfStep(s), "PENDING")' = Having(OfStep(s), "PENDING")
    BY SameApproved, SameKept, KeptTables
  <2>3. (Winnable(s)' <=> Winnable(s)) /\ (Assigned(graph, s)' <=> Assigned(graph, s))
    BY <2>2 DEF Winnable, Assigned
  <2>4. Waiting(r) <=>
          (instance.status = "PENDING" =>
            /\ r.pc \in {"idle", "mark", "pick", "approve", "reject", "handover", "escalate",
                         "cancel", "gate"} => Assigned(graph, s) /\ Winnable(s)
            /\ r.pc \in {"idle", "mark", "pick", "approve", "reject", "handover", "escalate",
                         "cancel"} => Having(OfStep(s), "PENDING") # {})
    BY <2>1 DEF Waiting
  <2>5. Waiting(r)' <=>
          (instance'.status = "PENDING" =>
            /\ r.pc \in {"idle", "mark", "pick", "approve", "reject", "handover", "escalate",
                         "cancel", "gate"} => Assigned(graph, s)' /\ Winnable(s)'
            /\ r.pc \in {"idle", "mark", "pick", "approve", "reject", "handover", "escalate",
                         "cancel"} => Having(OfStep(s), "PENDING")' # {})
    <3>1. instance'.step = s
      BY <2>1
    <3> QED
      BY <3>1 DEF Waiting, Winnable, Assigned, Having, OfStep, Created, Refused
  <2> QED
    BY <1>2, <2>2, <2>3, <2>4, <2>5
<1> QED
  BY <1>2, <1>3, <1>4 DEF LeftRefused, Waiting, Heads, Transition

LEMMA UnstuckInductive ==
  ASSUME OneAtATime, StepsDecidable, TypeOK, Undisturbed, Gated, Unstuck, [Next]_vars
  PROVE  Unstuck'
<1>0. failures \in Nat /\ IsFiniteSet(Created) /\ VisitsInOrder
  BY DEF TypeOK, Gated, VisitsInOrder
<1>a. ASSUME NEW h \in Handlers, failures = 0
      PROVE  /\ req[h] \in Requests /\ Deciding(req[h]) /\ Judged(req[h])
             /\ LeftRefused(req[h]) /\ Waiting(req[h])
             /\ req[h].pc \notin {"idle", "mark", "sync"} => instance.status = "PENDING"
  BY <1>a DEF TypeOK, Gated, Unstuck, Undisturbed
<1>b. ASSUME failures' # 0 PROVE Unstuck'
  BY <1>b DEF Unstuck
<1>c. instance.status # "NONE" => instance.step \in Steps
  BY DEF TypeOK
<1>d. ASSUME UNCHANGED approvals PROVE SameRows
  BY <1>d DEF SameRows
<1>e. "PENDING" \notin Terminal
  BY DEF Terminal
<1>1. ASSUME NEW h \in Handlers, failures = 0,
             Submit(h) \/ ReadInstance(h) \/ CancelRead(h) \/ RequestStep(h)
      PROVE  Unstuck'
  <2>a. /\ req[h] \in Requests /\ Deciding(req[h]) /\ Judged(req[h])
        /\ LeftRefused(req[h]) /\ Waiting(req[h])
        /\ req[h].pc \notin {"idle", "mark", "sync"} => instance.status = "PENDING"
    BY <1>1, <1>a
  <2>b. PICK p : p = req[h]
    OBVIOUS
  <2>c. Deciding(p) /\ Judged(p) /\ LeftRefused(p) /\ Waiting(p)
    BY <2>a, <2>b
  <2>d. ASSUME NEW r, Continue(h, r), SameRows, UNCHANGED <<graph, instance>>,
               p.pc \in {"idle", "mark", "pick", "approve", "reject", "handover", "escalate",
                         "cancel"},
               r.pc \in {"idle", "mark", "pick", "approve", "reject", "handover", "escalate",
                         "cancel"}
        PROVE  Unstuck'
    <3>1. Waiting(r)'
      BY <2>c, <2>d, WaitsOn
    <3>2. Heads(r)' = Heads(p)
      BY <2>d DEF Heads
    <3>3. LeftRefused(r)'
      BY <2>c, <2>d, <3>2, SameApproved, LeftGoesOn
    <3> QED
      BY <2>d, <3>1, <3>3, UnstuckContinue
  <2>1. CASE Submit(h)
    <3>1. /\ Created = {} /\ UNCHANGED <<graph, approvals>>
      BY <1>0, <2>1 DEF Submit, WritesInstance, VisitsInOrder
    <3>2. \A s : Refused(s)' = {}
      BY <3>1 DEF Refused, OfStep, Created
    <3>3. PICK r : r = [pc |-> "assign", step |-> graph.initial, then |-> "mark"]
      OBVIOUS
    <3>4. r.pc = "assign" /\ Continue(h, r)
      BY <2>1, <3>3 DEF Submit
    <3>5. LeftRefused(r)' /\ Waiting(r)'
      BY <3>2, <3>4 DEF LeftRefused, Waiting
    <3> QED
      BY <3>4, <3>5, UnstuckContinue
  <2>2. CASE Assign(h)
    <3>0. /\ req[h].pc = "assign" /\ req[h].step \in Steps /\ req[h].then \in Returns
          /\ instance.status = "PENDING" /\ req[h].step = instance.step
          /\ Heads(p) = instance.step
      BY <1>e, <2>2, <2>a, <2>b, RequestKinds DEF Assign, At, Deciding, Heads
    <3>1. CASE Assigned(graph, req[h].step)
      <4>1. PICK step : step = instance.step
        OBVIOUS
      <4>2. PICK v \in Fresh :
              /\ \A w \in Fresh : v <= w
              /\ approvals' = [id \in Ids |->
                   IF id[1] = v /\ id[2] \in graph.steps[step].assignees
                   THEN [status |-> "PENDING", step |-> step, approver |-> id[2],
                         escalated |-> FALSE]
                   ELSE approvals[id]]
              /\ Continue(h, [pc |-> req[h].then]) /\ WritesApprovals
        BY <2>2, <3>0, <3>1, <4>1 DEF Assign, Assigned
      <4>3. step \in Steps /\ UNCHANGED <<graph, instance>> /\ Assigned(graph, step)
        BY <3>0, <3>1, <4>1, <4>2 DEF WritesApprovals
      <4>4. /\ OfStep(step)' = OfStep(step) \cup Asked(v, step)
            /\ \A other : other # step => OfStep(other)' = OfStep(other)
            /\ Created \cap Asked(v, step) = {}
            /\ \A id \in Asked(v, step) : approvals'[id].status = "PENDING"
            /\ \A id \in Ids \ Asked(v, step) : approvals'[id] = approvals[id]
        BY <1>0, <4>2, <4>3, AssignTables
      <4>5. ASSUME NEW s PROVE Refused(s)' = Refused(s)
        <5>1. /\ OfStep(s) \cap Asked(v, step) = {} /\ OfStep(s) \subseteq Ids
              /\ \A id \in OfStep(s)' : id \in OfStep(s) \/ id \in Asked(v, step)
              /\ \A id \in OfStep(s) : id \in OfStep(s)'
          BY <4>4 DEF OfStep, Created
        <5>2. Refused(s) = {id \in OfStep(s) : approvals[id].status \notin {"PENDING", "APPROVED"}}
          BY DEF Refused, Having
        <5>3. Refused(s)' = {id \in OfStep(s)' : approvals'[id].status
                                                   \notin {"PENDING", "APPROVED"}}
          BY DEF Refused, Having
        <5> QED
          BY <4>4, <5>1, <5>2, <5>3
      <4>6. PICK r : r = [pc |-> req[h].then]
        OBVIOUS
      <4>7. r.pc \in {"idle", "mark"} /\ Continue(h, r)
        BY <3>0, <4>2, <4>6 DEF Returns
      <4>8. Heads(r)' = Heads(p)
        BY <1>e, <3>0, <4>3, <4>7 DEF Heads
      <4>9. LeftRefused(r)'
        BY <2>c, <4>3, <4>5, <4>7, <4>8, LeftGoesOn
      <4>10. v \in Visits /\ graph.steps[step].assignees \subseteq Users
        BY <4>3, StepFields DEF TypeOK, Fresh
      <4>11. \A u \in graph.steps[step].assignees :
               <<v, u>> \in Asked(v, step) /\ <<v, u>> \in OfStep(step)'
        BY <4>4, <4>10 DEF Asked, Ids
      <4>12. \A u \in graph.steps[step].assignees : <<v, u>> \in (OfStep(step) \ Refused(step))'
        BY <4>4, <4>11 DEF Refused, Having
      <4>13. Having(OfStep(step), "PENDING")' # {}
        BY <4>3, <4>4, <4>11 DEF Assigned, Having
      <4>14. Winnable(step)' /\ Assigned(graph, step)'
        BY <4>3, <4>10, <4>12 DEF Winnable, Assigned
      <4>15. Waiting(r)'
        <5>1. instance'.step = step
          BY <4>1, <4>3
        <5> QED
          BY <4>13, <4>14, <5>1 DEF Waiting, Winnable, Assigned, Having, OfStep, Created, Refused
      <4> QED
        BY <4>7, <4>9, <4>15, UnstuckContinue
    <3>2. CASE ~Assigned(graph, req[h].step)
      <4>1. /\ UNCHANGED <<graph, instance, approvals>>
            /\ Continue(h, [pc |-> "advance", action |-> "approve", then |-> req[h].then])
        BY <2>2, <3>0, <3>2 DEF Assign, Assigned, Reads, StepsDecidable, TypeOK
      <4>2. PICK r : r = [pc |-> "advance", action |-> "approve", then |-> req[h].then]
        OBVIOUS
      <4>3. r.pc = "advance" /\ r.action = "approve" /\ Continue(h, r)
        BY <4>1, <4>2
      <4>4. Heads(r)' = Transition(Heads(p), "approve")
        BY <3>0, <4>1, <4>3 DEF Heads, Transition
      <4>5. LeftRefused(r)'
        BY <1>d, <2>c, <3>0, <4>1, <4>3, <4>4, SameApproved, LeftGoesOn DEF Actions
      <4>6. Waiting(r)'
        BY <4>3 DEF Waiting
      <4> QED
        BY <4>3, <4>5, <4>6, UnstuckContinue
    <3> QED
      BY <3>1, <3>2
  <2>3. CASE Mark(h) \/ ReadInstance(h) \/ CancelRead(h) \/ Pick(h) \/ Handover(h) \/ Escalate(h)
    <3>1. /\ UNCHANGED <<graph, instance>> /\ SameRows
      <4>1. CASE Mark(h) \/ ReadInstance(h) \/ CancelRead(h) \/ Pick(h)
        BY <1>d, <4>1 DEF Mark, ReadInstance, CancelRead, Pick, WritesOrder, Reads
      <4>2. CASE Handover(h) \/ Escalate(h)
        <5>1. UNCHANGED <<graph, instance>> /\ req[h].id \in Ids
          BY <2>a, <4>2, RequestKinds DEF Handover, Escalate, At, WritesApprovals
        <5>2. UNCHANGED approvals \/ \E user, escalated : Give(req[h].id, user, escalated)
          BY <4>2 DEF Handover, Escalate
        <5> QED
          BY <1>d, <5>1, <5>2, GiveKeeps
      <4> QED
        BY <2>3, <4>1, <4>2
    <3>2. p.pc \in {"idle", "mark", "pick", "handover", "escalate"}
      <4>1. CASE ReadInstance(h) \/ CancelRead(h)
        BY <2>b, <4>1 DEF ReadInstance, CancelRead, Idle
      <4>2. CASE Mark(h) \/ Pick(h)
        BY <2>b, <4>2 DEF Mark, Pick, At
      <4>3. CASE Handover(h) \/ Escalate(h)
        BY <2>b, <4>3 DEF Handover, Escalate, At
      <4> QED
        BY <2>3, <4>1, <4>2, <4>3
    <3>3. \E r : /\ Continue(h, r)
                 /\ r.pc \in {"idle", "pick", "approve", "reject", "handover", "escalate",
                              "cancel"}
      <4>1. CASE Done(h)
        BY <4>1 DEF Done, Idle
      <4>2. CASE ReadInstance(h)
        BY <4>2 DEF ReadInstance
      <4>3. CASE CancelRead(h)
        BY <4>3 DEF CancelRead
      <4>4. CASE Pick(h) /\ ~Done(h)
        <5>1. PICK id \in Having(OfStep(req[h].step), "PENDING"), decision \in Decisions :
                Continue(h, [pc |-> decision, step |-> req[h].step, id |-> id])
          BY <4>4 DEF Pick
        <5>2. PICK r : r = [pc |-> decision, step |-> req[h].step, id |-> id]
          OBVIOUS
        <5>3. Continue(h, r) /\ r.pc = decision
          BY <5>1, <5>2
        <5> QED
          BY <5>3, WorkflowAssumption
      <4> QED
        BY <2>3, <4>1, <4>2, <4>3, <4>4 DEF Mark, Handover, Escalate
    <3> QED
      BY <2>d, <3>1, <3>2, <3>3
  <2>4. CASE Approve(h)
    <3>1. /\ UNCHANGED <<graph, instance>> /\ req[h].step = instance.step
          /\ req[h].id \in Ids /\ Decide({req[h].id}, "APPROVED")
          /\ approvals[req[h].id].status = "PENDING" /\ instance.status = "PENDING"
          /\ req[h].pc = "approve"
      BY <2>4, <2>a, RequestKinds DEF Approve, At, Deciding, Undisturbed, WritesApprovals
    <3>2. /\ KeptRows
          /\ \A id \in Ids : approvals'[id].status =
               IF id \in {req[h].id} THEN "APPROVED" ELSE approvals[id].status
      BY <3>1, DecideKeeps DEF Created, Terminal
    <3>3. \A s : OfStep(s)' = OfStep(s)
      BY <3>2, KeptTables
    <3>4. ASSUME NEW s PROVE Refused(s)' = Refused(s)
      BY <3>1, <3>2, <3>3 DEF Refused, Having, OfStep, Created
    <3>5. PICK r : r = [pc |-> "gate", step |-> req[h].step]
      OBVIOUS
    <3>6. r.pc = "gate" /\ Continue(h, r)
      BY <2>4, <3>5 DEF Approve
    <3>7. Heads(r)' = Heads(p)
      BY <2>b, <3>1, <3>6 DEF Heads
    <3>8. LeftRefused(r)'
      BY <2>c, <3>1, <3>4, <3>6, <3>7, LeftGoesOn
    <3>9. Waiting(r)'
      <4>1. PICK s : s = instance.step
        OBVIOUS
      <4>2. Assigned(graph, s) /\ Winnable(s)
        BY <2>b, <2>c, <3>1, <4>1 DEF Waiting
      <4>3. Assigned(graph, s)' /\ Winnable(s)'
        BY <3>1, <3>3, <3>4, <4>2 DEF Assigned, Winnable
      <4>4. instance'.step = s
        BY <3>1, <4>1
      <4> QED
        BY <3>6, <4>3, <4>4 DEF Waiting, Winnable, Assigned, Having, OfStep, Created, Refused
    <3> QED
      BY <3>6, <3>8, <3>9, UnstuckContinue
  <2>5. CASE Gate(h)
    <3>1. /\ UNCHANGED <<graph, instance, approvals>> /\ req[h].step = instance.step
          /\ req[h].step \in Steps /\ instance.status = "PENDING" /\ req[h].pc = "gate"
          /\ Having(LatestVisit(req[h].step), "APPROVED") # {}
      BY <2>5, <2>a, RequestKinds DEF Gate, At, Deciding, Judged, Reads
    <3>2. PICK s \in Steps : s = req[h].step
      BY <3>1
    <3>3. Heads(p) = s
      BY <1>e, <2>b, <3>1, <3>2 DEF Heads
    <3>4. Assigned(graph, s) /\ Winnable(s)
      BY <2>b, <2>c, <3>1, <3>2 DEF Waiting
    <3>5. CASE ~GateOpen(s)
      <4>1. Having(OfStep(s), "PENDING") # {}
        <5>1. Having(OfStep(s), "APPROVED") # {}
          BY <3>1, <3>2 DEF Having, LatestVisit
        <5>2. graph.steps[s].mode = "ALL" => Refused(s) = {}
          <6> SUFFICES ASSUME graph.steps[s].mode = "ALL", Refused(s) # {} PROVE FALSE
            OBVIOUS
          <6>1. PICK after \in SUBSET Steps : Past(graph, s, {"reject"}, after)
            BY <3>4 DEF StepsDecidable, TypeOK, NoReturn
          <6>2. s \in after \cup Terminal
            BY <2>c, <3>3, <6>1 DEF LeftRefused
          <6> QED
            BY <6>1, <6>2, WorkflowAssumption DEF Past
        <5> QED
          BY <1>0, <3>4, <3>5, <5>1, <5>2, GateOpens
      <4>2. PICK r : r = Idle
        OBVIOUS
      <4>3. r.pc = "idle" /\ Continue(h, r)
        BY <2>5, <3>2, <3>5, <4>2 DEF Gate, Done, Idle
      <4>4. Heads(r)' = Heads(p)
        BY <1>e, <3>1, <3>2, <3>3, <4>3 DEF Heads
      <4>5. LeftRefused(r)'
        BY <1>d, <2>c, <3>1, <4>3, <4>4, SameApproved, LeftGoesOn
      <4>6. Waiting(r)'
        <5>1. /\ OfStep(s)' = OfStep(s) /\ Refused(s)' = Refused(s)
              /\ Having(OfStep(s), "PENDING")' = Having(OfStep(s), "PENDING")
          BY <1>d, <3>1, SameApproved, SameKept, KeptTables
        <5>2. Assigned(graph, s)' /\ Winnable(s)' /\ Having(OfStep(s), "PENDING")' # {}
          BY <3>1, <3>4, <4>1, <5>1 DEF Assigned, Winnable
        <5>3. instance'.step = s
          BY <3>1, <3>2
        <5> QED
          BY <5>2, <5>3 DEF Waiting, Winnable, Assigned, Having, OfStep, Created, Refused
      <4> QED
        BY <4>3, <4>5, <4>6, UnstuckContinue
    <3>6. CASE GateOpen(s) /\ Having(OfStep(s), "PENDING") # {}
      <4>1. PICK r : r = [pc |-> "skip", step |-> req[h].step]
        OBVIOUS
      <4>2. r.pc = "skip" /\ r.step = s /\ Continue(h, r)
        BY <2>5, <3>2, <3>6, <4>1 DEF Gate
      <4>3. graph.steps[s].mode # "ALL"
        <5>1. ASSUME graph.steps[s].mode = "ALL" PROVE FALSE
          BY <1>0, <3>6, <5>1, AllApproved DEF Having
        <5> QED
          BY <5>1
      <4>4. Heads(r)' = Heads(p)
        BY <1>e, <3>1, <3>2, <3>3, <4>2 DEF Heads
      <4>5. LeftRefused(r)'
        <5>1. PICK q : q = [pc |-> "cancel"]
          OBVIOUS
        <5>2. Heads(q)' = Heads(p) /\ q.pc # "skip"
          BY <1>e, <3>1, <3>2, <3>3, <5>1 DEF Heads
        <5>3. LeftRefused(q)'
          BY <1>d, <2>c, <3>1, <5>2, SameApproved, LeftGoesOn
        <5> QED
          BY <3>1, <4>2, <4>3, <4>4, <5>2, <5>3 DEF LeftRefused
      <4>6. Waiting(r)'
        BY <4>2 DEF Waiting
      <4> QED
        BY <4>2, <4>5, <4>6, UnstuckContinue
    <3>7. CASE GateOpen(s) /\ Having(OfStep(s), "PENDING") = {}
      <4>1. PICK r : r = Advance("approve")
        OBVIOUS
      <4>2. r.pc = "advance" /\ r.action = "approve" /\ Continue(h, r)
        BY <2>5, <3>2, <3>7, <4>1 DEF Gate, Advance
      <4>3. Heads(r)' = Transition(Heads(p), "approve")
        BY <3>1, <3>2, <3>3, <4>2 DEF Heads, Transition
      <4>4. LeftRefused(r)'
        BY <1>d, <2>c, <3>1, <3>3, <4>2, <4>3, SameApproved, LeftGoesOn DEF Actions
      <4>5. Waiting(r)'
        BY <4>2 DEF Waiting
      <4> QED
        BY <4>2, <4>4, <4>5, UnstuckContinue
    <3> QED
      BY <3>5, <3>6, <3>7
  <2>6. CASE Skip(h) \/ RejectPending(h)
    <3>1. /\ UNCHANGED <<graph, instance>> /\ req[h].step = instance.step
          /\ req[h].step \in Steps /\ instance.status = "PENDING"
      BY <2>6, <2>a, RequestKinds DEF Skip, RejectPending, At, Deciding, WritesApprovals
    <3>2. PICK step \in Steps : step = instance.step
      BY <3>1
    <3>3. PICK ids \in SUBSET Created, status \in {"ARCHIVED", "REJECTED"} :
            ids = Having(OfStep(step), "PENDING") /\ Decide(ids, status)
      <4>1. Having(OfStep(step), "PENDING") \in SUBSET Created
        BY DEF Having, OfStep
      <4> QED
        BY <2>6, <3>1, <3>2, <4>1 DEF Skip, RejectPending
    <3>4. /\ KeptRows
          /\ \A id \in Ids : approvals'[id].status =
               IF id \in ids THEN status ELSE approvals[id].status
      BY <3>3, DecideKeeps DEF Terminal
    <3>5. ASSUME NEW s, s # step PROVE Refused(s)' = Refused(s)
      <4>1. OfStep(s)' = OfStep(s)
        BY <3>4, KeptTables
      <4>2. \A id \in OfStep(s) : id \in Ids /\ id \notin ids
        BY <3>3, <3>5 DEF Having, OfStep, Created
      <4> QED
        BY <3>4, <4>1, <4>2 DEF Refused, Having
    <3>6. Heads(p) \in Steps /\ Heads(p) = step
      BY <1>e, <2>6, <2>b, <3>1, <3>2 DEF Heads, Skip, RejectPending, At
    <3>7. ASSUME NEW r, r.pc \in {"advance", "rejectOwn"}, Continue(h, r),
                 NEW action \in Actions, Heads(r)' = Transition(step, action),
                 graph.steps[step].mode = "ALL" => action = "reject"
          PROVE  Unstuck'
      <4>1. LeftRefused(r)'
        <5> SUFFICES ASSUME NEW s \in Steps, NEW after \in SUBSET Steps,
                            Past(graph, s, {"reject"}, after), graph.steps[s].mode = "ALL",
                            Refused(s)' # {}
                     PROVE  Heads(r)' \in after \cup Terminal
          BY <3>1, <3>7 DEF LeftRefused, Past, Target
        <5>1. CASE s = step
          BY <3>7, <5>1 DEF Past, Target, Transition
        <5>2. CASE s # step
          <6>1. step \in after
            BY <2>c, <3>5, <3>6, <5>2, WorkflowAssumption DEF LeftRefused
          <6> QED
            BY <3>7, <6>1 DEF Past, Target, Transition, Actions
        <5> QED
          BY <5>1, <5>2
      <4>2. Waiting(r)'
        BY <3>7 DEF Waiting
      <4> QED
        BY <3>7, <4>1, <4>2, UnstuckContinue
    <3>8. CASE Skip(h)
      <4>1. PICK r : r = Advance("approve")
        OBVIOUS
      <4>2. r.pc = "advance" /\ r.action = "approve" /\ Continue(h, r)
        BY <3>8, <4>1 DEF Skip, Advance
      <4>3. Heads(r)' = Transition(step, "approve")
        BY <3>1, <3>2, <4>2 DEF Heads, Transition
      <4>4. graph.steps[step].mode # "ALL"
        BY <2>b, <2>c, <3>1, <3>2, <3>8 DEF LeftRefused, Skip, At
      <4> QED
        BY <3>7, <4>2, <4>3, <4>4 DEF Actions
    <3>9. CASE RejectPending(h)
      <4>1. req[h] \in [pc : {"approve", "reject", "rejectOwn", "handover", "escalate"},
                        step : Steps, id : Ids]
        BY <2>a, <3>9, RequestKinds DEF RejectPending, At
      <4>2. PICK r : r = [req[h] EXCEPT !.pc = "rejectOwn"]
        OBVIOUS
      <4>3. r.pc = "rejectOwn" /\ Continue(h, r)
        BY <3>9, <4>1, <4>2 DEF RejectPending
      <4>4. Heads(r)' = Transition(step, "reject")
        BY <3>1, <3>2, <4>3 DEF Heads, Transition
      <4> QED
        BY <3>7, <4>3, <4>4 DEF Actions
    <3> QED
      BY <2>6, <3>8, <3>9
  <2>7. CASE RejectOwn(h)
    <3>1. /\ UNCHANGED <<graph, instance>> /\ req[h].id \in Ids /\ req[h].pc = "rejectOwn"
          /\ Decide({req[h].id}, "REJECTED") /\ approvals[req[h].id].status = "REJECTED"
      BY <2>7, <2>a, RequestKinds DEF RejectOwn, At, Undisturbed, WritesApprovals
    <3>2. SameRows
      <4>1. req[h].id \in Created
        BY <3>1 DEF Created
      <4> QED
        BY <3>1, <4>1, DecideKeeps DEF SameRows, KeptRows, Terminal
    <3>3. PICK r : r = Advance("reject")
      OBVIOUS
    <3>4. r.pc = "advance" /\ r.action = "reject" /\ Continue(h, r)
      BY <2>7, <3>3 DEF RejectOwn, Advance
    <3>5. Heads(r)' = Heads(p)
      BY <2>b, <3>1, <3>4 DEF Heads, Transition
    <3>6. LeftRefused(r)' /\ Waiting(r)'
      BY <2>c, <3>1, <3>2, <3>4, <3>5, SameApproved, LeftGoesOn DEF Waiting
    <3> QED
      BY <3>4, <3>6, UnstuckContinue
  <2>8. CASE AdvanceRead(h)
    <3>1. UNCHANGED <<graph, instance, approvals>> /\ req[h].pc = "advance"
      BY <2>8 DEF AdvanceRead, At, Reads
    <3>2. PICK r : r = [pc |-> "move", then |-> req[h].then,
                        target |-> Transition(instance.step, req[h].action)]
      OBVIOUS
    <3>3. /\ r.pc = "move" /\ r.target = Transition(instance.step, req[h].action)
          /\ Continue(h, r)
      BY <2>8, <3>2 DEF AdvanceRead
    <3>4. Heads(r)' = Heads(p)
      BY <2>b, <3>1, <3>3 DEF Heads
    <3>5. LeftRefused(r)' /\ Waiting(r)'
      BY <1>d, <2>c, <3>1, <3>3, <3>4, SameApproved, LeftGoesOn DEF Waiting
    <3> QED
      BY <3>3, <3>5, UnstuckContinue
  <2>9. CASE Move(h)
    <3>1. UNCHANGED <<graph, approvals>> /\ req[h].pc = "move" /\ Heads(p) = req[h].target
      BY <2>9, <2>b DEF Move, At, Heads, WritesInstance
    <3>2. CASE req[h].target \in Steps
      <4>1. instance' = [status |-> "PENDING", step |-> req[h].target]
        BY <2>9, <3>2, WorkflowAssumption DEF Move
      <4>2. PICK r : r = [pc |-> "assign", step |-> req[h].target, then |-> req[h].then]
        OBVIOUS
      <4>3. r.pc = "assign" /\ Continue(h, r)
        BY <2>9, <3>2, <4>2, WorkflowAssumption DEF Move
      <4>4. Heads(r)' = Heads(p)
        BY <1>e, <3>1, <4>1, <4>3 DEF Heads
      <4>5. LeftRefused(r)' /\ Waiting(r)'
        BY <1>d, <2>c, <3>1, <4>3, <4>4, SameApproved, LeftGoesOn DEF Waiting
      <4> QED
        BY <4>3, <4>5, UnstuckContinue
    <3>3. CASE req[h].target \in Terminal
      <4>1. instance' = [instance EXCEPT !.status = req[h].target]
        BY <2>9, <3>3, WorkflowAssumption DEF Move
      <4>2. instance'.status = req[h].target
        BY <4>1 DEF TypeOK
      <4>3. PICK r : r = [pc |-> "sync", status |-> req[h].target, then |-> req[h].then]
        OBVIOUS
      <4>4. r.pc = "sync" /\ Continue(h, r)
        BY <2>9, <3>3, <4>3, WorkflowAssumption DEF Move
      <4>5. Heads(r)' = Heads(p)
        BY <3>1, <3>3, <4>2, <4>4 DEF Heads
      <4>6. LeftRefused(r)' /\ Waiting(r)'
        BY <1>d, <2>c, <3>1, <4>4, <4>5, SameApproved, LeftGoesOn DEF Waiting
      <4> QED
        BY <4>4, <4>6, UnstuckContinue
    <3> QED
      BY <2>9, <3>2, <3>3 DEF Move
  <2>10. CASE Sync(h)
    <3>1. /\ UNCHANGED <<graph, instance, approvals>> /\ req[h].then \in Returns
          /\ instance.status \in Terminal /\ req[h].pc = "sync"
      BY <2>10, <2>a, RequestKinds DEF Sync, At, Deciding, WritesOrder
    <3>2. PICK r : r = [pc |-> req[h].then]
      OBVIOUS
    <3>3. r.pc \in {"idle", "mark"} /\ Continue(h, r)
      BY <2>10, <3>1, <3>2 DEF Sync, Returns
    <3>4. Heads(r)' = Heads(p)
      BY <2>b, <3>1, <3>3 DEF Heads
    <3>5. LeftRefused(r)'
      BY <1>d, <2>c, <3>1, <3>3, <3>4, SameApproved, LeftGoesOn
    <3>6. Waiting(r)'
      BY <1>e, <3>1 DEF Waiting
    <3> QED
      BY <3>3, <3>5, <3>6, UnstuckContinue
  <2>11. CASE CancelApprovals(h)
    <3>1. graph' = graph
      BY <2>11 DEF CancelApprovals, WritesApprovals
    <3>2. PICK r : r = [pc |-> "cancelled"]
      OBVIOUS
    <3>3. r.pc = "cancelled" /\ Continue(h, r)
      BY <2>11, <3>2 DEF CancelApprovals
    <3>4. Heads(r)' \in Terminal
      BY <3>3 DEF Heads, Terminal
    <3>5. LeftRefused(r)' /\ Waiting(r)'
      BY <3>3, <3>4 DEF LeftRefused, Waiting
    <3> QED
      BY <3>3, <3>5, UnstuckContinue
  <2>12. CASE CancelInstance(h)
    <3>1. instance'.status = "ARCHIVED"
      BY <2>12 DEF CancelInstance, TypeOK
    <3>2. PICK r : r = Idle
      OBVIOUS
    <3>3. r.pc = "idle" /\ Continue(h, r)
      BY <2>12, <3>2 DEF CancelInstance, Done, Idle
    <3>4. Heads(r)' \in Terminal
      BY <3>1, <3>3 DEF Heads, Terminal
    <3>5. LeftRefused(r)' /\ Waiting(r)'
      BY <3>1, <3>3, <3>4 DEF LeftRefused, Waiting
    <3> QED
      BY <3>3, <3>5, UnstuckContinue
  <2> QED
    BY <1>1, <2>1, <2>2, <2>3, <2>4, <2>5, <2>6, <2>7, <2>8, <2>9, <2>10, <2>11, <2>12
       DEF RequestStep
<1>2. ASSUME NEW h \in Handlers,
             Submit(h) \/ ReadInstance(h) \/ CancelRead(h) \/ RequestStep(h)
      PROVE  failures' = failures
  BY <1>2 DEF Submit, ReadInstance, CancelRead, RequestStep, Assign, Mark, Pick, Approve,
     Gate, Skip, RejectPending, RejectOwn, AdvanceRead, Move, Sync, Handover, Escalate,
     CancelApprovals, CancelInstance, Reads, WritesApprovals, WritesInstance, WritesOrder
<1>3. ASSUME NEW h \in Handlers, RequestFails(h) PROVE failures' # 0
  BY <1>0, <1>3 DEF RequestFails
<1>4. ASSUME NEW t \in Timers, Timer(t) \/ TimerFails(t) PROVE Unstuck'
  <2>1. CASE TimerFails(t)
    <3>1. failures' # 0
      BY <1>0, <2>1 DEF TimerFails
    <3> QED
      BY <1>b, <3>1
  <2>2. CASE Timer(t)
    <3>1. SameRows
      BY <1>d, <2>2, ScanWriteKeeps DEF Timer, ScanBegin, ScanTask, ScanInstance, Scans, SameRows
    <3> QED
      BY <2>2, <3>1, UnstuckFrame DEF Timer, ScanBegin, ScanTask, ScanInstance, ScanWrite, Scans
  <2> QED
    BY <1>4, <2>1, <2>2
<1>5. ASSUME NEW v \in Visits, FallDue(v) PROVE Unstuck'
  BY <1>5, <1>d, UnstuckFrame DEF FallDue
<1>6. CASE UNCHANGED vars
  BY <1>6, <1>d, UnstuckFrame DEF vars
<1>7. CASE \E h \in Handlers : Submit(h) \/ ReadInstance(h) \/ CancelRead(h) \/ RequestStep(h)
  <2>1. PICK h \in Handlers : Submit(h) \/ ReadInstance(h) \/ CancelRead(h) \/ RequestStep(h)
    BY <1>7
  <2>2. failures' = failures
    BY <1>2, <2>1
  <2> QED
    BY <1>1, <1>b, <2>1, <2>2
<1>8. CASE \E h \in Handlers : RequestFails(h)
  BY <1>8, <1>3, <1>b
<1> QED
  BY <1>4, <1>5, <1>6, <1>7, <1>8, Zenon DEF Next

(* While a workflow is pending, requests do not overlap and none has       *)
(* failed half way, there is an approval left to decide on its step, for   *)
(* all definitions whose steps can be decided at all (ensureStepApprovals, *)
(* resolveApprovalGate).                                                   *)
THEOREM WorkflowsAreNeverStuck ==
  ASSUME OneAtATime, StepsDecidable
  PROVE  Spec => []SomebodyDecides
<1>0. Spec => [](instance.status # "NONE" => Handlers # {})
  <2>1. Init => (instance.status # "NONE" => Handlers # {})
    BY DEF Init
  <2>2. /\ instance.status # "NONE" => Handlers # {}
        /\ [Next]_vars
        => (instance.status # "NONE" => Handlers # {})'
    <3>1. ASSUME Handlers = {}, [Next]_vars PROVE UNCHANGED instance
      BY <3>1 DEF Next, vars, Timer, ScanBegin, ScanTask, ScanInstance, ScanWrite, Scans,
                  TimerFails, FallDue
    <3> QED
      BY <3>1
  <2> QED
    BY <2>1, <2>2, PTL DEF Spec
<1>1. Init => Unstuck
  <2> SUFFICES ASSUME Init PROVE Unstuck
    OBVIOUS
  <2>1. \A s : Refused(s) = {}
    BY DEF Init, Refused, OfStep, Created, NoApproval
  <2> QED
    BY <2>1 DEF Init, Unstuck, LeftRefused, Waiting, Idle
<1>2. TypeOK /\ Undisturbed /\ Gated /\ [Next]_vars => Gated'
  BY GatedInductive
<1>3. TypeOK /\ Undisturbed /\ Gated /\ Unstuck /\ [Next]_vars => Unstuck'
  BY UnstuckInductive
<1>4. (instance.status # "NONE" => Handlers # {}) /\ Unstuck => SomebodyDecides
  <2> SUFFICES ASSUME Handlers # {}, Unstuck, Quiet, failures = 0, instance.status = "PENDING"
               PROVE  Having(OfStep(instance.step), "PENDING") # {}
    BY DEF SomebodyDecides
  <2>1. PICK h \in Handlers : TRUE
    OBVIOUS
  <2> QED
    BY <2>1 DEF Unstuck, Waiting, Quiet, Idle
<1> QED
  BY <1>0, <1>1, <1>2, <1>3, <1>4, InitGated, InitUndisturbed, UndisturbedInductive, TypeCorrect, PTL
     DEF Spec
-----------------------------------------------------------------------------
(* Workflow implements ApprovalProcess: what the order has to wait for.    *)
Unsettled == order \in {"OPEN", "PENDING"}

Trailing(r) ==
  /\ r.pc = "sync" => r.status = instance.status /\ Unsettled
  /\ r.pc \in {"advance", "move", "sync"} => r.then = "idle"
  /\ r.pc = "mark" => instance.status = "PENDING" /\ order = "OPEN"
  /\ r.pc = "assign" /\ r.then = "mark" => r.step = graph.initial /\ order = "OPEN"

OrderWaits ==
  /\ instance.status \notin Terminal => Unsettled
  /\ instance.status = "NONE" => order = "OPEN"

SettledOnce == OrderWaits /\ \A h \in Handlers : Trailing(req[h])

LEMMA TrailingContinue ==
  ASSUME OneAtATime, TypeOK, NEW h \in Handlers, NEW r, Continue(h, r),
         Trailing(r)', OrderWaits'
  PROVE  SettledOnce'
<1>1. \A g \in Handlers : req'[g] = r
  BY DEF Continue, TypeOK, OneAtATime
<1>2. \A g \in Handlers : Trailing(req[g])'
  BY <1>1 DEF Trailing, Unsettled
<1> QED
  BY <1>2 DEF SettledOnce

(* Steps that leave order, workflow and graph alone.                       *)
LEMMA TrailingPlain ==
  ASSUME OneAtATime, TypeOK, SettledOnce, UNCHANGED <<graph, order, instance>>,
         NEW h \in Handlers, NEW r, Continue(h, r), r.pc \notin {"assign", "mark", "sync"},
         r.pc \in {"advance", "move"} => r.then = "idle"
  PROVE  SettledOnce'
<1>1. Trailing(r)' /\ OrderWaits'
  BY DEF Trailing, SettledOnce, OrderWaits, Unsettled
<1> QED
  BY <1>1, TrailingContinue

LEMMA TrailingDone ==
  ASSUME OneAtATime, TypeOK, NEW h \in Handlers, Done(h), OrderWaits'
  PROVE  SettledOnce'
<1>1. Trailing(Idle)'
  BY DEF Trailing, Idle
<1> QED
  BY <1>1, TrailingContinue DEF Done

(* The order is held before its workflow can end and settled when it did.  *)
LEMMA SettledInductive ==
  ASSUME OneAtATime, FirstStepAssigned, TypeOK, Undisturbed, SettledOnce, [Next]_vars
  PROVE  SettledOnce'
<1>0. graph \in Definitions /\ instance.status \in RowStatuses
  BY DEF TypeOK
<1>a. ASSUME NEW h \in Handlers
      PROVE  /\ Trailing(req[h]) /\ req[h] \in Requests /\ OrderWaits
             /\ req[h].pc \notin {"idle", "mark", "sync"} => instance.status = "PENDING"
  BY DEF SettledOnce, TypeOK, Undisturbed
<1>b. ASSUME UNCHANGED <<graph, order, instance, req>> PROVE SettledOnce'
  BY <1>b DEF SettledOnce, Trailing, OrderWaits, Unsettled
<1>c. "PENDING" \notin Terminal /\ "NONE" \notin Terminal
  BY DEF Terminal
<1>1. ASSUME NEW h \in Handlers, Submit(h) PROVE SettledOnce'
  <2>1. PICK r : r = [pc |-> "assign", step |-> graph.initial, then |-> "mark"]
    OBVIOUS
  <2>2. /\ Continue(h, r) /\ graph' = graph /\ order' = order
        /\ instance.status = "NONE" /\ instance'.status = "PENDING"
        /\ r.pc = "assign" /\ r.step = graph.initial
    BY <1>1, <2>1 DEF Submit, WritesInstance
  <2>3. order = "OPEN"
    BY <1>a, <2>2 DEF OrderWaits
  <2>4. Trailing(r)' /\ OrderWaits'
    BY <2>2, <2>3 DEF Trailing, OrderWaits, Unsettled
  <2> QED
    BY <2>2, <2>4, TrailingContinue
<1>2. ASSUME NEW h \in Handlers, Assign(h) PROVE SettledOnce'
  <2>1. /\ req[h].pc = "assign" /\ UNCHANGED <<graph, order, instance>>
        /\ instance.status = "PENDING" /\ req[h].then \in {"idle", "mark"}
    BY <1>2, <1>a, RequestKinds DEF Assign, At, Reads, WritesApprovals, Returns
  <2>2. CASE req[h].then = "mark"
    <3>1. graph.steps[req[h].step].assignees # {} /\ order = "OPEN"
      BY <1>0, <1>a, <2>1, <2>2 DEF Trailing, FirstStepAssigned
    <3>2. Continue(h, [pc |-> "mark"])
      BY <1>2, <2>2, <3>1 DEF Assign
    <3>3. Trailing([pc |-> "mark"])' /\ OrderWaits'
      BY <1>a, <2>1, <3>1 DEF Trailing, OrderWaits, Unsettled
    <3> QED
      BY <3>2, <3>3, TrailingContinue
  <2>3. CASE req[h].then = "idle"
    <3>1. \/ Continue(h, [pc |-> "idle"])
          \/ Continue(h, [pc |-> "advance", action |-> "approve", then |-> "idle"])
      BY <1>2, <2>3 DEF Assign, Done, Idle
    <3> QED
      BY <2>1, <3>1, TrailingPlain
  <2> QED
    BY <2>1, <2>2, <2>3
<1>3. ASSUME NEW h \in Handlers, Mark(h) PROVE SettledOnce'
  <2>1. Done(h) /\ order' = "PENDING" /\ instance' = instance /\ instance.status = "PENDING"
    BY <1>3, <1>a DEF Mark, At, WritesOrder, Trailing
  <2>2. OrderWaits'
    BY <2>1 DEF OrderWaits, Unsettled
  <2> QED
    BY <2>1, <2>2, TrailingDone
<1>4. ASSUME NEW h \in Handlers,
             \/ ReadInstance(h) \/ CancelRead(h) \/ Pick(h) \/ Approve(h) \/ Gate(h) \/ Skip(h)
             \/ RejectPending(h) \/ RejectOwn(h) \/ Handover(h) \/ Escalate(h)
             \/ CancelApprovals(h) \/ RequestFails(h)
      PROVE  SettledOnce'
  <2>1. UNCHANGED <<graph, order, instance>>
    BY <1>4 DEF ReadInstance, CancelRead, Pick, Approve, Gate, Skip, RejectPending, RejectOwn,
       Handover, Escalate, CancelApprovals, RequestFails, Reads, WritesApprovals
  <2>2. ASSUME NEW r, Continue(h, r), r.pc \notin {"assign", "mark", "sync", "move"},
               r.pc = "advance" => r.then = "idle"
        PROVE  SettledOnce'
    BY <2>1, <2>2, TrailingPlain
  <2>3. CASE Pick(h)
    <3>1. \/ Done(h)
          \/ \E id \in Ids, decision \in Decisions :
               Continue(h, [pc |-> decision, step |-> req[h].step, id |-> id])
      BY <2>3 DEF Pick, Having, OfStep, Created
    <3> QED
      BY <2>2, <3>1, WorkflowAssumption DEF Done, Idle
  <2>4. CASE RejectPending(h)
    <3>1. req[h] \in [pc : {"approve", "reject", "rejectOwn", "handover", "escalate"},
                      step : Steps, id : Ids]
      BY <1>a, <2>4, RequestKinds DEF RejectPending, At
    <3>2. PICK r : r = [req[h] EXCEPT !.pc = "rejectOwn"]
      OBVIOUS
    <3>3. r.pc = "rejectOwn" /\ Continue(h, r)
      BY <2>4, <3>1, <3>2 DEF RejectPending
    <3> QED
      BY <2>2, <3>3
  <2>5. CASE Gate(h) \/ Skip(h) \/ RejectOwn(h) \/ Approve(h)
    <3>1. \/ Done(h) \/ Continue(h, [pc |-> "skip", step |-> req[h].step])
          \/ Continue(h, [pc |-> "gate", step |-> req[h].step])
          \/ Continue(h, Advance("approve")) \/ Continue(h, Advance("reject"))
      BY <2>5 DEF Gate, Skip, RejectOwn, Approve
    <3> QED
      BY <2>2, <3>1 DEF Done, Idle, Advance
  <2>6. CASE ReadInstance(h) \/ CancelRead(h) \/ CancelApprovals(h) \/ Handover(h)
             \/ Escalate(h) \/ RequestFails(h)
    <3>1. \/ Done(h) \/ Continue(h, [pc |-> "pick", step |-> instance.step])
          \/ Continue(h, [pc |-> "cancel"]) \/ Continue(h, [pc |-> "cancelled"])
      BY <2>6 DEF ReadInstance, CancelRead, CancelApprovals, Handover, Escalate, RequestFails
    <3> QED
      BY <2>2, <3>1 DEF Done, Idle
  <2> QED
    BY <1>4, <2>3, <2>4, <2>5, <2>6
<1>5. ASSUME NEW h \in Handlers, AdvanceRead(h) PROVE SettledOnce'
  <2>1. /\ req[h].pc = "advance" /\ UNCHANGED <<graph, order, instance>>
        /\ req[h].then = "idle"
    BY <1>5, <1>a DEF AdvanceRead, At, Reads, Trailing
  <2>2. PICK target : Continue(h, [pc |-> "move", then |-> "idle", target |-> target])
    BY <1>5, <2>1 DEF AdvanceRead
  <2> QED
    BY <2>1, <2>2, TrailingPlain
<1>6. ASSUME NEW h \in Handlers, Move(h) PROVE SettledOnce'
  <2>1. /\ req[h].pc = "move" /\ UNCHANGED <<graph, order>>
        /\ req[h].then = "idle" /\ instance.status = "PENDING" /\ Unsettled
    BY <1>6, <1>a, <1>c DEF Move, At, WritesInstance, Trailing, OrderWaits
  <2>2. CASE req[h].target \in Steps
    <3>1. PICK r : r = [pc |-> "assign", step |-> req[h].target, then |-> "idle"]
      OBVIOUS
    <3>2. instance'.status = "PENDING" /\ Continue(h, r)
      BY <1>6, <2>1, <2>2, <3>1, WorkflowAssumption DEF Move
    <3>3. Trailing(r)' /\ OrderWaits'
      BY <2>1, <3>1, <3>2 DEF Trailing, OrderWaits, Unsettled
    <3> QED
      BY <3>2, <3>3, TrailingContinue
  <2>3. CASE req[h].target \notin Steps
    <3>1. PICK r : r = [pc |-> "sync", status |-> req[h].target, then |-> "idle"]
      OBVIOUS
    <3>2. /\ instance' = [instance EXCEPT !.status = req[h].target]
          /\ req[h].target \in Terminal /\ Continue(h, r)
      BY <1>6, <2>1, <2>3, <3>1 DEF Move
    <3>3. instance'.status = req[h].target
      BY <3>2 DEF TypeOK
    <3>4. Trailing(r)' /\ OrderWaits'
      BY <1>c, <2>1, <3>1, <3>2, <3>3 DEF Trailing, OrderWaits, Unsettled
    <3> QED
      BY <3>2, <3>4, TrailingContinue
  <2> QED
    BY <2>2, <2>3
<1>7. ASSUME NEW h \in Handlers, Sync(h) PROVE SettledOnce'
  <2>1. /\ req[h].pc = "sync" /\ instance' = instance /\ req[h].then = "idle"
        /\ instance.status \in Terminal
    BY <1>7, <1>a, RequestKinds DEF Sync, At, WritesOrder, Trailing
  <2>2. Done(h) /\ OrderWaits'
    BY <1>7, <1>c, <2>1 DEF Sync, Done, Idle, OrderWaits
  <2> QED
    BY <2>2, TrailingDone
<1>8. ASSUME NEW h \in Handlers, CancelInstance(h) PROVE SettledOnce'
  <2>1. Done(h) /\ instance' = [instance EXCEPT !.status = "ARCHIVED"]
    BY <1>8 DEF CancelInstance
  <2>2. OrderWaits'
    BY <2>1 DEF TypeOK, OrderWaits, Terminal
  <2> QED
    BY <2>1, <2>2, TrailingDone
<1>9. ASSUME NEW t \in Timers, Timer(t) \/ TimerFails(t) PROVE SettledOnce'
  BY <1>9, <1>b DEF Timer, TimerFails, ScanBegin, ScanTask, ScanInstance, ScanWrite, Scans
<1>10. ASSUME NEW v \in Visits, FallDue(v) PROVE SettledOnce'
  BY <1>10, <1>b DEF FallDue
<1>11. CASE UNCHANGED vars
  BY <1>11, <1>b DEF vars
<1> QED
  BY <1>1, <1>2, <1>3, <1>4, <1>5, <1>6, <1>7, <1>8, <1>9, <1>10, <1>11 DEF Next, RequestStep
-----------------------------------------------------------------------------
(* The ballots are those of the approvals that were created and approved.  *)
LEMMA BallotFields ==
  ASSUME NEW s
  PROVE  /\ Ballot(s).asked = Cardinality(LatestVisit(s))
         /\ Ballot(s).given = Cardinality(Having(LatestVisit(s), "APPROVED"))
         /\ Ballot(s) = [asked |-> Ballot(s).asked, given |-> Ballot(s).given]
BY DEF Ballot

LEMMA BallotsKept ==
  ASSUME KeptRows,
         \A id \in Created : approvals'[id].status = "APPROVED" <=> approvals[id].status = "APPROVED"
  PROVE  Ballots' = Ballots
<1>1. ASSUME NEW s PROVE Ballot(s)' = Ballot(s)
  <2>1. LatestVisit(s)' = LatestVisit(s) /\ LatestVisit(s) \subseteq Created
    BY KeptTables DEF LatestVisit, OfStep
  <2>2. Having(LatestVisit(s), "APPROVED")' = Having(LatestVisit(s), "APPROVED")
    BY <2>1 DEF Having
  <2> QED
    BY <2>1, <2>2 DEF Ballot
<1> QED
  BY <1>1 DEF Ballots

(* Entering a step opens a ballot with one vote for each who is assigned.  *)
LEMMA BallotOpens ==
  ASSUME TypeOK, VisitsInOrder, NEW s \in Steps, NEW v \in Fresh, Assigned(graph, s),
         \A w \in Fresh : v <= w,
         approvals' = [id \in Ids |->
           IF id[1] = v /\ id[2] \in graph.steps[s].assignees
           THEN [status |-> "PENDING", step |-> s, approver |-> id[2], escalated |-> FALSE]
           ELSE approvals[id]]
  PROVE  Ballots' = [Ballots EXCEPT ![s] =
           [asked |-> Cardinality(graph.steps[s].assignees), given |-> 0]]
<1> DEFINE assignees == graph.steps[s].assignees
<1>1. /\ Created' = Created \cup Asked(v, s) /\ Created \cap Asked(v, s) = {}
      /\ OfStep(s)' = OfStep(s) \cup Asked(v, s)
      /\ \A other : other # s => OfStep(other)' = OfStep(other)
      /\ \A id \in Asked(v, s) : approvals'[id].status = "PENDING" /\ id[1] = v
      /\ \A id \in Ids \ Asked(v, s) : approvals'[id] = approvals[id]
      /\ \A id \in Created : id[1] < v
  BY AssignTables
<1>2. v \in Visits /\ v \in Nat /\ assignees \subseteq Users /\ IsFiniteSet(assignees)
  BY StepFields, FS_Subset, WorkflowAssumption DEF TypeOK, Fresh
<1>3. Asked(v, s) # {}
  <2>1. PICK u \in assignees : u \in Users
    BY <1>2 DEF Assigned
  <2>2. <<v, u>> \in Asked(v, s)
    BY <1>2, <2>1 DEF Asked, Ids
  <2> QED
    BY <2>2
<1>4. LatestVisit(s)' = Asked(v, s)
  <2>1. \A id \in OfStep(s) : id[1] < v /\ id[1] \in Nat
    BY <1>1, WorkflowAssumption DEF OfStep, Created, Ids
  <2>2. \A id \in Asked(v, s), other \in OfStep(s)' : other[1] <= id[1]
    BY <1>1, <1>2, <2>1
  <2>3. \A id \in OfStep(s) : \E other \in OfStep(s)' : ~(other[1] <= id[1])
    BY <1>1, <1>2, <1>3, <2>1
  <2> QED
    BY <1>1, <2>2, <2>3 DEF LatestVisit
<1>5. Cardinality(Asked(v, s)) = Cardinality(assignees)
  <2> DEFINE f == [u \in assignees |-> <<v, u>>]
  <2>1. f \in Bijection(assignees, Asked(v, s))
    <3>1. \A u \in assignees : f[u] \in Asked(v, s)
      BY <1>2 DEF Asked, Ids
    <3>2. \A a, b \in assignees : f[a] = f[b] => a = b
      OBVIOUS
    <3>3. \A id \in Asked(v, s) : \E u \in assignees : f[u] = id
      BY DEF Asked, Ids
    <3> QED
      BY <3>1, <3>2, <3>3 DEF Bijection, Injection, Surjection, IsInjective
  <2> QED
    BY <1>2, <2>1, FS_Bijection DEF ExistsBijection
<1>7. Ballot(s)' = [asked |-> Cardinality(assignees), given |-> 0]
  <2>1. Having(LatestVisit(s), "APPROVED")' = {}
    BY <1>1, <1>4 DEF Having
  <2> QED
    BY <1>4, <1>5, <2>1, FS_EmptySet DEF Ballot
<1>8. ASSUME NEW other, other # s PROVE Ballot(other)' = Ballot(other)
  <2>1. LatestVisit(other)' = LatestVisit(other)
    BY <1>1, <1>8 DEF LatestVisit
  <2>2. \A id \in LatestVisit(other) : approvals'[id] = approvals[id]
    BY <1>1 DEF LatestVisit, OfStep, Created
  <2>3. Having(LatestVisit(other), "APPROVED")' = Having(LatestVisit(other), "APPROVED")
    BY <2>1, <2>2 DEF Having
  <2> QED
    BY <2>1, <2>3 DEF Ballot
<1> QED
  BY <1>7, <1>8 DEF Ballots

(* An approval is a vote more on the ballot of the present step.           *)
LEMMA BallotGains ==
  ASSUME TypeOK, VisitsInOrder, NEW s \in Steps, NEW id \in LatestVisit(s),
         approvals[id].status = "PENDING", Decide({id}, "APPROVED")
  PROVE  /\ Ballots[s].given < Ballots[s].asked
         /\ Ballots' = [Ballots EXCEPT ![s].given = @ + 1]
<1> DEFINE given == Having(LatestVisit(s), "APPROVED")
<1>0. id \in OfStep(s) /\ id \in Created /\ id \in Ids
  BY DEF LatestVisit, OfStep, Created
<1>1. /\ KeptRows
      /\ \A other \in Ids : approvals'[other].status =
           IF other \in {id} THEN "APPROVED" ELSE approvals[other].status
  BY <1>0, DecideKeeps DEF Terminal
<1>2. \A other : LatestVisit(other)' = LatestVisit(other) /\ LatestVisit(other) \subseteq Ids
  BY <1>1, KeptTables DEF LatestVisit, OfStep, Created
<1>3. /\ IsFiniteSet(given) /\ IsFiniteSet(LatestVisit(s))
      /\ Cardinality(given) \in Nat /\ Cardinality(LatestVisit(s)) \in Nat
  BY VisitFinite DEF VisitsInOrder
<1>4. id \notin given /\ given \in SUBSET LatestVisit(s)
  BY DEF Having
<1>5. Having(LatestVisit(s), "APPROVED")' = given \cup {id}
  BY <1>1, <1>2 DEF Having
<1>6. Cardinality(given \cup {id}) = Cardinality(given) + 1
  BY <1>3, <1>4, FS_AddElement
<1>7. Cardinality(given) < Cardinality(LatestVisit(s))
  <2>1. Cardinality(given) <= Cardinality(LatestVisit(s)) /\
          (Cardinality(given) = Cardinality(LatestVisit(s)) => given = LatestVisit(s))
    BY <1>3, <1>4, FS_Subset
  <2> QED
    BY <1>3, <1>4, <2>1
<1>8. Ballot(s)' = [asked |-> Ballot(s).asked, given |-> Ballot(s).given + 1]
  BY <1>2, <1>5, <1>6, BallotFields DEF Ballot
<1>9. ASSUME NEW other, other # s PROVE Ballot(other)' = Ballot(other)
  <2>1. id \notin LatestVisit(other)
    BY <1>0, <1>9 DEF LatestVisit, OfStep
  <2>2. Having(LatestVisit(other), "APPROVED")' = Having(LatestVisit(other), "APPROVED")
    BY <1>1, <1>2, <2>1 DEF Having
  <2> QED
    BY <1>2, <2>2 DEF Ballot
<1>10. Ballots[s] = [asked |-> Ballot(s).asked, given |-> Ballot(s).given]
  BY BallotFields DEF Ballots
<1>11. Ballots' = [Ballots EXCEPT ![s] = [asked |-> Ballot(s).asked, given |-> Ballot(s).given + 1]]
  BY <1>8, <1>9 DEF Ballots
<1> QED
  BY <1>7, <1>10, <1>11, BallotFields

(* What the gate let pass is carried by the ballot.                        *)
LEMMA BallotCarries ==
  ASSUME GateJudgesVisit, TypeOK, VisitsInOrder, instance.step \in Steps,
         Assigned(graph, instance.step), Passable(instance.step)
  PROVE  Process!Carried
<1>1. PICK s \in Steps : s = instance.step
  OBVIOUS
<1> DEFINE given == Having(LatestVisit(s), "APPROVED")
<1>2. /\ IsFiniteSet(given) /\ IsFiniteSet(LatestVisit(s))
      /\ Cardinality(given) \in Nat /\ Cardinality(LatestVisit(s)) \in Nat
  BY VisitFinite DEF VisitsInOrder
<1>3. Cardinality(given) > 0 /\ Cardinality(given) >= Required(s, Cardinality(LatestVisit(s)))
  <2>1. given # {} /\ Satisfied(s)
    BY <1>1 DEF Passable
  <2> QED
    BY <1>2, <2>1, FS_EmptySet DEF Satisfied
<1>4. Cardinality(given) <= Cardinality(LatestVisit(s))
  BY <1>2, FS_Subset DEF Having
<1>5. graph.steps[s].min \in Nat
  BY WorkflowAssumption DEF TypeOK, StepRecord
<1>6. graph.steps[s].mode = "ALL" => Cardinality(given) = Cardinality(LatestVisit(s))
  BY <1>2, <1>3, <1>4 DEF Required, AtLeast
<1>7. graph.steps[s].mode = "MIN_N" =>
        \/ Cardinality(given) >= graph.steps[s].min
        \/ Cardinality(given) = Cardinality(LatestVisit(s))
  BY <1>2, <1>3, <1>4, <1>5 DEF Required, AtLeast, AtMost
<1>8. Ballots[s].asked = Cardinality(LatestVisit(s)) /\ Ballots[s].given = Cardinality(given)
  BY BallotFields DEF Ballots
<1> QED
  BY <1>1, <1>3, <1>6, <1>7, <1>8 DEF Process!Carried, Process!Step
-----------------------------------------------------------------------------
(* Only the request under way can be entering a step.                      *)
LEMMA EnteringIsItsStatement ==
  ASSUME OneAtATime, TypeOK, NEW h \in Handlers, NEW r, Continue(h, r)
  PROVE  Entering = (req[h].pc = "assign") /\ Entering' = (r.pc = "assign")
<1>1. \A g \in Handlers : g = h /\ req'[g] = r
  BY DEF Continue, TypeOK, OneAtATime
<1> QED
  BY <1>1 DEF Entering, At

(* A statement that neither enters a step, nor votes, nor moves workflow   *)
(* or order, is no step of the process.                                    *)
LEMMA ProcessStutters ==
  ASSUME OneAtATime, TypeOK, UNCHANGED <<graph, instance, order>>,
         NEW h \in Handlers, NEW r, Continue(h, r),
         req[h].pc # "assign", r.pc # "assign", KeptRows,
         \A id \in Created : approvals'[id].status = "APPROVED" <=> approvals[id].status = "APPROVED"
  PROVE  UNCHANGED Process!processVars
<1>1. Entering' = Entering
  BY EnteringIsItsStatement
<1>2. Ballots' = Ballots
  BY BallotsKept
<1> QED
  BY <1>1, <1>2 DEF Process!processVars

LEMMA SameRowsKeepBallots == SameRows => Ballots' = Ballots
<1> SUFFICES ASSUME SameRows PROVE Ballots' = Ballots
  OBVIOUS
<1>1. KeptRows
  BY SameKept
<1>2. \A id \in Created : approvals'[id].status = "APPROVED" <=> approvals[id].status = "APPROVED"
  BY DEF SameRows, Created
<1> QED
  BY <1>1, <1>2, BallotsKept

LEMMA SubmissionBegins ==
  ASSUME OneAtATime, TypeOK, NEW h \in Handlers, Submit(h)
  PROVE  Process!Begin
<1>1. PICK r : r = [pc |-> "assign", step |-> graph.initial, then |-> "mark"]
  OBVIOUS
<1>2. Continue(h, r) /\ r.pc = "assign" /\ UNCHANGED <<graph, order, approvals>>
  BY <1>1 DEF Submit, WritesInstance
<1>3. Entering' = TRUE
  BY <1>2, EnteringIsItsStatement
<1>4. Ballots' = Ballots
  BY <1>2, SameRowsKeepBallots DEF SameRows
<1> QED
  BY <1>2, <1>3, <1>4 DEF Submit, Process!Begin, Process!Enter

(* The process counts as FiniteSets does.                                  *)
LEMMA ProcessCounts == \A S : Process!Cardinality(S) = Cardinality(S)
BY DEF Process!Cardinality, Cardinality

(* Creating the approvals of a step asks everybody, on a new ballot; a     *)
(* step that nobody is assigned to goes without one.                       *)
LEMMA AssigningAsks ==
  ASSUME OneAtATime, TypeOK, Gated, NEW h \in Handlers, Assign(h)
  PROVE  Process!Ask \/ Process!Waive
<1>1. /\ req[h].pc = "assign" /\ req[h] \in Requests /\ Deciding(req[h]) /\ VisitsInOrder
      /\ UNCHANGED <<graph, instance, order>>
  BY DEF Assign, At, Reads, WritesApprovals, TypeOK, Gated
<1>2. req[h].then \in {"idle", "mark"} /\ req[h].step \in Steps
  BY <1>1, RequestKinds DEF Returns
<1>3. PICK s \in Steps : s = req[h].step /\ s = instance.step
  BY <1>1, <1>2 DEF Deciding
<1>4. PICK r : Continue(h, r) /\ r.pc # "assign"
  BY <1>2 DEF Assign, Done, Idle
<1>5. Entering = TRUE /\ Entering' = FALSE
  BY <1>1, <1>4, EnteringIsItsStatement
<1>6. CASE Assigned(graph, s)
  <2>1. PICK v \in Fresh :
          /\ \A w \in Fresh : v <= w
          /\ approvals' = [id \in Ids |->
               IF id[1] = v /\ id[2] \in graph.steps[s].assignees
               THEN [status |-> "PENDING", step |-> s, approver |-> id[2], escalated |-> FALSE]
               ELSE approvals[id]]
    BY <1>3, <1>6 DEF Assign, Assigned
  <2>2. Ballots' = [Ballots EXCEPT ![s] =
                      [asked |-> Cardinality(graph.steps[s].assignees), given |-> 0]]
    BY <1>1, <1>6, <2>1, BallotOpens
  <2>3. Process!Step.assignees = graph.steps[s].assignees
    BY <1>3 DEF Process!Step
  <2>4. Ballots' = [Ballots EXCEPT ![instance.step] =
                      [asked |-> Process!Cardinality(Process!Step.assignees), given |-> 0]]
    BY <1>3, <2>2, <2>3, ProcessCounts
  <2> QED
    BY <1>1, <1>5, <1>6, <2>3, <2>4 DEF Process!Ask, Assigned
<1>7. CASE ~Assigned(graph, s)
  <2>1. approvals' = approvals
    BY <1>3, <1>7 DEF Assign, Assigned, Reads
  <2>2. Ballots' = Ballots
    BY <2>1, SameRowsKeepBallots DEF SameRows
  <2> QED
    BY <1>1, <1>5, <2>2 DEF Process!Waive
<1> QED
  BY <1>6, <1>7

LEMMA ApprovingVotes ==
  ASSUME OneAtATime, TypeOK, Undisturbed, Gated, NEW h \in Handlers, Approve(h)
  PROVE  Process!Vote
<1>1. /\ req[h].pc = "approve" /\ req[h] \in Requests /\ Deciding(req[h]) /\ VisitsInOrder
      /\ UNCHANGED <<graph, instance, order>> /\ instance.status = "PENDING"
  BY DEF Approve, At, WritesApprovals, TypeOK, Gated, Undisturbed
<1>2. PICK id \in Ids : id = req[h].id
  BY <1>1, RequestKinds
<1>3. approvals[id].status = "PENDING" /\ Decide({id}, "APPROVED")
  BY <1>1, <1>2 DEF Undisturbed, Approve
<1>4. PICK s \in Steps : s = instance.step
  BY <1>1 DEF TypeOK
<1>5. id \in LatestVisit(s)
  BY <1>1, <1>3, <1>4 DEF VisitsInOrder, Having, Created
<1>6. /\ Ballots[s].given < Ballots[s].asked
      /\ Ballots' = [Ballots EXCEPT ![s].given = @ + 1]
  BY <1>1, <1>3, <1>5, BallotGains
<1>7. PICK r : Continue(h, r) /\ r.pc = "gate"
  BY DEF Approve
<1>8. Entering = FALSE /\ Entering' = FALSE
  BY <1>1, <1>7, EnteringIsItsStatement
<1> QED
  BY <1>1, <1>4, <1>6, <1>8 DEF Process!Vote, Process!Running

(* What moves the workflow is an approval that its ballot carries, or a    *)
(* rejection.                                                              *)
LEMMA MovingDecides ==
  ASSUME OneAtATime, GateJudgesVisit, TypeOK, Undisturbed, Gated, NEW h \in Handlers, Move(h)
  PROVE  Process!Approve \/ Process!Reject
<1>1. /\ req[h].pc = "move" /\ req[h] \in Requests /\ Judged(req[h]) /\ VisitsInOrder
      /\ UNCHANGED <<graph, order, approvals>> /\ instance.status = "PENDING"
  BY DEF Move, At, WritesInstance, TypeOK, Gated, Undisturbed
<1>2. PICK s \in Steps : s = instance.step
  BY <1>1 DEF TypeOK
<1>3. PICK target : target = req[h].target
  OBVIOUS
<1>4. Ballots' = Ballots
  BY <1>1, SameRowsKeepBallots DEF SameRows
<1>5. Process!Leave(target)
  <2>1. CASE target \in Steps
    <3>1. PICK r : r = [pc |-> "assign", step |-> target, then |-> req[h].then]
      OBVIOUS
    <3>2. Continue(h, r) /\ r.pc = "assign" /\ instance' = [status |-> "PENDING", step |-> target]
      BY <1>3, <2>1, <3>1, WorkflowAssumption DEF Move
    <3>3. Entering' = TRUE
      BY <3>2, EnteringIsItsStatement
    <3> QED
      BY <1>1, <1>4, <2>1, <3>2, <3>3 DEF Process!Leave, Process!Enter
  <2>2. CASE target \notin Steps
    <3>1. PICK r : r = [pc |-> "sync", status |-> target, then |-> req[h].then]
      OBVIOUS
    <3>2. /\ Continue(h, r) /\ r.pc = "sync" /\ target \in Terminal
          /\ instance' = [instance EXCEPT !.status = target]
      BY <1>3, <2>2, <3>1 DEF Move
    <3>3. Entering' = Entering
      BY <1>1, <3>2, EnteringIsItsStatement
    <3> QED
      BY <1>1, <1>4, <3>2, <3>3 DEF Process!Leave
  <2> QED
    BY <2>1, <2>2
<1>6. Entering = FALSE
  <2>1. PICK r : Continue(h, r)
    BY DEF Move
  <2> QED
    BY <1>1, <2>1, EnteringIsItsStatement
<1>7. Process!Running
  BY <1>1, <1>6 DEF Process!Running
<1>8. CASE target = Transition(s, "reject")
  BY <1>2, <1>5, <1>7, <1>8 DEF Transition, Process!Reject, Process!Step
<1>9. CASE target = Transition(s, "approve") /\ Passable(s)
  <2>1. graph.steps[s].assignees = {} \/ Process!Carried
    BY <1>1, <1>2, <1>9, BallotCarries DEF Assigned
  <2> QED
    BY <1>2, <1>5, <1>7, <1>9, <2>1 DEF Transition, Process!Approve, Process!Step
<1> QED
  BY <1>1, <1>2, <1>3, <1>8, <1>9 DEF Judged

LEMMA OrdersHoldAndSettle ==
  ASSUME OneAtATime, TypeOK, Undisturbed, Gated, SettledOnce, NEW h \in Handlers,
         Mark(h) \/ Sync(h)
  PROVE  Process!Hold \/ Process!Settle
<1>1. /\ UNCHANGED <<graph, instance, approvals>> /\ Trailing(req[h]) /\ Deciding(req[h])
      /\ req[h] \in Requests /\ req[h].pc \in {"mark", "sync"}
  BY DEF Mark, Sync, At, WritesOrder, SettledOnce, Gated, TypeOK
<1>2. Ballots' = Ballots
  BY <1>1, SameRowsKeepBallots DEF SameRows
<1>3. PICK r : Continue(h, r) /\ r.pc # "assign"
  <2>1. CASE Mark(h)
    BY <2>1 DEF Mark, Done, Idle
  <2>2. CASE Sync(h)
    <3>1. req[h].then # "assign"
      BY <1>1, <2>2, RequestKinds DEF Sync, At, Returns
    <3> QED
      BY <2>2, <3>1 DEF Sync
  <2> QED
    BY <2>1, <2>2
<1>4. Entering' = Entering
  BY <1>1, <1>3, EnteringIsItsStatement
<1>5. CASE Mark(h)
  BY <1>1, <1>2, <1>4, <1>5 DEF Mark, At, Trailing, Process!Hold
<1>6. CASE Sync(h)
  BY <1>1, <1>2, <1>4, <1>6 DEF Sync, At, Trailing, Deciding, OrderStatus, Unsettled, Process!Settle
<1> QED
  BY <1>5, <1>6

LEMMA CancellingLeaves ==
  ASSUME OneAtATime, TypeOK, Undisturbed, NEW h \in Handlers, CancelInstance(h)
  PROVE  Process!Cancel
<1>1. /\ req[h].pc = "cancelled" /\ UNCHANGED <<graph, order, approvals>>
      /\ instance.status = "PENDING" /\ instance' = [instance EXCEPT !.status = "ARCHIVED"]
  BY DEF CancelInstance, At, WritesInstance, Undisturbed
<1>2. Ballots' = Ballots
  BY <1>1, SameRowsKeepBallots DEF SameRows
<1>3. Continue(h, Idle) /\ Idle.pc # "assign"
  BY DEF CancelInstance, Done, Idle
<1>4. Entering = FALSE /\ Entering' = FALSE
  BY <1>1, <1>3, EnteringIsItsStatement
<1> QED
  BY <1>1, <1>2, <1>4 DEF Process!Cancel, Process!Running, Process!Leave, Terminal

(* A request that fails leaves what it wrote; if it fails before it has    *)
(* asked, nobody is asked.                                                 *)
LEMMA FailingWaives ==
  ASSUME OneAtATime, TypeOK, NEW h \in Handlers, RequestFails(h)
  PROVE  Process!Waive \/ UNCHANGED Process!processVars
<1>1. UNCHANGED <<graph, order, approvals, instance>> /\ Continue(h, Idle) /\ Idle.pc # "assign"
  BY DEF RequestFails, Done, Idle
<1>2. Ballots' = Ballots
  BY <1>1, SameRowsKeepBallots DEF SameRows
<1>3. Entering = (req[h].pc = "assign") /\ Entering' = FALSE
  BY <1>1, EnteringIsItsStatement
<1> QED
  BY <1>1, <1>2, <1>3 DEF Process!Waive, Process!processVars

(* Reads, rejections of single approvals, handing over and escalating.     *)
LEMMA OthersStutter ==
  ASSUME OneAtATime, TypeOK, Undisturbed, NEW h \in Handlers,
         \/ ReadInstance(h) \/ CancelRead(h) \/ Pick(h) \/ Gate(h) \/ AdvanceRead(h)
         \/ Skip(h) \/ RejectPending(h) \/ RejectOwn(h) \/ CancelApprovals(h)
         \/ Handover(h) \/ Escalate(h)
  PROVE  UNCHANGED Process!processVars
<1>1. /\ UNCHANGED <<graph, instance, order>> /\ req[h] \in Requests /\ req[h].pc # "assign"
  <2>1. req[h] \in Requests
    BY DEF TypeOK
  <2>2. CASE ReadInstance(h) \/ CancelRead(h)
    BY <2>1, <2>2 DEF ReadInstance, CancelRead, Reads, Idle
  <2>3. CASE Pick(h) \/ Gate(h) \/ AdvanceRead(h)
    BY <2>1, <2>3 DEF Pick, Gate, AdvanceRead, Reads, At
  <2>4. CASE Skip(h) \/ RejectPending(h) \/ RejectOwn(h) \/ CancelApprovals(h)
    BY <2>1, <2>4 DEF Skip, RejectPending, RejectOwn, CancelApprovals, WritesApprovals, At
  <2>5. CASE Handover(h) \/ Escalate(h)
    BY <2>1, <2>5 DEF Handover, Escalate, WritesApprovals, At
  <2> QED
    BY <2>2, <2>3, <2>4, <2>5
<1>2. PICK r : Continue(h, r) /\ r.pc # "assign"
  <2>1. CASE Pick(h)
    <3>1. CASE Done(h)
      BY <3>1 DEF Done, Idle
    <3>2. CASE ~Done(h)
      <4>1. PICK id \in Having(OfStep(req[h].step), "PENDING"), decision \in Decisions :
              Continue(h, [pc |-> decision, step |-> req[h].step, id |-> id])
        BY <2>1, <3>2 DEF Pick
      <4>2. decision # "assign"
        BY WorkflowAssumption
      <4> QED
        BY <4>1, <4>2
    <3> QED
      BY <3>1, <3>2
  <2>2. CASE RejectPending(h)
    <3>1. req[h] \in [pc : {"approve", "reject", "rejectOwn", "handover", "escalate"},
                      step : Steps, id : Ids]
      BY <1>1, <2>2, RequestKinds DEF RejectPending, At
    <3>2. PICK r : r = [req[h] EXCEPT !.pc = "rejectOwn"]
      OBVIOUS
    <3> QED
      BY <2>2, <3>1, <3>2 DEF RejectPending
  <2>3. CASE ReadInstance(h) \/ CancelRead(h) \/ CancelApprovals(h) \/ Handover(h) \/ Escalate(h)
    <3>1. \/ Done(h) \/ Continue(h, [pc |-> "pick", step |-> instance.step])
          \/ Continue(h, [pc |-> "cancel"]) \/ Continue(h, [pc |-> "cancelled"])
      BY <2>3 DEF ReadInstance, CancelRead, CancelApprovals, Handover, Escalate
    <3> QED
      BY <3>1 DEF Done, Idle
  <2>4. CASE Gate(h) \/ AdvanceRead(h) \/ Skip(h) \/ RejectOwn(h)
    BY <2>4 DEF Gate, AdvanceRead, Skip, RejectOwn, Advance, Done, Idle
  <2> QED
    BY <2>1, <2>2, <2>3, <2>4
<1>3. SUFFICES
        /\ KeptRows
        /\ \A id \in Created : approvals'[id].status = "APPROVED" <=> approvals[id].status = "APPROVED"
  BY <1>1, <1>2, ProcessStutters
<1>4. CASE SameRows
  BY <1>4, SameKept DEF SameRows, Created
<1>5. ASSUME NEW ids \in SUBSET Created, NEW status \in {"ARCHIVED", "REJECTED"},
             Decide(ids, status), \A id \in ids : approvals[id].status # "APPROVED"
      PROVE  /\ KeptRows
             /\ \A id \in Created : approvals'[id].status = "APPROVED"
                                      <=> approvals[id].status = "APPROVED"
  BY <1>5, DecideKeeps DEF Terminal, Created
<1>6. CASE ReadInstance(h) \/ CancelRead(h) \/ Pick(h) \/ Gate(h) \/ AdvanceRead(h)
  BY <1>4, <1>6 DEF ReadInstance, CancelRead, Pick, Gate, AdvanceRead, Reads, SameRows
<1>7. CASE Skip(h) \/ RejectPending(h)
  <2>1. PICK ids : ids = Having(OfStep(req[h].step), "PENDING")
    OBVIOUS
  <2>2. Decide(ids, "ARCHIVED") \/ Decide(ids, "REJECTED")
    BY <1>7, <2>1 DEF Skip, RejectPending
  <2> QED
    BY <1>5, <2>1, <2>2 DEF Having, OfStep
<1>8. CASE CancelApprovals(h)
  BY <1>5, <1>8 DEF CancelApprovals, Having
<1>9. CASE RejectOwn(h)
  <2>1. PICK id \in Ids : id = req[h].id
    BY <1>1, <1>9, RequestKinds DEF RejectOwn, At
  <2>2. approvals[id].status = "REJECTED" /\ Decide({id}, "REJECTED")
    BY <1>9, <2>1 DEF RejectOwn, At, Undisturbed
  <2>3. id \in Created
    BY <2>2 DEF Created
  <2> QED
    BY <1>5, <2>2, <2>3
<1>10. CASE Handover(h) \/ Escalate(h)
  <2>1. req[h].id \in Ids
    BY <1>1, <1>10, RequestKinds DEF Handover, Escalate, At
  <2>2. \/ approvals' = approvals
        \/ \E user, escalated : Give(req[h].id, user, escalated)
    BY <1>10 DEF Handover, Escalate
  <2>3. SameRows
    BY <2>1, <2>2, GiveKeeps DEF SameRows
  <2> QED
    BY <1>4, <2>3
<1> QED
  BY <1>6, <1>7, <1>8, <1>9, <1>10

LEMMA TimersStutter ==
  ASSUME TypeOK,
         \/ \E t \in Timers : Timer(t) \/ TimerFails(t)
         \/ \E v \in Visits : FallDue(v)
         \/ UNCHANGED vars
  PROVE  UNCHANGED Process!processVars
<1>1. UNCHANGED <<graph, instance, order, req>>
  BY DEF Timer, TimerFails, ScanBegin, ScanTask, ScanInstance, ScanWrite, Scans, FallDue, vars
<1>2. SameRows
  <2>1. CASE approvals' = approvals
    BY <2>1 DEF SameRows
  <2>2. ASSUME NEW t \in Timers, ScanWrite(t) PROVE SameRows
    BY <2>2, ScanWriteKeeps DEF SameRows
  <2> QED
    BY <2>1, <2>2 DEF Timer, TimerFails, ScanBegin, ScanTask, ScanInstance, Scans, FallDue, vars
<1>3. Entering' = Entering
  BY <1>1 DEF Entering, At
<1> QED
  BY <1>1, <1>2, <1>3, SameRowsKeepBallots DEF Process!processVars

(* ADR-024: while requests do not overlap, for all definitions whose gate  *)
(* can be judged by the present visit and that assign their first step,    *)
(* every statement, run of the scheduler and failure is a step of the      *)
(* approval process or none: the workflow walks along its graph, a step is *)
(* left by approval only when its ballot carries it, and the order is held *)
(* once and settled once, by the outcome (approveInstance,                 *)
(* resolveApprovalGate, advanceByDecision, ensureStepApprovals,            *)
(* syncTargetAfterWorkflowDecision).                                       *)
THEOREM ImplementsApprovalProcess ==
  ASSUME OneAtATime, GateJudgesVisit, FirstStepAssigned
  PROVE  Spec => ImplementsProcess
<1>1. Init => Process!ProcessInit /\ SettledOnce
  <2> SUFFICES ASSUME Init PROVE Process!ProcessInit /\ SettledOnce
    OBVIOUS
  <2>1. Entering = FALSE
    BY DEF Init, Entering, At, Idle
  <2>2. \A s : LatestVisit(s) = {} /\ Having(LatestVisit(s), "APPROVED") = {}
    BY DEF Init, LatestVisit, OfStep, Created, NoApproval, Having
  <2>3. Ballots = [s \in Steps |-> [asked |-> 0, given |-> 0]]
    BY <2>2, FS_EmptySet DEF Ballots, Ballot
  <2>4. SettledOnce
    BY DEF Init, SettledOnce, OrderWaits, Trailing, Unsettled, Idle
  <2> QED
    BY <2>1, <2>3, <2>4 DEF Init, Process!ProcessInit
<1>2. TypeOK /\ Undisturbed /\ Gated /\ SettledOnce /\ [Next]_vars
        => [Process!ProcessNext]_(Process!processVars)
  <2> SUFFICES ASSUME TypeOK, Undisturbed, Gated, SettledOnce, [Next]_vars
               PROVE  Process!ProcessNext \/ UNCHANGED Process!processVars
    OBVIOUS
  <2>1. ASSUME NEW h \in Handlers, Submit(h) PROVE Process!ProcessNext
    BY <2>1, SubmissionBegins DEF Process!ProcessNext
  <2>2. ASSUME NEW h \in Handlers, Assign(h) PROVE Process!ProcessNext
    BY <2>2, AssigningAsks DEF Process!ProcessNext
  <2>3. ASSUME NEW h \in Handlers, Approve(h) PROVE Process!ProcessNext
    BY <2>3, ApprovingVotes DEF Process!ProcessNext
  <2>4. ASSUME NEW h \in Handlers, Move(h) PROVE Process!ProcessNext
    BY <2>4, MovingDecides DEF Process!ProcessNext
  <2>5. ASSUME NEW h \in Handlers, Mark(h) \/ Sync(h) PROVE Process!ProcessNext
    BY <2>5, OrdersHoldAndSettle DEF Process!ProcessNext
  <2>6. ASSUME NEW h \in Handlers, CancelInstance(h) PROVE Process!ProcessNext
    BY <2>6, CancellingLeaves DEF Process!ProcessNext
  <2>7. ASSUME NEW h \in Handlers, RequestFails(h)
        PROVE  Process!ProcessNext \/ UNCHANGED Process!processVars
    BY <2>7, FailingWaives DEF Process!ProcessNext
  <2>8. ASSUME NEW h \in Handlers,
               \/ ReadInstance(h) \/ CancelRead(h) \/ Pick(h) \/ Gate(h) \/ AdvanceRead(h)
               \/ Skip(h) \/ RejectPending(h) \/ RejectOwn(h) \/ CancelApprovals(h)
               \/ Handover(h) \/ Escalate(h)
        PROVE  UNCHANGED Process!processVars
    BY <2>8, OthersStutter
  <2>9. CASE \/ \E t \in Timers : Timer(t) \/ TimerFails(t)
             \/ \E v \in Visits : FallDue(v)
             \/ UNCHANGED vars
    BY <2>9, TimersStutter
  <2> QED
    BY <2>1, <2>2, <2>3, <2>4, <2>5, <2>6, <2>7, <2>8, <2>9 DEF Next, RequestStep
<1>3. TypeOK /\ Undisturbed /\ Gated /\ [Next]_vars => Gated'
  BY GatedInductive
<1>4. TypeOK /\ Undisturbed /\ SettledOnce /\ [Next]_vars => SettledOnce'
  BY SettledInductive
<1> QED
  BY <1>1, <1>2, <1>3, <1>4, InitGated, InitUndisturbed, UndisturbedInductive, TypeCorrect, PTL
     DEF Spec, ImplementsProcess, Process!ProcessSpec
=============================================================================
