--------------------------- MODULE ApprovalProcess ---------------------------
(***************************************************************************)
(* What the workflow engine promises for one workflow, without its         *)
(* requests, statements, users and timers: the workflow walks along its    *)
(* graph one transition at a time, each step is voted on by a ballot of    *)
(* its own and left by approval only when the ballot carries it, and the   *)
(* order it was submitted for follows its outcome.                         *)
(***************************************************************************)
EXTENDS Naturals, FiniteSets

CONSTANTS
  Steps,       \* step keys
  Terminal,    \* statuses of a workflow that has ended
  Definitions  \* graphs: the step to begin with, the records of the steps

VARIABLES
  graph,     \* the definition that was chosen
  instance,  \* status and step of the workflow
  order,     \* status of the order
  asking,    \* the step was entered and nobody has been asked yet
  ballot     \* for each step: votes asked for on its last visit, and given

processVars == <<graph, instance, order, asking, ballot>>

Step == graph.steps[instance.step]
Running == instance.status = "PENDING" /\ ~asking

ProcessInit ==
  /\ graph \in Definitions
  /\ instance = [status |-> "NONE", step |-> "NONE"]
  /\ order = "OPEN"
  /\ asking = FALSE
  /\ ballot = [s \in Steps |-> [asked |-> 0, given |-> 0]]

Enter(s) ==
  /\ instance' = [status |-> "PENDING", step |-> s]
  /\ asking' = TRUE
  /\ UNCHANGED <<graph, order, ballot>>

Begin == instance.status = "NONE" /\ Enter(graph.initial)

(* Everybody who is assigned gets one vote, and no vote is left over from  *)
(* an earlier visit.                                                       *)
Ask ==
  /\ asking
  /\ Step.assignees # {}
  /\ ballot' = [ballot EXCEPT ![instance.step] =
                  [asked |-> Cardinality(Step.assignees), given |-> 0]]
  /\ asking' = FALSE
  /\ UNCHANGED <<graph, instance, order>>

(* Nobody is assigned, or asking fails: no ballot is opened.               *)
Waive ==
  /\ asking
  /\ asking' = FALSE
  /\ UNCHANGED <<graph, instance, order, ballot>>

Vote ==
  /\ Running
  /\ ballot[instance.step].given < ballot[instance.step].asked
  /\ ballot' = [ballot EXCEPT ![instance.step].given = @ + 1]
  /\ UNCHANGED <<graph, instance, order, asking>>

(* What the mode of the step requires of its ballot.                       *)
Carried ==
  LET votes == ballot[instance.step]
  IN  /\ votes.given > 0
      /\ Step.mode = "ALL" => votes.given = votes.asked
      /\ Step.mode = "MIN_N" => votes.given >= Step.min \/ votes.given = votes.asked

Leave(target) ==
  \/ target \in Steps /\ Enter(target)
  \/ /\ target \in Terminal
     /\ instance' = [instance EXCEPT !.status = target]
     /\ UNCHANGED <<graph, order, asking, ballot>>

Approve == Running /\ Leave(Step.approve) /\ (Step.assignees = {} \/ Carried)
Reject == Running /\ Leave(Step.reject)
Cancel == Running /\ Leave("ARCHIVED")

(* The order waits from the submission on, and is settled once, by the     *)
(* outcome of the workflow.                                                *)
Hold ==
  /\ order = "OPEN" /\ instance.status = "PENDING"
  /\ order' = "PENDING"
  /\ UNCHANGED <<graph, instance, asking, ballot>>

Settle ==
  /\ order \in {"OPEN", "PENDING"} /\ instance.status \in Terminal
  /\ order' = IF instance.status = "APPROVED" THEN "APPROVED" ELSE "REJECTED"
  /\ UNCHANGED <<graph, instance, asking, ballot>>

ProcessNext ==
  \/ Begin \/ Ask \/ Waive \/ Vote \/ Approve \/ Reject \/ Cancel \/ Hold \/ Settle

ProcessSpec == ProcessInit /\ [][ProcessNext]_processVars
=============================================================================
