------------------------------ MODULE MCWorkflow ------------------------------
(* Small instances of Workflow for TLC.                                    *)
EXTENDS Workflow

CONSTANTS h1, h2, t1, t2, ann, bob, requester

Step(assignees, mode, approve, reject) ==
  [assignees |-> assignees, autoApprove |-> FALSE, mode |-> mode, min |-> 2,
   approve |-> approve, reject |-> reject]
Automatic(approve) ==
  [Step({}, "ALL", approve, "REJECTED") EXCEPT !.autoApprove = TRUE]
Graph(first, second) ==
  [initial |-> "review",
   steps |-> [s \in {"review", "final"} |-> IF s = "review" THEN first ELSE second]]

(* All must review, then one decides, who can send the edit back.          *)
Rework ==
  Graph(Step({ann, bob}, "ALL", "final", "REJECTED"),
        Step({ann}, "ANY", "APPROVED", "review"))

(* One of the reviewers, then a step that approves itself.                 *)
OneOf ==
  Graph(Step({ann, bob}, "ANY", "final", "ARCHIVED"), Automatic("APPROVED"))

(* Two of two, then a step that nobody is assigned to.                     *)
TwoOf ==
  Graph(Step({ann, bob}, "MIN_N", "final", "REJECTED"),
        Step({}, "ALL", "APPROVED", "REJECTED"))

Usual == {Rework, OneOf}
WithoutLoop == {OneOf, TwoOf}
=============================================================================
