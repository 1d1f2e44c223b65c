------------------------ MODULE CheckoutBillingProofs ------------------------
(***************************************************************************)
(* The invoice automation of Checkout under any overlap of requests: as    *)
(* long as no request has failed half way, no bill the policy asks for is  *)
(* forgotten.  It is the safety core of StaysPaidGetsInvoice, which TLC    *)
(* checks under fairness for one trigger; here it is an invariant for      *)
(* every trigger and policy.                                               *)
(***************************************************************************)
EXTENDS CheckoutProofs

Edits(r) == r.pc \in {"update", "updating"}
Activates(r) == r.pc \in {"gate", "activate", "activated"}
Bills(r) == r.pc \in {"reevaluate", "bill"}

(* Lines live once: the lines an edit brings are nobody else's, the line   *)
(* an activation works on has been on the order, and an activation that    *)
(* has written a line that is still there goes on to the automation.       *)
LinesOf(r) ==
  /\ Edits(r) => r.newLines \subseteq Unused /\ order.status # "NONE"
  /\ Activates(r) => r.line \notin Unused /\ r.status # "NONE"
  /\ r.pc = "activated" /\ r.line \in OnOrder =>
       r.status \in {"ACTIVE", "ACTIVATING"}

Apart(h, r) ==
  Edits(r) => \A g \in Handlers \ {h} :
                Edits(req[g]) => r.newLines \cap req[g].newLines = {}

LinesOnce ==
  /\ order.status = "NONE" => Unused = LineIds
  /\ \A h \in Handlers : LinesOf(req[h]) /\ Apart(h, req[h])

(* A bill the policy asks for, whatever called the automation; under       *)
(* ON_PAID, and unless somebody forces a re-evaluation, it comes approved. *)
Due == InvoiceDue("ON_PAID", FALSE)
Unaided == "reevaluate" \notin Endpoints /\ Trigger = "ON_PAID"
InHand == \E h \in Handlers : Bills(req[h])

NoBillForgotten ==
  failures = 0 =>
    /\ Due => invoice.status # "NONE" \/ InHand
    /\ Unaided /\ intent.status = "PAID" =>
         invoice.status = "APPROVED" \/ InHand

(* Unaided, the automation bills nothing but the whole amount.             *)
Automatic(r) ==
  /\ r.pc = "reevaluate" => ~r.force
  /\ r.pc = "bill" => r.full

AutomationApproves ==
  Unaided => /\ invoice.status \in {"NONE", "APPROVED"}
             /\ \A h \in Handlers : Automatic(req[h])

BillingInv == LinesOnce /\ AutomationApproves /\ NoBillForgotten
-----------------------------------------------------------------------------
(* A request goes on with r, the lines stay: r is all there is to check.   *)
LEMMA LinesContinue ==
  ASSUME TypeOK, LinesOnce, NEW h \in Handlers, NEW r, Continue(h, r),
         UNCHANGED lines, order'.status = "NONE" => order.status = "NONE",
         LinesOf(r)', Apart(h, r)
  PROVE  LinesOnce'
<1>1. req'[h] = r /\ \A g \in Handlers \ {h} : req'[g] = req[g]
  BY DEF Continue, TypeOK
<1>2. Unused' = Unused /\ OnOrder' = OnOrder
  BY DEF Unused, OnOrder
<1>3. ASSUME NEW g \in Handlers PROVE LinesOf(req[g])'
  <2>1. CASE g = h
    BY <1>1, <2>1 DEF LinesOf
  <2>2. CASE g # h
    BY <1>1, <1>2, <2>2 DEF LinesOnce, LinesOf
  <2> QED
    BY <2>1, <2>2
<1>4. ASSUME NEW f \in Handlers, NEW g \in Handlers, f # g,
             Edits(req'[f]), Edits(req'[g])
      PROVE  req'[f].newLines \cap req'[g].newLines = {}
  <2>1. CASE f = h
    BY <1>1, <1>4, <2>1 DEF Apart
  <2>2. CASE g = h
    BY <1>1, <1>4, <2>2 DEF Apart
  <2>3. CASE f # h /\ g # h
    BY <1>1, <1>4, <2>3 DEF LinesOnce, Apart
  <2> QED
    BY <2>1, <2>2, <2>3
<1>5. \A g \in Handlers : Apart(g, req[g])'
  BY <1>4 DEF Apart
<1> QED
  BY <1>2, <1>3, <1>5 DEF LinesOnce

(* Requests at other steps hold no lines.                                  *)
LEMMA LinesElsewhere ==
  ASSUME TypeOK, LinesOnce, NEW h \in Handlers, NEW r, Continue(h, r),
         UNCHANGED lines, order'.status = "NONE" => order.status = "NONE",
         ~Edits(r), ~Activates(r)
  PROVE  LinesOnce'
<1>1. LinesOf(r)' /\ Apart(h, r)
  BY DEF LinesOf, Apart, Edits, Activates
<1> QED
  BY <1>1, LinesContinue

LEMMA LinesDone ==
  ASSUME TypeOK, LinesOnce, NEW h \in Handlers, Done(h), UNCHANGED lines,
         order'.status = "NONE" => order.status = "NONE"
  PROVE  LinesOnce'
BY LinesElsewhere DEF Done, Idle, Edits, Activates

(* The order is inserted with lines nobody had used or was about to use.   *)
LEMMA CreateLines ==
  ASSUME TypeOK, LinesOnce, NEW h \in Handlers, CreateOrder(h)
  PROVE  LinesOnce'
<1>1. /\ order.status = "NONE" /\ order'.status = "DRAFT"
      /\ Done(h) \/ Continue(h, [pc |-> "approval"])
  BY DEF CreateOrder, TypeOK, Orders
<1>2. \A g \in Handlers : ~Edits(req[g])
  BY <1>1 DEF LinesOnce, LinesOf
<1>3. ASSUME NEW g \in Handlers, Activates(req[g]) PROVE FALSE
  <2>1. req[g].line \in LineIds
    BY <1>3, RequestKinds DEF TypeOK, Activates
  <2> QED
    BY <1>1, <1>3, <2>1 DEF LinesOnce, LinesOf
<1>4. \A g \in Handlers : ~Edits(req'[g]) /\ ~Activates(req'[g])
  BY <1>1, <1>2, <1>3 DEF Done, Continue, Idle, TypeOK, Edits, Activates
<1>5. \A g \in Handlers : LinesOf(req[g])' /\ Apart(g, req[g])'
  BY <1>4 DEF LinesOf, Apart, Edits, Activates
<1> QED
  BY <1>1, <1>5 DEF LinesOnce

(* An edit takes its own lines out of the unused ones and deletes those    *)
(* that were there.                                                        *)
LEMMA UpdateLines ==
  ASSUME TypeOK, LinesOnce, NEW h \in Handlers, UpdateDraftCommit(h)
  PROVE  LinesOnce'
<1>1. /\ Done(h) /\ order'.status = order.status /\ order.status # "NONE"
      /\ Edits(req[h]) /\ req[h].newLines \subseteq Unused
  BY DEF UpdateDraftCommit, At, Edits, LinesOnce, LinesOf, TypeOK, Orders
<1>2. /\ lines' = [l \in LineIds |->
                     IF l \in req[h].newLines THEN "PENDING"
                     ELSE IF l \in OnOrder THEN "DELETED" ELSE lines[l]]
      /\ lines \in [LineIds -> LineStatuses]
  BY DEF UpdateDraftCommit, TypeOK
<1>3. Unused' = Unused \ req[h].newLines /\ OnOrder' = req[h].newLines
  BY <1>1, <1>2 DEF Unused, OnOrder
<1>4. /\ req'[h] = Idle
      /\ \A g \in Handlers \ {h} : req'[g] = req[g]
  BY <1>1 DEF Done, Continue, TypeOK
<1>5. ASSUME NEW g \in Handlers PROVE LinesOf(req[g])' /\ Apart(g, req[g])'
  <2>1. CASE g = h
    BY <1>4, <2>1 DEF LinesOf, Apart, Idle, Edits, Activates
  <2>2. CASE g # h
    <3>1. LinesOf(req[g]) /\ Apart(g, req[g]) /\ Apart(h, req[h])
      BY DEF LinesOnce
    <3>2. Edits(req[g]) => req[g].newLines \subseteq Unused \ req[h].newLines
      BY <1>1, <2>2, <3>1 DEF LinesOf, Apart
    <3>3. Activates(req[g]) => req[g].line \notin OnOrder' /\ req[g].line \notin Unused'
      BY <1>1, <1>3, <3>1 DEF LinesOf
    <3>4. LinesOf(req[g])'
      BY <1>1, <1>3, <1>4, <2>2, <3>1, <3>2, <3>3 DEF LinesOf, Activates
    <3>5. Apart(g, req[g])'
      BY <1>4, <2>2, <3>1 DEF Apart, Edits, Idle
    <3> QED
      BY <3>4, <3>5
  <2> QED
    BY <2>1, <2>2
<1> QED
  BY <1>1, <1>5 DEF LinesOnce

(* A completed line is still a line that was on the order.                 *)
LEMMA ActivateLines ==
  ASSUME TypeOK, LinesOnce, NEW h \in Handlers, ActivateCommit(h)
  PROVE  LinesOnce'
<1>1. /\ req[h].pc = "activated" /\ req[h].status # "NONE"
      /\ order'.status = req[h].status
      /\ lines' = IF req[h].line \in OnOrder
                  THEN [lines EXCEPT ![req[h].line] = "COMPLETED"] ELSE lines
  BY DEF ActivateCommit, At, LinesOnce, LinesOf, Activates, TypeOK, Orders
<1>2. Unused' = Unused /\ OnOrder' = OnOrder
  BY <1>1 DEF Unused, OnOrder, TypeOK
<1>3. \/ Done(h)
      \/ Continue(h, [pc |-> "reevaluate", source |-> "ON_ACTIVATED",
                      force |-> FALSE])
  BY DEF ActivateCommit
<1>4. /\ ~Edits(req'[h]) /\ ~Activates(req'[h])
      /\ \A g \in Handlers \ {h} : req'[g] = req[g]
  BY <1>3 DEF Done, Continue, Idle, TypeOK, Edits, Activates
<1>5. ASSUME NEW g \in Handlers PROVE LinesOf(req[g])' /\ Apart(g, req[g])'
  <2>1. CASE g = h
    BY <1>4, <2>1 DEF LinesOf, Apart, Edits, Activates
  <2>2. CASE g # h
    <3>1. LinesOf(req[g]) /\ Apart(g, req[g]) /\ req'[g] = req[g]
      BY <1>4, <2>2 DEF LinesOnce
    <3>2. LinesOf(req[g])'
      BY <1>1, <1>2, <3>1 DEF LinesOf, LinesOnce
    <3>3. Apart(g, req[g])'
      BY <1>4, <2>2, <3>1 DEF Apart
    <3> QED
      BY <3>2, <3>3
  <2> QED
    BY <2>1, <2>2
<1> QED
  BY <1>1, <1>2, <1>5 DEF LinesOnce
(* Beginning an edit takes fresh lines; beginning an activation reads a    *)
(* line of an order that exists.                                           *)
LEMMA LinesBegin ==
  ASSUME TypeOK, LinesOnce, NEW h \in Handlers, Begin(h)
  PROVE  LinesOnce'
<1>0. ASSUME UNCHANGED order PROVE order'.status = "NONE" => order.status = "NONE"
  BY <1>0
<1> DEFINE Elsewhere(r) == Continue(h, r) /\ ~Edits(r) /\ ~Activates(r)
<1>1. CASE CreateOrder(h)
  BY <1>1, CreateLines
<1>2. CASE UpdateDraftRead(h)
  <2>1. PICK total, discount, ls :
          /\ Continue(h, [pc |-> "update", total |-> total,
                          discount |-> discount, newLines |-> ls])
          /\ ls \subseteq FreshLines
    <3>1. CASE \E total \in Totals, discount \in Discounts,
                  ls \in (SUBSET FreshLines) \ {{}} :
                 Continue(h, [pc |-> "update", total |-> total,
                              discount |-> discount, newLines |-> ls])
      BY <3>1
    <3>2. CASE Continue(h, [pc |-> "update", total |-> order.itemsTotal,
                            discount |-> order.discount, newLines |-> {}])
      <4>1. PICK total, discount, ls :
              total = order.itemsTotal /\ discount = order.discount /\ ls = {}
        OBVIOUS
      <4>2. ls \subseteq FreshLines
        BY <4>1
      <4> QED
        BY <3>2, <4>1, <4>2, Zenon
    <3> QED
      BY <1>2, <3>1, <3>2, Zenon DEF UpdateDraftRead
  <2> DEFINE r == [pc |-> "update", total |-> total, discount |-> discount,
                   newLines |-> ls]
  <2>2. UNCHANGED <<order, lines>> /\ order.status = "DRAFT"
    BY <1>2 DEF UpdateDraftRead, Editable
  <2>3. LinesOf(r)'
    BY <2>1, <2>2 DEF LinesOf, FreshLines, Unused, Edits, Activates
  <2>4. Apart(h, r)
    BY <2>1 DEF Apart, FreshLines, Edits, In
  <2> QED
    BY <2>1, <2>2, <2>3, <2>4, LinesContinue
<1>3. CASE SubmitRead(h)
  <2>1. /\ UNCHANGED <<order, lines>>
        /\ \E r : Elsewhere(r)
    BY <1>3 DEF SubmitRead, Edits, Activates
  <2> QED
    BY <1>0, <2>1, LinesElsewhere
<1>4. ASSUME NEW k \in Keys, NEW amount \in Amounts, BankRead(h, k, amount)
      PROVE  LinesOnce'
  <2>1. /\ UNCHANGED <<order, lines>>
        /\ \E r : Elsewhere(r)
    BY <1>4 DEF BankRead, Edits, Activates
  <2> QED
    BY <1>0, <2>1, LinesElsewhere
<1>5. CASE OverrideRead(h)
  <2>1. /\ UNCHANGED <<order, lines>>
        /\ \E amount : Continue(h, [pc |-> "override", paid |-> intent.paid,
                                    amount |-> amount])
    BY <1>5 DEF OverrideRead
  <2>2. \E r : Elsewhere(r)
    BY <2>1 DEF Edits, Activates
  <2> QED
    BY <1>0, <2>1, <2>2, LinesElsewhere
<1>6. ASSUME NEW l \in LineIds, ActivateRead(h, l) PROVE LinesOnce'
  <2>1. /\ UNCHANGED <<order, lines>> /\ l \in OnOrder
        /\ Continue(h, [pc |-> "gate", line |-> l, status |-> order.status])
    BY <1>6 DEF ActivateRead
  <2>2. order.status # "NONE" /\ l \notin Unused
    BY <2>1 DEF LinesOnce, OnOrder, Unused
  <2>3. PICK r : r = [pc |-> "gate", line |-> l, status |-> order.status]
    OBVIOUS
  <2>4. LinesOf(r)'
    BY <2>1, <2>2, <2>3 DEF LinesOf, Unused, Edits, Activates
  <2>5. Apart(h, r)
    BY <2>3 DEF Apart, Edits
  <2> QED
    BY <1>0, <2>1, <2>3, <2>4, <2>5, LinesContinue
<1>7. ASSUME NEW force \in BOOLEAN, ManualReEvaluate(h, force)
      PROVE  LinesOnce'
  <2>1. /\ UNCHANGED <<order, lines>>
        /\ \E r : Elsewhere(r)
    BY <1>7 DEF ManualReEvaluate, Edits, Activates
  <2> QED
    BY <1>0, <2>1, LinesElsewhere
<1>8. CASE InvoiceFromOrder(h)
  <2>1. /\ UNCHANGED <<order, lines>>
        /\ \E amount, covers :
             Continue(h, [pc |-> "find", amount |-> amount,
                          total |-> order.total, covers |-> covers])
    BY <1>8 DEF InvoiceFromOrder
  <2>2. \E r : Elsewhere(r)
    BY <2>1 DEF Edits, Activates
  <2> QED
    BY <1>0, <2>1, <2>2, LinesElsewhere
<1> QED
  BY <1>1, <1>2, <1>3, <1>4, <1>5, <1>6, <1>7, <1>8, Zenon DEF Begin

(* A payment write leaves the lines alone.                                 *)
LEMMA LinesPaid ==
  ASSUME TypeOK, LinesOnce, NEW h \in Handlers,
         BankApply(h) \/ OverrideCommit(h)
  PROVE  LinesOnce'
<1>1. PICK status : /\ order' = [order EXCEPT !.status = OrderStatusFor(status)]
                    /\ UNCHANGED lines
  BY DEF BankApply, OverrideCommit, RecordPayment
<1>2. order'.status # "NONE"
  BY <1>1 DEF OrderStatusFor, TypeOK, Orders
<1>3. \/ Done(h)
      \/ Continue(h, [pc |-> "reevaluate", source |-> "ON_PAID", force |-> FALSE])
  BY DEF BankApply, OverrideCommit, RecordPayment
<1> QED
  BY <1>1, <1>2, <1>3, LinesDone, LinesElsewhere DEF Edits, Activates

(* Every further step of a request: an edit keeps its lines to itself, an  *)
(* activation its line, and what it writes while the line is there sends   *)
(* it on to the automation.                                                *)
LEMMA LinesProceed ==
  ASSUME TypeOK, LinesOnce, NEW h \in Handlers, Proceed(h)
  PROVE  LinesOnce'
<1>r. req[h] \in Requests /\ LinesOf(req[h]) /\ Apart(h, req[h])
  BY DEF TypeOK, LinesOnce
<1>1. CASE \/ DeadlockVictim(h) \/ BankConflict(h) \/ BankReject(h)
           \/ WriteInvoice(h)
  <2>1. Done(h) /\ UNCHANGED <<order, lines>>
    BY <1>1 DEF DeadlockVictim, BankConflict, BankReject, WriteInvoice
  <2> QED
    BY <2>1, LinesDone
<1>2. CASE RequestApproval(h) \/ MarkOrder(h)
  <2>1. /\ Done(h) /\ UNCHANGED lines
        /\ order'.status = "NONE" => order.status = "NONE"
    BY <1>2 DEF RequestApproval, MarkOrder, TypeOK, Orders
  <2> QED
    BY <2>1, LinesDone
<1>3. CASE UpdateDraftWrite(h)
  <2>1. /\ req[h].pc = "update" /\ UNCHANGED lines
        /\ order'.status = order.status
    BY <1>3 DEF UpdateDraftWrite, At, TypeOK, Orders
  <2>2. CASE Done(h)
    BY <2>1, <2>2, LinesDone
  <2>3. CASE Continue(h, [req[h] EXCEPT !.pc = "updating"])
    <3>1. PICK r : r = [req[h] EXCEPT !.pc = "updating"]
      OBVIOUS
    <3>2. r.pc = "updating" /\ r.newLines = req[h].newLines
      BY <1>r, <2>1, <3>1, RequestKinds
    <3>3. LinesOf(r)' /\ Apart(h, r)
      BY <1>r, <2>1, <3>2 DEF LinesOf, Apart, Unused, Edits, Activates
    <3> QED
      BY <2>1, <2>3, <3>1, <3>3, LinesContinue
  <2> QED
    BY <1>3, <2>2, <2>3 DEF UpdateDraftWrite
<1>4. CASE UpdateDraftCommit(h)
  BY <1>4, UpdateLines
<1>5. CASE SubmitCommit(h)
  <2>1. /\ Done(h) /\ UNCHANGED lines
        /\ order'.status = "NONE" => order.status = "NONE"
    BY <1>5 DEF SubmitCommit, TypeOK, Orders
  <2> QED
    BY <2>1, LinesDone
<1>6. CASE BankApply(h) \/ OverrideCommit(h)
  BY <1>6, LinesPaid
<1>7. CASE ActivateGate(h)
  <2>1. /\ UNCHANGED <<order, lines>> /\ req[h].pc = "gate"
        /\ Done(h) \/ Continue(h, [req[h] EXCEPT !.pc = "activate"])
    BY <1>7 DEF ActivateGate, At
  <2>2. PICK r : r = [req[h] EXCEPT !.pc = "activate"]
    OBVIOUS
  <2>3. /\ r.pc = "activate" /\ r.line = req[h].line
        /\ r.status = req[h].status
    BY <1>r, <2>1, <2>2, RequestKinds
  <2>4. LinesOf(r)' /\ Apart(h, r)
    BY <1>r, <2>1, <2>3 DEF LinesOf, Apart, Unused, Edits, Activates
  <2> QED
    BY <2>1, <2>2, <2>4, LinesContinue, LinesDone
<1>8. CASE ActivateScan(h)
  <2>1. /\ UNCHANGED <<order, lines>> /\ req[h].pc = "activate"
        /\ req[h].line \notin Unused /\ req[h].status # "NONE"
    BY <1>8, <1>r DEF ActivateScan, At, LinesOf, Activates
  <2>2. PICK status :
          status = StatusAfterActivation(req[h].line, req[h].status)
    OBVIOUS
  <2>3. /\ status # "NONE"
        /\ req[h].line \in OnOrder => status \in {"ACTIVE", "ACTIVATING"}
    BY <2>1, <2>2 DEF StatusAfterActivation
  <2>4. PICK r : r = [pc |-> "activated", line |-> req[h].line,
                      status |-> status]
    OBVIOUS
  <2>5. LinesOf(r)' /\ Apart(h, r)
    BY <2>1, <2>3, <2>4 DEF LinesOf, Apart, Unused, OnOrder, Edits, Activates
  <2> QED
    BY <1>8, <2>1, <2>2, <2>4, <2>5, LinesContinue DEF ActivateScan
<1>9. CASE ActivateCommit(h)
  BY <1>9, ActivateLines
<1>10. CASE ReEvaluate(h)
  <2>1. /\ UNCHANGED <<order, lines>>
        /\ \/ Done(h)
           \/ \E full, exists :
                Continue(h, [pc |-> "bill", full |-> full, paid |-> intent.paid,
                             total |-> order.total, exists |-> exists])
    BY <1>10 DEF ReEvaluate
  <2> QED
    BY <2>1, LinesDone, LinesElsewhere DEF Edits, Activates
<1>11. CASE FindInvoice(h)
  <2>1. /\ UNCHANGED <<order, lines>>
        /\ \E amount, total, covers, exists :
             Continue(h, [pc |-> "issue", amount |-> amount, total |-> total,
                          covers |-> covers, exists |-> exists,
                          paid |-> invoice.paid])
    BY <1>11 DEF FindInvoice
  <2> QED
    BY <2>1, LinesElsewhere DEF Edits, Activates
<1>12. CASE IssueInvoice(h)
  <2>1. /\ UNCHANGED <<order, lines>>
        /\ Done(h) \/ Continue(h, [pc |-> "mark", covers |-> req[h].covers])
    BY <1>12 DEF IssueInvoice
  <2> QED
    BY <2>1, LinesDone, LinesElsewhere DEF Edits, Activates
<1> QED
  BY <1>1, <1>2, <1>3, <1>4, <1>5, <1>6, <1>7, <1>8, <1>9, <1>10, <1>11, <1>12,
     Zenon DEF Proceed

LEMMA LinesStep ==
  ASSUME TypeOK, LinesOnce, [Next]_vars
  PROVE  LinesOnce'
<1>1. ASSUME NEW h \in Handlers, RequestFails(h) PROVE LinesOnce'
  BY <1>1, LinesDone DEF RequestFails
<1>2. CASE DraftExpires \/ CleanupDraft
  <2>1. /\ UNCHANGED <<lines, req>> /\ order.status = "DRAFT"
        /\ order'.status # "NONE"
    BY <1>2 DEF DraftExpires, CleanupDraft, Cleanable, TypeOK, Orders
  <2> QED
    BY <2>1 DEF LinesOnce, LinesOf, Apart, Unused, OnOrder
<1>3. CASE UNCHANGED vars
  BY <1>3 DEF vars, LinesOnce, LinesOf, Apart, Unused, OnOrder
<1> QED
  BY <1>1, <1>2, <1>3, LinesBegin, LinesProceed, Zenon DEF Next
-----------------------------------------------------------------------------
(* Payments and activations make a bill due; a write that pays nothing in  *)
(* full and leaves the lines alone does not.                               *)
LEMMA DueKept ==
  ASSUME UNCHANGED lines, intent'.status = "PAID" => intent.status = "PAID",
         Due'
  PROVE  Due
BY CheckoutAssumption DEF Due, InvoiceDue, Triggered, OnOrder, Completed

(* A bill in hand stays in hand unless the request that has it drops it.   *)
LEMMA HandKept ==
  ASSUME TypeOK, InHand, NEW h \in Handlers, NEW r, Continue(h, r),
         ~Bills(req[h]) \/ Bills(r)
  PROVE  InHand'
<1>1. req'[h] = r /\ \A g \in Handlers \ {h} : req'[g] = req[g]
  BY DEF Continue, TypeOK
<1>2. PICK f \in Handlers : Bills(req[f])
  BY DEF InHand
<1>3. CASE f = h
  BY <1>1, <1>2, <1>3 DEF InHand, Bills
<1>4. CASE f # h
  BY <1>1, <1>2, <1>4 DEF InHand, Bills
<1> QED
  BY <1>3, <1>4

LEMMA HandTaken ==
  ASSUME TypeOK, NEW h \in Handlers, NEW r, Continue(h, r), Bills(r)
  PROVE  NoBillForgotten'
<1>1. req'[h] = r
  BY DEF Continue, TypeOK
<1>2. InHand'
  BY <1>1 DEF InHand, Bills
<1> QED
  BY <1>2 DEF NoBillForgotten

(* Nothing new is due, and the invoice and the bills in hand stay.         *)
LEMMA NothingNewDue ==
  ASSUME NoBillForgotten, UNCHANGED failures, Due' => Due,
         intent'.status = "PAID" => intent.status = "PAID",
         invoice'.status = invoice.status, InHand => InHand'
  PROVE  NoBillForgotten'
BY DEF NoBillForgotten, Unaided

LEMMA AutomationContinue ==
  ASSUME TypeOK, AutomationApproves, NEW h \in Handlers, NEW r, Continue(h, r),
         Unaided => Automatic(r) /\ invoice'.status \in {"NONE", "APPROVED"}
  PROVE  AutomationApproves'
<1>1. req'[h] = r /\ \A g \in Handlers \ {h} : req'[g] = req[g]
  BY DEF Continue, TypeOK
<1>2. ASSUME Unaided, NEW g \in Handlers PROVE Automatic(req'[g])
  BY <1>1, <1>2 DEF AutomationApproves
<1>3. ASSUME Unaided, NEW g \in Handlers PROVE Automatic(req[g])'
  BY <1>2, <1>3 DEF Automatic
<1> QED
  BY <1>3 DEF AutomationApproves, Unaided

(* Most steps neither touch what the automation reads nor take or drop a   *)
(* bill.                                                                   *)
PlainMove(h) ==
  /\ ~Bills(req[h])
  /\ \E r : Continue(h, r) /\ ~Bills(r)
  /\ UNCHANGED <<lines, intent, invoice, failures>>

LEMMA PlainKeeps ==
  ASSUME TypeOK, BillingInv, NEW h \in Handlers, PlainMove(h)
  PROVE  AutomationApproves' /\ NoBillForgotten'
<1>1. PICK r : Continue(h, r) /\ ~Bills(r)
  BY DEF PlainMove
<1>2. UNCHANGED <<lines, intent, invoice, failures>> /\ ~Bills(req[h])
  BY DEF PlainMove
<1>3. AutomationApproves'
  BY <1>1, <1>2, AutomationContinue
  DEF BillingInv, AutomationApproves, Automatic, Bills
<1>4. NoBillForgotten'
  BY <1>1, <1>2, HandKept, DueKept, NothingNewDue DEF BillingInv
<1> QED
  BY <1>3, <1>4

LEMMA PlainBegin ==
  ASSUME TypeOK, NEW h \in Handlers, Begin(h)
  PROVE  \/ PlainMove(h)
         \/ CreateOrder(h)
         \/ \E force \in BOOLEAN : ManualReEvaluate(h, force)
<1>1. CASE UpdateDraftRead(h)
  <2>1. PICK total, discount, ls :
          Continue(h, [pc |-> "update", total |-> total,
                       discount |-> discount, newLines |-> ls])
    BY <1>1 DEF UpdateDraftRead
  <2>2. \E r : Continue(h, r) /\ ~Bills(r)
    BY <2>1 DEF Bills
  <2> QED
    BY <1>1, <2>2 DEF UpdateDraftRead, Start, Idle, PlainMove, Bills
<1>2. CASE SubmitRead(h)
  <2>1. \E r : Continue(h, r) /\ ~Bills(r)
    BY <1>2 DEF SubmitRead, Bills
  <2> QED
    BY <1>2, <2>1 DEF SubmitRead, Start, Idle, PlainMove, Bills
<1>3. ASSUME NEW k \in Keys, NEW amount \in Amounts, BankRead(h, k, amount)
      PROVE  PlainMove(h)
  <2>1. \E r : Continue(h, r) /\ ~Bills(r)
    BY <1>3 DEF BankRead, Bills
  <2> QED
    BY <1>3, <2>1 DEF BankRead, Start, Idle, PlainMove, Bills
<1>4. CASE OverrideRead(h)
  <2>1. \E amount : Continue(h, [pc |-> "override", paid |-> intent.paid,
                                 amount |-> amount])
    BY <1>4 DEF OverrideRead
  <2>2. \E r : Continue(h, r) /\ ~Bills(r)
    BY <2>1 DEF Bills
  <2> QED
    BY <1>4, <2>2 DEF OverrideRead, Start, Idle, PlainMove, Bills
<1>5. ASSUME NEW l \in LineIds, ActivateRead(h, l) PROVE PlainMove(h)
  <2>1. \E r : Continue(h, r) /\ ~Bills(r)
    BY <1>5 DEF ActivateRead, Bills
  <2> QED
    BY <1>5, <2>1 DEF ActivateRead, Start, Idle, PlainMove, Bills
<1>6. CASE InvoiceFromOrder(h)
  <2>1. \E amount, covers :
          Continue(h, [pc |-> "find", amount |-> amount,
                       total |-> order.total, covers |-> covers])
    BY <1>6 DEF InvoiceFromOrder
  <2>2. \E r : Continue(h, r) /\ ~Bills(r)
    BY <2>1 DEF Bills
  <2> QED
    BY <1>6, <2>2 DEF InvoiceFromOrder, Start, Idle, PlainMove, Bills
<1> QED
  BY <1>1, <1>2, <1>3, <1>4, <1>5, <1>6, Zenon DEF Begin

LEMMA PlainProceed ==
  ASSUME TypeOK, NEW h \in Handlers, Proceed(h)
  PROVE  \/ PlainMove(h)
         \/ UpdateDraftCommit(h) \/ ActivateCommit(h) \/ SubmitCommit(h)
         \/ BankApply(h) \/ OverrideCommit(h)
         \/ ReEvaluate(h) \/ WriteInvoice(h) \/ IssueInvoice(h)
<1> DEFINE Moves == \E r : Continue(h, r) /\ ~Bills(r)
<1>1. ASSUME Done(h) PROVE Moves
  BY <1>1 DEF Done, Bills, Idle
<1>2. CASE RequestApproval(h) \/ BankConflict(h) \/ BankReject(h) \/ MarkOrder(h)
  BY <1>1, <1>2 DEF RequestApproval, BankConflict, BankReject, MarkOrder, At,
       PlainMove, Bills
<1>3. CASE DeadlockVictim(h)
  <2>1. req[h].pc \in {"activated", "updating"}
    BY <1>3 DEF DeadlockVictim, Deadlocked, At
  <2> QED
    BY <1>1, <1>3, <2>1 DEF DeadlockVictim, PlainMove, Bills
<1>4. CASE UpdateDraftWrite(h)
  <2>1. PICK r : r = [req[h] EXCEPT !.pc = "updating"]
    OBVIOUS
  <2>2. req[h].pc = "update" /\ r.pc = "updating"
    BY <1>4, <2>1, RequestKinds DEF UpdateDraftWrite, At, TypeOK
  <2>3. Moves
    BY <1>1, <1>4, <2>1, <2>2 DEF UpdateDraftWrite, Bills
  <2> QED
    BY <1>4, <2>2, <2>3 DEF UpdateDraftWrite, PlainMove, Bills
<1>5. CASE ActivateGate(h)
  <2>1. PICK r : r = [req[h] EXCEPT !.pc = "activate"]
    OBVIOUS
  <2>2. req[h].pc = "gate" /\ r.pc = "activate"
    BY <1>5, <2>1, RequestKinds DEF ActivateGate, At, TypeOK
  <2>3. Moves
    BY <1>1, <1>5, <2>1, <2>2 DEF ActivateGate, Bills
  <2> QED
    BY <1>5, <2>2, <2>3 DEF ActivateGate, PlainMove, Bills
<1>6. CASE ActivateScan(h)
  <2>1. Moves
    BY <1>6 DEF ActivateScan, Bills
  <2> QED
    BY <1>6, <2>1 DEF ActivateScan, At, PlainMove, Bills
<1>7. CASE FindInvoice(h)
  <2>1. Moves
    BY <1>7 DEF FindInvoice, Bills
  <2> QED
    BY <1>7, <2>1 DEF FindInvoice, At, PlainMove, Bills
<1> QED
  BY <1>2, <1>3, <1>4, <1>5, <1>6, <1>7, Zenon DEF Proceed
-----------------------------------------------------------------------------
(* New lines are pending, so that nothing is activated in full.            *)
LEMMA NewLinesKeep ==
  ASSUME TypeOK, BillingInv, NEW h \in Handlers,
         CreateOrder(h) \/ UpdateDraftCommit(h)
  PROVE  AutomationApproves' /\ NoBillForgotten'
<1>1. /\ UNCHANGED <<intent, invoice, failures>> /\ ~Bills(req[h])
      /\ Done(h) \/ Continue(h, [pc |-> "approval"])
  <2>1. CASE CreateOrder(h)
    <3>1. Done(h) \/ Continue(h, [pc |-> "approval"])
      BY <2>1 DEF CreateOrder
    <3>2. UNCHANGED <<intent, invoice, failures>> /\ req[h] = Idle
      BY <2>1 DEF CreateOrder, Start
    <3> QED
      BY <3>1, <3>2 DEF Idle, Bills
  <2>2. CASE UpdateDraftCommit(h)
    BY <2>2 DEF UpdateDraftCommit, At, Bills
  <2> QED
    BY <2>1, <2>2
<1>2. PICK r : Continue(h, r) /\ ~Bills(r)
  BY <1>1 DEF Done, Idle, Bills
<1>3. OnOrder' = Completed' => OnOrder' = {}
  <2>1. CASE CreateOrder(h)
    <3>1. PICK ls \in SUBSET LineIds :
            lines' = [l \in LineIds |-> IF l \in ls THEN "PENDING" ELSE lines[l]]
      BY <2>1 DEF CreateOrder
    <3>2. \A l \in LineIds : lines[l] = "UNUSED"
      BY <2>1 DEF CreateOrder, BillingInv, LinesOnce, Unused
    <3> QED
      BY <3>1, <3>2 DEF OnOrder, Completed
  <2>2. CASE UpdateDraftCommit(h)
    <3>1. lines' = [l \in LineIds |->
                      IF l \in req[h].newLines THEN "PENDING"
                      ELSE IF l \in OnOrder THEN "DELETED" ELSE lines[l]]
      BY <2>2 DEF UpdateDraftCommit
    <3> QED
      BY <3>1 DEF OnOrder, Completed
  <2> QED
    BY <2>1, <2>2
<1>4. Due' => Due
  BY <1>1, <1>3, CheckoutAssumption DEF Due, InvoiceDue, Triggered
<1>5. AutomationApproves'
  BY <1>1, <1>2, AutomationContinue
  DEF BillingInv, AutomationApproves, Automatic, Bills
<1> QED
  BY <1>1, <1>2, <1>4, <1>5, HandKept, NothingNewDue DEF BillingInv

(* An activation whose line is there goes on to the automation; one whose  *)
(* line an edit has deleted leaves the lines alone.                        *)
LEMMA ActivateKeeps ==
  ASSUME TypeOK, BillingInv, NEW h \in Handlers, ActivateCommit(h)
  PROVE  AutomationApproves' /\ NoBillForgotten'
<1> DEFINE rerun == [pc |-> "reevaluate", source |-> "ON_ACTIVATED",
                     force |-> FALSE]
<1>1. /\ UNCHANGED <<intent, invoice, failures>> /\ ~Bills(req[h])
      /\ req[h].pc = "activated"
      /\ Bills(rerun) /\ Automatic(rerun) /\ Automatic(Idle)
  BY DEF ActivateCommit, At, Bills, Automatic, Idle
<1>2. CASE Continue(h, rerun)
  BY <1>1, <1>2, HandTaken, AutomationContinue DEF BillingInv, AutomationApproves
<1>3. CASE ~Continue(h, rerun)
  <2>1. Done(h) /\ req[h].status \notin {"ACTIVE", "ACTIVATING"}
    BY <1>3 DEF ActivateCommit
  <2>2. req[h].line \notin OnOrder
    BY <1>1, <2>1 DEF BillingInv, LinesOnce, LinesOf
  <2>3. UNCHANGED lines
    BY <2>2 DEF ActivateCommit
  <2>4. PlainMove(h)
    BY <1>1, <2>1, <2>3 DEF PlainMove, Done, Idle, Bills
  <2> QED
    BY <2>4, PlainKeeps
<1> QED
  BY <1>2, <1>3

(* Submission locks an amount above zero: nothing is paid yet.             *)
LEMMA SubmitKeeps ==
  ASSUME TypeOK, BillingInv, NEW h \in Handlers, SubmitCommit(h)
  PROVE  AutomationApproves' /\ NoBillForgotten'
<1>1. /\ Done(h) /\ UNCHANGED <<lines, invoice, failures>>
      /\ req[h].pc = "submit" /\ ~Bills(req[h])
  BY DEF SubmitCommit, At, Bills
<1>2. req[h].total \in Nat \ {0}
  BY <1>1, RequestKinds DEF TypeOK
<1>3. intent' = intent \/ intent' = IntentRow(req[h].total, 0)
  BY DEF SubmitCommit
<1>4. intent'.status = "PAID" => intent.status = "PAID"
  BY <1>2, <1>3 DEF IntentRow, IntentStatus
<1>5. AutomationApproves'
  BY <1>1, AutomationContinue
  DEF Done, Idle, BillingInv, AutomationApproves, Automatic
<1>6. InHand => InHand'
  BY <1>1, HandKept DEF Done
<1>7. Due' => Due
  BY <1>1, <1>4, DueKept
<1> QED
  BY <1>1, <1>4, <1>5, <1>6, <1>7, NothingNewDue DEF BillingInv

(* The payment that completes the amount takes the bill.                   *)
LEMMA PaymentKeeps ==
  ASSUME TypeOK, BillingInv, NEW h \in Handlers,
         BankApply(h) \/ OverrideCommit(h)
  PROVE  AutomationApproves' /\ NoBillForgotten'
<1> DEFINE rerun == [pc |-> "reevaluate", source |-> "ON_PAID", force |-> FALSE]
<1>1. /\ UNCHANGED <<lines, invoice, failures>> /\ ~Bills(req[h])
      /\ Bills(rerun) /\ Automatic(rerun) /\ Automatic(Idle)
  BY DEF BankApply, OverrideCommit, At, Bills, Automatic, Idle
<1>2. PICK paid : RecordPayment(h, paid)
  BY DEF BankApply, OverrideCommit
<1>3. IF intent'.status = "PAID" THEN Continue(h, rerun) ELSE Done(h)
  BY <1>2 DEF RecordPayment
<1>4. CASE intent'.status = "PAID"
  BY <1>1, <1>3, <1>4, HandTaken, AutomationContinue
  DEF BillingInv, AutomationApproves
<1>5. CASE intent'.status # "PAID"
  <2>1. AutomationApproves'
    BY <1>1, <1>3, <1>5, AutomationContinue
    DEF Done, BillingInv, AutomationApproves
  <2>2. InHand => InHand'
    BY <1>1, <1>3, <1>5, HandKept DEF Done
  <2>3. Due' => Due
    BY <1>1, <1>5, DueKept
  <2> QED
    BY <1>1, <1>5, <2>1, <2>2, <2>3, NothingNewDue DEF BillingInv
<1> QED
  BY <1>4, <1>5

(* A re-evaluation that finds nothing to bill finds nothing due.           *)
LEMMA ReEvaluateKeeps ==
  ASSUME TypeOK, BillingInv, NEW h \in Handlers, ReEvaluate(h)
  PROVE  AutomationApproves' /\ NoBillForgotten'
<1>1. /\ UNCHANGED <<lines, intent, invoice, failures>>
      /\ req[h].pc = "reevaluate"
  BY DEF ReEvaluate, At
<1>2. Unaided => ~req[h].force
  BY <1>1 DEF BillingInv, AutomationApproves, Automatic
<1>3. CASE InvoiceDue(req[h].source, req[h].force)
  <2>1. PICK r : r = [pc |-> "bill", full |-> intent.status = "PAID",
                      paid |-> intent.paid, total |-> order.total,
                      exists |-> invoice.status # "NONE"]
    OBVIOUS
  <2>2. Continue(h, r) /\ Bills(r)
    BY <1>3, <2>1 DEF ReEvaluate, Bills
  <2>3. Unaided => Automatic(r)
    BY <1>2, <1>3, <2>1 DEF InvoiceDue, Triggered, Unaided, Automatic
  <2> QED
    BY <1>1, <2>2, <2>3, HandTaken, AutomationContinue
    DEF BillingInv, AutomationApproves
<1>4. CASE ~InvoiceDue(req[h].source, req[h].force)
  <2>1. Done(h)
    BY <1>4 DEF ReEvaluate
  <2>2. ~Due /\ (Unaided => intent.status # "PAID")
    BY <1>4, CheckoutAssumption DEF Due, InvoiceDue, Triggered, Unaided
  <2>3. ~Due' /\ (Unaided => intent'.status # "PAID")
    BY <1>1, <2>2, DueKept
  <2>4. AutomationApproves'
    BY <1>1, <2>1, AutomationContinue
    DEF Done, Idle, BillingInv, AutomationApproves, Automatic
  <2> QED
    BY <2>3, <2>4 DEF NoBillForgotten, Unaided
<1> QED
  BY <1>3, <1>4

(* The automation and the n8n endpoint leave an invoice behind; unaided,   *)
(* an approved one.                                                        *)
LEMMA InvoiceKeeps ==
  ASSUME TypeOK, BillingInv, NEW h \in Handlers,
         WriteInvoice(h) \/ IssueInvoice(h)
  PROVE  AutomationApproves' /\ NoBillForgotten'
<1>1. CASE WriteInvoice(h)
  <2>1. req[h].pc = "bill" /\ Done(h)
    BY <1>1 DEF WriteInvoice, At
  <2>2. Unaided => req[h].full /\ invoice.status \in {"NONE", "APPROVED"}
    BY <2>1 DEF BillingInv, AutomationApproves, Automatic
  <2>3. /\ invoice'.status # "NONE"
        /\ Unaided => invoice'.status = "APPROVED"
    <3>1. PICK status : status = InvoiceStatus(req[h].full)
      OBVIOUS
    <3>2. status # "NONE" /\ (Unaided => status = "APPROVED")
      BY <2>2, <3>1 DEF InvoiceStatus
    <3>3. \/ invoice'.status = status
          \/ invoice.status # "NONE" /\ UNCHANGED invoice
      <4>1. CASE invoice' = [invoice EXCEPT !.status = status,
                                            !.paid = req[h].paid,
                                            !.settled = req[h].full]
        BY <4>1 DEF TypeOK, Invoices
      <4>2. CASE invoice' = [status |-> status, total |-> req[h].total,
                             paid |-> req[h].paid, settled |-> req[h].full]
        BY <4>2
      <4> QED
        BY <1>1, <3>1, <4>1, <4>2 DEF WriteInvoice
    <3> QED
      BY <2>2, <3>2, <3>3
  <2>4. AutomationApproves'
    BY <2>1, <2>3, AutomationContinue DEF Done, Idle, BillingInv, Automatic
  <2> QED
    BY <2>3, <2>4 DEF NoBillForgotten, Unaided
<1>2. CASE IssueInvoice(h) /\ UNCHANGED invoice
  <2>1. Done(h) \/ Continue(h, [pc |-> "mark", covers |-> req[h].covers])
    BY <1>2 DEF IssueInvoice
  <2>2. PlainMove(h)
    BY <1>2, <2>1 DEF IssueInvoice, At, Done, Idle, PlainMove, Bills
  <2> QED
    BY <2>2, PlainKeeps
<1>3. CASE IssueInvoice(h) /\ invoice' # invoice
  <2>1. /\ Continue(h, [pc |-> "mark", covers |-> req[h].covers])
        /\ invoice'.status = "APPROVED"
    <3>1. \/ invoice' = [invoice EXCEPT !.status = "APPROVED",
                                       !.paid = req[h].paid + req[h].amount,
                                       !.settled = TRUE]
          \/ invoice' = [status |-> "APPROVED", total |-> req[h].total,
                         paid |-> req[h].amount, settled |-> TRUE]
      BY <1>3 DEF IssueInvoice
    <3>2. invoice'.status = "APPROVED"
      <4>1. CASE invoice' = [invoice EXCEPT !.status = "APPROVED",
                                !.paid = req[h].paid + req[h].amount,
                                !.settled = TRUE]
        BY <4>1 DEF TypeOK, Invoices
      <4>2. CASE invoice' = [status |-> "APPROVED", total |-> req[h].total,
                             paid |-> req[h].amount, settled |-> TRUE]
        BY <4>2
      <4> QED
        BY <3>1, <4>1, <4>2
    <3> QED
      BY <1>3, <3>2 DEF IssueInvoice
  <2>2. AutomationApproves'
    BY <2>1, AutomationContinue DEF BillingInv, Automatic
  <2> QED
    BY <2>1, <2>2 DEF NoBillForgotten
<1> QED
  BY <1>1, <1>2, <1>3

LEMMA BillingStep ==
  ASSUME TypeOK, BillingInv, [Next]_vars
  PROVE  BillingInv'
<1>0. LinesOnce'
  BY LinesStep DEF BillingInv
<1>1. ASSUME NEW h \in Handlers, Begin(h)
      PROVE  AutomationApproves' /\ NoBillForgotten'
  <2>1. ASSUME NEW force \in BOOLEAN, ManualReEvaluate(h, force)
        PROVE  AutomationApproves' /\ NoBillForgotten'
    <3> DEFINE r == [pc |-> "reevaluate", source |-> "MANUAL", force |-> force]
    <3>1. Continue(h, r) /\ Bills(r) /\ ~Unaided
      BY <2>1 DEF ManualReEvaluate, Start, Bills, Unaided
    <3> QED
      BY <3>1, HandTaken DEF AutomationApproves, Unaided
  <2> QED
    BY <1>1, <2>1, PlainBegin, PlainKeeps, NewLinesKeep
<1>2. ASSUME NEW h \in Handlers, Proceed(h)
      PROVE  AutomationApproves' /\ NoBillForgotten'
  BY <1>2, PlainProceed, PlainKeeps, NewLinesKeep, ActivateKeeps, SubmitKeeps,
     PaymentKeeps, ReEvaluateKeeps, InvoiceKeeps
<1>3. ASSUME NEW h \in Handlers, RequestFails(h)
      PROVE  AutomationApproves' /\ NoBillForgotten'
  <2>1. /\ Done(h) /\ UNCHANGED invoice
        /\ failures' = failures + 1 /\ failures \in Nat
    BY <1>3 DEF RequestFails, TypeOK
  <2>2. AutomationApproves'
    BY <2>1, AutomationContinue
    DEF Done, Idle, BillingInv, AutomationApproves, Automatic
  <2>3. failures' # 0
    BY <2>1
  <2> QED
    BY <2>2, <2>3 DEF NoBillForgotten
<1>4. ASSUME DraftExpires \/ CleanupDraft \/ UNCHANGED vars
      PROVE  AutomationApproves' /\ NoBillForgotten'
  <2>1. UNCHANGED <<lines, intent, invoice, req, failures>>
    BY <1>4 DEF DraftExpires, CleanupDraft, vars
  <2>2. AutomationApproves'
    BY <2>1 DEF BillingInv, AutomationApproves, Automatic, Unaided
  <2>3. InHand => InHand'
    BY <2>1 DEF InHand, Bills
  <2>4. Due' => Due
    BY <2>1, DueKept
  <2>5. NoBillForgotten'
    BY <2>1, <2>3, <2>4, NothingNewDue DEF BillingInv
  <2> QED
    BY <2>2, <2>5
<1>5. AutomationApproves' /\ NoBillForgotten'
  BY <1>1, <1>2, <1>3, <1>4 DEF Next
<1> QED
  BY <1>0, <1>5 DEF BillingInv

LEMMA BillingInvariant == Spec => []BillingInv
<1>1. Init => BillingInv
  <2> SUFFICES ASSUME Init PROVE BillingInv
    OBVIOUS
  <2>1. /\ \A h \in Handlers : req[h] = Idle
        /\ Unused = LineIds /\ OnOrder = {}
        /\ intent.status = "NONE" /\ invoice.status = "NONE"
    BY DEF Init, NoIntent, NoInvoice, Unused, OnOrder
  <2>2. LinesOnce
    BY <2>1 DEF LinesOnce, LinesOf, Apart, Edits, Activates, Idle
  <2>3. AutomationApproves
    BY <2>1 DEF AutomationApproves, Automatic, Idle
  <2>4. ~Due
    BY <2>1, CheckoutAssumption DEF Due, InvoiceDue, Triggered
  <2> QED
    BY <2>1, <2>2, <2>3, <2>4 DEF BillingInv, NoBillForgotten
<1>2. TypeOK /\ BillingInv /\ [Next]_vars => BillingInv'
  BY BillingStep
<1> QED
  BY <1>1, <1>2, TypeCorrect, PTL DEF Spec

(* Under any overlap of requests and as long as none has failed half way,  *)
(* an order whose policy asks for an invoice has one, or a request in      *)
(* flight is about to evaluate or write it; and a paid order under ON_PAID *)
(* has an approved one unless somebody may force re-evaluations            *)
(* (reEvaluateInvoiceAutomation and its callers).                          *)
THEOREM BillsAreNotForgotten == Spec => []NoBillForgotten
<1>1. BillingInv => NoBillForgotten
  BY DEF BillingInv
<1> QED
  BY <1>1, BillingInvariant, PTL
=============================================================================
