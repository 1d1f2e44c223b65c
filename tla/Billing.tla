------------------------------- MODULE Billing -------------------------------
(* Classic orders and their invoices: sales.service.ts, finance.service.ts *)
(* and the period locks of settings-policy.service.ts.                     *)
(*                                                                         *)
(* Every endpoint reads a row, decides, and writes by id in a later        *)
(* statement or transaction; one action is one of these. An order has at   *)
(* most one invoice (unique index on orderId), so invoices are named by    *)
(* their orders. A refused request is a stutter or an action that only     *)
(* ends it; so are the refusals by posting window, discount and credit     *)
(* policy. A period is a month. An invoice without due date (period None)  *)
(* counts for the month in which it is looked at.                          *)
(* Operators marked "mutant" are not part of the specification: each is a  *)
(* plausible mistake in the definition after it.                           *)
EXTENDS Naturals, FiniteSets

CONSTANTS Orders,
          Edits,             \* bound: approvals of target ORDER_EDIT ever made
          Handlers,          \* requests in flight
          Amounts,           \* totals and payments, in whole units
          Periods,           \* accounting periods, one month each
          DueDates,          \* bound: due dates asked for, by their periods or None
          Endpoints,         \* bound: what is asked for
          IncreaseIsFree,    \* allowIncreaseWithoutApproval
          DecreaseIsHeld,    \* requireApprovalForDecrease
          MaxFailures,       \* bound: requests cut off half way
          None               \* no order, edit or period

AllEndpoints == {"update", "archive", "decide", "edit", "bill", "amend",
                 "move", "void", "allocate", "close", "settings"}

ASSUME BillingAssumption ==
  /\ Amounts \subseteq Nat \ {0} /\ Periods \subseteq Nat
  /\ Endpoints \subseteq AllEndpoints /\ DueDates \subseteq Periods \cup {None}
  /\ IncreaseIsFree \in BOOLEAN /\ DecreaseIsHeld \in BOOLEAN
  /\ MaxFailures \in Nat
  /\ None \notin Orders \cup Edits \cup Periods

VARIABLES order,     \* Order: status, totalAmount
          edit,      \* Approval of an edit: status, order, the total asked for
          invoice,   \* Invoice of the order: status, totalAmount, paidAmount, period
          allocated, \* PaymentAllocation: sum of the invoice's rows
          locked,    \* lockedPeriods of the domain finance_controls
          legacy,    \* periods of the setting finance_period_locks
          today,     \* the current month
          req,       \* the local variables of the requests
          mixed,     \* history: what has disturbed the order
          closed,    \* history: the periods closed and not opened again
          clash,     \* history: two writers of finance_controls in flight at once
          failures   \* history: requests cut off so far

rows == <<order, edit, invoice, allocated>>
locks == <<locked, legacy, today, closed>>
history == <<mixed, clash, failures>>
vars == <<rows, locks, req, history>>

OrderStatuses == {"NONE", "PENDING", "APPROVED", "REJECTED", "ARCHIVED"}
EditStatuses == {"NONE", "PENDING", "APPROVED", "REJECTED"}
InvoiceStatuses == {"NONE", "DRAFT", "PENDING", "APPROVED", "ARCHIVED", "REJECTED"}
Sums == {0} \cup Amounts
MaybePeriods == Periods \cup {None}

OrderRows == [status : OrderStatuses, total : Sums]
EditRows == [status : EditStatuses, order : Orders \cup {None}, total : Sums]
InvoiceRows == [status : InvoiceStatuses, total : Sums, paid : Nat,
                period : MaybePeriods]
Requests ==
  [pc : {"idle", "apply", "request", "hold", "archive", "decide", "edit",
         "locks", "count", "bill", "amend", "move", "void",
         "sum", "allocate", "settle", "lock", "legacy", "save", "set"},
   then : {"none", "bill", "amend", "move", "void", "sum"}, \* after the lock check
   id : Orders \cup {None}, edit : Edits \cup {None},
   to : {"NONE"} \cup OrderStatuses \cup InvoiceStatuses, \* status to write
   seen : Nat, new : Sums,                   \* amount read, amount to write
   period : MaybePeriods,                    \* period to write, or of the payment
   asOf : MaybePeriods,                      \* the month it takes as the current one
   check : SUBSET Periods,                   \* periods that must be open
   open : SUBSET Periods,                    \* those of them it found open
   known : SUBSET Periods,                   \* lockedPeriods to write
   since : SUBSET Periods]                   \* history: closed when it began

NoReq == [pc |-> "idle", then |-> "none", id |-> None, edit |-> None, to |-> "NONE",
          seen |-> 0, new |-> 0, period |-> None, asOf |-> None,
          check |-> {}, open |-> {}, known |-> {}, since |-> {}]

Init ==
  /\ order = [o \in Orders |-> [status |-> "NONE", total |-> 0]]
  /\ edit = [e \in Edits |-> [status |-> "NONE", order |-> None, total |-> 0]]
  /\ invoice = [o \in Orders |-> [status |-> "NONE", total |-> 0, paid |-> 0, period |-> None]]
  /\ allocated = [o \in Orders |-> 0]
  /\ locked = {} /\ legacy = {} /\ closed = {} /\ today \in Periods
  /\ req = [h \in Handlers |-> NoReq]
  /\ mixed = [o \in Orders |-> {}]
  /\ clash = FALSE /\ failures = 0

-------------------------------------------------------------------------------
(* The first statement of a request about order o reads its row.           *)
Begin(h, endpoint, o, local) ==
  /\ req[h].pc = "idle" /\ endpoint \in Endpoints
  /\ req' = [req EXCEPT ![h] = [local EXCEPT !.id = o, !.asOf = today, !.since = closed]]
  /\ mixed' = [mixed EXCEPT ![o] = IF \E g \in Handlers : req[g].id = o
                                   THEN @ \cup {"overlap"} ELSE @]
  /\ UNCHANGED <<rows, locks, clash, failures>>

End(h) == req' = [req EXCEPT ![h] = NoReq]

CreateOrder(o) ==
  /\ order[o].status = "NONE"
  /\ \E total \in Amounts : order' = [order EXCEPT ![o] = [status |-> "PENDING", total |-> total]]
  /\ UNCHANGED <<edit, invoice, allocated, locks, req, history>>

(* updateOrder. It does not look at the status of the order.               *)
NeedsApprovalSwapped(old, new) == \/ new < old /\ ~IncreaseIsFree
                                  \/ new > old /\ DecreaseIsHeld \* mutant
NeedsApproval(old, new) == \/ new > old /\ ~IncreaseIsFree
                           \/ new < old /\ DecreaseIsHeld

EditsLeft == /\ \A g \in Handlers : req[g].pc # "request"
             /\ \E e \in Edits : edit[e].status = "NONE"

UpdateOrder(h, o) ==
  /\ order[o].status # "NONE"
  /\ \E new \in Amounts :
       LET held == NeedsApproval(order[o].total, new)
       IN /\ held => EditsLeft
          /\ Begin(h, "update", o,
               [NoReq EXCEPT !.pc = IF held THEN "request" ELSE "apply", !.new = new])

ApplyUpdate(h) ==
  /\ req[h].pc = "apply"
  /\ order' = [order EXCEPT ![req[h].id] = [status |-> "APPROVED", total |-> req[h].new]]
  /\ End(h)
  /\ UNCHANGED <<edit, invoice, allocated, locks, history>>

(* The approval is created, then the order marked PENDING.                 *)
RequestEdit(h) ==
  /\ req[h].pc = "request"
  /\ \E e \in Edits :
       /\ edit[e].status = "NONE"
       /\ edit' = [edit EXCEPT ![e] = [status |-> "PENDING", order |-> req[h].id,
                                       total |-> req[h].new]]
  /\ req' = [req EXCEPT ![h].pc = "hold"]
  /\ UNCHANGED <<order, invoice, allocated, locks, history>>

HoldOrder(h) ==
  /\ req[h].pc = "hold"
  /\ order' = [order EXCEPT ![req[h].id].status = "PENDING"]
  /\ End(h)
  /\ UNCHANGED <<edit, invoice, allocated, locks, history>>

(* The edits of order o that still wait take the status with the order.    *)
PendingEditsTo(o, status) ==
  edit' = [e \in Edits |-> IF edit[e].order = o /\ edit[e].status = "PENDING"
                           THEN [edit[e] EXCEPT !.status = status] ELSE edit[e]]

(* archiveOrder: refused while the invoice is open.                        *)
OpenOncePosted(status) == status \in {"PENDING", "APPROVED"} \* mutant
Open(status) == status \notin {"NONE", "ARCHIVED", "REJECTED"}

ArchiveOrder(h, o) ==
  /\ order[o].status \notin {"NONE", "ARCHIVED"} /\ ~Open(invoice[o].status)
  /\ Begin(h, "archive", o, [NoReq EXCEPT !.pc = "archive"])

ArchiveCommit(h) ==
  /\ req[h].pc = "archive"
  /\ order' = [order EXCEPT ![req[h].id].status = "ARCHIVED"]
  /\ PendingEditsTo(req[h].id, "REJECTED")
  /\ End(h)
  /\ UNCHANGED <<invoice, allocated, locks, history>>

(* approveOrder, rejectOrder: the waiting edits are marked, not applied.   *)
DecideOrder(h, o) ==
  /\ order[o].status = "PENDING"
  /\ \E to \in {"APPROVED", "REJECTED"} :
       Begin(h, "decide", o, [NoReq EXCEPT !.pc = "decide", !.to = to])

DecideCommit(h) ==
  /\ req[h].pc = "decide"
  /\ order' = [order EXCEPT ![req[h].id].status = req[h].to]
  /\ PendingEditsTo(req[h].id, req[h].to)
  /\ End(h)
  /\ UNCHANGED <<invoice, allocated, locks, history>>

(* handleApprovalDecision: an approved edit is applied, by the order's id. *)
DecideEdit(h, e) ==
  /\ edit[e].status = "PENDING"
  /\ \E to \in {"APPROVED", "REJECTED"} :
       Begin(h, "edit", edit[e].order,
             [NoReq EXCEPT !.pc = "edit", !.edit = e, !.to = to, !.new = edit[e].total])

EditCommit(h) ==
  LET o == req[h].id
  IN /\ req[h].pc = "edit"
     /\ order' = [order EXCEPT ![o] =
          [status |-> req[h].to,
           total |-> IF req[h].to = "APPROVED" THEN req[h].new ELSE @.total]]
     /\ edit' = [edit EXCEPT ![req[h].edit].status = req[h].to]
     /\ End(h)
     /\ UNCHANGED <<invoice, allocated, locks, history>>

-------------------------------------------------------------------------------
(* getLockedPeriods: the legacy setting counts while the domain has none.  *)
LockedNow == IF locked = {} THEN legacy ELSE locked

(* assertPeriodUnlockedByDate, for one period after the other: it asks the *)
(* list for p and goes on once all of "check" was found open.              *)
AskFor(h, p, list, since) ==
  IF p \in list
  THEN End(h)
  ELSE req' = [req EXCEPT ![h] =
         [@ EXCEPT !.open = req[h].open \cup {p}, !.since = since,
                   !.pc = IF req[h].check \subseteq req[h].open \cup {p}
                          THEN req[h].then ELSE "locks"]]

AskLocks(h) ==
  /\ req[h].pc = "locks"
  /\ \E p \in req[h].check \ req[h].open : AskFor(h, p, LockedNow, req[h].since)
  /\ UNCHANGED <<rows, locks, history>>

(* The domain cannot be read: the error is swallowed and the legacy list   *)
(* asked instead. A period that it lacks no longer binds the request.      *)
AskLegacyLocks(h) ==
  /\ req[h].pc = "locks" /\ failures < MaxFailures
  /\ failures' = failures + 1
  /\ \E p \in req[h].check \ req[h].open : AskFor(h, p, legacy, req[h].since \ {p})
  /\ UNCHANGED <<rows, locks, mixed, clash>>

(* The period of a due date: "dueAt ?? new Date()".                        *)
AsOf(p) == IF p = None THEN today ELSE p

MonthTurns ==
  /\ today + 1 \in Periods
  /\ today' = today + 1
  /\ UNCHANGED <<rows, locked, legacy, closed, req, history>>

(* createInvoice, createInvoiceFromOrder: for an approved order; a second  *)
(* invoice is refused by the search for one, or by the unique index.       *)
CreateInvoice(h, o) ==
  /\ order[o].status = "APPROVED" /\ invoice[o].status = "NONE"
  /\ \E total \in Amounts, p \in DueDates :
       Begin(h, "bill", o, [NoReq EXCEPT !.pc = "locks", !.then = "bill", !.new = total,
                                         !.period = p, !.check = {AsOf(p)}])

InsertInvoice(h) ==
  LET o == req[h].id
  IN /\ req[h].pc = "bill"
     /\ invoice' = IF invoice[o].status # "NONE" THEN invoice
                   ELSE [invoice EXCEPT ![o] = [status |-> "DRAFT", total |-> req[h].new,
                                                paid |-> 0, period |-> req[h].period]]
     /\ End(h)
     /\ UNCHANGED <<order, edit, allocated, locks, history>>

(* updateInvoice: the period it has and the due date it gets must be open; *)
(* clearing the due date asks for no period it ends up in. The new total   *)
(* is not compared with what is paid. A field left out of the payload is   *)
(* taken as repeated.                                                      *)
Closed(status) == status \in {"ARCHIVED", "REJECTED"}
PeriodsOfMoveTarget(old, new) == {new} \ {None} \* mutant
PeriodsOfMove(old, new) == {AsOf(old)} \cup ({new} \ {None})

AmendInvoice(h, o) ==
  /\ invoice[o].status # "NONE" /\ ~Closed(invoice[o].status)
  /\ \E total \in Amounts, p \in DueDates :
       Begin(h, "amend", o,
         [NoReq EXCEPT !.pc = "locks", !.then = "amend", !.new = total, !.period = p,
                       !.check = PeriodsOfMove(invoice[o].period, p)])

AmendCommit(h) ==
  /\ req[h].pc = "amend"
  /\ invoice' = [invoice EXCEPT ![req[h].id] = [@ EXCEPT !.total = req[h].new,
                                                         !.period = req[h].period]]
  /\ End(h)
  /\ UNCHANGED <<order, edit, allocated, locks, history>>

(* transitionInvoice: ISSUE, APPROVE, PAY and VOID. PAY writes the total   *)
(* that was read as the paid amount.                                       *)
MovesToPaid == {<<"DRAFT", "PENDING">>, <<"PENDING", "APPROVED">>, <<"APPROVED", "PAID">>}
  \cup ({"DRAFT", "PENDING", "APPROVED"} \X {"REJECTED"}) \* mutant
Moves == {<<"DRAFT", "PENDING">>, <<"PENDING", "APPROVED">>, <<"APPROVED", "ARCHIVED">>}
  \cup ({"DRAFT", "PENDING", "APPROVED"} \X {"REJECTED"})

MoveInvoice(h, o) ==
  \E to \in {m[2] : m \in {n \in Moves : n[1] = invoice[o].status}} :
    Begin(h, "move", o,
      [NoReq EXCEPT !.pc = "locks", !.then = "move", !.to = to, !.seen = invoice[o].total,
                    !.check = {AsOf(invoice[o].period)}])

MoveCommit(h) ==
  /\ req[h].pc = "move"
  /\ invoice' = [invoice EXCEPT ![req[h].id] =
       [@ EXCEPT !.status = req[h].to,
                 !.paid = IF req[h].to = "ARCHIVED" THEN req[h].seen
                          ELSE invoice[req[h].id].paid]]
  /\ End(h)
  /\ UNCHANGED <<order, edit, allocated, locks, history>>

(* archiveInvoice: by hand, only while nothing is paid.                    *)
VoidInvoice(h, o) ==
  /\ invoice[o].status \notin {"NONE", "ARCHIVED"}
  /\ Begin(h, "void", o,
       [NoReq EXCEPT !.pc = "count", !.then = "void", !.seen = invoice[o].paid,
                     !.period = invoice[o].period])

CountAllocations(h) ==
  /\ req[h].pc = "count"
  /\ IF allocated[req[h].id] > 0 \/ req[h].seen > 0
     THEN End(h)
     ELSE req' = [req EXCEPT ![h] = [@ EXCEPT !.pc = "locks", !.asOf = today,
                                              !.check = {AsOf(req[h].period)}]]
  /\ UNCHANGED <<rows, locks, history>>

VoidCommit(h) ==
  /\ req[h].pc = "void"
  /\ invoice' = [invoice EXCEPT ![req[h].id].status = "ARCHIVED"]
  /\ End(h)
  /\ UNCHANGED <<order, edit, allocated, locks, history>>

(* allocatePayment, also on an invoice that is archived: it sums the       *)
(* allocations, inserts its own, then writes the invoice from the sum.     *)
AllocatePayment(h, o) ==
  /\ invoice[o].status \notin {"NONE", "DRAFT", "REJECTED"}
  /\ \E amount \in Amounts, p \in Periods :
       Begin(h, "allocate", o,
         [NoReq EXCEPT !.pc = "locks", !.then = "sum", !.new = amount,
                       !.seen = invoice[o].total, !.period = p,
                       !.check = {AsOf(invoice[o].period), p}])

SumAllocations(h) ==
  LET next == allocated[req[h].id] + req[h].new
  IN /\ req[h].pc = "sum"
     /\ IF next > req[h].seen
        THEN End(h)
        ELSE req' = [req EXCEPT ![h] = [@ EXCEPT !.pc = "allocate",
                       !.to = IF next = req[h].seen THEN "ARCHIVED" ELSE "APPROVED",
                       !.seen = next]]
     /\ UNCHANGED <<rows, locks, history>>

InsertAllocation(h) ==
  LET o == req[h].id
  IN /\ req[h].pc = "allocate"
     /\ allocated' = [allocated EXCEPT ![o] = @ + req[h].new]
     /\ mixed' = [mixed EXCEPT ![o] = IF Closed(invoice[o].status)
                                      THEN @ \cup {"reopened"} ELSE @]
     /\ req' = [req EXCEPT ![h].pc = "settle"]
     /\ UNCHANGED <<order, edit, invoice, locks, clash, failures>>

PaidByAmount(r) == r.new \* mutant
PaidByAllocation(r) == r.seen

Settle(h) ==
  /\ req[h].pc = "settle"
  /\ invoice' = [invoice EXCEPT ![req[h].id] =
       [@ EXCEPT !.paid = PaidByAllocation(req[h]), !.status = req[h].to]]
  /\ End(h)
  /\ UNCHANGED <<order, edit, allocated, locks, history>>

-------------------------------------------------------------------------------
(* lockFinancePeriod and updateDomain read the domain and write it whole.  *)
ReadLocks(h, endpoint, list, local) ==
  /\ req[h].pc = "idle" /\ endpoint \in Endpoints
  /\ req' = [req EXCEPT ![h] = [local EXCEPT !.known = list]]
  /\ clash' = (clash \/ \E g \in Handlers : req[g].pc \in {"lock", "save", "set"})
  /\ UNCHANGED <<rows, locks, mixed, failures>>

ClosePeriod(h) ==
  \E p \in Periods :
    ReadLocks(h, "close", locked, [NoReq EXCEPT !.pc = "lock", !.period = p])

(* Another field of the domain is changed and the locks written back, or   *)
(* the payload (a form, a snapshot) brings a list of its own.              *)
ChangeSettings(h) ==
  \/ ReadLocks(h, "settings", locked, [NoReq EXCEPT !.pc = "save"])
  \/ \E list \in SUBSET Periods :
       ReadLocks(h, "settings", list, [NoReq EXCEPT !.pc = "set"])

WriteLock(h) ==
  /\ req[h].pc = "lock"
  /\ locked' = req[h].known \cup {req[h].period}
  /\ closed' = closed \cup {req[h].period}
  /\ req' = [req EXCEPT ![h].pc = "legacy"]
  /\ UNCHANGED <<rows, legacy, today, history>>

WriteLegacyLock(h) ==
  /\ req[h].pc = "legacy"
  /\ legacy' = req[h].known \cup {req[h].period}
  /\ End(h)
  /\ UNCHANGED <<rows, locked, today, closed, history>>

SaveSettings(h) ==
  /\ req[h].pc = "save"
  /\ locked' = req[h].known
  /\ End(h)
  /\ UNCHANGED <<rows, legacy, today, closed, history>>

(* The list of the payload replaces the list, and the legacy setting keeps *)
(* the old one. A period it leaves out is open again and binds nobody.     *)
SetLocks(h) ==
  /\ req[h].pc = "set"
  /\ locked' = req[h].known /\ closed' = req[h].known
  /\ req' = [g \in Handlers |->
               IF g = h THEN NoReq ELSE [req[g] EXCEPT !.since = @ \cap req[h].known]]
  /\ UNCHANGED <<rows, legacy, today, history>>

(* A statement that throws, or a restart.                                  *)
Fail(h) ==
  /\ req[h].pc # "idle" /\ failures < MaxFailures
  /\ failures' = failures + 1
  /\ mixed' = [o \in Orders |-> IF req[h].id = o THEN mixed[o] \cup {"failed"} ELSE mixed[o]]
  /\ End(h)
  /\ UNCHANGED <<rows, locks, clash>>

-------------------------------------------------------------------------------
Request(h) ==
  \/ \E o \in Orders : \/ UpdateOrder(h, o) \/ ArchiveOrder(h, o) \/ DecideOrder(h, o)
                       \/ CreateInvoice(h, o) \/ AmendInvoice(h, o) \/ MoveInvoice(h, o)
                       \/ VoidInvoice(h, o) \/ AllocatePayment(h, o)
  \/ \E e \in Edits : DecideEdit(h, e)
  \/ ClosePeriod(h) \/ ChangeSettings(h)

Step(h) ==
  \/ ApplyUpdate(h) \/ RequestEdit(h) \/ HoldOrder(h)
  \/ ArchiveCommit(h) \/ DecideCommit(h) \/ EditCommit(h)
  \/ AskLocks(h) \/ AskLegacyLocks(h) \/ InsertInvoice(h) \/ AmendCommit(h)
  \/ MoveCommit(h) \/ CountAllocations(h) \/ VoidCommit(h)
  \/ SumAllocations(h) \/ InsertAllocation(h) \/ Settle(h)
  \/ WriteLock(h) \/ WriteLegacyLock(h) \/ SaveSettings(h) \/ SetLocks(h)

Next ==
  \/ \E o \in Orders : CreateOrder(o)
  \/ MonthTurns
  \/ \E h \in Handlers : Request(h) \/ Step(h) \/ Fail(h)

Spec == Init /\ [][Next]_vars

-------------------------------------------------------------------------------
TypeOK ==
  /\ order \in [Orders -> OrderRows]
  /\ edit \in [Edits -> EditRows]
  /\ invoice \in [Orders -> InvoiceRows]
  /\ allocated \in [Orders -> Nat]
  /\ locked \subseteq Periods /\ legacy \subseteq Periods /\ closed \subseteq Periods
  /\ today \in Periods
  /\ req \in [Handlers -> Requests]
  /\ mixed \in [Orders -> SUBSET {"overlap", "failed", "reopened"}]
  /\ clash \in BOOLEAN
  /\ failures \in 0 .. MaxFailures

(* Where decreases need approval, the total of an order falls only by an   *)
(* edit that was waiting and is approved with that total: never by         *)
(* updateOrder itself, unless two requests overlapped on the order and the *)
(* comparison was made with a total that is no longer there.               *)
DecreaseIsApproved ==
  [][\A o \in Orders :
       DecreaseIsHeld /\ order'[o].total < order[o].total /\ "overlap" \notin mixed[o]
       => \E e \in Edits : /\ edit[e] = [status |-> "PENDING", order |-> o,
                                         total |-> order'[o].total]
                           /\ edit'[e].status = "APPROVED"]_vars

(* An archived order has no open invoice: archiveOrder refuses while there *)
(* is one, and invoices are made for approved orders only. Excepted are    *)
(* requests that overlapped on the order, and a payment allocated to a     *)
(* closed invoice, which opens it again.                                   *)
ArchivedOrderIsSettled ==
  \A o \in Orders :
    order[o].status = "ARCHIVED" /\ mixed[o] \cap {"overlap", "reopened"} = {}
    => ~Open(invoice[o].status)

(* The paid amount of an invoice is the sum of its allocations, or the     *)
(* invoice was paid by hand in full and is closed; while no allocation is  *)
(* between its two writes, none was cut off there, and no two requests     *)
(* overlapped (allocatePayment, transitionInvoice, updateInvoice).         *)
PaidIsAllocated ==
  \A o \in Orders :
    /\ mixed[o] \cap {"overlap", "failed"} = {}
    /\ \A h \in Handlers : req[h].id = o => req[h].pc # "settle"
    => \/ invoice[o].paid = allocated[o]
       \/ invoice[o].status = "ARCHIVED" /\ invoice[o].paid = invoice[o].total

(* The period an invoice with due date p has in the eyes of request r.     *)
PeriodFor(r, p) == IF p = None THEN r.asOf ELSE p

(* A closed period is frozen ("Ky da khoa, khong the ..."): no request     *)
(* that began after the closing changes an invoice of the period, moves    *)
(* one into it or books a payment in it. Excepted are an invoice whose due *)
(* date is cleared, which enters the current month unasked; a period that  *)
(* was opened again meanwhile, or that the legacy list lacked when the     *)
(* domain could not be read; requests that overlapped on the invoice; and  *)
(* changes of finance_controls that overlapped, one losing the other's     *)
(* lock (updateInvoice, getLockedPeriods, updateDomain).                   *)
ClosedPeriodIsFrozen ==
  [][~clash =>
       \A o \in Orders, h \in Handlers :
         req[h].id = o /\ req'[h] # req[h] /\ "overlap" \notin mixed[o]
         => /\ invoice'[o] # invoice[o] /\ invoice[o].status # "NONE"
                 => PeriodFor(req[h], invoice[o].period) \notin req[h].since
            /\ invoice'[o] # invoice[o]
               /\ (invoice'[o].period = None => invoice[o].period = None)
                 => PeriodFor(req[h], invoice'[o].period) \notin req[h].since
            /\ allocated'[o] # allocated[o] => req[h].period \notin req[h].since]_vars
=============================================================================
