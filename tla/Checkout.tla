------------------------------ MODULE Checkout ------------------------------
(***************************************************************************)
(* One checkout order: its draft, its payment intent, the bank events and  *)
(* overrides that pay it, the activation of its lines and its invoice      *)
(* (sales-checkout.service.ts, sales-draft-cleanup.service.ts).            *)
(*                                                                         *)
(* Every endpoint reads, awaits, then writes; PostgreSQL runs at READ      *)
(* COMMITTED, so another request may commit between the two, inside an     *)
(* interactive transaction as well as outside one.  A handler is therefore *)
(* one action per read point and one per commit, and req[h] carries what   *)
(* it read.  A commit is atomic; a failed statement or a crash drops the   *)
(* request and, with it, everything it had not committed.                  *)
(***************************************************************************)
EXTENDS Integers, FiniteSets

CONSTANTS
  Handlers,               \* requests that can be in flight together
  Keys,                   \* dedupe hashes of bank events
  Amounts,                \* amounts a bank event, override or invoice may carry
  Totals,                 \* totals a cart may add up to
  LineIds,                \* identifiers of order lines
  Discounts,              \* discount classes callers ask for
  Endpoints,              \* endpoints the environment calls
  PartialPaymentEnabled,  \* paymentPolicy.partialPaymentEnabled
  RequireFullPayment,     \* invoiceAutomation[group].requireFullPayment
  Trigger,                \* invoiceAutomation[group].trigger
  MaxFailures,            \* bound: requests that may fail half way
  MaxCredit,              \* bound: no override starts above this credit
  MaxInvoiced             \* bound: no manual invoicing starts above this

(* Operators marked "mutant" are not part of the specification: each is a  *)
(* plausible defect of the definition after it, under which a property     *)
(* stated at the end of the module fails.                                  *)

EndpointNames ==
  {"create", "update", "submit", "bank", "override", "activate",
   "reevaluate", "invoice", "cleanup"}

ASSUME CheckoutAssumption ==
  /\ Amounts \subseteq Nat \ {0}
  /\ Totals \subseteq Nat \ {0}
  /\ Discounts \subseteq {"within", "aboveThreshold", "aboveMax"}
  /\ Endpoints \subseteq EndpointNames
  /\ PartialPaymentEnabled \in BOOLEAN
  /\ RequireFullPayment \in BOOLEAN
  /\ Trigger \in {"ON_PAID", "ON_ACTIVATED", "MANUAL"}
  /\ MaxFailures \in Nat
  /\ MaxCredit \in Nat
  /\ MaxInvoiced \in Nat

VARIABLES
  order,     \* the Order row
  lines,     \* the OrderItem rows, by identifier
  intent,    \* the PaymentIntent row
  txns,      \* the PaymentTransaction rows
  invoice,   \* the Invoice row (settled: paidAt is set)
  req,       \* what each request in flight has read
  ledger,    \* history: money credited, and how often under each key
  failures   \* requests that have failed half way

vars == <<order, lines, intent, txns, invoice, req, ledger, failures>>
-----------------------------------------------------------------------------
OrderStatuses ==
  {"NONE", "DRAFT", "PENDING_PAYMENT", "PARTIALLY_PAID", "PAID",
   "ACTIVATING", "ACTIVE", "CANCELLED"}
IntentStatuses == {"NONE", "UNPAID", "PARTIALLY_PAID", "PAID"}

Least(a, b) == IF a <= b THEN a ELSE b

OnOrder == {l \in LineIds : lines[l] \in {"PENDING", "COMPLETED"}}
Completed == {l \in LineIds : lines[l] = "COMPLETED"}
Unused == {l \in LineIds : lines[l] = "UNUSED"}

(* Row locks of open transactions: the lines activations have written, and *)
(* the order while a draft update that has written it replaces the lines.  *)
In(pc) == {g \in Handlers : req[g].pc = pc}
LinesRead == {req[g].line : g \in In("activate")} \* mutant
LinesWritten == {req[g].line : g \in In("activated")}
OrderFree == In("updating") = {}

(* resolvePaymentIntentStatus.  Amounts are multiples of 0.01, so that the *)
(* tolerance of 0.0001 never tells two of them apart.                      *)
IntentStatus(paid, locked) ==
  CASE locked > 0 /\ paid <= 0       -> "UNPAID"
    [] paid > 0 /\ paid < locked      -> "PARTIALLY_PAID"
    [] OTHER                          -> "PAID"

(* resolveOrderCheckoutStatus, on the statuses an intent can reach.        *)
OrderStatusFor(status) ==
  IF status \in {"PAID", "PARTIALLY_PAID"} THEN status ELSE "PENDING_PAYMENT"

IntentRow(locked, paid) ==
  LET status == IntentStatus(paid, locked)
  IN  [status    |-> status,
       locked    |-> locked,
       paid      |-> paid,
       remaining |-> IF locked > paid THEN locked - paid ELSE 0,
       qrActive  |-> status # "PAID"]

NoIntent ==
  [status |-> "NONE", locked |-> 0, paid |-> 0, remaining |-> 0,
   qrActive |-> FALSE]

NoInvoice == [status |-> "NONE", total |-> 0, paid |-> 0, settled |-> FALSE]

Idle == [pc |-> "idle"]
-----------------------------------------------------------------------------
Init ==
  /\ order = [status |-> "NONE", total |-> 0, itemsTotal |-> 0,
              discount |-> "within", approval |-> FALSE,
              commerciallyLocked |-> FALSE, expired |-> FALSE]
  /\ lines = [l \in LineIds |-> "UNUSED"]
  /\ intent = NoIntent
  /\ txns = {}
  /\ invoice = NoInvoice
  /\ req = [h \in Handlers |-> Idle]
  /\ ledger = [credited |-> 0, applied |-> [k \in Keys |-> 0]]
  /\ failures = 0

Continue(h, r) == req' = [req EXCEPT ![h] = r]
Done(h) == Continue(h, Idle)
Start(h, endpoint) == endpoint \in Endpoints /\ req[h] = Idle
At(h, pc) == req[h].pc = pc
-----------------------------------------------------------------------------
(* createCheckoutOrder: one transaction writes the order and its lines; a  *)
(* discount above the maximum is refused, one above the approval threshold *)
(* is followed by a separate insert of the approval request.               *)
DiscountAllowed(discount) == discount # "aboveMax"

CreateOrder(h) ==
  /\ Start(h, "create")
  /\ order.status = "NONE"
  /\ \E total \in Totals, ls \in (SUBSET LineIds) \ {{}},
        discount \in {d \in Discounts : DiscountAllowed(d)} :
       /\ order' = [order EXCEPT !.status = "DRAFT", !.total = total,
                                 !.itemsTotal = total, !.discount = discount]
       /\ lines' = [l \in LineIds |-> IF l \in ls THEN "PENDING" ELSE lines[l]]
       /\ IF discount = "within"
          THEN Done(h)
          ELSE Continue(h, [pc |-> "approval"])
  /\ UNCHANGED <<intent, txns, invoice, ledger, failures>>

RequestApproval(h) ==
  /\ At(h, "approval")
  /\ order' = [order EXCEPT !.approval = TRUE]
  /\ Done(h)
  /\ UNCHANGED <<lines, intent, txns, invoice, ledger, failures>>
-----------------------------------------------------------------------------
(* updateDraftOrder: the draft check reads the order before the            *)
(* transaction; the writes select by id alone.  Without items in the       *)
(* payload (newLines = {}) the total is recomputed from the lines read.    *)
(* New lines come under identifiers nobody else has (bound: LineIds).      *)
EditableUntilPaid == order.status \in {"DRAFT", "PENDING_PAYMENT"} \* mutant
Editable == order.status = "DRAFT"

FreshLines ==
  Unused \ UNION {req[g].newLines : g \in In("update") \cup In("updating")}

UpdateDraftRead(h) ==
  /\ Start(h, "update")
  /\ Editable
  /\ \/ \E total \in Totals, discount \in Discounts,
           ls \in (SUBSET FreshLines) \ {{}} :
          Continue(h, [pc |-> "update", total |-> total,
                       discount |-> discount, newLines |-> ls])
     \/ Continue(h, [pc |-> "update", total |-> order.itemsTotal,
                     discount |-> order.discount, newLines |-> {}])
  /\ UNCHANGED <<order, lines, intent, txns, invoice, ledger, failures>>

(* With items, the transaction writes the order first and then replaces    *)
(* the lines: it holds the order while it waits for a line another         *)
(* transaction has written.  deleteMany takes the lines the order has by   *)
(* then.                                                                   *)
UpdateDraftWrite(h) ==
  /\ At(h, "update")
  /\ OrderFree
  /\ \/ /\ req[h].newLines # {}
        /\ Continue(h, [req[h] EXCEPT !.pc = "updating"])
        /\ UNCHANGED order
     \/ /\ req[h].newLines = {}
        /\ order' = [order EXCEPT !.total = req[h].total]
        /\ Done(h)
  /\ UNCHANGED <<lines, intent, txns, invoice, ledger, failures>>

UpdateDraftCommit(h) ==
  /\ At(h, "updating")
  /\ OnOrder \cap LinesWritten = {}
  /\ lines' = [l \in LineIds |->
                 IF l \in req[h].newLines THEN "PENDING"
                 ELSE IF l \in OnOrder THEN "DELETED" ELSE lines[l]]
  /\ order' = [order EXCEPT !.total = req[h].total,
                            !.itemsTotal = req[h].total,
                            !.discount = req[h].discount]
  /\ Done(h)
  /\ UNCHANGED <<intent, txns, invoice, ledger, failures>>

(* An activation holds a line and waits for the order, the update holds    *)
(* the order and waits for the line: PostgreSQL aborts one of the two.     *)
Deadlocked(f, g) ==
  At(f, "activated") /\ req[f].line \in OnOrder /\ At(g, "updating")

DeadlockVictim(h) ==
  /\ \E g \in Handlers : Deadlocked(g, h) \/ Deadlocked(h, g)
  /\ Done(h)
  /\ UNCHANGED <<order, lines, intent, txns, invoice, ledger, failures>>
-----------------------------------------------------------------------------
(* submitCheckoutOrder: guards on the order read before the transaction;   *)
(* the transaction inserts the intent (unique per order: a second insert   *)
(* aborts it) and moves the order by id alone.  commerciallyLocked stands  *)
(* for commercialLockedAt together with status = PENDING.                  *)
SubmitRead(h) ==
  /\ Start(h, "submit")
  /\ order.status = "DRAFT"
  /\ OnOrder # {}
  /\ order.total > 0
  /\ Continue(h, [pc |-> "submit", total |-> order.total,
                  hasIntent |-> intent.status # "NONE"])
  /\ UNCHANGED <<order, lines, intent, txns, invoice, ledger, failures>>

SubmitCommit(h) ==
  /\ At(h, "submit")
  /\ Done(h)
  /\ \/ /\ ~req[h].hasIntent /\ intent.status # "NONE"
        /\ UNCHANGED <<order, intent>>
     \/ /\ req[h].hasIntent \/ intent.status = "NONE"
        /\ OrderFree
        /\ intent' = IF req[h].hasIntent THEN intent
                     ELSE IntentRow(req[h].total, 0)
        /\ order' = [order EXCEPT !.status = "PENDING_PAYMENT",
                                  !.commerciallyLocked = TRUE]
  /\ UNCHANGED <<lines, txns, invoice, ledger, failures>>
-----------------------------------------------------------------------------
(* The two writes that end every accepted payment: the intent gets         *)
(* absolute values computed from what was read, the order the status that  *)
(* follows from them.                                                      *)
NextPaidUncapped(paid, amount) == paid + amount \* mutant
NextPaidOverwrites(paid, amount) == Least(amount, intent.locked) \* mutant
NextPaid(paid, amount) == Least(paid + amount, intent.locked)

RecordPayment(h, paid) ==
  LET row == IntentRow(intent.locked, paid)
  IN  /\ OrderFree
      /\ intent' = row
      /\ order' = [order EXCEPT !.status = OrderStatusFor(row.status)]
      /\ IF row.status = "PAID"
         THEN Continue(h, [pc |-> "reevaluate", source |-> "ON_PAID",
                           force |-> FALSE])
         ELSE Done(h)

(* processBankEvent.  An event whose hash is already recorded is answered  *)
(* without any write; one that loses the race on the unique hash aborts.   *)
AnyKey(k) == TRUE \* mutant
FreshKey(k) == \A t \in txns : t.key # k

BankRead(h, k, amount) ==
  /\ Start(h, "bank")
  /\ intent.status # "NONE"
  /\ FreshKey(k)
  /\ Continue(h, [pc |-> "bank", key |-> k, amount |-> amount,
                  paid |-> intent.paid])
  /\ UNCHANGED <<order, lines, intent, txns, invoice, ledger, failures>>

BankConflict(h) ==
  /\ At(h, "bank")
  /\ ~FreshKey(req[h].key)
  /\ Done(h)
  /\ UNCHANGED <<order, lines, intent, txns, invoice, ledger, failures>>

TooSmall(paid, amount) == ~PartialPaymentEnabled /\ paid + amount < intent.locked

BankReject(h) ==
  /\ At(h, "bank")
  /\ FreshKey(req[h].key)
  /\ TooSmall(req[h].paid, req[h].amount)
  /\ txns' = txns \cup {[key |-> req[h].key, status |-> "REJECTED"]}
  /\ Done(h)
  /\ UNCHANGED <<order, lines, intent, invoice, ledger, failures>>

BankApply(h) ==
  /\ At(h, "bank")
  /\ FreshKey(req[h].key)
  /\ ~TooSmall(req[h].paid, req[h].amount)
  /\ txns' = txns \cup {[key |-> req[h].key, status |-> "APPLIED"]}
  /\ RecordPayment(h, NextPaid(req[h].paid, req[h].amount))
  /\ ledger' = [ledger EXCEPT !.credited = @ + req[h].amount,
                              !.applied[req[h].key] = @ + 1]
  /\ UNCHANGED <<lines, invoice, failures>>

(* createPaymentOverride: the requested amount, or by default all that is  *)
(* missing, cut to what was missing when the intent was read.              *)
OverrideAmount(requested, missing) == Least(requested, missing)

OverrideRead(h) ==
  /\ Start(h, "override")
  /\ intent.status # "NONE"
  /\ intent.paid < intent.locked
  /\ ledger.credited < MaxCredit
  /\ \E requested \in Amounts \cup {intent.locked} :
       Continue(h, [pc |-> "override", paid |-> intent.paid,
                    amount |-> OverrideAmount(requested,
                                              intent.locked - intent.paid)])
  /\ UNCHANGED <<order, lines, intent, txns, invoice, ledger, failures>>

OverrideCommit(h) ==
  /\ At(h, "override")
  /\ RecordPayment(h, NextPaid(req[h].paid, req[h].amount))
  /\ ledger' = [ledger EXCEPT !.credited = @ + req[h].amount]
  /\ UNCHANGED <<lines, txns, invoice, failures>>
-----------------------------------------------------------------------------
(* completeActivationLine: the line and its order are read first; the      *)
(* transaction then reads the intent (when the policy asks for full        *)
(* payment), writes the line by id, reads all lines as they are with this  *)
(* one written, and writes the order.  Two activations in flight do not    *)
(* see each other's line.                                                  *)
ActivateRead(h, l) ==
  /\ Start(h, "activate")
  /\ l \in OnOrder
  /\ Continue(h, [pc |-> "gate", line |-> l, status |-> order.status])
  /\ UNCHANGED <<order, lines, intent, txns, invoice, ledger, failures>>

PaymentGateOpen == RequireFullPayment => intent.status = "PAID"

ActivateGate(h) ==
  /\ At(h, "gate")
  /\ IF PaymentGateOpen
     THEN Continue(h, [req[h] EXCEPT !.pc = "activate"])
     ELSE Done(h)
  /\ UNCHANGED <<order, lines, intent, txns, invoice, ledger, failures>>

StatusAfterActivation(l, readStatus) ==
  LET done == (Completed \cup {l}) \cap OnOrder
  IN  IF OnOrder # {} /\ done = OnOrder THEN "ACTIVE"
      ELSE IF done # {} THEN "ACTIVATING" ELSE readStatus

ActivateScan(h) ==
  /\ At(h, "activate")
  /\ req[h].line \notin OnOrder \cap LinesWritten
  /\ Continue(h, [pc |-> "activated", line |-> req[h].line,
                  status |-> StatusAfterActivation(req[h].line, req[h].status)])
  /\ UNCHANGED <<order, lines, intent, txns, invoice, ledger, failures>>

ActivateCommit(h) ==
  /\ At(h, "activated")
  /\ OrderFree
  /\ lines' = IF req[h].line \in OnOrder
              THEN [lines EXCEPT ![req[h].line] = "COMPLETED"] ELSE lines
  /\ order' = [order EXCEPT !.status = req[h].status]
  /\ IF req[h].status \in {"ACTIVE", "ACTIVATING"}
     THEN Continue(h, [pc |-> "reevaluate", source |-> "ON_ACTIVATED",
                       force |-> FALSE])
     ELSE Done(h)
  /\ UNCHANGED <<intent, txns, invoice, ledger, failures>>
-----------------------------------------------------------------------------
(* reEvaluateInvoiceAction: the manual rerun of the invoice automation.    *)
ManualReEvaluate(h, force) ==
  /\ Start(h, "reevaluate")
  /\ order.status # "NONE"
  /\ Continue(h, [pc |-> "reevaluate", source |-> "MANUAL", force |-> force])
  /\ UNCHANGED <<order, lines, intent, txns, invoice, ledger, failures>>

(* reEvaluateInvoiceAutomation: not a transaction.  It reads the order     *)
(* with its lines, intent and invoice, decides, then updates the invoice   *)
(* it saw or inserts one (unique per order).                               *)
TriggeredByHand(source) == source = "MANUAL" \* mutant
Triggered(source) ==
  CASE Trigger = "ON_PAID"      -> intent.status = "PAID"
    [] Trigger = "ON_ACTIVATED" -> OnOrder # {} /\ OnOrder = Completed
    [] Trigger = "MANUAL"       -> source = "MANUAL"

InvoiceDue(source, force) ==
  \/ force
  \/ /\ RequireFullPayment => intent.status = "PAID"
     /\ Triggered(source)

ReEvaluate(h) ==
  /\ At(h, "reevaluate")
  /\ IF InvoiceDue(req[h].source, req[h].force)
     THEN Continue(h, [pc |-> "bill", full |-> intent.status = "PAID",
                       paid |-> intent.paid, total |-> order.total,
                       exists |-> invoice.status # "NONE"])
     ELSE Done(h)
  /\ UNCHANGED <<order, lines, intent, txns, invoice, ledger, failures>>

InvoiceStatusOfIntent(full) == IF full THEN "PAID" ELSE "UNPAID" \* mutant
InvoiceStatusApproved(full) == "APPROVED" \* mutant
InvoiceStatus(full) == IF full THEN "APPROVED" ELSE "PENDING"

WriteInvoice(h) ==
  /\ At(h, "bill")
  /\ Done(h)
  /\ \/ /\ req[h].exists
        /\ invoice' = [invoice EXCEPT !.status = InvoiceStatus(req[h].full),
                                      !.paid = req[h].paid,
                                      !.settled = req[h].full]
     \/ /\ ~req[h].exists /\ invoice.status = "NONE"
        /\ invoice' = [status |-> InvoiceStatus(req[h].full),
                       total |-> req[h].total, paid |-> req[h].paid,
                       settled |-> req[h].full]
     \/ /\ ~req[h].exists /\ invoice.status # "NONE"
        /\ UNCHANGED invoice
  /\ UNCHANGED <<order, lines, intent, txns, ledger, failures>>
-----------------------------------------------------------------------------
(* createInvoiceFromOrder: four awaits and no transaction.  The status it  *)
(* writes on the order follows from what the invoice had when the request  *)
(* began; the payment intent is not consulted.                             *)
InvoiceFromOrder(h) ==
  /\ Start(h, "invoice")
  /\ order.status # "NONE"
  /\ invoice.paid < MaxInvoiced
  /\ \E amount \in Amounts \cup {order.total - invoice.paid} :
       /\ amount > 0
       /\ Continue(h, [pc |-> "find", amount |-> amount, total |-> order.total,
                       covers |-> invoice.paid + amount >= order.total])
  /\ UNCHANGED <<order, lines, intent, txns, invoice, ledger, failures>>

FindInvoice(h) ==
  /\ At(h, "find")
  /\ Continue(h, [pc |-> "issue", amount |-> req[h].amount,
                  total |-> req[h].total, covers |-> req[h].covers,
                  exists |-> invoice.status # "NONE", paid |-> invoice.paid])
  /\ UNCHANGED <<order, lines, intent, txns, invoice, ledger, failures>>

IssueInvoice(h) ==
  /\ At(h, "issue")
  /\ \/ /\ req[h].exists
        /\ invoice' = [invoice EXCEPT !.status = "APPROVED",
                                      !.paid = req[h].paid + req[h].amount,
                                      !.settled = TRUE]
        /\ Continue(h, [pc |-> "mark", covers |-> req[h].covers])
     \/ /\ ~req[h].exists /\ invoice.status = "NONE"
        /\ invoice' = [status |-> "APPROVED", total |-> req[h].total,
                       paid |-> req[h].amount, settled |-> TRUE]
        /\ Continue(h, [pc |-> "mark", covers |-> req[h].covers])
     \/ /\ ~req[h].exists /\ invoice.status # "NONE"
        /\ UNCHANGED invoice
        /\ Done(h)
  /\ UNCHANGED <<order, lines, intent, txns, ledger, failures>>

MarkOrder(h) ==
  /\ At(h, "mark")
  /\ OrderFree
  /\ order' = [order EXCEPT !.status = IF req[h].covers THEN "PAID"
                                       ELSE "PENDING_PAYMENT"]
  /\ Done(h)
  /\ UNCHANGED <<lines, intent, txns, invoice, ledger, failures>>
-----------------------------------------------------------------------------
(* A draft grows older than draftExpiryDays.                               *)
DraftExpires ==
  /\ order.status = "DRAFT"
  /\ ~order.expired
  /\ order' = [order EXCEPT !.expired = TRUE]
  /\ UNCHANGED <<lines, intent, txns, invoice, req, ledger, failures>>

(* SalesDraftCleanupService.runCleanup: the update repeats the DRAFT test  *)
(* in its where clause, so the earlier select does not matter.             *)
CleanableUnpaid == order.status \in {"DRAFT", "PENDING_PAYMENT"} \* mutant
Cleanable == order.status = "DRAFT"

BeforeCutoff == order.expired

CleanupDraft ==
  /\ "cleanup" \in Endpoints
  /\ OrderFree
  /\ Cleanable
  /\ BeforeCutoff
  /\ order' = [order EXCEPT !.status = "CANCELLED"]
  /\ UNCHANGED <<lines, intent, txns, invoice, req, ledger, failures>>

(* A statement fails, or the process stops: an open transaction rolls      *)
(* back, and what the handler would have done after a commit is lost.      *)
RequestFails(h) ==
  /\ failures < MaxFailures
  /\ req[h] # Idle
  /\ failures' = failures + 1
  /\ Done(h)
  /\ UNCHANGED <<order, lines, intent, txns, invoice, ledger>>
-----------------------------------------------------------------------------
Begin(h) ==
  \/ CreateOrder(h)
  \/ UpdateDraftRead(h)
  \/ SubmitRead(h)
  \/ \E k \in Keys, amount \in Amounts : BankRead(h, k, amount)
  \/ OverrideRead(h)
  \/ \E l \in LineIds : ActivateRead(h, l)
  \/ \E force \in BOOLEAN : ManualReEvaluate(h, force)
  \/ InvoiceFromOrder(h)

Proceed(h) ==
  \/ RequestApproval(h)
  \/ UpdateDraftWrite(h) \/ UpdateDraftCommit(h) \/ DeadlockVictim(h)
  \/ SubmitCommit(h)
  \/ BankConflict(h) \/ BankReject(h) \/ BankApply(h)
  \/ OverrideCommit(h)
  \/ ActivateGate(h) \/ ActivateScan(h) \/ ActivateCommit(h)
  \/ ReEvaluate(h) \/ WriteInvoice(h)
  \/ FindInvoice(h) \/ IssueInvoice(h) \/ MarkOrder(h)

Next ==
  \/ \E h \in Handlers : Begin(h) \/ Proceed(h) \/ RequestFails(h)
  \/ DraftExpires
  \/ CleanupDraft

Spec == Init /\ [][Next]_vars

(* A request that began runs on, the cleanup job is driven by a timer, and *)
(* PostgreSQL serves the waiters of a row lock in turn (hence strong       *)
(* fairness).  Nothing makes a client or a bank call, or a draft grow old. *)
Fairness ==
  /\ \A h \in Handlers : SF_vars(Proceed(h))
  /\ SF_vars(CleanupDraft)

FairSpec == Spec /\ Fairness
-----------------------------------------------------------------------------
Requests ==
       {Idle}
  \cup [pc : {"approval"}]
  \cup [pc : {"update", "updating"}, total : Nat, newLines : SUBSET LineIds,
        discount : {"within", "aboveThreshold", "aboveMax"}]
  \cup [pc : {"submit"}, total : Nat \ {0}, hasIntent : BOOLEAN]
  \cup [pc : {"bank"}, key : Keys, amount : Nat \ {0}, paid : Nat]
  \cup [pc : {"override"}, amount : Nat \ {0}, paid : Nat]
  \cup [pc : {"gate", "activate", "activated"}, line : LineIds,
        status : OrderStatuses]
  \cup [pc : {"reevaluate"}, source : {"ON_PAID", "ON_ACTIVATED", "MANUAL"},
        force : BOOLEAN]
  \cup [pc : {"bill"}, full : BOOLEAN, paid : Nat, total : Nat,
        exists : BOOLEAN]
  \cup [pc : {"find"}, amount : Nat \ {0}, total : Nat, covers : BOOLEAN]
  \cup [pc : {"issue"}, amount : Nat \ {0}, total : Nat, covers : BOOLEAN,
        exists : BOOLEAN, paid : Nat]
  \cup [pc : {"mark"}, covers : BOOLEAN]

DiscountClasses == {"within", "aboveThreshold", "aboveMax"}
Orders ==
  [status : OrderStatuses, total : Nat, itemsTotal : Nat,
   discount : DiscountClasses, approval : BOOLEAN,
   commerciallyLocked : BOOLEAN, expired : BOOLEAN]
LineStatuses == {"UNUSED", "PENDING", "COMPLETED", "DELETED"}
Intents ==
  [status : IntentStatuses, locked : Nat, paid : Nat, remaining : Nat,
   qrActive : BOOLEAN]
Transactions == [key : Keys, status : {"APPLIED", "REJECTED"}]
Invoices ==
  [status : {"NONE", "PENDING", "APPROVED"}, total : Nat, paid : Nat,
   settled : BOOLEAN]
Ledgers == [credited : Nat, applied : [Keys -> Nat]]

(* The rows have the shape of the schema, and every request in flight      *)
(* carries what its next step needs.                                       *)
TypeOK ==
  /\ order \in Orders
  /\ lines \in [LineIds -> LineStatuses]
  /\ intent \in Intents
  /\ txns \subseteq Transactions
  /\ invoice \in Invoices
  /\ req \in [Handlers -> Requests]
  /\ ledger \in Ledgers
  /\ failures \in Nat
-----------------------------------------------------------------------------
(* What survives any overlap of requests, at READ COMMITTED.               *)

(* Paid amount, remaining amount, status and QR switch of the intent are   *)
(* written from separate reads by racing requests; they always agree, and  *)
(* no race pays more than was locked.                                      *)
IntentAgrees ==
  intent.status # "NONE" =>
    /\ intent.remaining = intent.locked - intent.paid
    /\ intent.status = "PAID" <=> intent.paid = intent.locked
    /\ intent.status = "UNPAID" <=> intent.paid = 0
    /\ intent.qrActive <=> intent.remaining > 0

(* Stale reads may lose a payment, but the intent never shows money that   *)
(* no bank event and no override brought.                                  *)
NoPhantomCredit == intent.paid <= ledger.credited

(* Both: under any overlap of payments, overrides and submissions the row  *)
(* of the intent agrees with itself and with the money that came in        *)
(* (processBankEvent, overridePayment).                                    *)
IntentConsistent == IntentAgrees /\ NoPhantomCredit

(* A bank event delivered any number of times, also while its first        *)
(* delivery is being processed, has one row and is credited at most once;  *)
(* a rejected one is never credited.                                       *)
KeysSettleOnce ==
  \A k \in Keys :
    /\ ledger.applied[k] = IF [key |-> k, status |-> "APPLIED"] \in txns
                           THEN 1 ELSE 0
    /\ \A t1, t2 \in txns : t1.key = k /\ t2.key = k => t1 = t2

(* The automation approves an invoice only for the whole locked amount,    *)
(* whatever stale intent the re-evaluation had read.  (The n8n endpoint    *)
(* createInvoiceFromOrder approves any amount, so it is left out.)         *)
ApprovedInvoiceIsCovered ==
  "invoice" \notin Endpoints /\ invoice.status = "APPROVED" =>
    /\ invoice.settled
    /\ invoice.paid = intent.locked

SeenKeys == {t.key : t \in txns}

Racy == INSTANCE PaymentLedger WITH
  MayLose <- TRUE, locked <- intent.locked, paid <- intent.paid,
  credited <- ledger.credited, accepted <- SeenKeys

Exact == INSTANCE PaymentLedger WITH
  MayLose <- FALSE, locked <- intent.locked, paid <- intent.paid,
  credited <- ledger.credited, accepted <- SeenKeys

(* The payment part implements the abstract ledger in which a credit may   *)
(* overwrite another one.                                                  *)
ReadCommittedLedger == Racy!LedgerSpec
-----------------------------------------------------------------------------
(* What holds as well when requests do not overlap (one handler), failures *)
(* included.                                                               *)

(* The payment part implements the exact ledger: every accepted payment    *)
(* raises the paid amount by itself, up to the locked amount.              *)
ExactLedger == Exact!LedgerSpec

(* From submission on, the amount to be paid, the order total and the sum  *)
(* of its lines are one amount: no draft update reaches a submitted order. *)
CommercialTermsLocked ==
  order.commerciallyLocked =>
    intent.locked = order.total /\ order.total = order.itemsTotal

(* A draft has no payment intent, and neither has a cancelled order: the   *)
(* cleanup job never cancels an order a customer can pay.                  *)
DraftHasNoIntent ==
  order.status \in {"DRAFT", "CANCELLED"} => intent.status = "NONE"
-----------------------------------------------------------------------------
(* Under fairness and without failures, an intent that stays paid gets its *)
(* invoice approved, whichever request paid it and although the n8n        *)
(* endpoint bills it at the same time.  (A forced re-evaluation that read  *)
(* before the payment can insert a PENDING invoice that stays so.)         *)
StaysPaidGetsInvoice ==
  Trigger = "ON_PAID" =>
    (<>[](intent.status = "PAID") => <>(invoice.status = "APPROVED"))

(* No request waits for ever on the row locks of others.                   *)
RequestsFinish == \A h \in Handlers : []<>(req[h] = Idle)
=============================================================================
