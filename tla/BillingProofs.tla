---------------------------- MODULE BillingProofs ----------------------------
(* Billing for every number of orders, edits, requests, periods and         *)
(* amounts: the types, that a total falls only by an approved edit, that a  *)
(* closed period is frozen, that an archived order is settled and that a    *)
(* paid amount is allocated.                                                *)
EXTENDS Billing, TLAPS

LockSteps == {"lock", "legacy", "save", "set"}
Writers == {"lock", "save", "set"}
OrderSteps == {"apply", "request", "hold", "archive", "decide", "edit", "locks", "count",
               "bill", "amend", "move", "void", "sum", "allocate", "settle"}
Checked == {"bill", "amend", "move", "void", "sum"}

(* What a request does, before and after the check of the locks.            *)
Doing(r, what) == r.pc = what \/ (r.pc \in {"locks", "count"} /\ r.then = what)

(* Which local variables each step of a request uses.                       *)
Shape(r) ==
  /\ r.pc = "idle" => r.id = None
  /\ r.pc \in LockSteps => r.id = None
  /\ r.pc \in {"lock", "legacy"} => r.period \in Periods
  /\ r.pc \in OrderSteps => r.id \in Orders
  /\ r.pc \in {"decide", "edit"} => r.to \in {"APPROVED", "REJECTED"}
  /\ r.pc = "edit" => r.edit \in Edits
  /\ r.pc = "locks" => r.then \in Checked
  /\ r.pc = "count" => r.then = "void"
  /\ Doing(r, "move") => r.to \in {"PENDING", "APPROVED", "ARCHIVED", "REJECTED"}
  /\ r.pc \in {"allocate", "settle"} => r.to \in {"APPROVED", "ARCHIVED"}

EditsPlaced == \A e \in Edits : edit[e].status = "PENDING" => edit[e].order \in Orders
Typed == TypeOK /\ EditsPlaced /\ \A h \in Handlers : Shape(req[h])

LEMMA NoReqType ==
  /\ NoReq \in Requests /\ NoReq.pc = "idle" /\ NoReq.id = None /\ NoReq.then = "none"
  /\ NoReq.since = {} /\ NoReq.open = {}
BY DEF NoReq, Requests, Sums, MaybePeriods

LEMMA Steps ==
  /\ \A r \in Requests : r.pc \in {"idle"} \cup LockSteps \cup OrderSteps
  /\ OrderSteps \cap LockSteps = {} /\ "idle" \notin OrderSteps \cup LockSteps
BY DEF Requests, LockSteps, OrderSteps

(* The local variables of a request after a step.                           *)
LEMMA ReqType ==
  ASSUME Typed, NEW h \in Handlers, NEW r \in Requests, Shape(r),
         req' = [req EXCEPT ![h] = r]
  PROVE  /\ req' \in [Handlers -> Requests] /\ req'[h] = r
         /\ \A g \in Handlers : g # h => req'[g] = req[g]
         /\ \A g \in Handlers : Shape(req'[g])
<1>1. /\ req' \in [Handlers -> Requests] /\ req'[h] = r
      /\ \A g \in Handlers : g # h => req'[g] = req[g]
  BY DEF Typed, TypeOK
<1>2. \A g \in Handlers : Shape(req'[g])
  <2> TAKE g \in Handlers
  <2>1. Shape(req[g])
    BY DEF Typed
  <2> QED
    BY <1>1, <2>1
<1> QED
  BY <1>1, <1>2

(* The end of a request.                                                    *)
LEMMA EndType ==
  ASSUME Typed, NEW h \in Handlers, End(h)
  PROVE  /\ req' \in [Handlers -> Requests] /\ req'[h] = NoReq
         /\ \A g \in Handlers : g # h => req'[g] = req[g]
         /\ \A g \in Handlers : Shape(req'[g])
<1>1. Shape(NoReq)
  BY NoReqType DEF Shape, Doing, LockSteps, OrderSteps
<1> QED
  BY <1>1, NoReqType, ReqType DEF End

(* A step to the place pc of a request whose other variables stay.          *)
LEMMA GotoType ==
  ASSUME Typed, NEW h \in Handlers, NEW pc \in OrderSteps,
         req' = [req EXCEPT ![h].pc = pc],
         req[h].id \in Orders, pc \notin {"decide", "edit", "count", "allocate"},
         pc = "settle" => req[h].pc = "allocate",
         pc = "locks" => req[h].then \in Checked,
         Doing([req[h] EXCEPT !.pc = pc], "move") => Doing(req[h], "move")
  PROVE  /\ req' \in [Handlers -> Requests] /\ req'[h] = [req[h] EXCEPT !.pc = pc]
         /\ \A g \in Handlers : g # h => req'[g] = req[g]
         /\ \A g \in Handlers : Shape(req'[g])
<1> DEFINE r == [req[h] EXCEPT !.pc = pc]
<1>1. req[h] \in Requests /\ Shape(req[h]) /\ req \in [Handlers -> Requests]
  BY DEF Typed, TypeOK
<1>2. r \in Requests /\ r.pc = pc /\ r.id = req[h].id /\ r.to = req[h].to /\ r.then = req[h].then
  BY <1>1 DEF Requests, OrderSteps
<1>3. Shape(r)
  BY <1>1, <1>2 DEF Shape, LockSteps, OrderSteps
<1>4. req' = [req EXCEPT ![h] = r]
  BY <1>1
<1> HIDE DEF r
<1>5. /\ req' \in [Handlers -> Requests] /\ req'[h] = r
      /\ \A g \in Handlers : g # h => req'[g] = req[g]
      /\ \A g \in Handlers : Shape(req'[g])
  BY <1>2, <1>3, <1>4, ReqType
<1> QED
  BY <1>5 DEF r

(* The first step of a request about an order.                              *)
LEMMA BeginType ==
  ASSUME Typed, NEW h \in Handlers, NEW o \in Orders, NEW endpoint,
         NEW r \in Requests, Begin(h, endpoint, o, r), r.pc \in OrderSteps,
         Shape([r EXCEPT !.id = o, !.asOf = today, !.since = closed])
  PROVE  /\ req[h].pc = "idle" /\ req[h].id = None
         /\ req' \in [Handlers -> Requests]
         /\ req'[h] = [r EXCEPT !.id = o, !.asOf = today, !.since = closed]
         /\ \A g \in Handlers : g # h => req'[g] = req[g]
         /\ \A g \in Handlers : Shape(req'[g])
         /\ mixed' \in [Orders -> SUBSET {"overlap", "failed", "reopened"}]
         /\ mixed[o] \subseteq mixed'[o] /\ \A p \in Orders : p # o => mixed'[p] = mixed[p]
         /\ "overlap" \notin mixed'[o] => \A g \in Handlers : req[g].id # o
         /\ UNCHANGED <<rows, locks, clash, failures>>
<1> DEFINE v == [r EXCEPT !.id = o, !.asOf = today, !.since = closed]
<1>1. closed \in SUBSET Periods /\ req[h] \in Requests /\ Shape(req[h])
      /\ today \in MaybePeriods
      /\ mixed \in [Orders -> SUBSET {"overlap", "failed", "reopened"}]
  BY DEF Typed, TypeOK, MaybePeriods
<1>2. v \in Requests
  BY <1>1 DEF Requests
<1>3. req[h].pc = "idle" /\ req' = [req EXCEPT ![h] = v] /\ UNCHANGED <<rows, locks, clash, failures>>
  BY DEF Begin
<1>4. req[h].id = None
  BY <1>1, <1>3 DEF Shape
<1>5. /\ mixed' \in [Orders -> SUBSET {"overlap", "failed", "reopened"}]
      /\ mixed[o] \subseteq mixed'[o] /\ \A p \in Orders : p # o => mixed'[p] = mixed[p]
      /\ "overlap" \notin mixed'[o] => \A g \in Handlers : req[g].id # o
  BY <1>1 DEF Begin
<1> HIDE DEF v
<1>6. /\ req' \in [Handlers -> Requests] /\ req'[h] = v
      /\ \A g \in Handlers : g # h => req'[g] = req[g]
      /\ \A g \in Handlers : Shape(req'[g])
  BY <1>2, <1>3, ReqType DEF v
<1> QED
  BY <1>3, <1>4, <1>5, <1>6 DEF v

(* The rows, the locks and the history keep their types.                    *)
RowTypes ==
  /\ order \in [Orders -> OrderRows] /\ edit \in [Edits -> EditRows]
  /\ invoice \in [Orders -> InvoiceRows] /\ allocated \in [Orders -> Nat]
LockTypes ==
  locked \subseteq Periods /\ legacy \subseteq Periods /\ closed \subseteq Periods /\ today \in Periods
HistoryTypes ==
  /\ mixed \in [Orders -> SUBSET {"overlap", "failed", "reopened"}]
  /\ clash \in BOOLEAN /\ failures \in 0 .. MaxFailures

LEMMA TypeParts ==
  ASSUME RowTypes', LockTypes', HistoryTypes', EditsPlaced', req' \in [Handlers -> Requests],
         \A h \in Handlers : Shape(req'[h])
  PROVE  Typed'
BY DEF Typed, TypeOK, RowTypes, LockTypes, HistoryTypes

LEMMA PartTypes == Typed => RowTypes /\ LockTypes /\ HistoryTypes /\ EditsPlaced
BY DEF Typed, TypeOK, RowTypes, LockTypes, HistoryTypes

(* What a request that is alone on its order still knows of the rows.       *)
OfOrder(r) ==
  r.pc = "edit" => edit[r.edit].status # "NONE" /\ edit[r.edit].order = r.id
Knows(r) ==
  LET o == r.id
  IN "overlap" \notin mixed[o] =>
       /\ r.pc = "apply" => order[o].status # "NONE" /\ ~NeedsApproval(order[o].total, r.new)
       /\ r.pc = "edit" => edit[r.edit] = [status |-> "PENDING", order |-> o, total |-> r.new]
       /\ r.pc = "archive" => ~Open(invoice[o].status)
       /\ Doing(r, "bill") => /\ order[o].status = "APPROVED"
                              /\ PeriodFor(r, r.period) \in r.check
       /\ Doing(r, "amend") => /\ invoice[o].status \in {"DRAFT", "PENDING", "APPROVED"}
                               /\ PeriodFor(r, invoice[o].period) \in r.check
                               /\ r.period # None => r.period \in r.check
       /\ Doing(r, "move") => /\ invoice[o].status \in {"DRAFT", "PENDING", "APPROVED"}
                              /\ PeriodFor(r, invoice[o].period) \in r.check
                              /\ r.seen = invoice[o].total
       /\ Doing(r, "void") => invoice[o].status \notin {"NONE", "ARCHIVED"}
       /\ r.pc = "count" => r.period = invoice[o].period
       /\ Doing(r, "void") /\ r.pc # "count" => PeriodFor(r, invoice[o].period) \in r.check
       /\ Doing(r, "sum") \/ r.pc \in {"allocate", "settle"} =>
            /\ invoice[o].status # "NONE"
            /\ PeriodFor(r, invoice[o].period) \in r.check /\ r.period \in r.check
       /\ r.pc = "allocate" => r.seen = allocated[o] + r.new
       /\ r.pc = "settle" => /\ r.seen = allocated[o]
                             /\ "reopened" \notin mixed[o] => ~Closed(invoice[o].status)

(* The first steps of the requests about an order.                          *)
FirstSteps == {"apply", "request", "archive", "decide", "edit", "locks", "count"}
Begun(r, o, v) ==
  /\ v \in Requests /\ v = [r EXCEPT !.id = o, !.asOf = today, !.since = closed]
  /\ v.id = o /\ v.since = closed /\ v.asOf = today /\ v.open = r.open
  /\ v.pc = r.pc /\ v.then = r.then /\ v.edit = r.edit /\ v.to = r.to /\ v.seen = r.seen
  /\ v.new = r.new /\ v.period = r.period /\ v.check = r.check /\ v.known = r.known
Begins(h) ==
  \E o \in Orders, r \in Requests, v \in Requests, endpoint \in AllEndpoints :
    /\ Begin(h, endpoint, o, r) /\ Begun(r, o, v) /\ r.pc \in FirstSteps /\ r.open = {}
    /\ Shape(v) /\ OfOrder(v) /\ Knows(v)
ReadsLocks(h) ==
  \E r \in Requests, endpoint \in AllEndpoints, list \in SUBSET Periods :
    /\ ReadLocks(h, endpoint, list, r) /\ r.pc \in Writers /\ r.since = {} /\ r.open = {}
    /\ r.id = None /\ Shape([r EXCEPT !.known = list]) /\ (r.pc # "set" => list = locked)

LEMMA BegunFields ==
  ASSUME NEW r \in Requests, NEW o \in Orders, closed \in SUBSET Periods,
         today \in MaybePeriods
  PROVE  Begun(r, o, [r EXCEPT !.id = o, !.asOf = today, !.since = closed])
BY DEF Begun, Requests

LEMMA RequestBegins ==
  ASSUME Typed, NEW h \in Handlers, Request(h)
  PROVE  Begins(h) \/ ReadsLocks(h)
<1>a. /\ order \in [Orders -> OrderRows] /\ edit \in [Edits -> EditRows]
      /\ invoice \in [Orders -> InvoiceRows] /\ closed \in SUBSET Periods
      /\ locked \in SUBSET Periods /\ today \in Periods /\ today \in MaybePeriods
      /\ None \notin Orders /\ None \notin Periods
      /\ Amounts \subseteq Sums /\ Sums \subseteq Nat
      /\ Periods \subseteq MaybePeriods /\ None \in MaybePeriods /\ 0 \in Sums
      /\ DueDates \subseteq MaybePeriods
  BY BillingAssumption DEF Typed, TypeOK, Sums, MaybePeriods
<1>b. /\ \A o \in Orders : order[o] \in OrderRows /\ invoice[o] \in InvoiceRows
      /\ \A e \in Edits : edit[e] \in EditRows
  BY <1>a
<1>c. /\ \A p \in MaybePeriods : AsOf(p) \in Periods
      /\ \A o \in Orders : invoice[o].period \in MaybePeriods
  BY <1>a, <1>b DEF AsOf, MaybePeriods, InvoiceRows
<1>2. ASSUME NEW o \in Orders, UpdateOrder(h, o) PROVE Begins(h)
  <2>1. PICK new \in Amounts, pc \in {"apply", "request"} :
          /\ Begin(h, "update", o, [NoReq EXCEPT !.pc = pc, !.new = new])
          /\ pc = "apply" => ~NeedsApproval(order[o].total, new)
    BY <1>2 DEF UpdateOrder
  <2> DEFINE r == [NoReq EXCEPT !.pc = pc, !.new = new]
             v == [r EXCEPT !.id = o, !.asOf = today, !.since = closed]
  <2>2. Begin(h, "update", o, r)
    BY <2>1
  <2>3. r \in Requests /\ r.open = {} /\ r.pc = pc /\ r.new = new /\ r.then = "none"
    BY <1>a DEF NoReq, Requests
  <2> HIDE DEF r
  <2>4. Begun(r, o, v)
    BY <1>a, <2>3, BegunFields
  <2> HIDE DEF v
  <2>5. Shape(v)
    BY <1>a, <2>3, <2>4 DEF Begun, Shape, Doing, OrderSteps, LockSteps, Checked
  <2>6. Knows(v) /\ OfOrder(v)
    BY <1>2, <2>1, <2>3, <2>4 DEF UpdateOrder, Begun, Knows, OfOrder, Doing
  <2> QED
    BY <2>2, <2>3, <2>4, <2>5, <2>6 DEF Begins, Begun, FirstSteps, AllEndpoints
<1>3. ASSUME NEW o \in Orders, ArchiveOrder(h, o) PROVE Begins(h)
  <2> DEFINE r ==
        [NoReq EXCEPT !.pc = "archive"]
             v == [r EXCEPT !.id = o, !.asOf = today, !.since = closed]
  <2>2. Begin(h, "archive", o, r)
    BY <1>3 DEF ArchiveOrder
  <2>3. r \in Requests /\ r.open = {} /\ r.pc = "archive" /\ r.then = "none"
    BY <1>a DEF NoReq, Requests
  <2> HIDE DEF r
  <2>4. Begun(r, o, v)
    BY <1>a, <2>3, BegunFields
  <2> HIDE DEF v
  <2>5. Shape(v)
    BY <1>a, <2>3, <2>4 DEF Begun, Shape, Doing, OrderSteps, LockSteps, Checked
  <2>6. Knows(v) /\ OfOrder(v)
    BY <1>3, <2>3, <2>4 DEF ArchiveOrder, Begun, Knows, OfOrder, Doing
  <2> QED
    BY <2>2, <2>3, <2>4, <2>5, <2>6 DEF Begins, Begun, FirstSteps, AllEndpoints, v
<1>4. ASSUME NEW o \in Orders, DecideOrder(h, o) PROVE Begins(h)
  <2>1. PICK to \in {"APPROVED", "REJECTED"} :
          Begin(h, "decide", o,
            [NoReq EXCEPT !.pc = "decide", !.to = to])
    BY <1>4 DEF DecideOrder
  <2> DEFINE r ==
        [NoReq EXCEPT !.pc = "decide", !.to = to]
             v == [r EXCEPT !.id = o, !.asOf = today, !.since = closed]
  <2>2. Begin(h, "decide", o, r)
    BY <2>1
  <2>3. r \in Requests /\ r.open = {} /\ r.pc = "decide" /\ r.then = "none" /\ r.to = to
    BY <1>a DEF NoReq, Requests, OrderStatuses
  <2> HIDE DEF r
  <2>4. Begun(r, o, v)
    BY <1>a, <2>3, BegunFields
  <2> HIDE DEF v
  <2>5. Shape(v)
    BY <1>a, <2>3, <2>4 DEF Begun, Shape, Doing, OrderSteps, LockSteps, Checked
  <2>6. Knows(v) /\ OfOrder(v)
    BY <2>3, <2>4 DEF Begun, Knows, OfOrder, Doing
  <2> QED
    BY <2>2, <2>3, <2>4, <2>5, <2>6 DEF Begins, Begun, FirstSteps, AllEndpoints, v
<1>5. ASSUME NEW e \in Edits, DecideEdit(h, e) PROVE Begins(h)
  <2>1. PICK to \in {"APPROVED", "REJECTED"} :
          Begin(h, "edit", edit[e].order,
            [NoReq EXCEPT !.pc = "edit", !.edit = e, !.to = to, !.new = edit[e].total])
    BY <1>5 DEF DecideEdit
  <2> DEFINE r ==
        [NoReq EXCEPT !.pc = "edit", !.edit = e, !.to = to, !.new = edit[e].total]
             v == [r EXCEPT !.id = edit[e].order, !.asOf = today, !.since = closed]
  <2>2. Begin(h, "edit", edit[e].order, r)
    BY <2>1
  <2>p. /\ edit[e].order \in Orders /\ edit[e].total \in Sums
        /\ edit[e] = [status |-> "PENDING", order |-> edit[e].order, total |-> edit[e].total]
    BY <1>5, <1>b, PartTypes DEF DecideEdit, EditsPlaced, EditRows
  <2>3. r \in Requests /\ r.open = {} /\ r.pc = "edit" /\ r.then = "none" /\ r.to = to /\ r.edit = e /\ r.new = edit[e].total
    BY <1>a, <2>p DEF NoReq, Requests, OrderStatuses
  <2> HIDE DEF r
  <2>4. Begun(r, edit[e].order, v)
    BY <1>a, <2>3, <2>p, BegunFields
  <2> HIDE DEF v
  <2>5. Shape(v)
    BY <1>a, <2>3, <2>4, <2>p DEF Begun, Shape, Doing, OrderSteps, LockSteps, Checked
  <2>6. Knows(v) /\ OfOrder(v)
    BY <2>3, <2>4, <2>p DEF Begun, Knows, OfOrder, Doing
  <2> QED
    BY <2>2, <2>3, <2>4, <2>5, <2>6, <2>p DEF Begins, Begun, FirstSteps, AllEndpoints, v
<1>6. ASSUME NEW o \in Orders, CreateInvoice(h, o) PROVE Begins(h)
  <2>1. PICK total \in Amounts, p \in DueDates :
          Begin(h, "bill", o,
            [NoReq EXCEPT !.pc = "locks", !.then = "bill", !.new = total, !.period = p,
                          !.check = {AsOf(p)}])
    BY <1>6 DEF CreateInvoice
  <2> DEFINE r ==
        [NoReq EXCEPT !.pc = "locks", !.then = "bill", !.new = total, !.period = p,
                          !.check = {AsOf(p)}]
             v == [r EXCEPT !.id = o, !.asOf = today, !.since = closed]
  <2>2. Begin(h, "bill", o, r)
    BY <2>1
  <2>3. r \in Requests /\ r.open = {} /\ r.pc = "locks" /\ r.then = "bill" /\ r.period = p
        /\ r.check = {AsOf(p)}
    BY <1>a, <1>c DEF NoReq, Requests
  <2> HIDE DEF r
  <2>4. Begun(r, o, v)
    BY <1>a, <2>3, BegunFields
  <2> HIDE DEF v
  <2>5. Shape(v)
    BY <1>a, <2>3, <2>4 DEF Begun, Shape, Doing, OrderSteps, LockSteps, Checked
  <2>6. Knows(v) /\ OfOrder(v)
    BY <1>6, <2>3, <2>4 DEF CreateInvoice, Begun, Knows, OfOrder, Doing, PeriodFor, AsOf
  <2> QED
    BY <2>2, <2>3, <2>4, <2>5, <2>6 DEF Begins, Begun, FirstSteps, AllEndpoints, v
<1>7. ASSUME NEW o \in Orders, AmendInvoice(h, o) PROVE Begins(h)
  <2>1. PICK total \in Amounts, p \in DueDates :
          Begin(h, "amend", o,
            [NoReq EXCEPT !.pc = "locks", !.then = "amend", !.new = total, !.period = p,
                          !.check = PeriodsOfMove(invoice[o].period, p)])
    BY <1>7 DEF AmendInvoice
  <2> DEFINE r ==
        [NoReq EXCEPT !.pc = "locks", !.then = "amend", !.new = total, !.period = p,
                          !.check = PeriodsOfMove(invoice[o].period, p)]
             v == [r EXCEPT !.id = o, !.asOf = today, !.since = closed]
  <2>2. Begin(h, "amend", o, r)
    BY <2>1
  <2>3. r \in Requests /\ r.open = {} /\ r.pc = "locks" /\ r.then = "amend" /\ r.period = p
        /\ r.check = PeriodsOfMove(invoice[o].period, p)
    <3>1. PeriodsOfMove(invoice[o].period, p) \in SUBSET Periods
      BY <1>a, <1>c DEF PeriodsOfMove, MaybePeriods
    <3> QED
      BY <1>a, <3>1 DEF NoReq, Requests
  <2> HIDE DEF r
  <2>4. Begun(r, o, v)
    BY <1>a, <2>3, BegunFields
  <2> HIDE DEF v
  <2>5. Shape(v)
    BY <1>a, <2>3, <2>4 DEF Begun, Shape, Doing, OrderSteps, LockSteps, Checked
  <2>6. Knows(v) /\ OfOrder(v)
    BY <1>7, <1>b, <2>3, <2>4
       DEF AmendInvoice, Begun, Knows, OfOrder, Doing, Closed, InvoiceRows, InvoiceStatuses,
           PeriodsOfMove, PeriodFor, AsOf
  <2> QED
    BY <2>2, <2>3, <2>4, <2>5, <2>6 DEF Begins, Begun, FirstSteps, AllEndpoints, v
<1>8. ASSUME NEW o \in Orders, MoveInvoice(h, o) PROVE Begins(h)
  <2>1. PICK to \in {"PENDING", "APPROVED", "ARCHIVED", "REJECTED"} :
          Begin(h, "move", o,
            [NoReq EXCEPT !.pc = "locks", !.then = "move", !.to = to,
                          !.seen = invoice[o].total, !.check = {AsOf(invoice[o].period)}])
    <3>1. \A n \in Moves : n[1] \in {"DRAFT", "PENDING", "APPROVED"}
                           /\ n[2] \in {"PENDING", "APPROVED", "ARCHIVED", "REJECTED"}
      BY DEF Moves
    <3> QED
      BY <1>8, <3>1 DEF MoveInvoice
  <2> DEFINE r ==
        [NoReq EXCEPT !.pc = "locks", !.then = "move", !.to = to,
                          !.seen = invoice[o].total, !.check = {AsOf(invoice[o].period)}]
             v == [r EXCEPT !.id = o, !.asOf = today, !.since = closed]
  <2>2. Begin(h, "move", o, r)
    BY <2>1
  <2>3. r \in Requests /\ r.open = {} /\ r.pc = "locks" /\ r.then = "move" /\ r.to = to
        /\ r.seen = invoice[o].total /\ r.check = {AsOf(invoice[o].period)}
    <3>1. to \in InvoiceStatuses /\ invoice[o].total \in Nat /\ AsOf(invoice[o].period) \in Periods
      BY <1>a, <1>b, <1>c DEF InvoiceStatuses, InvoiceRows
    <3> QED
      BY <1>a, <3>1 DEF NoReq, Requests
  <2> HIDE DEF r
  <2>4. Begun(r, o, v)
    BY <1>a, <2>3, BegunFields
  <2> HIDE DEF v
  <2>5. Shape(v)
    BY <1>a, <2>3, <2>4 DEF Begun, Shape, Doing, OrderSteps, LockSteps, Checked
  <2>6. Knows(v) /\ OfOrder(v)
    <3>1. invoice[o].status \in {"DRAFT", "PENDING", "APPROVED"}
      BY <1>8 DEF MoveInvoice, Moves
    <3> QED
      BY <2>3, <2>4, <3>1 DEF Begun, Knows, OfOrder, Doing, PeriodFor, AsOf
  <2> QED
    BY <2>2, <2>3, <2>4, <2>5, <2>6 DEF Begins, Begun, FirstSteps, AllEndpoints, v
<1>9. ASSUME NEW o \in Orders, VoidInvoice(h, o) PROVE Begins(h)
  <2> DEFINE r ==
        [NoReq EXCEPT !.pc = "count", !.then = "void", !.seen = invoice[o].paid,
                      !.period = invoice[o].period]
             v == [r EXCEPT !.id = o, !.asOf = today, !.since = closed]
  <2>2. Begin(h, "void", o, r)
    BY <1>9 DEF VoidInvoice
  <2>3. r \in Requests /\ r.open = {} /\ r.pc = "count" /\ r.then = "void" /\ r.period = invoice[o].period
    BY <1>a, <1>b, <1>c DEF NoReq, Requests, InvoiceRows
  <2> HIDE DEF r
  <2>4. Begun(r, o, v)
    BY <1>a, <2>3, BegunFields
  <2> HIDE DEF v
  <2>5. Shape(v)
    BY <1>a, <2>3, <2>4 DEF Begun, Shape, Doing, OrderSteps, LockSteps, Checked
  <2>6. Knows(v) /\ OfOrder(v)
    BY <1>9, <2>3, <2>4 DEF VoidInvoice, Begun, Knows, OfOrder, Doing
  <2> QED
    BY <2>2, <2>3, <2>4, <2>5, <2>6 DEF Begins, Begun, FirstSteps, AllEndpoints, v
<1>10. ASSUME NEW o \in Orders, AllocatePayment(h, o) PROVE Begins(h)
  <2>1. PICK amount \in Amounts, p \in Periods :
          Begin(h, "allocate", o,
            [NoReq EXCEPT !.pc = "locks", !.then = "sum", !.new = amount,
                          !.seen = invoice[o].total, !.period = p,
                          !.check = {AsOf(invoice[o].period), p}])
    BY <1>10 DEF AllocatePayment
  <2> DEFINE r ==
        [NoReq EXCEPT !.pc = "locks", !.then = "sum", !.new = amount,
                          !.seen = invoice[o].total, !.period = p,
                          !.check = {AsOf(invoice[o].period), p}]
             v == [r EXCEPT !.id = o, !.asOf = today, !.since = closed]
  <2>2. Begin(h, "allocate", o, r)
    BY <2>1
  <2>3. r \in Requests /\ r.open = {} /\ r.pc = "locks" /\ r.then = "sum" /\ r.period = p
        /\ r.check = {AsOf(invoice[o].period), p}
    BY <1>a, <1>b, <1>c DEF NoReq, Requests, InvoiceRows
  <2> HIDE DEF r
  <2>4. Begun(r, o, v)
    BY <1>a, <2>3, BegunFields
  <2> HIDE DEF v
  <2>5. Shape(v)
    BY <1>a, <2>3, <2>4 DEF Begun, Shape, Doing, OrderSteps, LockSteps, Checked
  <2>6. Knows(v) /\ OfOrder(v)
    BY <1>10, <2>3, <2>4 DEF AllocatePayment, Begun, Knows, OfOrder, Doing, PeriodFor, AsOf
  <2> QED
    BY <2>2, <2>3, <2>4, <2>5, <2>6 DEF Begins, Begun, FirstSteps, AllEndpoints, v
<1>11. ASSUME ClosePeriod(h) PROVE ReadsLocks(h)
  <2>1. PICK p \in Periods :
          ReadLocks(h, "close", locked, [NoReq EXCEPT !.pc = "lock", !.period = p])
    BY <1>11 DEF ClosePeriod
  <2> DEFINE r == [NoReq EXCEPT !.pc = "lock", !.period = p]
  <2>2. /\ ReadLocks(h, "close", locked, r) /\ r \in Requests /\ r.pc = "lock" /\ r.period = p
        /\ r.id = None /\ r.since = {} /\ r.open = {}
    BY <1>a, <2>1 DEF NoReq, Requests
  <2> HIDE DEF r
  <2>3. Shape([r EXCEPT !.known = locked])
    BY <1>a, <2>2 DEF Requests, Shape, Doing, OrderSteps, LockSteps
  <2> QED
    BY <1>a, <2>2, <2>3 DEF ReadsLocks, AllEndpoints, Writers
<1>12. ASSUME ChangeSettings(h) PROVE ReadsLocks(h)
  <2>1. PICK pc \in {"save", "set"}, list \in SUBSET Periods :
          ReadLocks(h, "settings", list, [NoReq EXCEPT !.pc = pc]) /\ (pc # "set" => list = locked)
    BY <1>12, <1>a DEF ChangeSettings
  <2> DEFINE r == [NoReq EXCEPT !.pc = pc]
  <2>2. /\ ReadLocks(h, "settings", list, r) /\ r \in Requests /\ r.pc = pc /\ r.id = None
        /\ r.since = {} /\ r.open = {}
    BY <2>1, <1>a DEF NoReq, Requests
  <2> HIDE DEF r
  <2>3. Shape([r EXCEPT !.known = list])
    BY <1>a, <2>2 DEF Requests, Shape, Doing, OrderSteps, LockSteps
  <2> QED
    BY <2>1, <2>2, <2>3 DEF ReadsLocks, AllEndpoints, Writers
<1> QED
  BY <1>2, <1>3, <1>4, <1>5, <1>6, <1>7, <1>8, <1>9, <1>10, <1>11, <1>12 DEF Request

LEMMA TypedRequest ==
  ASSUME Typed, NEW h \in Handlers, Request(h)
  PROVE  Typed'
<1>1. ASSUME NEW o \in Orders, NEW r \in Requests, NEW v, NEW endpoint,
             Begin(h, endpoint, o, r), Begun(r, o, v), r.pc \in FirstSteps, Shape(v)
      PROVE  Typed'
  <2>1. /\ req' \in [Handlers -> Requests] /\ \A g \in Handlers : Shape(req'[g])
        /\ mixed' \in [Orders -> SUBSET {"overlap", "failed", "reopened"}]
        /\ UNCHANGED <<rows, locks, clash, failures>>
    BY <1>1, BeginType DEF FirstSteps, OrderSteps, Begun
  <2>2. RowTypes' /\ LockTypes' /\ HistoryTypes' /\ EditsPlaced'
    BY <2>1, PartTypes DEF RowTypes, LockTypes, HistoryTypes, EditsPlaced, rows, locks
  <2> QED
    BY <2>1, <2>2, TypeParts
<1>2. ASSUME NEW r \in Requests, NEW endpoint, NEW list \in SUBSET Periods,
             ReadLocks(h, endpoint, list, r), Shape([r EXCEPT !.known = list])
      PROVE  Typed'
  <2> DEFINE v == [r EXCEPT !.known = list]
  <2>1. v \in Requests
    BY PartTypes DEF LockTypes, Requests
  <2>2. /\ req' = [req EXCEPT ![h] = v] /\ UNCHANGED <<rows, locks, mixed, failures>>
        /\ clash' \in BOOLEAN
    BY <1>2 DEF ReadLocks
  <2>3. req' \in [Handlers -> Requests] /\ \A g \in Handlers : Shape(req'[g])
    <3> HIDE DEF v
    <3> QED
      BY <1>2, <2>1, <2>2, ReqType DEF v
  <2>4. RowTypes' /\ LockTypes' /\ HistoryTypes' /\ EditsPlaced'
    BY <2>2, PartTypes DEF RowTypes, LockTypes, HistoryTypes, EditsPlaced, rows, locks
  <2> QED
    BY <2>3, <2>4, TypeParts
<1> QED
  BY <1>1, <1>2, RequestBegins DEF Begins, ReadsLocks

(* A period is asked for and found open.                                    *)
LEMMA AskType ==
  ASSUME Typed, NEW h \in Handlers, NEW p \in req[h].check, NEW list, NEW since \in SUBSET Periods,
         req[h].pc = "locks", AskFor(h, p, list, since), p \notin list
  PROVE  /\ req' \in [Handlers -> Requests] /\ \A g \in Handlers : g # h => req'[g] = req[g]
         /\ \A g \in Handlers : Shape(req'[g])
         /\ req'[h].pc \in {"locks", req[h].then} /\ req[h].then \in Checked
         /\ req'[h].pc # "locks" => req[h].check \subseteq req'[h].open
         /\ req'[h].id = req[h].id /\ req'[h].then = req[h].then /\ req'[h].to = req[h].to
         /\ req'[h].seen = req[h].seen /\ req'[h].new = req[h].new
         /\ req'[h].period = req[h].period /\ req'[h].asOf = req[h].asOf
         /\ req'[h].check = req[h].check
         /\ req'[h].open = req[h].open \cup {p} /\ req'[h].since = since
<1>1. req[h] \in Requests /\ Shape(req[h]) /\ req \in [Handlers -> Requests]
  BY DEF Typed, TypeOK
<1>2. p \in Periods /\ req[h].then \in Checked /\ req[h].id \in Orders
  BY <1>1 DEF Requests, Shape, OrderSteps
<1> DEFINE pc == IF req[h].check \subseteq req[h].open \cup {p} THEN req[h].then ELSE "locks"
           r == [req[h] EXCEPT !.open = req[h].open \cup {p}, !.since = since, !.pc = pc]
<1>3. pc \in {"locks", req[h].then}
  OBVIOUS
<1>4. pc # "locks" => req[h].check \subseteq req[h].open \cup {p}
  OBVIOUS
<1>5. req' = [req EXCEPT ![h] = r]
  <2>1. req' = [req EXCEPT ![h] =
          [req[h] EXCEPT !.open = req[h].open \cup {p}, !.since = since,
                         !.pc = IF req[h].check \subseteq req[h].open \cup {p}
                                THEN req[h].then ELSE "locks"]]
    BY SMT DEF AskFor
  <2> QED
    BY <2>1
<1> HIDE DEF pc
<1>6. /\ r \in Requests /\ r.pc = pc /\ r.id = req[h].id /\ r.then = req[h].then
      /\ r.to = req[h].to /\ r.seen = req[h].seen /\ r.new = req[h].new
      /\ r.period = req[h].period /\ r.asOf = req[h].asOf /\ r.check = req[h].check
      /\ r.open = req[h].open \cup {p} /\ r.since = since
  <2>1. pc \in Checked \cup {"locks"}
    BY <1>2, <1>3
  <2> QED
    BY ZenonT(40), <1>1, <1>2, <2>1 DEF Requests, Checked
<1> HIDE DEF r
<1>7. Shape(r)
  BY <1>1, <1>2, <1>3, <1>6 DEF Shape, Doing, OrderSteps, LockSteps, Checked
<1>8. /\ req' \in [Handlers -> Requests] /\ req'[h] = r
      /\ \A g \in Handlers : g # h => req'[g] = req[g]
      /\ \A g \in Handlers : Shape(req'[g])
  BY <1>5, <1>6, <1>7, ReqType
<1> QED
  BY <1>2, <1>3, <1>4, <1>6, <1>8

(* The allocations are counted and there are none.                          *)
LEMMA CountType ==
  ASSUME Typed, NEW h \in Handlers, CountAllocations(h), ~End(h)
  PROVE  /\ req' \in [Handlers -> Requests] /\ \A g \in Handlers : g # h => req'[g] = req[g]
         /\ \A g \in Handlers : Shape(req'[g])
         /\ req'[h].pc = "locks" /\ req'[h].then = "void" /\ req'[h].id = req[h].id
         /\ req'[h].asOf = today /\ req'[h].check = {AsOf(req[h].period)}
         /\ req'[h].open = req[h].open /\ req'[h].since = req[h].since
<1>1. /\ req[h] \in Requests /\ Shape(req[h]) /\ req \in [Handlers -> Requests]
      /\ today \in Periods /\ today \in MaybePeriods
  BY DEF Typed, TypeOK, MaybePeriods
<1>2. req[h].pc = "count" /\ req[h].then = "void" /\ req[h].id \in Orders
      /\ AsOf(req[h].period) \in Periods
  BY <1>1 DEF CountAllocations, Requests, Shape, OrderSteps, AsOf, MaybePeriods
<1> DEFINE r == [req[h] EXCEPT !.pc = "locks", !.asOf = today, !.check = {AsOf(req[h].period)}]
<1>3. req' = [req EXCEPT ![h] = r]
  BY <1>1 DEF CountAllocations
<1>4. /\ r \in Requests /\ r.pc = "locks" /\ r.then = "void" /\ r.id = req[h].id
      /\ r.asOf = today /\ r.check = {AsOf(req[h].period)}
      /\ r.open = req[h].open /\ r.since = req[h].since
  BY <1>1, <1>2 DEF Requests
<1> HIDE DEF r
<1>5. Shape(r)
  BY <1>2, <1>4 DEF Shape, Doing, OrderSteps, LockSteps, Checked
<1>6. /\ req' \in [Handlers -> Requests] /\ req'[h] = r
      /\ \A g \in Handlers : g # h => req'[g] = req[g]
      /\ \A g \in Handlers : Shape(req'[g])
  BY <1>3, <1>4, <1>5, ReqType
<1> QED
  BY <1>4, <1>6

(* The list of locks is replaced by hand.                                   *)
LEMMA SetType ==
  ASSUME Typed, NEW h \in Handlers, SetLocks(h)
  PROVE  /\ req' \in [Handlers -> Requests] /\ req'[h] = NoReq
         /\ \A g \in Handlers : g # h =>
              req'[g] = [req[g] EXCEPT !.since = req[g].since \cap req[h].known]
         /\ \A g \in Handlers : Shape(req'[g])
<1>1. req \in [Handlers -> Requests] /\ Shape(NoReq)
  BY NoReqType DEF Typed, TypeOK, Shape, Doing, LockSteps, OrderSteps
<1>2. ASSUME NEW g \in Handlers, g # h
      PROVE  /\ req'[g] = [req[g] EXCEPT !.since = req[g].since \cap req[h].known]
             /\ req'[g] \in Requests /\ Shape(req'[g])
  <2>1. req[g] \in Requests /\ Shape(req[g])
    BY <1>1 DEF Typed
  <2>2. req'[g] = [req[g] EXCEPT !.since = req[g].since \cap req[h].known]
    BY <1>2 DEF SetLocks
  <2>3. /\ req'[g] \in Requests /\ req'[g].pc = req[g].pc /\ req'[g].id = req[g].id
        /\ req'[g].then = req[g].then /\ req'[g].to = req[g].to /\ req'[g].edit = req[g].edit
        /\ req'[g].period = req[g].period
    BY <2>1, <2>2 DEF Requests
  <2> QED
    BY <2>1, <2>2, <2>3 DEF Shape, Doing
<1>3. req'[h] = NoReq /\ DOMAIN req' = Handlers
      /\ req' = [g \in Handlers |-> req'[g]]
  BY DEF SetLocks
<1> QED
  BY <1>1, <1>2, <1>3, NoReqType

(* The last step of a request about an order, which then is over.           *)
LEMMA TypedEnd ==
  ASSUME Typed, NEW h \in Handlers, End(h), RowTypes', LockTypes', HistoryTypes', EditsPlaced'
  PROVE  Typed'
BY EndType, TypeParts

LEMMA PendingEditsType ==
  ASSUME Typed, NEW o \in Orders, NEW to \in {"APPROVED", "REJECTED"}, PendingEditsTo(o, to)
  PROVE  edit' \in [Edits -> EditRows] /\ EditsPlaced'
<1>1. edit \in [Edits -> EditRows] /\ EditsPlaced
  BY PartTypes DEF RowTypes
<1>2. ASSUME NEW e \in Edits
      PROVE  edit'[e] \in EditRows /\ edit'[e].order = edit[e].order
             /\ (edit'[e].status = "PENDING" => edit[e].status = "PENDING")
  BY <1>1 DEF PendingEditsTo, EditRows, EditStatuses
<1> QED
  BY <1>1, <1>2 DEF PendingEditsTo, EditsPlaced

LEMMA TypedStepOf ==
  ASSUME Typed, NEW h \in Handlers, Step(h) \/ Fail(h)
  PROVE  Typed'
<1>a. /\ order \in [Orders -> OrderRows] /\ edit \in [Edits -> EditRows]
      /\ invoice \in [Orders -> InvoiceRows] /\ allocated \in [Orders -> Nat]
      /\ EditsPlaced /\ LockTypes /\ HistoryTypes
      /\ req[h] \in Requests /\ Shape(req[h])
      /\ Sums \subseteq Nat
  BY BillingAssumption DEF Typed, TypeOK, LockTypes, HistoryTypes, Sums
<1>b. req[h].new \in Sums /\ req[h].period \in MaybePeriods /\ req[h].seen \in Nat
      /\ req[h].known \in SUBSET Periods
  BY <1>a DEF Requests
<1>c. req[h].pc \in OrderSteps => req[h].id \in Orders
  BY <1>a DEF Shape
<1>1. CASE ApplyUpdate(h)
  <2>1. /\ order' \in [Orders -> OrderRows] /\ End(h)
        /\ UNCHANGED <<edit, invoice, allocated, locks, history>>
    BY <1>1, <1>a, <1>b DEF ApplyUpdate, OrderRows, OrderStatuses
  <2>2. RowTypes' /\ LockTypes' /\ HistoryTypes' /\ EditsPlaced'
    BY <1>a, <2>1 DEF RowTypes, LockTypes, HistoryTypes, EditsPlaced, locks, history
  <2> QED
    BY <2>1, <2>2, TypedEnd
<1>2. CASE RequestEdit(h)
  <2>1. req[h].id \in Orders /\ req[h].pc = "request"
    BY <1>2, <1>c DEF RequestEdit, OrderSteps
  <2>2. PICK e \in Edits :
          edit' = [edit EXCEPT ![e] = [status |-> "PENDING", order |-> req[h].id,
                                       total |-> req[h].new]]
    BY <1>2 DEF RequestEdit
  <2>3. edit' \in [Edits -> EditRows] /\ EditsPlaced'
    BY <1>a, <1>b, <2>1, <2>2 DEF EditRows, EditStatuses, EditsPlaced
  <2>4. req' = [req EXCEPT ![h].pc = "hold"]
        /\ UNCHANGED <<order, invoice, allocated, locks, history>>
    BY <1>2 DEF RequestEdit
  <2>5. ~Doing([req[h] EXCEPT !.pc = "hold"], "move")
    BY <1>a DEF Doing, Requests
  <2>6. req' \in [Handlers -> Requests] /\ \A g \in Handlers : Shape(req'[g])
    BY <2>1, <2>4, <2>5, GotoType DEF OrderSteps
  <2>7. RowTypes' /\ LockTypes' /\ HistoryTypes'
    BY <1>a, <2>3, <2>4 DEF RowTypes, LockTypes, HistoryTypes, locks, history
  <2> QED
    BY <2>3, <2>6, <2>7, TypeParts
<1>3. CASE HoldOrder(h)
  <2>1. /\ order' \in [Orders -> OrderRows] /\ End(h)
        /\ UNCHANGED <<edit, invoice, allocated, locks, history>>
    BY <1>3, <1>a DEF HoldOrder, OrderRows, OrderStatuses
  <2>2. RowTypes' /\ LockTypes' /\ HistoryTypes' /\ EditsPlaced'
    BY <1>a, <2>1 DEF RowTypes, LockTypes, HistoryTypes, EditsPlaced, locks, history
  <2> QED
    BY <2>1, <2>2, TypedEnd
<1>4. CASE ArchiveCommit(h)
  <2>1. /\ order' \in [Orders -> OrderRows] /\ End(h)
        /\ UNCHANGED <<invoice, allocated, locks, history>>
    BY <1>4, <1>a DEF ArchiveCommit, OrderRows, OrderStatuses
  <2>2. edit' \in [Edits -> EditRows] /\ EditsPlaced'
    BY <1>4, <1>c, PendingEditsType DEF ArchiveCommit, OrderSteps
  <2>3. RowTypes' /\ LockTypes' /\ HistoryTypes'
    BY <1>a, <2>1, <2>2 DEF RowTypes, LockTypes, HistoryTypes, locks, history
  <2> QED
    BY <2>1, <2>2, <2>3, TypedEnd
<1>5. CASE DecideCommit(h)
  <2>0. req[h].to \in {"APPROVED", "REJECTED"} /\ req[h].id \in Orders
    BY <1>5, <1>a, <1>c DEF DecideCommit, Shape, OrderSteps
  <2>1. /\ order' \in [Orders -> OrderRows] /\ End(h)
        /\ UNCHANGED <<invoice, allocated, locks, history>>
    BY <1>5, <1>a, <2>0 DEF DecideCommit, OrderRows, OrderStatuses
  <2>2. edit' \in [Edits -> EditRows] /\ EditsPlaced'
    BY <1>5, <2>0, PendingEditsType DEF DecideCommit
  <2>3. RowTypes' /\ LockTypes' /\ HistoryTypes'
    BY <1>a, <2>1, <2>2 DEF RowTypes, LockTypes, HistoryTypes, locks, history
  <2> QED
    BY <2>1, <2>2, <2>3, TypedEnd
<1>6. CASE EditCommit(h)
  <2>0. req[h].to \in {"APPROVED", "REJECTED"} /\ req[h].id \in Orders /\ req[h].edit \in Edits
    BY <1>6, <1>a, <1>c DEF EditCommit, Shape, OrderSteps
  <2>1. End(h) /\ UNCHANGED <<invoice, allocated, locks, history>>
    BY <1>6 DEF EditCommit
  <2>2. order' \in [Orders -> OrderRows]
    <3>1. order[req[h].id] \in OrderRows
      BY <1>a, <2>0
    <3> QED
      BY <1>6, <1>a, <1>b, <2>0, <3>1 DEF EditCommit, OrderRows, OrderStatuses
  <2>3. edit' = [edit EXCEPT ![req[h].edit].status = req[h].to]
    BY <1>6 DEF EditCommit
  <2>4. edit' \in [Edits -> EditRows] /\ EditsPlaced'
    <3>1. edit' \in [Edits -> EditRows]
      BY <1>a, <2>0, <2>3 DEF EditRows, EditStatuses
    <3>2. edit'[req[h].edit].status # "PENDING"
      BY <1>a, <2>0, <2>3 DEF EditRows
    <3> QED
      BY <1>a, <2>0, <2>3, <3>1, <3>2 DEF EditsPlaced
  <2>5. RowTypes' /\ LockTypes' /\ HistoryTypes'
    BY <1>a, <2>1, <2>2, <2>4 DEF RowTypes, LockTypes, HistoryTypes, locks, history
  <2> QED
    BY <2>1, <2>4, <2>5, TypedEnd
<1>7. ASSUME NEW pc \in OrderSteps, req' = [req EXCEPT ![h].pc = pc], req[h].id \in Orders,
             pc \notin {"decide", "edit", "count", "allocate"},
             pc = "settle" => req[h].pc = "allocate", pc = "locks" => req[h].then \in Checked,
             Doing([req[h] EXCEPT !.pc = pc], "move") => Doing(req[h], "move"),
             RowTypes', LockTypes', HistoryTypes', EditsPlaced'
      PROVE  Typed'
  BY <1>7, GotoType, TypeParts
<1>8. ASSUME UNCHANGED <<rows, locks, history>>
      PROVE  RowTypes' /\ LockTypes' /\ HistoryTypes' /\ EditsPlaced'
  BY <1>a, <1>8 DEF RowTypes, LockTypes, HistoryTypes, EditsPlaced, rows, locks, history
<1>9. CASE AskLocks(h) \/ AskLegacyLocks(h)
  <2>1. RowTypes' /\ LockTypes' /\ HistoryTypes' /\ EditsPlaced'
    <3>1. CASE AskLocks(h)
      BY <1>8, <3>1 DEF AskLocks
    <3>2. CASE AskLegacyLocks(h)
      <4>1. failures' \in 0 .. MaxFailures
        BY <1>a, <3>2, BillingAssumption DEF AskLegacyLocks, HistoryTypes
      <4> QED
        BY <1>a, <3>2, <4>1
           DEF AskLegacyLocks, RowTypes, LockTypes, HistoryTypes, EditsPlaced, rows, locks
    <3> QED
      BY <1>9, <3>1, <3>2
  <2>2. PICK p \in req[h].check, list \in {LockedNow, legacy}, since \in SUBSET Periods :
          req[h].pc = "locks" /\ AskFor(h, p, list, since)
    <3>1. req[h].since \in SUBSET Periods /\ \A p : req[h].since \ {p} \in SUBSET Periods
      BY <1>a DEF Requests
    <3> QED
      BY <1>9, <3>1 DEF AskLocks, AskLegacyLocks
  <2>3. CASE p \in list
    BY <2>1, <2>2, <2>3, TypedEnd DEF AskFor
  <2>4. CASE p \notin list
    BY <2>1, <2>2, <2>4, AskType, TypeParts
  <2> QED
    BY <2>3, <2>4
<1>11. ASSUME End(h), invoice' \in [Orders -> InvoiceRows],
              UNCHANGED <<order, edit, allocated, locks, history>>
       PROVE  Typed'
  <2>1. RowTypes' /\ LockTypes' /\ HistoryTypes' /\ EditsPlaced'
    BY <1>a, <1>11 DEF RowTypes, LockTypes, HistoryTypes, EditsPlaced, locks, history
  <2> QED
    BY <1>11, <2>1, TypedEnd
<1>12. CASE InsertInvoice(h)
  <2>1. 0 \in Nat /\ req[h].id \in Orders
    BY <1>12, <1>c DEF InsertInvoice, OrderSteps
  <2>2. invoice' \in [Orders -> InvoiceRows]
    BY <1>12, <1>a, <1>b, <2>1 DEF InsertInvoice, InvoiceRows, InvoiceStatuses
  <2> QED
    BY <1>11, <1>12, <2>2 DEF InsertInvoice
<1>13. CASE AmendCommit(h)
  <2>1. invoice[req[h].id] \in InvoiceRows /\ req[h].id \in Orders
    BY <1>13, <1>a, <1>c DEF AmendCommit, OrderSteps
  <2>2. invoice' \in [Orders -> InvoiceRows]
    BY <1>13, <1>a, <1>b, <2>1 DEF AmendCommit, InvoiceRows
  <2> QED
    BY <1>11, <1>13, <2>2 DEF AmendCommit
<1>14. CASE MoveCommit(h)
  <2>1. invoice[req[h].id] \in InvoiceRows /\ req[h].id \in Orders
        /\ req[h].to \in {"PENDING", "APPROVED", "ARCHIVED", "REJECTED"}
    BY <1>14, <1>a, <1>c DEF MoveCommit, OrderSteps, Shape, Doing
  <2>2. invoice' \in [Orders -> InvoiceRows]
    BY <1>14, <1>a, <1>b, <2>1 DEF MoveCommit, InvoiceRows, InvoiceStatuses
  <2> QED
    BY <1>11, <1>14, <2>2 DEF MoveCommit
<1>15. CASE CountAllocations(h)
  <2>1. RowTypes' /\ LockTypes' /\ HistoryTypes' /\ EditsPlaced'
    BY <1>8, <1>15 DEF CountAllocations
  <2> QED
    BY <1>15, <2>1, CountType, TypedEnd, TypeParts
<1>16. CASE VoidCommit(h)
  <2>1. invoice' \in [Orders -> InvoiceRows]
    BY <1>16, <1>a, <1>c DEF VoidCommit, InvoiceRows, InvoiceStatuses, OrderSteps
  <2> QED
    BY <1>11, <1>16, <2>1 DEF VoidCommit
<1>17. CASE SumAllocations(h)
  <2> DEFINE next == allocated[req[h].id] + req[h].new
             r == [req[h] EXCEPT !.pc = "allocate",
                     !.to = IF next = req[h].seen THEN "ARCHIVED" ELSE "APPROVED", !.seen = next]
  <2>1. /\ req[h].pc = "sum" /\ UNCHANGED <<rows, locks, history>>
        /\ End(h) \/ req' = [req EXCEPT ![h] = r]
    BY <1>17 DEF SumAllocations
  <2>2. req[h].id \in Orders /\ next \in Nat
    BY <1>a, <1>b, <1>c, <2>1 DEF OrderSteps
  <2>3. /\ r \in Requests /\ r.pc = "allocate" /\ r.to \in {"ARCHIVED", "APPROVED"}
        /\ r.id = req[h].id
    <3> HIDE DEF next
    <3> QED
      BY ZenonT(40), <1>a, <2>2 DEF Requests, OrderStatuses
  <2> HIDE DEF r
  <2>4. Shape(r)
    BY <2>2, <2>3 DEF Shape, Doing, OrderSteps, LockSteps
  <2> QED
    BY <1>8, <2>1, <2>3, <2>4, ReqType, TypedEnd, TypeParts
<1>18. CASE InsertAllocation(h)
  <2>1. /\ req[h].pc = "allocate" /\ req' = [req EXCEPT ![h].pc = "settle"]
        /\ UNCHANGED <<order, edit, invoice, locks, clash, failures>>
    BY <1>18 DEF InsertAllocation
  <2>2. req[h].id \in Orders
    BY <1>c, <2>1 DEF OrderSteps
  <2>3. allocated' \in [Orders -> Nat]
    BY <1>18, <1>a, <1>b, <2>2 DEF InsertAllocation
  <2>4. mixed' \in [Orders -> SUBSET {"overlap", "failed", "reopened"}]
    BY <1>18, <1>a, <2>2 DEF InsertAllocation, HistoryTypes
  <2>5. ~Doing([req[h] EXCEPT !.pc = "settle"], "move")
    BY <1>a DEF Doing, Requests
  <2>6. RowTypes' /\ LockTypes' /\ HistoryTypes' /\ EditsPlaced'
    BY <1>a, <2>1, <2>3, <2>4 DEF RowTypes, LockTypes, HistoryTypes, EditsPlaced, locks
  <2> QED
    BY <1>7, <2>1, <2>2, <2>5, <2>6 DEF OrderSteps
<1>19. CASE Settle(h)
  <2>1. invoice[req[h].id] \in InvoiceRows /\ req[h].id \in Orders
        /\ req[h].to \in {"APPROVED", "ARCHIVED"}
    BY <1>19, <1>a, <1>c DEF Settle, OrderSteps, Shape
  <2>2. invoice' \in [Orders -> InvoiceRows]
    BY <1>19, <1>a, <1>b, <2>1 DEF Settle, PaidByAllocation, InvoiceRows, InvoiceStatuses
  <2> QED
    BY <1>11, <1>19, <2>2 DEF Settle
<1>20. CASE WriteLock(h)
  <2> DEFINE r == [req[h] EXCEPT !.pc = "legacy"]
  <2>1. /\ req[h].pc = "lock" /\ req' = [req EXCEPT ![h] = r]
        /\ UNCHANGED <<rows, legacy, today, history>> /\ req[h].period \in Periods
        /\ req[h].id = None
        /\ locked' = req[h].known \cup {req[h].period}
        /\ closed' = closed \cup {req[h].period}
    BY <1>20, <1>a DEF WriteLock, Shape, LockSteps, Requests
  <2>2. r \in Requests /\ r.pc = "legacy" /\ r.id = None /\ r.period \in Periods
    BY <1>a, <2>1 DEF Requests
  <2> HIDE DEF r
  <2>3. Shape(r)
    BY <2>2 DEF Shape, Doing, OrderSteps, LockSteps
  <2>4. RowTypes' /\ LockTypes' /\ HistoryTypes' /\ EditsPlaced'
    BY <1>a, <1>b, <2>1 DEF RowTypes, LockTypes, HistoryTypes, EditsPlaced, rows, history
  <2> QED
    BY <2>1, <2>2, <2>3, <2>4, ReqType, TypeParts
<1>21. CASE WriteLegacyLock(h) \/ SaveSettings(h)
  <2>1. End(h) /\ UNCHANGED <<rows, history>> /\ LockTypes'
    BY <1>21, <1>a, <1>b DEF WriteLegacyLock, SaveSettings, LockTypes, Shape
  <2>2. RowTypes' /\ HistoryTypes' /\ EditsPlaced'
    BY <1>a, <2>1 DEF RowTypes, HistoryTypes, EditsPlaced, rows, history
  <2> QED
    BY <2>1, <2>2, TypedEnd
<1>23. CASE SetLocks(h)
  <2>1. RowTypes' /\ LockTypes' /\ HistoryTypes' /\ EditsPlaced'
    BY <1>23, <1>a, <1>b
       DEF SetLocks, RowTypes, LockTypes, HistoryTypes, EditsPlaced, rows, history
  <2> QED
    BY <1>23, <2>1, SetType, TypeParts
<1>22. CASE Fail(h)
  <2>1. End(h) /\ UNCHANGED <<rows, locks, clash>> /\ failures' \in 0 .. MaxFailures
        /\ mixed' \in [Orders -> SUBSET {"overlap", "failed", "reopened"}]
    BY <1>22, <1>a, BillingAssumption DEF Fail, HistoryTypes
  <2>2. RowTypes' /\ LockTypes' /\ HistoryTypes' /\ EditsPlaced'
    BY <1>a, <2>1 DEF RowTypes, LockTypes, HistoryTypes, EditsPlaced, rows, locks
  <2> QED
    BY <2>1, <2>2, TypedEnd
<1> QED
  BY <1>1, <1>2, <1>3, <1>4, <1>5, <1>6, <1>9, <1>12, <1>13, <1>14, <1>15, <1>16, <1>17,
     <1>18, <1>19, <1>20, <1>21, <1>22, <1>23 DEF Step

LEMMA TypedCreate ==
  ASSUME Typed, NEW o \in Orders, CreateOrder(o)
  PROVE  Typed'
<1>1. order' \in [Orders -> OrderRows] /\ UNCHANGED <<edit, invoice, allocated, locks, req, history>>
  BY DEF CreateOrder, Typed, TypeOK, OrderRows, OrderStatuses, Sums
<1>2. RowTypes' /\ LockTypes' /\ HistoryTypes' /\ EditsPlaced'
  BY <1>1, PartTypes DEF RowTypes, LockTypes, HistoryTypes, EditsPlaced, locks, history
<1>3. req' \in [Handlers -> Requests] /\ \A h \in Handlers : Shape(req'[h])
  BY <1>1 DEF Typed, TypeOK
<1> QED
  BY <1>2, <1>3, TypeParts

LEMMA TypedStep == Typed /\ [Next]_vars => Typed'
<1> SUFFICES ASSUME Typed, [Next]_vars PROVE Typed'
  OBVIOUS
<1>1. CASE UNCHANGED vars
  <2>1. RowTypes' /\ LockTypes' /\ HistoryTypes' /\ EditsPlaced'
    BY <1>1, PartTypes
       DEF vars, rows, locks, history, RowTypes, LockTypes, HistoryTypes, EditsPlaced
  <2>2. req' \in [Handlers -> Requests] /\ \A h \in Handlers : Shape(req'[h])
    BY <1>1 DEF vars, Typed, TypeOK
  <2> QED
    BY <2>1, <2>2, TypeParts
<1>2. CASE MonthTurns
  <2>1. today' \in Periods /\ UNCHANGED <<rows, locked, legacy, closed, req, history>>
    BY <1>2 DEF MonthTurns
  <2>2. RowTypes' /\ LockTypes' /\ HistoryTypes' /\ EditsPlaced'
    BY <2>1, PartTypes DEF rows, history, RowTypes, LockTypes, HistoryTypes, EditsPlaced
  <2>3. req' \in [Handlers -> Requests] /\ \A h \in Handlers : Shape(req'[h])
    BY <2>1 DEF Typed, TypeOK
  <2> QED
    BY <2>2, <2>3, TypeParts
<1> QED
  BY <1>1, <1>2, TypedCreate, TypedRequest, TypedStepOf DEF Next

LEMMA TypedInit == Init => Typed
<1> SUFFICES ASSUME Init PROVE Typed
  OBVIOUS
<1>1. order \in [Orders -> OrderRows] /\ edit \in [Edits -> EditRows] /\ EditsPlaced
  BY DEF Init, OrderRows, OrderStatuses, EditRows, EditStatuses, Sums, EditsPlaced
<1>2. invoice \in [Orders -> InvoiceRows] /\ allocated \in [Orders -> Nat]
  BY DEF Init, InvoiceRows, InvoiceStatuses, Sums, MaybePeriods
<1>3. req \in [Handlers -> Requests] /\ \A h \in Handlers : Shape(req[h])
  <2>1. Shape(NoReq)
    BY NoReqType DEF Shape, Doing, LockSteps, OrderSteps
  <2> QED
    BY <2>1, NoReqType DEF Init
<1>4. /\ mixed \in [Orders -> SUBSET {"overlap", "failed", "reopened"}]
      /\ clash \in BOOLEAN /\ failures \in 0 .. MaxFailures
  <2>1. mixed \in [Orders -> SUBSET {"overlap", "failed", "reopened"}]
    BY DEF Init
  <2>2. clash \in BOOLEAN
    BY DEF Init
  <2>3. failures \in 0 .. MaxFailures
    BY BillingAssumption DEF Init
  <2> QED
    BY <2>1, <2>2, <2>3
<1> QED
  BY <1>1, <1>2, <1>3, <1>4 DEF Init, Typed, TypeOK

(* Every reachable state has the types of TypeOK.                           *)
THEOREM TypeCorrect == Spec => []TypeOK
<1>1. Spec => []Typed
  BY TypedInit, TypedStep, PTL DEF Spec
<1>2. Typed => TypeOK
  BY DEF Typed
<1> QED
  BY <1>1, <1>2, PTL

--------------------------------------------------------------------------------
(* Requests do not overlap on an order that was not mixed.                  *)
Single(o) ==
  "overlap" \notin mixed[o] =>
    \A g, h \in Handlers : req[g].id = o /\ req[h].id = o => g = h

(* The periods that a request found open were open when it began, and past  *)
(* the lock check these are all it asked for.                               *)
Passed(r) ==
  /\ r.since \subseteq closed
  /\ ~clash => r.open \cap r.since = {}
  /\ r.pc \in Checked \cup {"allocate", "settle"} => r.check \subseteq r.open

(* As long as the writers of the locks do not overlap, a closed period is   *)
(* locked.                                                                  *)
LocksKept ==
  ~clash => /\ closed \subseteq locked
            /\ \A h \in Handlers : req[h].pc \in {"lock", "save"} => req[h].known = locked
            /\ \A g, h \in Handlers :
                 req[g].pc \in Writers /\ req[h].pc \in Writers => g = h

(* The rows of an order.                                                    *)
Unwritten(o) ==
  /\ order[o].status = "NONE" => order[o].total = 0
  /\ invoice[o].status = "NONE" /\ "overlap" \notin mixed[o] =>
       invoice[o].paid = 0 /\ allocated[o] = 0 /\ invoice[o].period = None
Settled(o) ==
  order[o].status = "ARCHIVED" /\ mixed[o] \cap {"overlap", "reopened"} = {}
  => ~Open(invoice[o].status)
Paid(o) ==
  /\ mixed[o] \cap {"overlap", "failed"} = {}
  /\ \A h \in Handlers : req[h].id = o => req[h].pc # "settle"
  => \/ invoice[o].paid = allocated[o]
     \/ invoice[o].status = "ARCHIVED" /\ invoice[o].paid = invoice[o].total
RowsKept(o) == Single(o) /\ Unwritten(o) /\ Settled(o) /\ Paid(o)

Inv ==
  /\ LocksKept
  /\ \A o \in Orders : RowsKept(o)
  /\ \A h \in Handlers : Passed(req[h]) /\ OfOrder(req[h])
                         /\ (req[h].id \in Orders => Knows(req[h]))
TypedInv == Typed /\ Inv

(* A step of a request about order o: everything else stays as it was.      *)
LEMMA OrderFrame ==
  ASSUME Typed, Inv, NEW h \in Handlers, NEW o \in Orders,
         \A g \in Handlers : g # h => /\ req'[g] = req[g]
                                      /\ req[g].id = o => "overlap" \in mixed'[o],
         req[h].id \in {o, None}, req'[h].id \in {o, None},
         req'[h].pc \notin Writers,
         \A p \in Orders : p # o => /\ order'[p] = order[p] /\ invoice'[p] = invoice[p]
                                    /\ allocated'[p] = allocated[p] /\ mixed'[p] = mixed[p],
         \A e \in Edits : edit[e].status = "PENDING" /\ edit[e].order # o => edit'[e] = edit[e],
         \A e \in Edits : edit[e].status # "NONE" =>
           edit'[e].status # "NONE" /\ edit'[e].order = edit[e].order,
         UNCHANGED <<locks, clash>>,
         Unwritten(o)', Settled(o)', Paid(o)', Passed(req[h])', OfOrder(req[h])',
         req'[h].id = o => Knows(req[h])'
  PROVE  Inv'
<1>a. None \notin Orders /\ UNCHANGED <<locked, legacy, closed, clash>>
  BY BillingAssumption DEF locks
<1>1. LocksKept'
  <2>1. \A g \in Handlers : req'[g].pc \in Writers => g # h /\ req'[g] = req[g]
    OBVIOUS
  <2> QED
    BY <1>a, <2>1 DEF Inv, LocksKept, Writers
<1>2. ASSUME NEW p \in Orders PROVE RowsKept(p)'
  <2>1. RowsKept(p)
    BY DEF Inv
  <2>2. CASE p = o
    <3>1. Single(o)'
      BY DEF Single
    <3> QED
      BY <2>2, <3>1 DEF RowsKept
  <2>3. CASE p # o
    <3>1. \A g \in Handlers : (req'[g].id = p) <=> (req[g].id = p)
      BY <1>a, <2>3
    <3>2. \A g \in Handlers : req[g].id = p => req'[g] = req[g]
      BY <1>a, <2>3
    <3>3. Single(p)'
      BY <2>1, <2>3, <3>1 DEF RowsKept, Single
    <3>4. Unwritten(p)' /\ Settled(p)'
      BY <2>1, <2>3 DEF RowsKept, Unwritten, Settled
    <3>5. Paid(p)'
      BY <2>1, <2>3, <3>1, <3>2 DEF RowsKept, Paid
    <3> QED
      BY <3>3, <3>4, <3>5 DEF RowsKept
  <2> QED
    BY <2>2, <2>3
<1>3. ASSUME NEW g \in Handlers, g # h, req'[g].id \in Orders PROVE Knows(req[g])'
  <2>1. req'[g] = req[g] /\ Knows(req[g]) /\ Shape(req[g])
    BY <1>3 DEF Inv, Typed
  <2>2. CASE req[g].id = o
    BY <1>3, <2>1, <2>2 DEF Knows
  <2>3. CASE req[g].id # o
    <3> DEFINE p == req[g].id
    <3>1. p \in Orders /\ order'[p] = order[p] /\ invoice'[p] = invoice[p]
          /\ allocated'[p] = allocated[p] /\ mixed'[p] = mixed[p]
      BY <1>3, <2>1, <2>3
    <3>2. ASSUME "overlap" \notin mixed[p], req[g].pc = "edit"
          PROVE  edit'[req[g].edit] = [status |-> "PENDING", order |-> p, total |-> req[g].new]
      <4>1. edit[req[g].edit] = [status |-> "PENDING", order |-> p, total |-> req[g].new]
            /\ req[g].edit \in Edits
        BY <2>1, <3>2 DEF Knows, Shape
      <4>2. edit[req[g].edit].status = "PENDING" /\ edit[req[g].edit].order = p
        BY <4>1
      <4> QED
        BY <2>3, <4>1, <4>2
    <3> QED
      BY SMTT(30), <2>1, <3>1, <3>2 DEF Knows, Doing
  <2> QED
    BY <2>2, <2>3
<1>4. ASSUME NEW g \in Handlers PROVE Passed(req[g])' /\ OfOrder(req[g])'
  <2>1. CASE g = h
    BY <2>1
  <2>2. CASE g # h
    <3>1. req'[g] = req[g] /\ OfOrder(req[g]) /\ Passed(req[g]) /\ Shape(req[g])
      BY <2>2 DEF Inv, Typed
    <3> QED
      BY <1>a, <3>1 DEF OfOrder, Passed, Shape
  <2> QED
    BY <2>1, <2>2
<1>5. ASSUME NEW g \in Handlers, req'[g].id \in Orders PROVE Knows(req[g])'
  BY <1>a, <1>3, <1>5
<1> QED
  BY <1>1, <1>2, <1>4, <1>5 DEF Inv

LEMMA InvRequest ==
  ASSUME Typed, Inv, NEW h \in Handlers, Request(h)
  PROVE  Inv'
<1>1. CASE Begins(h)
  <2>1. PICK o \in Orders, r \in Requests, v \in Requests, endpoint \in AllEndpoints :
          /\ Begin(h, endpoint, o, r) /\ Begun(r, o, v) /\ r.pc \in FirstSteps
          /\ Shape(v) /\ OfOrder(v) /\ Knows(v) /\ r.open = {}
    BY <1>1 DEF Begins
  <2>2. /\ req[h].pc = "idle" /\ req[h].id = None
        /\ req'[h] = v
        /\ \A g \in Handlers : g # h => req'[g] = req[g]
        /\ mixed[o] \subseteq mixed'[o] /\ \A p \in Orders : p # o => mixed'[p] = mixed[p]
        /\ "overlap" \notin mixed'[o] => \A g \in Handlers : req[g].id # o
        /\ UNCHANGED <<rows, locks, clash, failures>>
    <3>1. v = [r EXCEPT !.id = o, !.asOf = today, !.since = closed] /\ r.pc \in OrderSteps
      BY <2>1 DEF FirstSteps, OrderSteps, Begun
    <3>2. Shape([r EXCEPT !.id = o, !.asOf = today, !.since = closed])
      BY <2>1, <3>1
    <3>b. \A g \in Handlers : g # h => req'[g] = req[g]
      BY <2>1 DEF Begin, Typed, TypeOK
    <3>3. /\ req[h].pc = "idle" /\ req[h].id = None
          /\ req'[h] = [r EXCEPT !.id = o, !.asOf = today, !.since = closed]
      <4>1. req[h].pc = "idle" /\ Shape(req[h]) /\ req \in [Handlers -> Requests]
        BY <2>1 DEF Begin, Typed, TypeOK
      <4> QED
        BY <2>1, <4>1 DEF Begin, Shape
    <3>4. /\ mixed[o] \subseteq mixed'[o]
          /\ \A p \in Orders : p # o => mixed'[p] = mixed[p]
      BY <2>1, PartTypes DEF Begin, HistoryTypes
    <3>5. "overlap" \notin mixed'[o] => \A g \in Handlers : req[g].id # o
      BY <2>1, <3>1, <3>2, BeginType
    <3>6. UNCHANGED <<rows, locks, clash, failures>>
      BY <2>1 DEF Begin
    <3> QED
      BY <3>b, <3>1, <3>3, <3>4, <3>5, <3>6
  <2>3. /\ v.id = o /\ v.since = closed /\ v.pc \in FirstSteps /\ v.open = {}
    BY <2>1 DEF Begun
  <2>4. UNCHANGED <<order, edit, invoice, allocated, locks, clash, closed>>
    BY <2>2 DEF rows, locks
  <2>5. RowsKept(o)
    BY DEF Inv
  <2>6. Unwritten(o)' /\ Settled(o)'
    BY <2>2, <2>4, <2>5 DEF RowsKept, Unwritten, Settled
  <2>7. Paid(o)'
    <3>1. req[h].id # o
      BY <2>2, BillingAssumption
    <3>2. (\A g \in Handlers : req'[g].id = o => req'[g].pc # "settle")
          => \A g \in Handlers : req[g].id = o => req[g].pc # "settle"
      BY <2>2, <3>1
    <3> QED
      BY <2>2, <2>4, <2>5, <3>2 DEF RowsKept, Paid
  <2>8. Passed(req[h])'
    BY <2>2, <2>3, <2>4 DEF Passed, FirstSteps, Checked
  <2>9. Knows(req[h])' /\ OfOrder(req[h])'
    BY <2>1, <2>2, <2>3, <2>4 DEF Knows, OfOrder, FirstSteps
  <2> QED
    BY <2>2, <2>3, <2>4, <2>6, <2>7, <2>8, <2>9, OrderFrame DEF FirstSteps, Writers
<1>2. CASE ReadsLocks(h)
  <2>1. PICK r \in Requests, endpoint \in AllEndpoints, list \in SUBSET Periods :
          /\ ReadLocks(h, endpoint, list, r) /\ r.pc \in Writers /\ r.since = {} /\ r.open = {}
          /\ r.id = None /\ Shape([r EXCEPT !.known = list]) /\ (r.pc # "set" => list = locked)
    BY <1>2 DEF ReadsLocks
  <2> DEFINE v == [r EXCEPT !.known = list]
  <2>2. /\ v \in Requests /\ v.pc \in Writers /\ v.since = {} /\ v.open = {} /\ v.id = None
        /\ (v.pc # "set" => v.known = locked)
    BY <2>1 DEF Requests
  <2>3. /\ req[h].pc = "idle" /\ req' = [req EXCEPT ![h] = v]
        /\ clash' = (clash \/ \E g \in Handlers : req[g].pc \in Writers)
        /\ UNCHANGED <<order, edit, invoice, allocated, mixed, locked, legacy, closed>>
    BY <2>1 DEF ReadLocks, rows, locks, Writers
  <2> HIDE DEF v
  <2>4. req'[h] = v /\ \A g \in Handlers : g # h => req'[g] = req[g]
    BY <2>3 DEF Typed, TypeOK
  <2>5. LocksKept'
    BY <2>2, <2>3, <2>4 DEF Inv, LocksKept, Writers
  <2>6. None \notin Orders /\ req[h].id = None
    BY <2>3, BillingAssumption DEF Typed, Shape
  <2>7. ASSUME NEW o \in Orders PROVE RowsKept(o)'
    <3>1. \A g \in Handlers : req'[g].id = o <=> req[g].id = o
      BY <2>2, <2>4, <2>6, <2>7
    <3>2. \A g \in Handlers : req[g].id = o => req'[g] = req[g]
      BY <2>4, <2>6, <2>7
    <3> QED
      BY <2>3, <3>1, <3>2 DEF Inv, RowsKept, Single, Unwritten, Settled, Paid
  <2>8. ASSUME NEW g \in Handlers PROVE Passed(req[g])' /\ OfOrder(req[g])'
    <3>1. OfOrder(req[g]) /\ Passed(req[g])
      BY DEF Inv
    <3> QED
      BY <2>2, <2>3, <2>4, <3>1 DEF OfOrder, Passed, Checked, Writers
  <2>9. ASSUME NEW g \in Handlers, req'[g].id \in Orders PROVE Knows(req[g])'
    <3>1. req'[g] = req[g] /\ Knows(req[g])
      BY <2>2, <2>4, <2>6, <2>9 DEF Inv
    <3> QED
      BY <2>3, <3>1 DEF Knows
  <2> QED
    BY <2>5, <2>7, <2>8, <2>9 DEF Inv
<1> QED
  BY <1>1, <1>2, RequestBegins

(* What a request finds when it is alone on its order.                      *)
LEMMA AloneOn ==
  ASSUME Inv, NEW h \in Handlers, req[h].id \in Orders, "overlap" \notin mixed[req[h].id]
  PROVE  LET o == req[h].id
         IN /\ Knows(req[h])
            /\ \A g \in Handlers : g # h => req[g].id # o
            /\ "failed" \notin mixed[o] /\ req[h].pc # "settle" =>
                 \/ invoice[o].paid = allocated[o]
                 \/ invoice[o].status = "ARCHIVED" /\ invoice[o].paid = invoice[o].total
<1>1. RowsKept(req[h].id) /\ Knows(req[h])
  BY DEF Inv
<1>2. \A g \in Handlers : g # h => req[g].id # req[h].id
  BY <1>1 DEF RowsKept, Single
<1> QED
  BY <1>1, <1>2 DEF RowsKept, Paid

(* The last step of a request about an order.                               *)
LEMMA LastStep ==
  ASSUME Typed, Inv, NEW h \in Handlers, NEW o \in Orders, o = req[h].id, End(h),
         \A p \in Orders : p # o => /\ order'[p] = order[p] /\ invoice'[p] = invoice[p]
                                    /\ allocated'[p] = allocated[p] /\ mixed'[p] = mixed[p],
         mixed[o] \subseteq mixed'[o],
         \A e \in Edits : edit[e].status = "PENDING" /\ edit[e].order # o => edit'[e] = edit[e],
         \A e \in Edits : edit[e].status # "NONE" =>
           edit'[e].status # "NONE" /\ edit'[e].order = edit[e].order,
         UNCHANGED <<locks, clash>>,
         order'[o].status # "NONE" \/ order'[o] = order[o],
         "overlap" \notin mixed'[o] =>
           /\ \/ invoice'[o].status # "NONE"
              \/ invoice'[o] = invoice[o] /\ allocated'[o] = allocated[o]
           /\ order'[o].status = "ARCHIVED" /\ "reopened" \notin mixed'[o]
                => ~Open(invoice'[o].status)
           /\ "failed" \notin mixed'[o] =>
                \/ invoice'[o].paid = allocated'[o]
                \/ invoice'[o].status = "ARCHIVED" /\ invoice'[o].paid = invoice'[o].total
  PROVE  Inv'
<1>1. /\ req'[h] = NoReq /\ \A g \in Handlers : g # h => req'[g] = req[g]
      /\ None \notin Orders /\ NoReq.pc = "idle" /\ NoReq.id = None /\ NoReq.since = {}
      /\ NoReq.open = {}
  BY EndType, NoReqType, BillingAssumption
<1>2. RowsKept(o)
  BY DEF Inv
<1>3. Unwritten(o)' /\ Settled(o)' /\ Paid(o)'
  BY <1>2 DEF RowsKept, Unwritten, Settled, Paid
<1>4. Passed(req[h])' /\ OfOrder(req[h])'
  BY <1>1 DEF Passed, OfOrder, Checked
<1>5. \A g \in Handlers : g # h /\ req[g].id = o => "overlap" \in mixed'[o]
  BY <1>2 DEF RowsKept, Single
<1> QED
  BY <1>1, <1>3, <1>4, <1>5, OrderFrame DEF Writers

(* A step in the middle, which leaves the order and its invoice alone.      *)
LEMMA MiddleStep ==
  ASSUME Typed, Inv, NEW h \in Handlers, NEW o \in Orders, o = req[h].id,
         \A g \in Handlers : g # h => req'[g] = req[g],
         req'[h].id = o, req'[h].pc \notin Writers, Passed(req[h])',
         req[h].pc # "settle",
         UNCHANGED <<order, invoice, locks, clash>>,
         \A p \in Orders : p # o => allocated'[p] = allocated[p] /\ mixed'[p] = mixed[p],
         mixed[o] \subseteq mixed'[o],
         \A e \in Edits : edit[e].status # "NONE" => edit'[e] = edit[e],
         \/ allocated' = allocated
         \/ req'[h].pc = "settle" /\ ("overlap" \notin mixed'[o] => invoice[o].status # "NONE"),
         req'[h].pc # "edit",
         Knows(req[h])'
  PROVE  Inv'
<1>1. RowsKept(o)
  BY DEF Inv
<1>2. Unwritten(o)' /\ Settled(o)'
  BY <1>1 DEF RowsKept, Unwritten, Settled
<1>3. Paid(o)'
  <2>1. CASE req'[h].pc = "settle"
    BY <2>1 DEF Paid
  <2>2. CASE allocated' = allocated
    <3>1. "overlap" \in mixed'[o] \/ "failed" \in mixed'[o] \/
          ("overlap" \notin mixed[o] /\ "failed" \notin mixed[o])
      OBVIOUS
    <3> QED
      BY <2>2, <3>1, AloneOn DEF Paid
  <2> QED
    BY <2>1, <2>2
<1>4. OfOrder(req[h])'
  BY DEF OfOrder
<1>5. \A g \in Handlers : g # h /\ req[g].id = o => "overlap" \in mixed'[o]
  BY <1>1 DEF RowsKept, Single
<1> QED
  BY <1>2, <1>3, <1>4, <1>5, OrderFrame

LEMMA PendingEditsStep ==
  ASSUME Typed, NEW o \in Orders, NEW to \in {"APPROVED", "REJECTED"}, PendingEditsTo(o, to)
  PROVE  /\ \A e \in Edits : edit[e].status = "PENDING" /\ edit[e].order # o => edit'[e] = edit[e]
         /\ \A e \in Edits : edit[e].status # "NONE" =>
              edit'[e].status # "NONE" /\ edit'[e].order = edit[e].order
<1>1. edit \in [Edits -> EditRows]
  BY PartTypes DEF RowTypes
<1>2. \A e \in Edits : edit[e].status = "PENDING" /\ edit[e].order # o => edit'[e] = edit[e]
  BY <1>1 DEF PendingEditsTo
<1>3. ASSUME NEW e \in Edits, edit[e].status # "NONE"
      PROVE  edit'[e].status # "NONE" /\ edit'[e].order = edit[e].order
  BY <1>1, <1>3 DEF PendingEditsTo, EditRows
<1> QED
  BY <1>2, <1>3

(* The order is written by one request alone, and its invoice and edits     *)
(* stay.                                                                    *)
LEMMA OrderWritten ==
  ASSUME Typed, Inv, NEW h \in Handlers, req[h].id \in Orders, End(h), NEW row,
         order' = [order EXCEPT ![req[h].id] = row], row.status # "NONE",
         row.status # "ARCHIVED" \/ ("overlap" \notin mixed[req[h].id]
                                      => ~Open(invoice[req[h].id].status)),
         UNCHANGED <<invoice, allocated, locks, history>>, req[h].pc # "settle",
         \A e \in Edits : edit[e].status = "PENDING" /\ edit[e].order # req[h].id
                          => edit'[e] = edit[e],
         \A e \in Edits : edit[e].status # "NONE" =>
           edit'[e].status # "NONE" /\ edit'[e].order = edit[e].order
  PROVE  Inv'
<1>1. order \in [Orders -> OrderRows]
  BY DEF Typed, TypeOK
<1> DEFINE o == req[h].id
<1>2. /\ order'[o] = row /\ \A p \in Orders : p # o => order'[p] = order[p]
      /\ UNCHANGED <<mixed, clash>>
  BY <1>1 DEF history
<1>3. "overlap" \notin mixed'[o] =>
        /\ order'[o].status = "ARCHIVED" => ~Open(invoice'[o].status)
        /\ "failed" \notin mixed'[o] =>
             \/ invoice'[o].paid = allocated'[o]
             \/ invoice'[o].status = "ARCHIVED" /\ invoice'[o].paid = invoice'[o].total
  BY <1>2, AloneOn
<1> HIDE DEF o
<1> QED
  BY <1>2, <1>3, LastStep DEF o

(* The invoice is written by one request alone.                             *)
LEMMA InvoiceWritten ==
  ASSUME Typed, Inv, NEW h \in Handlers, req[h].id \in Orders, End(h), NEW row,
         invoice' = [invoice EXCEPT ![req[h].id] = row],
         UNCHANGED <<order, edit, allocated, locks, history>>,
         "overlap" \notin mixed[req[h].id] =>
           /\ row.status # "NONE"
           /\ order[req[h].id].status = "ARCHIVED" /\ "reopened" \notin mixed[req[h].id]
                => ~Open(row.status)
           /\ "failed" \notin mixed[req[h].id] =>
                \/ row.paid = allocated[req[h].id]
                \/ row.status = "ARCHIVED" /\ row.paid = row.total
  PROVE  Inv'
<1>1. invoice \in [Orders -> InvoiceRows]
  BY DEF Typed, TypeOK
<1> DEFINE o == req[h].id
<1>2. /\ invoice'[o] = row /\ \A p \in Orders : p # o => invoice'[p] = invoice[p]
      /\ UNCHANGED <<mixed, clash>>
  BY <1>1 DEF history
<1> HIDE DEF o
<1> QED
  BY <1>2, LastStep DEF o

LEMMA InvEnd ==
  ASSUME Typed, Inv, NEW h \in Handlers, req[h].id \in Orders, End(h), req[h].pc # "settle",
         UNCHANGED <<rows, locks, mixed, clash>>
  PROVE  Inv'
<1> DEFINE o == req[h].id
<1>1. RowsKept(o) /\ UNCHANGED <<order, edit, invoice, allocated, mixed, clash>>
  BY DEF Inv, rows
<1>2. "overlap" \notin mixed'[o] =>
        /\ order'[o].status = "ARCHIVED" /\ "reopened" \notin mixed'[o] => ~Open(invoice'[o].status)
        /\ "failed" \notin mixed'[o] =>
             \/ invoice'[o].paid = allocated'[o]
             \/ invoice'[o].status = "ARCHIVED" /\ invoice'[o].paid = invoice'[o].total
  BY <1>1, AloneOn DEF RowsKept, Settled
<1> HIDE DEF o
<1> QED
  BY <1>1, <1>2, LastStep DEF o

(* A step of a request that is about no order.                              *)
LEMMA LockFrame ==
  ASSUME Typed, Inv, NEW h \in Handlers,
         \A g \in Handlers : g # h => req'[g] = req[g],
         req[h].id = None, req'[h].id = None, UNCHANGED <<rows, mixed>>,
         clash => clash', closed \subseteq closed', LocksKept',
         Passed(req[h])', OfOrder(req[h])'
  PROVE  Inv'
<1>1. None \notin Orders /\ UNCHANGED <<order, edit, invoice, allocated, mixed>>
  BY BillingAssumption DEF rows
<1>2. ASSUME NEW o \in Orders PROVE RowsKept(o)'
  <2>1. \A g \in Handlers : req'[g].id = o <=> req[g].id = o
    BY <1>1, <1>2
  <2>2. \A g \in Handlers : req[g].id = o => req'[g] = req[g]
    BY <1>1, <1>2
  <2> QED
    BY <1>1, <2>1, <2>2 DEF Inv, RowsKept, Single, Unwritten, Settled, Paid
<1>3. ASSUME NEW g \in Handlers PROVE Passed(req[g])' /\ OfOrder(req[g])'
  <2>1. CASE g = h
    BY <2>1
  <2>2. CASE g # h
    <3>1. req'[g] = req[g] /\ OfOrder(req[g]) /\ Passed(req[g])
      BY <2>2 DEF Inv
    <3> QED
      BY <1>1, <3>1 DEF OfOrder, Passed
  <2> QED
    BY <2>1, <2>2
<1>4. ASSUME NEW g \in Handlers, req'[g].id \in Orders PROVE Knows(req[g])'
  <2>1. req'[g] = req[g] /\ Knows(req[g])
    BY <1>1, <1>4 DEF Inv
  <2> QED
    BY <1>1, <2>1 DEF Knows
<1> QED
  BY <1>2, <1>3, <1>4 DEF Inv

(* The steps that write the order.                                          *)
LEMMA InvOrderStep ==
  ASSUME Typed, Inv, NEW h \in Handlers,
         ApplyUpdate(h) \/ HoldOrder(h) \/ ArchiveCommit(h) \/ DecideCommit(h) \/ EditCommit(h)
  PROVE  Inv'
<1>a. req[h] \in Requests /\ Shape(req[h]) /\ OfOrder(req[h])
      /\ order \in [Orders -> OrderRows] /\ edit \in [Edits -> EditRows]
  BY DEF Typed, TypeOK, Inv
<1> DEFINE o == req[h].id
<1>b. o \in Orders /\ End(h) /\ UNCHANGED <<invoice, allocated, locks, history>>
      /\ req[h].pc # "settle"
  BY <1>a DEF ApplyUpdate, HoldOrder, ArchiveCommit, DecideCommit, EditCommit, Shape, OrderSteps
<1>1. CASE ApplyUpdate(h)
  <2> DEFINE row == [status |-> "APPROVED", total |-> req[h].new]
  <2>1. order' = [order EXCEPT ![o] = row] /\ row.status = "APPROVED" /\ edit' = edit
    BY <1>1 DEF ApplyUpdate
  <2> HIDE DEF row
  <2> QED
    BY <1>b, <2>1, OrderWritten
<1>2. CASE HoldOrder(h)
  <2> DEFINE row == [order[o] EXCEPT !.status = "PENDING"]
  <2>1. order' = [order EXCEPT ![o] = row] /\ row.status = "PENDING" /\ edit' = edit
    BY <1>a, <1>b, <1>2 DEF HoldOrder, OrderRows
  <2> HIDE DEF row
  <2> QED
    BY <1>b, <2>1, OrderWritten
<1>3. CASE ArchiveCommit(h)
  <2> DEFINE row == [order[o] EXCEPT !.status = "ARCHIVED"]
  <2>1. order' = [order EXCEPT ![o] = row] /\ row.status = "ARCHIVED"
        /\ PendingEditsTo(o, "REJECTED") /\ req[h].pc = "archive"
    BY <1>a, <1>b, <1>3 DEF ArchiveCommit, OrderRows
  <2>2. "overlap" \notin mixed[o] => ~Open(invoice[o].status)
    BY <1>b, <2>1, AloneOn DEF Knows
  <2>3. /\ \A e \in Edits : edit[e].status = "PENDING" /\ edit[e].order # o => edit'[e] = edit[e]
        /\ \A e \in Edits : edit[e].status # "NONE" =>
             edit'[e].status # "NONE" /\ edit'[e].order = edit[e].order
    BY <1>b, <2>1, PendingEditsStep
  <2> HIDE DEF row
  <2> QED
    BY <1>b, <2>1, <2>2, <2>3, OrderWritten
<1>4. CASE DecideCommit(h)
  <2> DEFINE row == [order[o] EXCEPT !.status = req[h].to]
  <2>1. order' = [order EXCEPT ![o] = row] /\ row.status \in {"APPROVED", "REJECTED"}
        /\ PendingEditsTo(o, req[h].to) /\ req[h].to \in {"APPROVED", "REJECTED"}
    BY <1>a, <1>b, <1>4 DEF DecideCommit, OrderRows, Shape
  <2>3. /\ \A e \in Edits : edit[e].status = "PENDING" /\ edit[e].order # o => edit'[e] = edit[e]
        /\ \A e \in Edits : edit[e].status # "NONE" =>
             edit'[e].status # "NONE" /\ edit'[e].order = edit[e].order
    BY <1>b, <2>1, PendingEditsStep
  <2> HIDE DEF row
  <2> QED
    BY <1>b, <2>1, <2>3, OrderWritten
<1>5. CASE EditCommit(h)
  <2> DEFINE row == [status |-> req[h].to,
                     total |-> IF req[h].to = "APPROVED" THEN req[h].new ELSE order[o].total]
  <2>1. order' = [order EXCEPT ![o] = row] /\ row.status \in {"APPROVED", "REJECTED"}
    BY <1>a, <1>b, <1>5 DEF EditCommit, Shape
  <2>2. /\ edit' = [edit EXCEPT ![req[h].edit].status = req[h].to] /\ req[h].edit \in Edits
        /\ edit[req[h].edit].order = o /\ req[h].to \in {"APPROVED", "REJECTED"}
    BY <1>a, <1>5 DEF EditCommit, OfOrder, Shape
  <2>3. ASSUME NEW e \in Edits
        PROVE  /\ edit[e].status = "PENDING" /\ edit[e].order # o => edit'[e] = edit[e]
               /\ edit[e].status # "NONE" =>
                    edit'[e].status # "NONE" /\ edit'[e].order = edit[e].order
    <3>1. CASE e = req[h].edit
      BY <1>a, <2>2, <3>1 DEF EditRows
    <3>2. CASE e # req[h].edit
      BY <1>a, <2>2, <3>2
    <3> QED
      BY <3>1, <3>2
  <2> HIDE DEF row
  <2> QED
    BY <1>b, <2>1, <2>3, OrderWritten
<1> QED
  BY <1>1, <1>2, <1>3, <1>4, <1>5

(* The steps that write the invoice.                                        *)
LEMMA InvInvoiceStep ==
  ASSUME Typed, Inv, NEW h \in Handlers,
         InsertInvoice(h) \/ AmendCommit(h) \/ MoveCommit(h) \/ VoidCommit(h) \/ Settle(h)
  PROVE  Inv'
<1>a. req[h] \in Requests /\ Shape(req[h]) /\ invoice \in [Orders -> InvoiceRows]
  BY DEF Typed, TypeOK, Inv
<1> DEFINE o == req[h].id
<1>b. o \in Orders /\ End(h) /\ UNCHANGED <<order, edit, allocated, locks, history>>
  BY <1>a DEF InsertInvoice, AmendCommit, MoveCommit, VoidCommit, Settle, Shape, OrderSteps
<1>c. invoice[o] \in InvoiceRows /\ RowsKept(o)
  BY <1>a, <1>b DEF Inv
<1>d. "overlap" \notin mixed[o] =>
        /\ Knows(req[h])
        /\ "failed" \notin mixed[o] /\ req[h].pc # "settle" =>
             \/ invoice[o].paid = allocated[o]
             \/ invoice[o].status = "ARCHIVED" /\ invoice[o].paid = invoice[o].total
        /\ order[o].status = "ARCHIVED" /\ "reopened" \notin mixed[o] => ~Open(invoice[o].status)
  BY <1>b, <1>c, AloneOn DEF RowsKept, Settled
<1>1. CASE InsertInvoice(h)
  <2> DEFINE row == [status |-> "DRAFT", total |-> req[h].new, paid |-> 0,
                     period |-> req[h].period]
  <2>1. CASE invoice[o].status # "NONE"
    BY <1>1, <1>b, <2>1, InvEnd DEF InsertInvoice, rows, history
  <2>2. CASE invoice[o].status = "NONE"
    <3>1. invoice' = [invoice EXCEPT ![o] = row] /\ row.status = "DRAFT" /\ row.paid = 0
          /\ req[h].pc = "bill"
      BY <1>1, <2>2 DEF InsertInvoice
    <3>2. "overlap" \notin mixed[o] => allocated[o] = 0 /\ order[o].status = "APPROVED"
      BY <1>c, <1>d, <2>2, <3>1 DEF RowsKept, Unwritten, Knows, Doing
    <3> HIDE DEF row
    <3> QED
      BY <1>b, <3>1, <3>2, InvoiceWritten
  <2> QED
    BY <2>1, <2>2
<1>2. CASE AmendCommit(h)
  <2> DEFINE row == [invoice[o] EXCEPT !.total = req[h].new, !.period = req[h].period]
  <2>1. invoice' = [invoice EXCEPT ![o] = row] /\ req[h].pc = "amend"
    BY <1>2 DEF AmendCommit
  <2>2. row.status = invoice[o].status /\ row.paid = invoice[o].paid
    BY <1>c DEF InvoiceRows
  <2>3. "overlap" \notin mixed[o] => invoice[o].status \in {"DRAFT", "PENDING", "APPROVED"}
    BY <1>d, <2>1 DEF Knows, Doing
  <2> HIDE DEF row
  <2> QED
    BY <1>b, <1>d, <2>1, <2>2, <2>3, InvoiceWritten
<1>3. CASE MoveCommit(h)
  <2> DEFINE row == [invoice[o] EXCEPT !.status = req[h].to,
                       !.paid = IF req[h].to = "ARCHIVED" THEN req[h].seen ELSE invoice[o].paid]
  <2>1. invoice' = [invoice EXCEPT ![o] = row] /\ req[h].pc = "move"
        /\ req[h].to \in {"PENDING", "APPROVED", "ARCHIVED", "REJECTED"}
    BY <1>3, <1>a DEF MoveCommit, Shape, Doing
  <2>2. row.status = req[h].to /\ row.total = invoice[o].total
        /\ row.paid = IF req[h].to = "ARCHIVED" THEN req[h].seen ELSE invoice[o].paid
    BY <1>c DEF InvoiceRows
  <2>3. "overlap" \notin mixed[o] => /\ invoice[o].status \in {"DRAFT", "PENDING", "APPROVED"}
                                     /\ req[h].seen = invoice[o].total
    BY <1>d, <2>1 DEF Knows, Doing
  <2>4. "overlap" \notin mixed[o] => ~(order[o].status = "ARCHIVED" /\ "reopened" \notin mixed[o])
    BY <1>d, <2>3 DEF Open
  <2> HIDE DEF row
  <2> QED
    BY <1>b, <1>d, <2>1, <2>2, <2>3, <2>4, InvoiceWritten
<1>4. CASE VoidCommit(h)
  <2> DEFINE row == [invoice[o] EXCEPT !.status = "ARCHIVED"]
  <2>1. invoice' = [invoice EXCEPT ![o] = row] /\ req[h].pc = "void"
    BY <1>4, <1>a, <1>b DEF VoidCommit
  <2>2. row.status = "ARCHIVED" /\ row.paid = invoice[o].paid /\ row.total = invoice[o].total
        /\ ~Open("ARCHIVED")
    BY <1>c DEF InvoiceRows, Open
  <2> HIDE DEF row
  <2> QED
    BY <1>b, <1>d, <2>1, <2>2, InvoiceWritten
<1>5. CASE Settle(h)
  <2> DEFINE row == [invoice[o] EXCEPT !.paid = req[h].seen, !.status = req[h].to]
  <2>1. invoice' = [invoice EXCEPT ![o] = row] /\ req[h].pc = "settle"
        /\ req[h].to \in {"APPROVED", "ARCHIVED"}
    BY <1>5, <1>a DEF Settle, PaidByAllocation, Shape
  <2>2. row.status = req[h].to /\ row.paid = req[h].seen
    BY <1>c DEF InvoiceRows
  <2>3. "overlap" \notin mixed[o] =>
          /\ req[h].seen = allocated[o] /\ invoice[o].status # "NONE"
          /\ "reopened" \notin mixed[o] => ~Closed(invoice[o].status)
    BY <1>d, <2>1 DEF Knows
  <2>4. "overlap" \notin mixed[o] => ~(order[o].status = "ARCHIVED" /\ "reopened" \notin mixed[o])
    BY <1>d, <2>3 DEF Open, Closed
  <2> HIDE DEF row
  <2> QED
    BY <1>b, <2>1, <2>2, <2>3, <2>4, InvoiceWritten
<1> QED
  BY <1>1, <1>2, <1>3, <1>4, <1>5

(* The steps in the middle of a request about an order.                     *)
LEMMA InvMiddleStep ==
  ASSUME Typed, Inv, NEW h \in Handlers,
         \/ RequestEdit(h) \/ AskLocks(h) \/ AskLegacyLocks(h) \/ CountAllocations(h)
         \/ SumAllocations(h) \/ InsertAllocation(h)
  PROVE  Inv'
<1>a. /\ req[h] \in Requests /\ Shape(req[h]) /\ req \in [Handlers -> Requests]
      /\ edit \in [Edits -> EditRows] /\ allocated \in [Orders -> Nat]
      /\ mixed \in [Orders -> SUBSET {"overlap", "failed", "reopened"}]
      /\ closed \in SUBSET Periods
  BY DEF Typed, TypeOK, Inv
<1> DEFINE o == req[h].id
<1>b. o \in Orders /\ UNCHANGED <<order, invoice, locks, clash>> /\ req[h].pc # "settle"
  BY <1>a DEF RequestEdit, AskLocks, AskLegacyLocks, CountAllocations, SumAllocations,
              InsertAllocation, Shape, OrderSteps, rows, history
<1>c. /\ "overlap" \notin mixed[o] => Knows(req[h])
      /\ Passed(req[h]) /\ LocksKept /\ RowsKept(o)
  BY <1>b DEF Inv
<1>1. ASSUME NEW pc \in OrderSteps, req' = [req EXCEPT ![h].pc = pc]
      PROVE  /\ req'[h].pc = pc /\ req'[h].id = o /\ req'[h].since = req[h].since
             /\ req'[h].check = req[h].check /\ req'[h].then = req[h].then
             /\ req'[h].open = req[h].open /\ req'[h].asOf = req[h].asOf
             /\ req'[h].seen = req[h].seen /\ req'[h].new = req[h].new
             /\ req'[h].period = req[h].period /\ req'[h].to = req[h].to
             /\ \A g \in Handlers : g # h => req'[g] = req[g]
  BY <1>a, <1>1 DEF Requests
<1>2. CASE RequestEdit(h)
  <2>1. /\ req' = [req EXCEPT ![h].pc = "hold"] /\ UNCHANGED <<allocated, mixed>>
        /\ \A e \in Edits : edit[e].status # "NONE" => edit'[e] = edit[e]
    BY <1>a, <1>2 DEF RequestEdit, history
  <2>2. req'[h].pc = "hold" /\ req'[h].id = o /\ req'[h].since = req[h].since
        /\ req'[h].open = req[h].open
        /\ \A g \in Handlers : g # h => req'[g] = req[g]
    BY <1>1, <2>1 DEF OrderSteps
  <2>3. Knows(req[h])'
    BY <2>2 DEF Knows, Doing
  <2>4. Passed(req[h])'
    BY <1>b, <1>c, <2>2 DEF Passed, Checked, locks
  <2> HIDE DEF o
  <2> QED
    BY <1>b, <2>1, <2>2, <2>3, <2>4, MiddleStep DEF o, Writers
<1>3. CASE AskLocks(h) \/ AskLegacyLocks(h)
  <2>1. /\ req[h].pc = "locks"
        /\ UNCHANGED <<rows, locks, order, edit, invoice, allocated, mixed, clash, closed>>
    BY <1>3 DEF AskLocks, AskLegacyLocks, rows, locks, history
  <2>2. PICK p \in req[h].check, list \in {LockedNow, legacy}, since \in SUBSET Periods :
          /\ AskFor(h, p, list, since) /\ since \subseteq req[h].since
          /\ p \notin list => list = LockedNow \/ p \notin since
    <3>1. req[h].since \in SUBSET Periods /\ \A p : req[h].since \ {p} \in SUBSET Periods
      BY <1>a DEF Requests
    <3>2. CASE AskLocks(h)
      <4>1. PICK p \in req[h].check : AskFor(h, p, LockedNow, req[h].since)
        BY <3>2 DEF AskLocks
      <4> QED
        BY <3>1, <4>1
    <3>3. CASE AskLegacyLocks(h)
      <4>1. PICK p \in req[h].check : AskFor(h, p, legacy, req[h].since \ {p})
        BY <3>3 DEF AskLegacyLocks
      <4>2. /\ req[h].since \ {p} \in SUBSET Periods /\ req[h].since \ {p} \subseteq req[h].since
            /\ p \notin req[h].since \ {p}
        BY <3>1
      <4> QED
        BY <4>1, <4>2
    <3> QED
      BY <1>3, <3>2, <3>3
  <2>3. CASE p \in list
    BY <1>b, <2>1, <2>2, <2>3, InvEnd DEF AskFor
  <2>4. CASE p \notin list
    <3>1. /\ \A g \in Handlers : g # h => req'[g] = req[g]
          /\ req'[h].pc \in {"locks", req[h].then} /\ req[h].then \in Checked
          /\ req'[h].pc # "locks" => req[h].check \subseteq req'[h].open
          /\ req'[h].id = req[h].id /\ req'[h].then = req[h].then /\ req'[h].seen = req[h].seen
          /\ req'[h].period = req[h].period /\ req'[h].asOf = req[h].asOf
          /\ req'[h].check = req[h].check
          /\ req'[h].open = req[h].open \cup {p} /\ req'[h].since = since
      BY <2>1, <2>2, <2>4, AskType
    <3>2. ~clash => p \notin since
      BY <1>c, <2>2, <2>4 DEF LocksKept, Passed, LockedNow
    <3>3. Passed(req[h])'
      BY <1>c, <2>1, <2>2, <3>1, <3>2 DEF Passed, Checked
    <3>4. Knows(req[h])'
      BY <1>b, <1>c, <2>1, <3>1 DEF Knows, Doing, Checked, PeriodFor
    <3>5. req'[h].pc \notin Writers /\ req'[h].pc # "edit"
      BY <3>1 DEF Checked, Writers
    <3> QED
      BY <1>b, <2>1, <3>1, <3>3, <3>4, <3>5, MiddleStep
  <2> QED
    BY <2>3, <2>4
<1>5. CASE CountAllocations(h)
  <2>1. /\ req[h].pc = "count"
        /\ UNCHANGED <<rows, locks, order, edit, invoice, allocated, mixed, clash, closed>>
    BY <1>5 DEF CountAllocations, rows, locks, history
  <2>2. CASE End(h)
    BY <1>b, <2>1, <2>2, InvEnd
  <2>3. CASE ~End(h)
    <3>1. /\ req'[h].pc = "locks" /\ req'[h].id = req[h].id /\ req'[h].since = req[h].since
          /\ req'[h].check = {AsOf(req[h].period)} /\ req'[h].then = "void"
          /\ req'[h].asOf = today /\ req'[h].open = req[h].open
          /\ \A g \in Handlers : g # h => req'[g] = req[g]
      BY <1>5, <2>3, CountType
    <3>2. Passed(req[h])'
      BY <1>c, <2>1, <3>1 DEF Passed, Checked
    <3>3. Knows(req[h])'
      BY <1>a, <1>b, <1>c, <2>1, <3>1 DEF Knows, Doing, PeriodFor, AsOf, Shape
    <3> QED
      BY <1>b, <2>1, <3>1, <3>2, <3>3, MiddleStep DEF Writers
  <2> QED
    BY <2>2, <2>3
<1>6. CASE SumAllocations(h)
  <2> DEFINE next == allocated[o] + req[h].new
             r == [req[h] EXCEPT !.pc = "allocate",
                     !.to = IF next = req[h].seen THEN "ARCHIVED" ELSE "APPROVED", !.seen = next]
  <2>1. /\ req[h].pc = "sum" /\ UNCHANGED <<rows, locks, mixed, clash>>
        /\ (End(h) \/ req' = [req EXCEPT ![h] = r])
    BY <1>6 DEF SumAllocations, history
  <2>2. CASE End(h)
    BY <1>b, <2>1, <2>2, InvEnd
  <2>3. CASE req' = [req EXCEPT ![h] = r]
    <3>1. /\ r.pc = "allocate" /\ r.id = o /\ r.since = req[h].since /\ r.seen = next
          /\ r.check = req[h].check /\ r.period = req[h].period /\ r.new = req[h].new
          /\ r.open = req[h].open /\ r.asOf = req[h].asOf
      <4> HIDE DEF next
      <4> QED
        BY <1>a DEF Requests
    <3>2. req'[h] = r /\ \A g \in Handlers : g # h => req'[g] = req[g]
      BY <1>a, <2>3
    <3>3. UNCHANGED <<edit, allocated, mixed>>
      BY <2>1 DEF rows, history
    <3> HIDE DEF r
    <3>4. Knows(req[h])'
      BY <1>b, <1>c, <2>1, <3>1, <3>2, <3>3 DEF Knows, Doing, PeriodFor
    <3>5. Passed(req[h])'
      BY <1>b, <1>c, <2>1, <3>1, <3>2 DEF Passed, Checked, locks
    <3> HIDE DEF o
    <3> QED
      BY <1>b, <2>1, <3>1, <3>2, <3>3, <3>4, <3>5, MiddleStep DEF o, Writers
  <2> QED
    BY <2>1, <2>2, <2>3
<1>7. CASE InsertAllocation(h)
  <2>1. /\ req[h].pc = "allocate" /\ req' = [req EXCEPT ![h].pc = "settle"] /\ edit' = edit
        /\ allocated' = [allocated EXCEPT ![o] = allocated[o] + req[h].new]
        /\ mixed' = [mixed EXCEPT ![o] = IF Closed(invoice[o].status)
                                         THEN mixed[o] \cup {"reopened"} ELSE mixed[o]]
    BY <1>7 DEF InsertAllocation
  <2>2. /\ req'[h].pc = "settle" /\ req'[h].id = o /\ req'[h].since = req[h].since
        /\ req'[h].check = req[h].check /\ req'[h].seen = req[h].seen
        /\ req'[h].period = req[h].period
        /\ req'[h].open = req[h].open /\ req'[h].asOf = req[h].asOf
        /\ \A g \in Handlers : g # h => req'[g] = req[g]
    BY <1>1, <2>1 DEF OrderSteps
  <2>3. /\ mixed[o] \subseteq mixed'[o] /\ ("overlap" \notin mixed'[o] => "overlap" \notin mixed[o])
        /\ ("reopened" \notin mixed'[o] => ~Closed(invoice[o].status))
        /\ allocated'[o] = allocated[o] + req[h].new
        /\ \A p \in Orders : p # o => allocated'[p] = allocated[p] /\ mixed'[p] = mixed[p]
    BY <1>a, <1>b, <2>1
  <2>4. Knows(req[h])'
    BY <1>b, <1>c, <2>1, <2>2, <2>3 DEF Knows, Doing, PeriodFor
  <2>5. Passed(req[h])'
    BY <1>b, <1>c, <2>1, <2>2 DEF Passed, Checked, locks
  <2>6. "overlap" \notin mixed'[o] => invoice[o].status # "NONE"
    BY <1>c, <2>1, <2>3 DEF Knows
  <2> HIDE DEF o
  <2> QED
    BY <1>b, <2>1, <2>2, <2>3, <2>4, <2>5, <2>6, MiddleStep DEF o, Writers
<1> QED
  BY <1>2, <1>3, <1>5, <1>6, <1>7

(* The list of locks is replaced: what it leaves out binds nobody.          *)
LEMMA InvSetLocks ==
  ASSUME Typed, Inv, NEW h \in Handlers, SetLocks(h)
  PROVE  Inv'
<1>a. /\ req[h] \in Requests /\ Shape(req[h]) /\ req \in [Handlers -> Requests]
      /\ LocksKept /\ None \notin Orders
  BY BillingAssumption DEF Typed, TypeOK, Inv
<1>b. /\ req[h].pc = "set" /\ req[h].id = None
      /\ locked' = req[h].known /\ closed' = req[h].known
      /\ UNCHANGED <<order, edit, invoice, allocated, mixed, clash>>
  BY <1>a DEF SetLocks, Shape, LockSteps, rows, history
<1>c. /\ req'[h].pc = "idle" /\ req'[h].id = None /\ req'[h].since = {} /\ req'[h].open = {}
  BY SetType, NoReqType
<1>d. ASSUME NEW g \in Handlers, g # h
      PROVE  /\ req'[g].pc = req[g].pc /\ req'[g].id = req[g].id /\ req'[g].then = req[g].then
             /\ req'[g].edit = req[g].edit /\ req'[g].to = req[g].to
             /\ req'[g].seen = req[g].seen /\ req'[g].new = req[g].new
             /\ req'[g].period = req[g].period /\ req'[g].asOf = req[g].asOf
             /\ req'[g].check = req[g].check /\ req'[g].open = req[g].open
             /\ req'[g].known = req[g].known
             /\ req'[g].since = req[g].since \cap req[h].known
  <2>1. req[g] \in Requests
    BY <1>a
  <2>2. req'[g] = [req[g] EXCEPT !.since = req[g].since \cap req[h].known]
    BY <1>d, SetType
  <2> QED
    BY <2>1, <2>2 DEF Requests
<1>1. LocksKept'
  <2>1. ~clash => \A g \in Handlers : g # h => req[g].pc \notin Writers
    BY <1>a, <1>b DEF LocksKept, Writers
  <2>2. ~clash => \A g \in Handlers : req'[g].pc \notin Writers
    BY <1>c, <1>d, <2>1 DEF Writers
  <2> QED
    BY <1>b, <2>2 DEF LocksKept, Writers
<1>2. ASSUME NEW o \in Orders PROVE RowsKept(o)'
  <2>1. RowsKept(o)
    BY DEF Inv
  <2>2. \A g \in Handlers : /\ (req'[g].id = o) <=> (req[g].id = o)
                            /\ req[g].id = o => req'[g].pc = req[g].pc
    BY <1>a, <1>b, <1>c, <1>d
  <2>3. Single(o)'
    BY <1>b, <2>1, <2>2 DEF RowsKept, Single
  <2>4. Unwritten(o)' /\ Settled(o)'
    BY <1>b, <2>1 DEF RowsKept, Unwritten, Settled
  <2>5. Paid(o)'
    BY <1>b, <2>1, <2>2 DEF RowsKept, Paid
  <2> QED
    BY <2>3, <2>4, <2>5 DEF RowsKept
<1>3. ASSUME NEW g \in Handlers
      PROVE  /\ Passed(req[g])' /\ OfOrder(req[g])'
             /\ (req[g].id \in Orders => Knows(req[g]))'
  <2>1. CASE g = h
    BY <1>a, <1>c, <2>1 DEF Passed, OfOrder, Checked
  <2>2. CASE g # h
    <3>1. Passed(req[g]) /\ OfOrder(req[g]) /\ (req[g].id \in Orders => Knows(req[g]))
      BY DEF Inv
    <3>2. Passed(req[g])'
      BY <1>b, <1>d, <2>2, <3>1 DEF Passed
    <3>3. OfOrder(req[g])'
      BY <1>b, <1>d, <2>2, <3>1 DEF OfOrder
    <3>4. ASSUME req[g].id \in Orders PROVE Knows(req[g])'
      BY <1>b, <1>d, <2>2, <3>1, <3>4 DEF Knows, Doing, PeriodFor
    <3> QED
      BY <1>d, <2>2, <3>2, <3>3, <3>4
  <2> QED
    BY <2>1, <2>2
<1> QED
  BY <1>1, <1>2, <1>3 DEF Inv

(* The steps that write the locks: the only request at it knows them.       *)
LEMMA InvLockStep ==
  ASSUME Typed, Inv, NEW h \in Handlers, WriteLock(h) \/ WriteLegacyLock(h) \/ SaveSettings(h)
  PROVE  Inv'
<1>a. /\ req[h] \in Requests /\ Shape(req[h]) /\ req \in [Handlers -> Requests]
      /\ LocksKept /\ Passed(req[h])
  BY DEF Typed, TypeOK, Inv
<1>b. req[h].id = None
  BY <1>a DEF WriteLock, WriteLegacyLock, SaveSettings, Shape, LockSteps
<1>c. UNCHANGED <<rows, mixed, clash>>
  BY DEF WriteLock, WriteLegacyLock, SaveSettings, history
<1>d. ASSUME NEW g \in Handlers, req[g].pc \in Writers, req[h].pc \in Writers, ~clash
      PROVE  g = h
  BY <1>a, <1>d DEF LocksKept
<1>1. CASE WriteLock(h)
  <2>1. /\ req[h].pc = "lock" /\ locked' = req[h].known \cup {req[h].period}
        /\ closed' = closed \cup {req[h].period} /\ req' = [req EXCEPT ![h].pc = "legacy"]
    BY <1>1 DEF WriteLock
  <2>2. /\ req'[h].pc = "legacy" /\ req'[h].id = None /\ req'[h].since = req[h].since
        /\ req'[h].open = req[h].open
        /\ \A g \in Handlers : g # h => req'[g] = req[g]
    BY <1>a, <1>b, <2>1 DEF Requests
  <2>3. LocksKept'
    <3>1. ~clash => \A g \in Handlers : req'[g].pc \notin Writers
      BY <1>d, <2>1, <2>2 DEF Writers
    <3>2. ~clash => closed \subseteq locked /\ req[h].known = locked
      BY <1>a, <2>1 DEF LocksKept
    <3> QED
      BY <1>c, <2>1, <3>1, <3>2 DEF LocksKept, Writers
  <2>4. Passed(req[h])' /\ OfOrder(req[h])'
    BY <1>a, <1>c, <2>1, <2>2 DEF Passed, OfOrder, Checked
  <2> QED
    BY <1>b, <1>c, <2>1, <2>2, <2>3, <2>4, LockFrame
<1>2. CASE WriteLegacyLock(h) \/ SaveSettings(h)
  <2>1. /\ req'[h] = NoReq /\ \A g \in Handlers : g # h => req'[g] = req[g]
        /\ NoReq.pc = "idle" /\ NoReq.id = None /\ NoReq.since = {} /\ NoReq.open = {}
    BY <1>2, EndType, NoReqType DEF WriteLegacyLock, SaveSettings
  <2>2. closed' = closed
    BY <1>2 DEF WriteLegacyLock, SaveSettings
  <2>3. LocksKept'
    <3>1. \A g \in Handlers : req'[g].pc \in Writers => g # h /\ req'[g] = req[g]
      BY <2>1 DEF Writers
    <3>2. CASE WriteLegacyLock(h)
      <4>1. locked' = locked
        BY <3>2 DEF WriteLegacyLock
      <4> QED
        BY <1>a, <1>c, <2>2, <3>1, <4>1 DEF LocksKept, Writers
    <3>3. CASE SaveSettings(h)
      <4>1. locked' = req[h].known /\ req[h].pc = "save"
        BY <3>3 DEF SaveSettings
      <4>2. ~clash => locked' = locked
        BY <1>a, <4>1 DEF LocksKept
      <4>3. ~clash => \A g \in Handlers : req'[g].pc \notin Writers
        BY <1>d, <3>1, <4>1 DEF Writers
      <4> QED
        BY <1>a, <1>c, <2>2, <4>2, <4>3 DEF LocksKept, Writers
    <3> QED
      BY <1>2, <3>2, <3>3
  <2>4. Passed(req[h])' /\ OfOrder(req[h])'
    BY <2>1 DEF Passed, OfOrder, Checked
  <2> QED
    BY <1>b, <1>c, <2>1, <2>2, <2>3, <2>4, LockFrame
<1> QED
  BY <1>1, <1>2

LEMMA InvFail ==
  ASSUME Typed, Inv, NEW h \in Handlers, Fail(h)
  PROVE  Inv'
<1>a. /\ req[h] \in Requests /\ mixed \in [Orders -> SUBSET {"overlap", "failed", "reopened"}]
      /\ End(h) /\ UNCHANGED <<rows, locks, clash>>
      /\ mixed' = [o \in Orders |-> IF req[h].id = o THEN mixed[o] \cup {"failed"} ELSE mixed[o]]
      /\ None \notin Orders
  BY BillingAssumption DEF Typed, TypeOK, Fail
<1>b. UNCHANGED <<order, edit, invoice, allocated, locked, closed>>
  BY <1>a DEF rows, locks
<1>1. CASE req[h].id = None
  <2>1. mixed' = mixed
    BY <1>a, <1>1
  <2>2. /\ req'[h] = NoReq /\ \A g \in Handlers : g # h => req'[g] = req[g]
        /\ NoReq.pc = "idle" /\ NoReq.id = None /\ NoReq.since = {} /\ NoReq.open = {}
    BY <1>a, EndType, NoReqType
  <2>3. LocksKept'
    <3>1. \A g \in Handlers : req'[g].pc \in Writers => g # h /\ req'[g] = req[g]
      BY <2>2 DEF Writers
    <3> QED
      BY <1>a, <1>b, <3>1 DEF Inv, LocksKept, Writers
  <2>4. Passed(req[h])' /\ OfOrder(req[h])'
    BY <2>2 DEF Passed, OfOrder, Checked
  <2> QED
    BY <1>a, <1>b, <1>1, <2>1, <2>2, <2>3, <2>4, LockFrame
<1>2. CASE req[h].id \in Orders
  <2> DEFINE o == req[h].id
  <2>1. /\ mixed'[o] = mixed[o] \cup {"failed"}
        /\ \A p \in Orders : p # o => mixed'[p] = mixed[p]
    BY <1>a, <1>2
  <2>2. RowsKept(o)
    BY <1>2 DEF Inv
  <2>3. /\ order'[o].status = "ARCHIVED" /\ "reopened" \notin mixed'[o] /\ "overlap" \notin mixed'[o]
             => ~Open(invoice'[o].status)
        /\ "failed" \in mixed'[o]
    BY <1>b, <2>1, <2>2 DEF RowsKept, Settled
  <2> HIDE DEF o
  <2> QED
    BY <1>a, <1>b, <1>2, <2>1, <2>3, LastStep DEF o
<1> QED
  BY <1>a, <1>1, <1>2 DEF Requests

LEMMA InvCreate ==
  ASSUME Typed, Inv, NEW o \in Orders, CreateOrder(o)
  PROVE  Inv'
<1>a. /\ order \in [Orders -> OrderRows] /\ order[o].status = "NONE"
      /\ UNCHANGED <<edit, invoice, allocated, locks, req, history>>
      /\ UNCHANGED <<locked, closed, mixed, clash>>
  BY DEF Typed, TypeOK, CreateOrder, locks, history
<1>b. order'[o].status = "PENDING" /\ \A p \in Orders : p # o => order'[p] = order[p]
  BY <1>a DEF CreateOrder
<1>1. LocksKept'
  BY <1>a DEF Inv, LocksKept
<1>2. ASSUME NEW p \in Orders PROVE RowsKept(p)'
  <2>1. RowsKept(p)
    BY DEF Inv
  <2>2. order'[p] = order[p] \/ order'[p].status = "PENDING"
    BY <1>b
  <2>3. Single(p)' /\ Paid(p)'
    BY <1>a, <2>1 DEF RowsKept, Single, Paid
  <2>4. Unwritten(p)' /\ Settled(p)'
    BY <1>a, <2>1, <2>2 DEF RowsKept, Unwritten, Settled
  <2> QED
    BY <2>3, <2>4 DEF RowsKept
<1>3. ASSUME NEW g \in Handlers
      PROVE  /\ Passed(req[g])' /\ OfOrder(req[g])'
             /\ (req[g].id \in Orders => Knows(req[g]))'
  <2>1. Passed(req[g]) /\ OfOrder(req[g]) /\ (req[g].id \in Orders => Knows(req[g]))
    BY DEF Inv
  <2>2. Passed(req[g])' /\ OfOrder(req[g])'
    BY <1>a, <2>1 DEF Passed, OfOrder
  <2>3. ASSUME req[g].id \in Orders PROVE Knows(req[g])'
    <3>1. CASE req[g].id = o
      BY <1>a, <2>1, <3>1 DEF Knows, Doing
    <3>2. CASE req[g].id # o
      BY <1>a, <1>b, <2>1, <2>3, <3>2 DEF Knows, Doing
    <3> QED
      BY <3>1, <3>2
  <2> QED
    BY <1>a, <2>2, <2>3
<1> QED
  BY <1>1, <1>2, <1>3 DEF Inv

LEMMA InvUnchanged ==
  ASSUME Inv, UNCHANGED <<order, edit, invoice, allocated, req, mixed, clash, locked, closed>>
  PROVE  Inv'
<1>1. LocksKept'
  BY DEF Inv, LocksKept
<1>2. ASSUME NEW o \in Orders PROVE RowsKept(o)'
  <2>1. RowsKept(o)
    BY DEF Inv
  <2> QED
    BY <2>1 DEF RowsKept, Single, Unwritten, Settled, Paid
<1>3. ASSUME NEW h \in Handlers
      PROVE  (Passed(req[h]) /\ OfOrder(req[h]) /\ (req[h].id \in Orders => Knows(req[h])))'
  <2>1. Passed(req[h]) /\ OfOrder(req[h]) /\ (req[h].id \in Orders => Knows(req[h]))
    BY DEF Inv
  <2>2. Passed(req[h])'
    BY <2>1 DEF Passed
  <2>3. OfOrder(req[h])'
    BY <2>1 DEF OfOrder
  <2>4. Knows(req[h]) => Knows(req[h])'
    BY DEF Knows
  <2> QED
    BY <2>1, <2>2, <2>3, <2>4
<1> QED
  BY <1>1, <1>2, <1>3 DEF Inv

LEMMA InvStep == TypedInv /\ [Next]_vars => Inv'
<1> SUFFICES ASSUME Typed, Inv, [Next]_vars PROVE Inv'
  BY DEF TypedInv
<1>1. CASE UNCHANGED vars
  <2>1. UNCHANGED <<order, edit, invoice, allocated, req, mixed, clash, locked, legacy, closed>>
    BY <1>1 DEF vars, rows, locks, history
  <2> QED
    BY <2>1, InvUnchanged
<1>2. ASSUME NEW h \in Handlers, Step(h) PROVE Inv'
  BY <1>2, InvOrderStep, InvInvoiceStep, InvMiddleStep, InvLockStep, InvSetLocks DEF Step
<1>3. CASE MonthTurns
  <2>1. UNCHANGED <<order, edit, invoice, allocated, req, mixed, clash, locked, legacy, closed>>
    BY <1>3 DEF MonthTurns, rows, history
  <2> QED
    BY <2>1, InvUnchanged
<1> QED
  BY <1>1, <1>2, <1>3, InvCreate, InvRequest, InvFail DEF Next

LEMMA InvInit == Init => Inv
<1> SUFFICES ASSUME Init PROVE Inv
  OBVIOUS
<1>1. LocksKept
  BY NoReqType DEF Init, LocksKept, Writers
<1>2. ASSUME NEW o \in Orders PROVE RowsKept(o)
  <2>1. \A h \in Handlers : req[h].id = None
    BY NoReqType DEF Init
  <2>2. Single(o) /\ Unwritten(o) /\ Settled(o) /\ Paid(o)
    BY <2>1, BillingAssumption DEF Init, Single, Unwritten, Settled, Paid
  <2> QED
    BY <2>2 DEF RowsKept
<1>3. ASSUME NEW h \in Handlers PROVE Passed(req[h]) /\ OfOrder(req[h]) /\ req[h].id \notin Orders
  BY NoReqType, BillingAssumption DEF Init, Passed, OfOrder, Checked
<1> QED
  BY <1>1, <1>2, <1>3 DEF Inv

(* The inductive invariant: what every request still knows of its rows.     *)
THEOREM SafetyInvariant == Spec => []TypedInv
<1>1. Init => TypedInv
  BY TypedInit, InvInit DEF TypedInv
<1>2. TypedInv /\ [Next]_vars => TypedInv'
  BY TypedStep, InvStep DEF TypedInv
<1> QED
  BY <1>1, <1>2, PTL DEF Spec

(* An archived order has no open invoice, for any number of orders and of   *)
(* requests in flight, while none overlapped on it.                         *)
THEOREM ArchivedOrdersAreSettled == Spec => []ArchivedOrderIsSettled
<1>1. TypedInv => ArchivedOrderIsSettled
  BY DEF TypedInv, Inv, RowsKept, Settled, ArchivedOrderIsSettled
<1> QED
  BY <1>1, SafetyInvariant, PTL

(* A paid amount is the sum of the allocations, or the total of an invoice  *)
(* that was paid by hand, whatever the amounts are.                         *)
THEOREM PaidAmountsAreAllocated == Spec => []PaidIsAllocated
<1>1. TypedInv => PaidIsAllocated
  BY DEF TypedInv, Inv, RowsKept, Paid, PaidIsAllocated
<1> QED
  BY <1>1, SafetyInvariant, PTL

LEMMA DecreaseStep ==
  ASSUME TypedInv, Next, NEW o \in Orders, DecreaseIsHeld,
         order'[o].total < order[o].total, "overlap" \notin mixed[o]
  PROVE  \E e \in Edits : /\ edit[e] = [status |-> "PENDING", order |-> o,
                                        total |-> order'[o].total]
                          /\ edit'[e].status = "APPROVED"
<1>a. /\ Typed /\ Inv /\ order \in [Orders -> OrderRows] /\ edit \in [Edits -> EditRows]
      /\ order[o] \in OrderRows /\ Sums \subseteq Nat
  BY BillingAssumption DEF TypedInv, Typed, TypeOK, Sums
<1>b. order[o].total \in Nat /\ order'[o] # order[o] /\ order' # order
  <2>1. order[o].total \in Nat
    BY <1>a DEF OrderRows
  <2>2. order'[o].total # order[o].total
    BY <2>1
  <2> QED
    BY <2>1, <2>2
<1>1. ~ \E p \in Orders : CreateOrder(p)
  <2> SUFFICES ASSUME NEW p \in Orders, CreateOrder(p) PROVE FALSE
    OBVIOUS
  <2>1. p = o
    BY <1>a, <1>b DEF CreateOrder
  <2>2. order[o].total = 0
    BY <1>a, <2>1 DEF CreateOrder, Inv, RowsKept, Unwritten
  <2>3. order'[o].total \in Nat
    BY <1>a, <2>1, BillingAssumption DEF CreateOrder
  <2> QED
    BY <2>2, <2>3
<1>2. PICK h \in Handlers :
        ApplyUpdate(h) \/ HoldOrder(h) \/ ArchiveCommit(h) \/ DecideCommit(h) \/ EditCommit(h)
  <2>1. PICK h \in Handlers : Request(h) \/ Step(h) \/ Fail(h)
    BY <1>1, <1>b DEF Next, MonthTurns, rows
  <2>2. ~Request(h) /\ ~Fail(h)
    BY <1>a, <1>b, RequestBegins
       DEF Begins, ReadsLocks, Begin, ReadLocks, Fail, rows
  <2> QED
    BY <1>b, <2>1, <2>2
       DEF Step, RequestEdit, AskLocks, AskLegacyLocks, InsertInvoice, AmendCommit, MoveCommit,
           CountAllocations, VoidCommit, SumAllocations, InsertAllocation, Settle, WriteLock,
           WriteLegacyLock, SaveSettings, SetLocks, rows
<1>3. req[h].id = o
  BY <1>a, <1>b, <1>2 DEF ApplyUpdate, HoldOrder, ArchiveCommit, DecideCommit, EditCommit
<1>4. Knows(req[h]) /\ Shape(req[h])
  BY <1>a, <1>3 DEF Inv, Typed
<1>5. ~HoldOrder(h) /\ ~ArchiveCommit(h) /\ ~DecideCommit(h)
  BY <1>a, <1>b, <1>3 DEF HoldOrder, ArchiveCommit, DecideCommit, OrderRows
<1>6. ~ApplyUpdate(h)
  <2> SUFFICES ASSUME ApplyUpdate(h) PROVE FALSE
    OBVIOUS
  <2>1. ~NeedsApproval(order[o].total, req[h].new)
    BY <1>3, <1>4 DEF ApplyUpdate, Knows
  <2>2. order'[o].total = req[h].new
    BY <1>a, <1>3 DEF ApplyUpdate
  <2> QED
    BY <2>1, <2>2 DEF NeedsApproval
<1>7. EditCommit(h)
  BY <1>2, <1>5, <1>6
<1>8. /\ req[h].edit \in Edits
      /\ edit[req[h].edit] = [status |-> "PENDING", order |-> o, total |-> req[h].new]
  BY <1>3, <1>4, <1>7 DEF EditCommit, Knows, Shape
<1>9. req[h].to = "APPROVED" /\ order'[o].total = req[h].new
  BY <1>a, <1>b, <1>3, <1>7 DEF EditCommit
<1>10. edit'[req[h].edit].status = "APPROVED"
  BY <1>a, <1>7, <1>8, <1>9 DEF EditCommit, EditRows
<1> QED
  BY <1>8, <1>9, <1>10

(* Where decreases need approval, a total falls only by an approved edit,   *)
(* whatever the amounts, the orders and the requests in flight are.         *)
THEOREM DecreasesAreApproved == Spec => DecreaseIsApproved
<1>1. TypedInv /\ [Next]_vars =>
        [\A o \in Orders :
           DecreaseIsHeld /\ order'[o].total < order[o].total /\ "overlap" \notin mixed[o]
           => \E e \in Edits : /\ edit[e] = [status |-> "PENDING", order |-> o,
                                             total |-> order'[o].total]
                               /\ edit'[e].status = "APPROVED"]_vars
  BY DecreaseStep
<1> QED
  BY <1>1, SafetyInvariant, PTL DEF Spec, DecreaseIsApproved

LEMMA FrozenStep ==
  ASSUME TypedInv, Next, ~clash, NEW o \in Orders, NEW h \in Handlers,
         req[h].id = o, "overlap" \notin mixed[o]
  PROVE  /\ invoice'[o] # invoice[o] /\ invoice[o].status # "NONE"
              => PeriodFor(req[h], invoice[o].period) \notin req[h].since
         /\ invoice'[o] # invoice[o] /\ (invoice'[o].period = None => invoice[o].period = None)
              => PeriodFor(req[h], invoice'[o].period) \notin req[h].since
         /\ allocated'[o] # allocated[o] => req[h].period \notin req[h].since
<1>a. /\ Typed /\ Inv /\ invoice \in [Orders -> InvoiceRows] /\ allocated \in [Orders -> Nat]
      /\ invoice[o] \in InvoiceRows /\ req[h] \in Requests
      /\ Knows(req[h]) /\ Passed(req[h]) /\ RowsKept(o)
      /\ \A g \in Handlers : req[g].id = o => g = h
  BY AloneOn DEF TypedInv, Typed, TypeOK, Inv
<1>b. req[h].since \subseteq Periods /\ None \notin req[h].since
  BY <1>a, BillingAssumption DEF Requests
<1>1. CASE invoice'[o] # invoice[o]
  <2>1. PICK g \in Handlers : Request(g) \/ Step(g) \/ Fail(g)
    BY <1>1 DEF Next, CreateOrder, MonthTurns, rows
  <2>2. ~Request(g) /\ ~Fail(g)
    BY <1>a, <1>1, RequestBegins
       DEF Begins, ReadsLocks, Begin, ReadLocks, Fail, rows
  <2>3. InsertInvoice(g) \/ AmendCommit(g) \/ MoveCommit(g) \/ VoidCommit(g) \/ Settle(g)
    BY <1>1, <2>1, <2>2
       DEF Step, ApplyUpdate, HoldOrder, ArchiveCommit, DecideCommit, EditCommit, RequestEdit,
           AskLocks, AskLegacyLocks, CountAllocations, SumAllocations, InsertAllocation,
           WriteLock, WriteLegacyLock, SaveSettings, SetLocks, rows
  <2>4. req[g].id = o
    BY <1>a, <1>1, <2>3 DEF InsertInvoice, AmendCommit, MoveCommit, VoidCommit, Settle
  <2>5. g = h
    BY <1>a, <2>4
  <2>6. req[h].check \cap req[h].since = {}
    BY <1>a, <2>3, <2>5
       DEF Passed, Checked, InsertInvoice, AmendCommit, MoveCommit, VoidCommit, Settle
  <2>7. CASE InsertInvoice(h)
    <3>1. invoice[o].status = "NONE" /\ invoice'[o].period = req[h].period
          /\ req[h].pc = "bill"
      BY <1>a, <1>1, <2>7 DEF InsertInvoice
    <3>2. PeriodFor(req[h], req[h].period) \in req[h].check
      BY <1>a, <3>1 DEF Knows, Doing
    <3> QED
      BY <2>6, <3>1, <3>2, <2>7 DEF InsertInvoice
  <2>8. CASE AmendCommit(h)
    <3>1. invoice'[o].period = req[h].period /\ req[h].pc = "amend" /\ allocated' = allocated
      BY <1>a, <2>8 DEF AmendCommit, InvoiceRows
    <3> QED
      BY <1>a, <2>6, <3>1 DEF Knows, Doing, PeriodFor
  <2>9. CASE MoveCommit(h) \/ VoidCommit(h) \/ Settle(h)
    <3>0. req[h].pc \in {"move", "void", "settle"}
      BY <2>9 DEF MoveCommit, VoidCommit, Settle
    <3>1. invoice'[o].period = invoice[o].period
      <4>1. CASE MoveCommit(h)
        BY <1>a, <4>1 DEF MoveCommit, InvoiceRows
      <4>2. CASE VoidCommit(h)
        BY <1>a, <4>2 DEF VoidCommit, InvoiceRows
      <4>3. CASE Settle(h)
        BY <1>a, <4>3 DEF Settle, InvoiceRows
      <4> QED
        BY <2>9, <4>1, <4>2, <4>3
    <3>2. allocated' = allocated
      BY <2>9 DEF MoveCommit, VoidCommit, Settle
    <3> QED
      BY <1>a, <2>6, <3>0, <3>1, <3>2 DEF Knows, Doing
  <2> QED
    BY <2>3, <2>5, <2>7, <2>8, <2>9
<1>2. CASE allocated'[o] # allocated[o]
  <2>1. PICK g \in Handlers : Request(g) \/ Step(g) \/ Fail(g)
    BY <1>2 DEF Next, CreateOrder, MonthTurns, rows
  <2>2. ~Request(g) /\ ~Fail(g)
    BY <1>a, <1>2, RequestBegins
       DEF Begins, ReadsLocks, Begin, ReadLocks, Fail, rows
  <2>3. InsertAllocation(g)
    <3>1. ApplyUpdate(g) \/ HoldOrder(g) \/ ArchiveCommit(g) \/ DecideCommit(g) \/ EditCommit(g)
          \/ RequestEdit(g) => allocated' = allocated
      BY DEF ApplyUpdate, HoldOrder, ArchiveCommit, DecideCommit, EditCommit, RequestEdit
    <3>2. AskLocks(g) \/ AskLegacyLocks(g) \/ CountAllocations(g) \/ SumAllocations(g)
          => allocated' = allocated
      BY DEF AskLocks, AskLegacyLocks, CountAllocations, SumAllocations, rows
    <3>3. InsertInvoice(g) \/ AmendCommit(g) \/ MoveCommit(g) \/ VoidCommit(g) \/ Settle(g)
          => allocated' = allocated
      BY DEF InsertInvoice, AmendCommit, MoveCommit, VoidCommit, Settle
    <3>4. WriteLock(g) \/ WriteLegacyLock(g) \/ SaveSettings(g) \/ SetLocks(g)
          => allocated' = allocated
      BY DEF WriteLock, WriteLegacyLock, SaveSettings, SetLocks, rows
    <3> QED
      BY <1>2, <2>1, <2>2, <3>1, <3>2, <3>3, <3>4 DEF Step
  <2>4. g = h
    BY <1>a, <1>2, <2>3 DEF InsertAllocation
  <2>5. req[h].pc = "allocate" /\ invoice' = invoice
    BY <2>3, <2>4 DEF InsertAllocation
  <2> QED
    BY <1>a, <2>5 DEF Passed, Knows
<1> QED
  BY <1>1, <1>2

(* A closed period is frozen, for any number of periods, invoices and       *)
(* requests: no request that began after the closing changes an invoice of  *)
(* it, moves one into it or books a payment in it, as far as the exceptions *)
(* that ClosedPeriodIsFrozen names.                                         *)
THEOREM ClosedPeriodsAreFrozen == Spec => ClosedPeriodIsFrozen
<1>1. TypedInv /\ [Next]_vars =>
        [~clash =>
           \A o \in Orders, h \in Handlers :
             req[h].id = o /\ req'[h] # req[h] /\ "overlap" \notin mixed[o]
             => /\ invoice'[o] # invoice[o] /\ invoice[o].status # "NONE"
                     => PeriodFor(req[h], invoice[o].period) \notin req[h].since
                /\ invoice'[o] # invoice[o]
                   /\ (invoice'[o].period = None => invoice[o].period = None)
                     => PeriodFor(req[h], invoice'[o].period) \notin req[h].since
                /\ allocated'[o] # allocated[o] => req[h].period \notin req[h].since]_vars
  BY FrozenStep
<1> QED
  BY <1>1, SafetyInvariant, PTL DEF Spec, ClosedPeriodIsFrozen

==============================================================================
