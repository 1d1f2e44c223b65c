---------------------------- MODULE CheckoutProofs ----------------------------
(***************************************************************************)
(* Machine-checked theorems about Checkout, for every number of requests   *)
(* in flight, keys, amounts, policies and failures.                        *)
(***************************************************************************)
EXTENDS Checkout, TLAPS

(* What a request in flight carries, by the step it stands at.             *)
LEMMA RequestKinds ==
  ASSUME NEW r \in Requests
  PROVE /\ r.pc \in {"update", "updating"} =>
             r \in [pc : {"update", "updating"}, total : Nat,
             newLines : SUBSET LineIds,
             discount : DiscountClasses]
        /\ r.pc = "submit" => r \in [pc : {"submit"}, total : Nat \ {0},
                                     hasIntent : BOOLEAN]
        /\ r.pc = "bank" => r \in [pc : {"bank"}, key : Keys,
                                   amount : Nat \ {0}, paid : Nat]
        /\ r.pc = "override" => r \in [pc : {"override"}, amount : Nat \ {0},
                                       paid : Nat]
        /\ r.pc \in {"gate", "activate", "activated"} =>
             r \in [pc : {"gate", "activate", "activated"}, line : LineIds,
                    status : OrderStatuses]
        /\ r.pc = "reevaluate" =>
             r \in [pc : {"reevaluate"},
                    source : {"ON_PAID", "ON_ACTIVATED", "MANUAL"},
                    force : BOOLEAN]
        /\ r.pc = "bill" => r \in [pc : {"bill"}, full : BOOLEAN, paid : Nat,
                                   total : Nat, exists : BOOLEAN]
        /\ r.pc = "find" => r \in [pc : {"find"}, amount : Nat \ {0},
                                   total : Nat, covers : BOOLEAN]
        /\ r.pc = "issue" => r \in [pc : {"issue"}, amount : Nat \ {0},
                                    total : Nat, covers : BOOLEAN,
                                    exists : BOOLEAN, paid : Nat]
        /\ r.pc = "mark" => r \in [pc : {"mark"}, covers : BOOLEAN]
BY DEF Requests, Idle, DiscountClasses

(* The state every action of a request relies on.                          *)
LEMMA InitTypeOK == Init => TypeOK
BY CheckoutAssumption DEF Init, TypeOK, NoIntent, NoInvoice, Idle, Requests,
     OrderStatuses, IntentStatuses, Orders, LineStatuses, Intents,
     Transactions, Invoices, Ledgers, DiscountClasses

(* Every request the actions build is well-formed.                          *)
LEMMA RequestForms ==
  /\ [pc |-> "approval"] \in Requests
  /\ \A total \in Nat, ls \in SUBSET LineIds,
        discount \in DiscountClasses :
       [pc |-> "update", total |-> total, discount |-> discount,
        newLines |-> ls] \in Requests
  /\ \A total \in Nat \ {0}, has \in BOOLEAN :
       [pc |-> "submit", total |-> total, hasIntent |-> has] \in Requests
  /\ \A k \in Keys, amount \in Nat \ {0}, paid \in Nat :
       [pc |-> "bank", key |-> k, amount |-> amount, paid |-> paid] \in Requests
  /\ \A amount \in Nat \ {0}, paid \in Nat :
       [pc |-> "override", paid |-> paid, amount |-> amount] \in Requests
  /\ \A pc \in {"gate", "activate", "activated"}, l \in LineIds,
        status \in OrderStatuses :
       [pc |-> pc, line |-> l, status |-> status] \in Requests
  /\ \A source \in {"ON_PAID", "ON_ACTIVATED", "MANUAL"}, force \in BOOLEAN :
       [pc |-> "reevaluate", source |-> source, force |-> force] \in Requests
  /\ \A full \in BOOLEAN, paid \in Nat, total \in Nat, exists \in BOOLEAN :
       [pc |-> "bill", full |-> full, paid |-> paid, total |-> total,
        exists |-> exists] \in Requests
  /\ \A amount \in Nat \ {0}, total \in Nat, covers \in BOOLEAN :
       [pc |-> "find", amount |-> amount, total |-> total,
        covers |-> covers] \in Requests
  /\ \A amount \in Nat \ {0}, total \in Nat, covers \in BOOLEAN,
        exists \in BOOLEAN, paid \in Nat :
       [pc |-> "issue", amount |-> amount, total |-> total, covers |-> covers,
        exists |-> exists, paid |-> paid] \in Requests
  /\ \A covers \in BOOLEAN : [pc |-> "mark", covers |-> covers] \in Requests
BY DEF Requests, DiscountClasses

(* Writing one well-formed request keeps the table of requests well-formed.*)
LEMMA ContinueType ==
  ASSUME req \in [Handlers -> Requests], NEW h \in Handlers,
         NEW r \in Requests, Continue(h, r)
  PROVE  req' \in [Handlers -> Requests]
BY DEF Continue

LEMMA DoneType ==
  ASSUME req \in [Handlers -> Requests], NEW h \in Handlers, Done(h)
  PROVE  req' \in [Handlers -> Requests]
BY ContinueType DEF Done, Requests

(* The fields of well-formed rows.                                         *)
LEMMA RowFields ==
  ASSUME TypeOK
  PROVE  /\ order.status \in OrderStatuses /\ order.total \in Nat
         /\ order.itemsTotal \in Nat /\ order.discount \in DiscountClasses
         /\ intent.locked \in Nat /\ intent.paid \in Nat
         /\ intent.status \in IntentStatuses
         /\ invoice.paid \in Nat /\ invoice.total \in Nat
         /\ ledger.credited \in Nat
BY DEF TypeOK, Orders, Intents, Invoices, Ledgers

(* What an intent row built from two amounts looks like.                   *)
LEMMA IntentRowType ==
  ASSUME NEW locked \in Nat, NEW paid \in Nat
  PROVE  IntentRow(locked, paid) \in Intents
BY DEF IntentRow, IntentStatus, Intents, IntentStatuses

(* A payment write yields a well-formed intent, order and request.         *)
LEMMA RecordPaymentType ==
  ASSUME TypeOK, NEW h \in Handlers, NEW paid \in Nat, RecordPayment(h, paid)
  PROVE  intent' \in Intents /\ order' \in Orders
           /\ req' \in [Handlers -> Requests]
<1> DEFINE row == IntentRow(intent.locked, paid)
<1>1. row \in Intents
  BY IntentRowType, RowFields
<1>2. OrderStatusFor(row.status) \in OrderStatuses
  BY DEF OrderStatusFor, OrderStatuses
<1>3. order' \in Orders
  BY <1>2 DEF RecordPayment, TypeOK, Orders
<1>4. req' \in [Handlers -> Requests]
  BY RequestForms, ContinueType, DoneType DEF RecordPayment, TypeOK
<1> QED
  BY <1>1, <1>3, <1>4 DEF RecordPayment

(* The paid amount a payment write computes is an amount.                  *)
LEMMA NextPaidType ==
  ASSUME TypeOK, NEW paid \in Nat, NEW amount \in Nat
  PROVE  NextPaid(paid, amount) \in Nat
BY RowFields DEF NextPaid, Least

(* Every reachable state has well-formed rows and requests.                *)
THEOREM TypeCorrect == Spec => []TypeOK
<1>1. TypeOK /\ [Next]_vars => TypeOK'
  <2> SUFFICES ASSUME TypeOK, [Next]_vars PROVE TypeOK'
    OBVIOUS
  <2> USE CheckoutAssumption
  <2>0. \A h \in Handlers : req[h] \in Requests
    BY DEF TypeOK
  <2>1. ASSUME NEW h \in Handlers,
             CreateOrder(h)
        PROVE  TypeOK'
    <3>1. PICK total \in Totals, ls \in (SUBSET LineIds) \ {{}},
               discount \in {d \in Discounts : DiscountAllowed(d)} :
            /\ order' = [order EXCEPT !.status = "DRAFT", !.total = total,
                                      !.itemsTotal = total,
                                      !.discount = discount]
            /\ lines' = [l \in LineIds |-> IF l \in ls THEN "PENDING"
                                           ELSE lines[l]]
            /\ IF discount = "within" THEN Done(h)
               ELSE Continue(h, [pc |-> "approval"])
      BY <2>1 DEF CreateOrder
    <3>2. order' \in Orders
      BY <3>1 DEF TypeOK, Orders, OrderStatuses, DiscountClasses
    <3>3. lines' \in [LineIds -> LineStatuses]
      BY <3>1 DEF TypeOK, LineStatuses
    <3>4. req' \in [Handlers -> Requests]
      BY <3>1, RequestForms, ContinueType, DoneType DEF TypeOK
    <3> QED
      BY <2>1, <3>2, <3>3, <3>4 DEF CreateOrder, TypeOK
  <2>2. ASSUME NEW h \in Handlers,
             RequestApproval(h)
        PROVE  TypeOK'
    <3>1. req' \in [Handlers -> Requests]
      BY <2>2, DoneType DEF RequestApproval, TypeOK
    <3>2. order' \in Orders
      BY <2>2 DEF RequestApproval, TypeOK, Orders
    <3> QED
      BY <2>2, <3>1, <3>2 DEF RequestApproval, TypeOK
  <2>3. ASSUME NEW h \in Handlers,
             UpdateDraftRead(h)
        PROVE  TypeOK'
    <3>1. req' \in [Handlers -> Requests]
      <4>1. CASE \E total \in Totals, discount \in Discounts,
                   ls \in (SUBSET FreshLines) \ {{}} :
                   Continue(h, [pc |-> "update", total |-> total,
                                discount |-> discount, newLines |-> ls])
        <5>1. PICK total \in Totals, discount \in Discounts,
                   ls \in (SUBSET FreshLines) \ {{}} :
                     Continue(h, [pc |-> "update", total |-> total,
                                  discount |-> discount, newLines |-> ls])
          BY <4>1
        <5>2. ls \in SUBSET LineIds /\ total \in Nat
                /\ discount \in DiscountClasses
          BY DEF FreshLines, Unused, DiscountClasses
        <5>3. [pc |-> "update", total |-> total, discount |-> discount,
               newLines |-> ls] \in Requests
          BY <5>2, RequestForms
        <5> QED
          BY <5>1, <5>3, ContinueType DEF TypeOK
      <4>2. CASE Continue(h, [pc |-> "update", total |-> order.itemsTotal,
                              discount |-> order.discount, newLines |-> {}])
        <5>1. [pc |-> "update", total |-> order.itemsTotal,
               discount |-> order.discount, newLines |-> {}] \in Requests
          BY RequestForms, RowFields
        <5> QED
          BY <4>2, <5>1, ContinueType DEF TypeOK
      <4> QED
        BY <2>3, <4>1, <4>2 DEF UpdateDraftRead
    <3> QED
      BY <2>3, <3>1 DEF UpdateDraftRead, TypeOK
  <2>4. ASSUME NEW h \in Handlers,
             UpdateDraftCommit(h)
        PROVE  TypeOK'
    <3>1. /\ req[h].total \in Nat
          /\ req[h].newLines \subseteq LineIds
          /\ req[h].discount \in DiscountClasses
      BY <2>4, <2>0, RequestKinds DEF UpdateDraftCommit, At
    <3>2. req' \in [Handlers -> Requests]
      BY <2>4, DoneType DEF UpdateDraftCommit, TypeOK
    <3>3. order' \in Orders
      BY <2>4, <3>1 DEF UpdateDraftCommit, TypeOK, Orders
    <3>4. lines' \in [LineIds -> LineStatuses]
      BY <2>4, <3>1 DEF UpdateDraftCommit, TypeOK, LineStatuses
    <3> QED
      BY <2>4, <3>2, <3>3, <3>4 DEF UpdateDraftCommit, TypeOK
  <2>5. ASSUME NEW h \in Handlers,
             SubmitRead(h)
        PROVE  TypeOK'
    <3>1. order.total \in Nat \ {0} /\ (intent.status # "NONE") \in BOOLEAN
      BY <2>5, RowFields DEF SubmitRead
    <3>2. [pc |-> "submit", total |-> order.total,
           hasIntent |-> intent.status # "NONE"] \in Requests
      BY <3>1, RequestForms
    <3>3. req' \in [Handlers -> Requests]
      BY <2>5, <3>2, ContinueType DEF SubmitRead, TypeOK
    <3> QED
      BY <2>5, <3>3 DEF SubmitRead, TypeOK
  <2>6. ASSUME NEW h \in Handlers,
             SubmitCommit(h)
        PROVE  TypeOK'
    <3>1. req' \in [Handlers -> Requests]
      BY <2>6, DoneType DEF SubmitCommit, TypeOK
    <3>2. req[h].total \in Nat
      BY <2>6, <2>0, RequestKinds DEF SubmitCommit, At
    <3>3. intent' \in Intents
      BY <2>6, <3>2, IntentRowType DEF SubmitCommit, TypeOK
    <3>4. order' \in Orders
      BY <2>6 DEF SubmitCommit, TypeOK, Orders, OrderStatuses
    <3> QED
      BY <2>6, <3>1, <3>3, <3>4 DEF SubmitCommit, TypeOK
  <2>7. ASSUME NEW h \in Handlers, NEW k \in Keys, NEW amount \in Amounts,
             BankRead(h, k, amount)
        PROVE  TypeOK'
    <3>1. [pc |-> "bank", key |-> k, amount |-> amount, paid |-> intent.paid]
            \in Requests
      BY RequestForms, RowFields
    <3>2. req' \in [Handlers -> Requests]
      BY <2>7, <3>1, ContinueType DEF BankRead, TypeOK
    <3> QED
      BY <2>7, <3>2 DEF BankRead, TypeOK
  <2>8. ASSUME NEW h \in Handlers,
             BankConflict(h)
        PROVE  TypeOK'
    <3>1. req' \in [Handlers -> Requests]
      BY <2>8, DoneType DEF BankConflict, TypeOK
    <3> QED
      BY <2>8, <3>1 DEF BankConflict, TypeOK
  <2>9. ASSUME NEW h \in Handlers,
             BankReject(h)
        PROVE  TypeOK'
    <3>1. req' \in [Handlers -> Requests]
      BY <2>9, DoneType DEF BankReject, TypeOK
    <3>2. req[h].key \in Keys
      BY <2>9, <2>0, RequestKinds DEF BankReject, At
    <3>3. txns' \subseteq Transactions
      BY <2>9, <3>2 DEF BankReject, TypeOK, Transactions
    <3> QED
      BY <2>9, <3>1, <3>3 DEF BankReject, TypeOK
  <2>10. ASSUME NEW h \in Handlers,
             BankApply(h)
        PROVE  TypeOK'
    <3>1. req[h].key \in Keys /\ req[h].amount \in Nat /\ req[h].paid \in Nat
      BY <2>10, <2>0, RequestKinds DEF BankApply, At
    <3>2. txns' \subseteq Transactions
      BY <2>10, <3>1 DEF BankApply, TypeOK, Transactions
    <3>3. /\ intent' \in Intents
          /\ order' \in Orders
          /\ req' \in [Handlers -> Requests]
      BY <2>10, <3>1, NextPaidType, RecordPaymentType DEF BankApply
    <3>4. ledger' = [credited |-> ledger.credited + req[h].amount,
                     applied |-> [ledger.applied EXCEPT ![req[h].key] = @ + 1]]
      BY <2>10, <3>1 DEF BankApply, TypeOK, Ledgers
    <3>5. [ledger.applied EXCEPT ![req[h].key] = @ + 1] \in [Keys -> Nat]
      BY <3>1 DEF TypeOK, Ledgers
    <3>6. ledger' \in Ledgers
      BY <3>1, <3>4, <3>5, RowFields DEF Ledgers
    <3> QED
      BY <2>10, <3>2, <3>3, <3>6 DEF BankApply, TypeOK
  <2>11. ASSUME NEW h \in Handlers,
             OverrideRead(h)
        PROVE  TypeOK'
    <3>1. PICK requested \in Amounts \cup {intent.locked} :
            Continue(h, [pc |-> "override", paid |-> intent.paid,
                         amount |-> OverrideAmount(requested,
                                              intent.locked - intent.paid)])
      BY <2>11 DEF OverrideRead
    <3>2. OverrideAmount(requested, intent.locked - intent.paid) \in Nat \ {0}
      BY <2>11, RowFields DEF OverrideRead, OverrideAmount, Least
    <3>3. [pc |-> "override", paid |-> intent.paid,
           amount |-> OverrideAmount(requested, intent.locked - intent.paid)]
            \in Requests
      BY <3>2, RequestForms, RowFields
    <3>4. req' \in [Handlers -> Requests]
      BY <3>1, <3>3, ContinueType DEF TypeOK
    <3> QED
      BY <2>11, <3>4 DEF OverrideRead, TypeOK
  <2>12. ASSUME NEW h \in Handlers,
             OverrideCommit(h)
        PROVE  TypeOK'
    <3>1. req[h].amount \in Nat /\ req[h].paid \in Nat
      BY <2>12, <2>0, RequestKinds DEF OverrideCommit, At
    <3>2. /\ intent' \in Intents
          /\ order' \in Orders
          /\ req' \in [Handlers -> Requests]
      BY <2>12, <3>1, NextPaidType, RecordPaymentType DEF OverrideCommit
    <3>3. ledger' \in Ledgers
      BY <2>12, <3>1 DEF OverrideCommit, TypeOK, Ledgers
    <3> QED
      BY <2>12, <3>2, <3>3 DEF OverrideCommit, TypeOK
  <2>13. ASSUME NEW h \in Handlers, NEW l \in LineIds,
             ActivateRead(h, l)
        PROVE  TypeOK'
    <3>1. [pc |-> "gate", line |-> l, status |-> order.status] \in Requests
      BY RequestForms, RowFields
    <3>2. req' \in [Handlers -> Requests]
      BY <2>13, <3>1, ContinueType DEF ActivateRead, TypeOK
    <3> QED
      BY <2>13, <3>2 DEF ActivateRead, TypeOK
  <2>14. ASSUME NEW h \in Handlers,
             ActivateGate(h)
        PROVE  TypeOK'
    <3>1. [req[h] EXCEPT !.pc = "activate"] \in Requests
      BY <2>14, <2>0, RequestKinds DEF ActivateGate, At, Requests
    <3>2. req' \in [Handlers -> Requests]
      BY <2>14, <3>1, ContinueType, DoneType DEF ActivateGate, TypeOK
    <3> QED
      BY <2>14, <3>2 DEF ActivateGate, TypeOK
  <2>15. ASSUME NEW h \in Handlers,
             ActivateScan(h)
        PROVE  TypeOK'
    <3>1. req[h].line \in LineIds /\ req[h].status \in OrderStatuses
      BY <2>15, <2>0, RequestKinds DEF ActivateScan, At
    <3>2. StatusAfterActivation(req[h].line, req[h].status) \in OrderStatuses
      BY <3>1 DEF StatusAfterActivation, OrderStatuses
    <3>3. [pc |-> "activated", line |-> req[h].line,
           status |-> StatusAfterActivation(req[h].line, req[h].status)]
            \in Requests
      BY <3>1, <3>2, RequestForms
    <3>4. req' \in [Handlers -> Requests]
      BY <2>15, <3>3, ContinueType DEF ActivateScan, TypeOK
    <3> QED
      BY <2>15, <3>4 DEF ActivateScan, TypeOK
  <2>16. ASSUME NEW h \in Handlers,
             ActivateCommit(h)
        PROVE  TypeOK'
    <3>1. req[h].line \in LineIds /\ req[h].status \in OrderStatuses
      BY <2>16, <2>0, RequestKinds DEF ActivateCommit, At
    <3>2. req' \in [Handlers -> Requests]
      BY <2>16, RequestForms, ContinueType, DoneType DEF ActivateCommit, TypeOK
    <3>3. order' \in Orders
      BY <2>16, <3>1 DEF ActivateCommit, TypeOK, Orders
    <3>4. lines' \in [LineIds -> LineStatuses]
      BY <2>16, <3>1 DEF ActivateCommit, TypeOK, LineStatuses
    <3> QED
      BY <2>16, <3>2, <3>3, <3>4 DEF ActivateCommit, TypeOK
  <2>17. ASSUME NEW h \in Handlers, NEW force \in BOOLEAN,
             ManualReEvaluate(h, force)
        PROVE  TypeOK'
    <3>1. req' \in [Handlers -> Requests]
      BY <2>17, RequestForms, ContinueType DEF ManualReEvaluate, TypeOK
    <3> QED
      BY <2>17, <3>1 DEF ManualReEvaluate, TypeOK
  <2>18. ASSUME NEW h \in Handlers,
             ReEvaluate(h)
        PROVE  TypeOK'
    <3>1. [pc |-> "bill", full |-> intent.status = "PAID", paid |-> intent.paid,
           total |-> order.total, exists |-> invoice.status # "NONE"]
            \in Requests
      BY RequestForms, RowFields
    <3>2. req' \in [Handlers -> Requests]
      BY <2>18, <3>1, ContinueType, DoneType DEF ReEvaluate, TypeOK
    <3> QED
      BY <2>18, <3>2 DEF ReEvaluate, TypeOK
  <2>19. ASSUME NEW h \in Handlers,
             WriteInvoice(h)
        PROVE  TypeOK'
    <3>1. req' \in [Handlers -> Requests]
      BY <2>19, DoneType DEF WriteInvoice, TypeOK
    <3>2. /\ req[h].total \in Nat
          /\ req[h].paid \in Nat
          /\ req[h].full \in BOOLEAN
      BY <2>19, <2>0, RequestKinds DEF WriteInvoice, At
    <3>3. InvoiceStatus(req[h].full) \in {"NONE", "PENDING", "APPROVED"}
      BY DEF InvoiceStatus
    <3>4. invoice' \in Invoices
      <4> DEFINE upd == [invoice EXCEPT !.status = InvoiceStatus(req[h].full),
                                    !.paid = req[h].paid,
                                    !.settled = req[h].full]
                 new == [status |-> InvoiceStatus(req[h].full),
                         total |-> req[h].total, paid |-> req[h].paid,
                         settled |-> req[h].full]
      <4>1. upd \in Invoices
        BY <3>2, <3>3 DEF TypeOK, Invoices
      <4>2. new \in Invoices
        BY <3>2, <3>3 DEF Invoices
      <4>3. invoice' \in {upd, new, invoice}
        BY <2>19 DEF WriteInvoice
      <4> QED
        BY <4>1, <4>2, <4>3 DEF TypeOK
    <3> QED
      BY <2>19, <3>1, <3>4 DEF WriteInvoice, TypeOK
  <2>20. ASSUME NEW h \in Handlers,
             InvoiceFromOrder(h)
        PROVE  TypeOK'
    <3>1. PICK amount \in Amounts \cup {order.total - invoice.paid} :
            /\ amount > 0
            /\ Continue(h, [pc |-> "find", amount |-> amount,
                            total |-> order.total,
                            covers |-> invoice.paid + amount >= order.total])
      BY <2>20 DEF InvoiceFromOrder
    <3>2. amount \in Nat \ {0}
      BY <3>1, RowFields
    <3>3. [pc |-> "find", amount |-> amount, total |-> order.total,
           covers |-> invoice.paid + amount >= order.total] \in Requests
      <4>1. (invoice.paid + amount >= order.total) \in BOOLEAN
        OBVIOUS
      <4> QED
        BY <3>2, <4>1, RequestForms, RowFields
    <3>4. req' \in [Handlers -> Requests]
      BY <3>1, <3>3, ContinueType DEF TypeOK
    <3> QED
      BY <2>20, <3>4 DEF InvoiceFromOrder, TypeOK
  <2>21. ASSUME NEW h \in Handlers,
             FindInvoice(h)
        PROVE  TypeOK'
    <3>1. /\ req[h].amount \in Nat \ {0}
          /\ req[h].total \in Nat
          /\ req[h].covers \in BOOLEAN
      BY <2>21, <2>0, RequestKinds DEF FindInvoice, At
    <3>2. [pc |-> "issue", amount |-> req[h].amount, total |-> req[h].total,
           covers |-> req[h].covers, exists |-> invoice.status # "NONE",
           paid |-> invoice.paid] \in Requests
      BY <3>1, RequestForms, RowFields
    <3>3. req' \in [Handlers -> Requests]
      BY <2>21, <3>2, ContinueType DEF FindInvoice, TypeOK
    <3> QED
      BY <2>21, <3>3 DEF FindInvoice, TypeOK
  <2>22. ASSUME NEW h \in Handlers,
             IssueInvoice(h)
        PROVE  TypeOK'
    <3>1. /\ req[h].amount \in Nat
          /\ req[h].total \in Nat
          /\ req[h].paid \in Nat
          /\ req[h].covers \in BOOLEAN
      BY <2>22, <2>0, RequestKinds DEF IssueInvoice, At
    <3>2. [pc |-> "mark", covers |-> req[h].covers] \in Requests
      BY <3>1, RequestForms
    <3>3. req' \in [Handlers -> Requests]
      BY <2>22, <3>2, ContinueType, DoneType DEF IssueInvoice, TypeOK
    <3>4. invoice' \in Invoices
      <4> DEFINE upd == [invoice EXCEPT !.status = "APPROVED",
                                    !.paid = req[h].paid + req[h].amount,
                                    !.settled = TRUE]
                 new == [status |-> "APPROVED", total |-> req[h].total,
                         paid |-> req[h].amount, settled |-> TRUE]
      <4>0. req[h].paid + req[h].amount \in Nat
        BY <3>1
      <4>1. upd \in Invoices
        BY <4>0 DEF TypeOK, Invoices
      <4>2. new \in Invoices
        BY <3>1 DEF Invoices
      <4>3. invoice' \in {upd, new, invoice}
        BY <2>22 DEF IssueInvoice
      <4> QED
        BY <4>1, <4>2, <4>3 DEF TypeOK
    <3> QED
      BY <2>22, <3>3, <3>4 DEF IssueInvoice, TypeOK
  <2>23. ASSUME NEW h \in Handlers,
             MarkOrder(h)
        PROVE  TypeOK'
    <3>1. req' \in [Handlers -> Requests]
      BY <2>23, DoneType DEF MarkOrder, TypeOK
    <3>2. order' \in Orders
      BY <2>23 DEF MarkOrder, TypeOK, Orders, OrderStatuses
    <3> QED
      BY <2>23, <3>1, <3>2 DEF MarkOrder, TypeOK
  <2>24. ASSUME NEW h \in Handlers,
             RequestFails(h)
        PROVE  TypeOK'
    <3>1. req' \in [Handlers -> Requests]
      BY <2>24, DoneType DEF RequestFails, TypeOK
    <3>2. failures' \in Nat
      BY <2>24 DEF RequestFails, TypeOK
    <3> QED
      BY <2>24, <3>1, <3>2 DEF RequestFails, TypeOK
  <2>25. ASSUME DraftExpires PROVE TypeOK'
    BY <2>25 DEF DraftExpires, TypeOK, Orders
  <2>26. ASSUME CleanupDraft PROVE TypeOK'
    BY <2>26 DEF CleanupDraft, TypeOK, Orders, OrderStatuses
  <2>27. ASSUME UNCHANGED vars PROVE TypeOK'
    BY <2>27 DEF vars, TypeOK
  <2>28. ASSUME NEW h \in Handlers,
             UpdateDraftWrite(h)
        PROVE  TypeOK'
    <3>1. req[h].total \in Nat
      BY <2>28, <2>0, RequestKinds DEF UpdateDraftWrite, At
    <3>2. [req[h] EXCEPT !.pc = "updating"] \in Requests
      BY <2>28, <2>0, RequestKinds DEF UpdateDraftWrite, At, Requests,
         DiscountClasses
    <3>3. req' \in [Handlers -> Requests]
      BY <2>28, <3>2, ContinueType, DoneType DEF UpdateDraftWrite, TypeOK
    <3>4. order' \in Orders
      BY <2>28, <3>1 DEF UpdateDraftWrite, TypeOK, Orders
    <3> QED
      BY <2>28, <3>3, <3>4 DEF UpdateDraftWrite, TypeOK
  <2>29. ASSUME NEW h \in Handlers,
             DeadlockVictim(h)
        PROVE  TypeOK'
    <3>1. req' \in [Handlers -> Requests]
      BY <2>29, DoneType DEF DeadlockVictim, TypeOK
    <3> QED
      BY <2>29, <3>1 DEF DeadlockVictim, TypeOK
  <2> QED
    BY <2>1, <2>2, <2>3, <2>4, <2>5, <2>6, <2>7, <2>8, <2>9, <2>10, <2>11,
       <2>12, <2>13, <2>14, <2>15, <2>16, <2>17, <2>18, <2>19, <2>20, <2>21,
       <2>22, <2>23, <2>24, <2>25, <2>26, <2>27, <2>28, <2>29, Zenon
    DEF Next, Begin, Proceed
<1> QED
  BY InitTypeOK, <1>1, PTL DEF Spec
-----------------------------------------------------------------------------
(* The inductive invariant behind the payment and invoice properties: the  *)
(* intent row is always the one its two amounts determine, the history     *)
(* bounds what it shows, and so is every amount a request in flight has    *)
(* read, however stale.                                                    *)
IntentShape ==
  \/ intent = NoIntent
  \/ /\ intent.locked > 0
     /\ intent.paid <= intent.locked
     /\ intent = IntentRow(intent.locked, intent.paid)

CoveredBy(r, row, credited) ==
  /\ r.pc \in {"bank", "override"} =>
       row.status # "NONE" /\ r.paid <= credited
  /\ r.pc = "override" => r.amount <= row.locked
  /\ r.pc = "submit" /\ r.hasIntent => row.status # "NONE"
  /\ r.pc = "bill" /\ r.full => row.status # "NONE" /\ r.paid = row.locked
  /\ r.pc \in {"find", "issue"} => "invoice" \in Endpoints

RequestsCovered ==
  \A h \in Handlers : CoveredBy(req[h], intent, ledger.credited)

ApprovedInvoice ==
  "invoice" \notin Endpoints /\ invoice.status = "APPROVED" =>
    /\ intent.status # "NONE"
    /\ invoice.settled
    /\ invoice.paid = intent.locked

PaymentInv == IntentShape /\ NoPhantomCredit /\ KeysSettleOnce

SafetyInv == TypeOK /\ PaymentInv /\ RequestsCovered /\ ApprovedInvoice

(* What a step never undoes: an intent stays with its locked amount, and   *)
(* the credited money only grows.                                          *)
Grows ==
  /\ intent.status # "NONE" =>
       intent'.status # "NONE" /\ intent'.locked = intent.locked
  /\ ledger'.credited >= ledger.credited

(* An intent row built from amounts that fit: its four derived fields.     *)
LEMMA IntentRowFacts ==
  ASSUME NEW locked \in Nat \ {0}, NEW paid \in Nat, paid <= locked
  PROVE  LET row == IntentRow(locked, paid)
         IN  /\ row.locked = locked /\ row.paid = paid
             /\ row.status \in {"UNPAID", "PARTIALLY_PAID", "PAID"}
             /\ row.status = "PAID" <=> paid = locked
             /\ row.status = "UNPAID" <=> paid = 0
             /\ row.remaining = locked - paid
             /\ row.qrActive <=> row.remaining > 0
<1> DEFINE status == IntentStatus(paid, locked)
           row == IntentRow(locked, paid)
<1>1. /\ status \in {"UNPAID", "PARTIALLY_PAID", "PAID"}
      /\ status = "PAID" <=> paid = locked
      /\ status = "UNPAID" <=> paid = 0
  BY DEF IntentStatus
<1>2. /\ row.locked = locked /\ row.paid = paid /\ row.status = status
      /\ row.remaining = IF locked > paid THEN locked - paid ELSE 0
  BY DEF IntentRow
<1>3. row.qrActive <=> status # "PAID"
  BY Zenon DEF IntentRow
<1>4. row.remaining = locked - paid
  BY <1>2
<1>5. row.remaining > 0 <=> paid # locked
  BY <1>4
<1> QED
  BY <1>1, <1>2, <1>3, <1>4, <1>5

(* The shape of the intent, read as facts about its fields.                *)
LEMMA IntentFacts ==
  ASSUME TypeOK, IntentShape
  PROVE  /\ intent.locked \in Nat /\ intent.paid \in Nat
         /\ intent.paid <= intent.locked
         /\ intent.status # "NONE" <=> intent.locked > 0
         /\ intent.status = "PAID" => intent.paid = intent.locked
         /\ intent.status = "NONE" => intent = NoIntent
         /\ IntentAgrees
<1>1. intent.locked \in Nat /\ intent.paid \in Nat
  BY RowFields
<1>2. CASE intent = NoIntent
  BY <1>1, <1>2 DEF NoIntent, IntentAgrees
<1>3. CASE /\ intent.locked > 0
           /\ intent.paid <= intent.locked
           /\ intent = IntentRow(intent.locked, intent.paid)
  <2>1. intent.locked \in Nat \ {0}
    BY <1>1, <1>3
  <2> QED
    BY <1>1, <1>3, <2>1, IntentRowFacts DEF IntentAgrees
<1> QED
  BY <1>2, <1>3 DEF IntentShape

(* Only four actions touch the intent, the transactions or the history.    *)
LEMMA PaymentFrame ==
  ASSUME [Next]_vars
  PROVE  \/ UNCHANGED <<intent, txns, ledger>>
         \/ \E h \in Handlers : \/ SubmitCommit(h) \/ BankReject(h)
                                \/ BankApply(h) \/ OverrideCommit(h)
<1> DEFINE Same == UNCHANGED <<intent, txns, ledger>>
<1>1. ASSUME NEW h \in Handlers, Begin(h) PROVE Same
  <2>1. CASE CreateOrder(h)
    BY <2>1 DEF CreateOrder
  <2>2. CASE UpdateDraftRead(h)
    BY <2>2 DEF UpdateDraftRead
  <2>3. CASE SubmitRead(h)
    BY <2>3 DEF SubmitRead
  <2>4. CASE \E k \in Keys, amount \in Amounts : BankRead(h, k, amount)
    BY <2>4, Zenon DEF BankRead
  <2>5. CASE OverrideRead(h)
    BY <2>5 DEF OverrideRead
  <2>6. CASE \E l \in LineIds : ActivateRead(h, l)
    BY <2>6, Zenon DEF ActivateRead
  <2>7. CASE \E force \in BOOLEAN : ManualReEvaluate(h, force)
    BY <2>7, Zenon DEF ManualReEvaluate
  <2>8. CASE InvoiceFromOrder(h)
    BY <2>8 DEF InvoiceFromOrder
  <2> QED
    BY <1>1, <2>1, <2>2, <2>3, <2>4, <2>5, <2>6, <2>7, <2>8, Zenon DEF Begin
<1>2. ASSUME NEW h \in Handlers, Proceed(h)
      PROVE  \/ Same
             \/ SubmitCommit(h) \/ BankReject(h)
             \/ BankApply(h) \/ OverrideCommit(h)
  <2>1. CASE RequestApproval(h)
    BY <2>1 DEF RequestApproval
  <2>2. CASE UpdateDraftCommit(h)
    BY <2>2 DEF UpdateDraftCommit
  <2>3. CASE BankConflict(h)
    BY <2>3 DEF BankConflict
  <2>4. CASE ActivateGate(h)
    BY <2>4 DEF ActivateGate
  <2>5. CASE ActivateScan(h)
    BY <2>5 DEF ActivateScan
  <2>6. CASE ActivateCommit(h)
    BY <2>6 DEF ActivateCommit
  <2>7. CASE ReEvaluate(h)
    BY <2>7 DEF ReEvaluate
  <2>8. CASE WriteInvoice(h)
    BY <2>8 DEF WriteInvoice
  <2>9. CASE FindInvoice(h)
    BY <2>9 DEF FindInvoice
  <2>10. CASE IssueInvoice(h)
    BY <2>10 DEF IssueInvoice
  <2>11. CASE MarkOrder(h)
    BY <2>11 DEF MarkOrder
  <2>12. CASE UpdateDraftWrite(h) \/ DeadlockVictim(h)
    BY <2>12 DEF UpdateDraftWrite, DeadlockVictim
  <2> QED
    BY <1>2, <2>1, <2>2, <2>3, <2>4, <2>5, <2>6, <2>7, <2>8, <2>9, <2>10,
       <2>11, <2>12, Zenon DEF Proceed
<1>3. ASSUME NEW h \in Handlers, RequestFails(h) PROVE Same
  BY <1>3 DEF RequestFails
<1>4. CASE DraftExpires
  BY <1>4 DEF DraftExpires
<1>5. CASE CleanupDraft
  BY <1>5 DEF CleanupDraft
<1>6. CASE UNCHANGED vars
  BY <1>6 DEF vars
<1> QED
  BY <1>1, <1>2, <1>3, <1>4, <1>5, <1>6, Zenon DEF Next

(* What a payment in flight writes stays within what is locked and within  *)
(* what has been credited.                                                 *)
LEMMA PaymentWrites ==
  ASSUME SafetyInv, NEW h \in Handlers, BankApply(h) \/ OverrideCommit(h)
  PROVE  /\ intent.locked \in Nat \ {0}
         /\ req[h].amount \in Nat \ {0} /\ req[h].paid \in Nat
         /\ req[h].paid <= ledger.credited
         /\ NextPaid(req[h].paid, req[h].amount) \in Nat
         /\ NextPaid(req[h].paid, req[h].amount) <= intent.locked
         /\ NextPaid(req[h].paid, req[h].amount)
              <= ledger.credited + req[h].amount
         /\ intent' = IntentRow(intent.locked,
                                NextPaid(req[h].paid, req[h].amount))
         /\ ledger'.credited = ledger.credited + req[h].amount
<1> DEFINE next == NextPaid(req[h].paid, req[h].amount)
<1>1. req[h] \in Requests /\ req[h].pc \in {"bank", "override"}
  BY DEF SafetyInv, TypeOK, BankApply, OverrideCommit, At
<1>2. req[h].amount \in Nat \ {0} /\ req[h].paid \in Nat
  BY <1>1, RequestKinds
<1>3. intent.status # "NONE" /\ req[h].paid <= ledger.credited
  BY <1>1 DEF SafetyInv, RequestsCovered, CoveredBy
<1>4. intent.locked \in Nat \ {0} /\ ledger.credited \in Nat
  BY <1>3, IntentFacts, RowFields DEF SafetyInv, PaymentInv
<1>5. /\ next \in Nat
      /\ next <= intent.locked
      /\ next <= ledger.credited + req[h].amount
  BY <1>2, <1>3, <1>4 DEF NextPaid, Least
<1>6. intent' = IntentRow(intent.locked, next)
  BY DEF BankApply, OverrideCommit, RecordPayment
<1>7. ledger'.credited = ledger.credited + req[h].amount
  BY DEF BankApply, OverrideCommit, SafetyInv, TypeOK, Ledgers
<1> QED
  BY <1>2, <1>3, <1>4, <1>5, <1>6, <1>7

(* The payment part of the invariant and what no step undoes.              *)
LEMMA PaymentStep ==
  ASSUME SafetyInv, [Next]_vars
  PROVE  PaymentInv' /\ Grows
<1> USE DEF SafetyInv
<1>0. ledger.credited \in Nat /\ intent.locked \in Nat /\ intent.paid \in Nat
  BY RowFields
<1>1. CASE UNCHANGED <<intent, txns, ledger>>
  <2>1. IntentShape' /\ NoPhantomCredit' /\ KeysSettleOnce'
    BY <1>1 DEF PaymentInv, IntentShape, NoPhantomCredit, KeysSettleOnce
  <2> QED
    BY <1>0, <1>1, <2>1 DEF PaymentInv, Grows
<1>2. ASSUME NEW h \in Handlers, SubmitCommit(h)
      PROVE  PaymentInv' /\ Grows
  <2>1. req[h] \in Requests /\ req[h].pc = "submit"
    BY <1>2 DEF TypeOK, SubmitCommit, At
  <2>2. req[h].total \in Nat \ {0}
    BY <2>1, RequestKinds
  <2>3. UNCHANGED <<txns, ledger>>
    BY <1>2 DEF SubmitCommit
  <2>4. KeysSettleOnce'
    BY <2>3 DEF PaymentInv, KeysSettleOnce
  <2>5. CASE intent' = intent
    BY <1>0, <2>3, <2>4, <2>5
    DEF PaymentInv, IntentShape, NoPhantomCredit, Grows
  <2>6. CASE intent.status = "NONE" /\ intent' = IntentRow(req[h].total, 0)
    <3>1. /\ intent'.locked = req[h].total /\ intent'.paid = 0
          /\ intent'.status # "NONE"
      BY <2>2, <2>6, IntentRowFacts
    <3>2. IntentShape'
      BY <2>2, <2>6, <3>1 DEF IntentShape
    <3>3. NoPhantomCredit'
      BY <1>0, <2>3, <3>1 DEF NoPhantomCredit
    <3> QED
      BY <1>0, <2>3, <2>4, <2>6, <3>2, <3>3 DEF PaymentInv, Grows
  <2> QED
    BY <1>2, <2>5, <2>6 DEF SubmitCommit
<1>3. ASSUME NEW h \in Handlers, BankReject(h)
      PROVE  PaymentInv' /\ Grows
  <2>1. UNCHANGED <<intent, ledger>>
    BY <1>3 DEF BankReject
  <2>2. IntentShape' /\ NoPhantomCredit' /\ Grows
    BY <1>0, <2>1 DEF PaymentInv, IntentShape, NoPhantomCredit, Grows
  <2> DEFINE new == [key |-> req[h].key, status |-> "REJECTED"]
  <2>3. txns' = txns \cup {new} /\ \A t \in txns : t.key # req[h].key
    BY <1>3 DEF BankReject, FreshKey
  <2>4. ASSUME NEW k \in Keys
        PROVE  /\ [key |-> k, status |-> "APPLIED"] \in txns'
                    <=> [key |-> k, status |-> "APPLIED"] \in txns
               /\ \A t1, t2 \in txns' : t1.key = k /\ t2.key = k => t1 = t2
    <3>1. [key |-> k, status |-> "APPLIED"] # new
      OBVIOUS
    <3>2. CASE k = req[h].key
      <4>1. \A t \in txns' : t.key = k => t = new
        BY <2>3, <3>2
      <4> QED
        BY <2>3, <3>1, <4>1
    <3>3. CASE k # req[h].key
      <4>1. \A t \in txns' : t.key = k => t \in txns
        BY <2>3, <3>3
      <4> QED
        BY <2>3, <3>1, <4>1 DEF PaymentInv, KeysSettleOnce
    <3> QED
      BY <3>2, <3>3
  <2>5. KeysSettleOnce'
    BY <2>1, <2>4 DEF PaymentInv, KeysSettleOnce
  <2> QED
    BY <2>2, <2>5 DEF PaymentInv
<1>4. ASSUME NEW h \in Handlers, BankApply(h) \/ OverrideCommit(h)
      PROVE  IntentShape' /\ NoPhantomCredit' /\ Grows
  <2> DEFINE next == NextPaid(req[h].paid, req[h].amount)
  <2>1. /\ intent'.locked = intent.locked /\ intent'.paid = next
        /\ intent'.status # "NONE"
    BY <1>4, PaymentWrites, IntentRowFacts
  <2>2. IntentShape'
    BY <1>4, <2>1, PaymentWrites DEF IntentShape
  <2>3. NoPhantomCredit'
    BY <1>4, <2>1, PaymentWrites DEF NoPhantomCredit
  <2>4. Grows
    BY <1>0, <1>4, <2>1, PaymentWrites DEF Grows
  <2> QED
    BY <2>2, <2>3, <2>4
<1>5. ASSUME NEW h \in Handlers, OverrideCommit(h)
      PROVE  PaymentInv' /\ Grows
  <2>1. UNCHANGED txns /\ ledger'.applied = ledger.applied
    BY <1>5 DEF OverrideCommit, TypeOK, Ledgers
  <2>2. KeysSettleOnce'
    BY <2>1 DEF PaymentInv, KeysSettleOnce
  <2> QED
    BY <1>4, <1>5, <2>2 DEF PaymentInv
<1>6. ASSUME NEW h \in Handlers, BankApply(h)
      PROVE  PaymentInv' /\ Grows
  <2> DEFINE new == [key |-> req[h].key, status |-> "APPLIED"]
  <2>1. req[h].key \in Keys
    BY <1>6, RequestKinds DEF TypeOK, BankApply, At
  <2>2. txns' = txns \cup {new} /\ \A t \in txns : t.key # req[h].key
    BY <1>6 DEF BankApply, FreshKey
  <2>3. ledger'.applied = [ledger.applied EXCEPT ![req[h].key] = @ + 1]
    BY <1>6 DEF BankApply, TypeOK, Ledgers
  <2>4. ledger.applied \in [Keys -> Nat]
    BY DEF TypeOK, Ledgers
  <2>5. ASSUME NEW k \in Keys
        PROVE  /\ ledger'.applied[k] =
                    IF [key |-> k, status |-> "APPLIED"] \in txns' THEN 1 ELSE 0
               /\ \A t1, t2 \in txns' : t1.key = k /\ t2.key = k => t1 = t2
    <3>1. CASE k = req[h].key
      <4>1. [key |-> k, status |-> "APPLIED"] \notin txns
        BY <2>2, <3>1
      <4>2. ledger.applied[k] = 0
        BY <4>1 DEF PaymentInv, KeysSettleOnce
      <4>3. ledger'.applied[k] = 1
        BY <2>3, <2>4, <3>1, <4>2
      <4> QED
        BY <2>2, <3>1, <4>3
    <3>2. CASE k # req[h].key
      <4>1. ledger'.applied[k] = ledger.applied[k]
        BY <2>3, <2>4, <3>2
      <4>2. [key |-> k, status |-> "APPLIED"] \in txns'
              <=> [key |-> k, status |-> "APPLIED"] \in txns
        BY <2>2, <3>2
      <4>3. \A t \in txns' : t.key = k => t \in txns
        BY <2>2, <3>2
      <4> QED
        BY <4>1, <4>2, <4>3 DEF PaymentInv, KeysSettleOnce
    <3> QED
      BY <3>1, <3>2
  <2>6. KeysSettleOnce'
    BY <2>5 DEF KeysSettleOnce
  <2> QED
    BY <1>4, <1>6, <2>6 DEF PaymentInv
<1> QED
  BY <1>1, <1>2, <1>3, <1>5, <1>6, PaymentFrame

(* A request that is covered stays so while the others write.              *)
LEMMA StaysCovered ==
  ASSUME TypeOK, TypeOK', Grows, NEW r \in Requests,
         CoveredBy(r, intent, ledger.credited)
  PROVE  CoveredBy(r, intent', ledger'.credited)
<1>1. ledger.credited \in Nat /\ ledger'.credited \in Nat
  BY DEF TypeOK, Ledgers
<1>2. /\ r.pc \in {"bank", "override"} => r.paid \in Nat
      /\ r.pc = "override" => r.amount \in Nat
  BY RequestKinds
<1>3. r.pc \in {"bank", "override"} =>
        intent'.status # "NONE" /\ r.paid <= ledger'.credited
  BY <1>1, <1>2 DEF CoveredBy, Grows
<1>4. r.pc = "override" => r.amount <= intent'.locked
  BY DEF CoveredBy, Grows
<1>5. r.pc = "submit" /\ r.hasIntent => intent'.status # "NONE"
  BY DEF CoveredBy, Grows
<1>6. r.pc = "bill" /\ r.full =>
        intent'.status # "NONE" /\ r.paid = intent'.locked
  BY DEF CoveredBy, Grows
<1> QED
  BY <1>3, <1>4, <1>5, <1>6 DEF CoveredBy

(* One request moves on to r: covering r is all there is to check.         *)
LEMMA NextCovered ==
  ASSUME TypeOK, TypeOK', Grows, RequestsCovered, NEW h \in Handlers, NEW r,
         Continue(h, r), CoveredBy(r, intent', ledger'.credited)
  PROVE  RequestsCovered'
<1> SUFFICES ASSUME NEW g \in Handlers
             PROVE  CoveredBy(req'[g], intent', ledger'.credited)
  BY DEF RequestsCovered
<1>1. CASE g = h
  BY <1>1 DEF Continue, TypeOK
<1>2. CASE g # h
  <2>1. req'[g] = req[g] /\ req[g] \in Requests
    BY <1>2 DEF Continue, TypeOK
  <2>2. CoveredBy(req[g], intent, ledger.credited)
    BY DEF RequestsCovered
  <2>3. CoveredBy(req[g], intent', ledger'.credited)
    BY <2>1, <2>2, StaysCovered
  <2> QED
    BY <2>1, <2>3
<1> QED
  BY <1>1, <1>2

(* Most steps carry nothing the invariant speaks about.                    *)
LEMMA PlainCovered ==
  ASSUME NEW r, NEW row, NEW credited,
         r.pc \notin {"bank", "override", "submit", "bill", "find", "issue"}
  PROVE  CoveredBy(r, row, credited)
BY DEF CoveredBy

LEMMA DoneCovered ==
  ASSUME TypeOK, TypeOK', Grows, RequestsCovered, NEW h \in Handlers, Done(h)
  PROVE  RequestsCovered'
<1>1. CoveredBy(Idle, intent', ledger'.credited)
  BY PlainCovered DEF Idle
<1> QED
  BY <1>1, NextCovered DEF Done

(* Every request in flight stays covered.                                  *)
LEMMA RequestsStep ==
  ASSUME SafetyInv, [Next]_vars, TypeOK', Grows
  PROVE  RequestsCovered'
<1> USE DEF SafetyInv
<1> DEFINE Fits(r) == CoveredBy(r, intent', ledger'.credited)
<1>0. ASSUME NEW h \in Handlers, NEW r, Continue(h, r),
             r.pc \notin {"bank", "override", "submit", "bill", "find", "issue"}
      PROVE  RequestsCovered'
  BY <1>0, PlainCovered, NextCovered
<1>1. ASSUME NEW h \in Handlers, Done(h) PROVE RequestsCovered'
  BY <1>1, DoneCovered
<1>2. ASSUME NEW h \in Handlers, Begin(h) PROVE RequestsCovered'
  <2>1. CASE CreateOrder(h)
    <3>1. Done(h) \/ Continue(h, [pc |-> "approval"])
      BY <2>1 DEF CreateOrder
    <3> QED
      BY <1>0, <1>1, <3>1
  <2>2. CASE UpdateDraftRead(h)
    <3>1. PICK total, discount, ls :
            Continue(h, [pc |-> "update", total |-> total,
                         discount |-> discount, newLines |-> ls])
      BY <2>2 DEF UpdateDraftRead
    <3> QED
      BY <1>0, <3>1
  <2>3. CASE SubmitRead(h)
    <3> DEFINE r == [pc |-> "submit", total |-> order.total,
                     hasIntent |-> intent.status # "NONE"]
    <3>1. Continue(h, r) /\ intent' = intent
      BY <2>3 DEF SubmitRead
    <3>2. Fits(r)
      BY <3>1 DEF CoveredBy
    <3> QED
      BY <3>1, <3>2, NextCovered
  <2>4. ASSUME NEW k \in Keys, NEW amount \in Amounts, BankRead(h, k, amount)
        PROVE  RequestsCovered'
    <3> DEFINE r == [pc |-> "bank", key |-> k, amount |-> amount,
                     paid |-> intent.paid]
    <3>1. Continue(h, r) /\ intent' = intent /\ ledger' = ledger
            /\ intent.status # "NONE"
      BY <2>4 DEF BankRead
    <3>2. Fits(r)
      BY <3>1 DEF CoveredBy, PaymentInv, NoPhantomCredit
    <3> QED
      BY <3>1, <3>2, NextCovered
  <2>5. CASE OverrideRead(h)
    <3>1. PICK requested \in Amounts \cup {intent.locked} :
            Continue(h, [pc |-> "override", paid |-> intent.paid,
                         amount |-> OverrideAmount(requested,
                                              intent.locked - intent.paid)])
      BY <2>5 DEF OverrideRead
    <3> DEFINE amount == OverrideAmount(requested, intent.locked - intent.paid)
               r == [pc |-> "override", paid |-> intent.paid, amount |-> amount]
    <3>2. /\ intent' = intent /\ ledger' = ledger
          /\ intent.status # "NONE" /\ intent.paid < intent.locked
      BY <2>5 DEF OverrideRead
    <3>3. amount <= intent.locked
      BY <3>2, RowFields, CheckoutAssumption DEF OverrideAmount, Least
    <3>4. Fits(r)
      BY <3>2, <3>3 DEF CoveredBy, PaymentInv, NoPhantomCredit
    <3> QED
      BY <3>1, <3>4, NextCovered
  <2>6. ASSUME NEW l \in LineIds, ActivateRead(h, l) PROVE RequestsCovered'
    <3>1. Continue(h, [pc |-> "gate", line |-> l, status |-> order.status])
      BY <2>6 DEF ActivateRead
    <3> QED
      BY <1>0, <3>1
  <2>7. ASSUME NEW force \in BOOLEAN, ManualReEvaluate(h, force)
        PROVE  RequestsCovered'
    <3>1. Continue(h, [pc |-> "reevaluate", source |-> "MANUAL",
                       force |-> force])
      BY <2>7 DEF ManualReEvaluate
    <3> QED
      BY <1>0, <3>1
  <2>8. CASE InvoiceFromOrder(h)
    <3>1. PICK amount :
            Continue(h, [pc |-> "find", amount |-> amount,
                         total |-> order.total,
                         covers |-> invoice.paid + amount >= order.total])
      BY <2>8 DEF InvoiceFromOrder
    <3> DEFINE r == [pc |-> "find", amount |-> amount, total |-> order.total,
                     covers |-> invoice.paid + amount >= order.total]
    <3>2. Fits(r)
      BY <2>8 DEF CoveredBy, InvoiceFromOrder, Start
    <3> QED
      BY <3>1, <3>2, NextCovered
  <2> QED
    BY <1>2, <2>1, <2>2, <2>3, <2>4, <2>5, <2>6, <2>7, <2>8, Zenon DEF Begin
<1>3. ASSUME NEW h \in Handlers, Proceed(h) PROVE RequestsCovered'
  <2>0. CoveredBy(req[h], intent, ledger.credited)
    BY DEF RequestsCovered
  <2>1. CASE \/ RequestApproval(h) \/ UpdateDraftCommit(h) \/ SubmitCommit(h)
             \/ BankConflict(h) \/ BankReject(h) \/ WriteInvoice(h)
             \/ MarkOrder(h) \/ DeadlockVictim(h)
    <3>1. Done(h)
      BY <2>1 DEF RequestApproval, UpdateDraftCommit, SubmitCommit,
           BankConflict, BankReject, WriteInvoice, MarkOrder, DeadlockVictim
    <3> QED
      BY <1>1, <3>1
  <2>2. CASE BankApply(h) \/ OverrideCommit(h)
    <3>1. Done(h) \/ Continue(h, [pc |-> "reevaluate", source |-> "ON_PAID",
                                  force |-> FALSE])
      BY <2>2 DEF BankApply, OverrideCommit, RecordPayment
    <3> QED
      BY <1>0, <1>1, <3>1
  <2>3. CASE ActivateGate(h)
    <3>1. Done(h) \/ Continue(h, [req[h] EXCEPT !.pc = "activate"])
      BY <2>3 DEF ActivateGate
    <3>2. [req[h] EXCEPT !.pc = "activate"].pc = "activate"
      BY <2>3, RequestKinds DEF ActivateGate, At, TypeOK
    <3> QED
      BY <1>0, <1>1, <3>1, <3>2
  <2>4. CASE ActivateScan(h)
    <3>1. PICK l, status : Continue(h, [pc |-> "activated", line |-> l,
                                        status |-> status])
      BY <2>4 DEF ActivateScan
    <3> QED
      BY <1>0, <3>1
  <2>5. CASE ActivateCommit(h)
    <3>1. Done(h) \/ Continue(h, [pc |-> "reevaluate",
                                  source |-> "ON_ACTIVATED", force |-> FALSE])
      BY <2>5 DEF ActivateCommit
    <3> QED
      BY <1>0, <1>1, <3>1
  <2>6. CASE ReEvaluate(h)
    <3> DEFINE r == [pc |-> "bill", full |-> intent.status = "PAID",
                     paid |-> intent.paid, total |-> order.total,
                     exists |-> invoice.status # "NONE"]
    <3>1. (Done(h) \/ Continue(h, r)) /\ intent' = intent
      BY <2>6 DEF ReEvaluate
    <3>2. Fits(r)
      <4>1. r.full => intent.status # "NONE" /\ intent.paid = intent.locked
        BY IntentFacts DEF PaymentInv
      <4> QED
        BY <3>1, <4>1 DEF CoveredBy
    <3> QED
      BY <1>1, <3>1, <3>2, NextCovered
  <2>7. CASE FindInvoice(h)
    <3> DEFINE r == [pc |-> "issue", amount |-> req[h].amount,
                     total |-> req[h].total, covers |-> req[h].covers,
                     exists |-> invoice.status # "NONE", paid |-> invoice.paid]
    <3>1. Continue(h, r)
      BY <2>7 DEF FindInvoice
    <3>2. Fits(r)
      BY <2>0, <2>7 DEF CoveredBy, FindInvoice, At
    <3> QED
      BY <3>1, <3>2, NextCovered
  <2>8. CASE IssueInvoice(h)
    <3>1. Done(h) \/ Continue(h, [pc |-> "mark", covers |-> req[h].covers])
      BY <2>8 DEF IssueInvoice
    <3> QED
      BY <1>0, <1>1, <3>1
  <2>9. CASE UpdateDraftWrite(h)
    <3>1. Done(h) \/ Continue(h, [req[h] EXCEPT !.pc = "updating"])
      BY <2>9 DEF UpdateDraftWrite
    <3>2. [req[h] EXCEPT !.pc = "updating"].pc = "updating"
      BY <2>9, RequestKinds DEF UpdateDraftWrite, At, TypeOK
    <3> QED
      BY <1>0, <1>1, <3>1, <3>2
  <2> QED
    BY <1>3, <2>1, <2>2, <2>3, <2>4, <2>5, <2>6, <2>7, <2>8, <2>9, Zenon
    DEF Proceed
<1>4. ASSUME NEW h \in Handlers, RequestFails(h) PROVE RequestsCovered'
  BY <1>1, <1>4 DEF RequestFails
<1>5. CASE DraftExpires \/ CleanupDraft \/ UNCHANGED vars
  <2>1. UNCHANGED <<intent, req, ledger>>
    BY <1>5 DEF DraftExpires, CleanupDraft, vars
  <2> QED
    BY <2>1 DEF RequestsCovered
<1> QED
  BY <1>2, <1>3, <1>4, <1>5, Zenon DEF Next

(* Only two actions write the invoice.                                     *)
LEMMA InvoiceFrame ==
  ASSUME [Next]_vars
  PROVE  \/ UNCHANGED invoice
         \/ \E h \in Handlers : WriteInvoice(h) \/ IssueInvoice(h)
<1>1. ASSUME NEW h \in Handlers, Begin(h) PROVE UNCHANGED invoice
  BY <1>1, Zenon DEF Begin, CreateOrder, UpdateDraftRead, SubmitRead, BankRead,
     OverrideRead, ActivateRead, ManualReEvaluate, InvoiceFromOrder
<1>2. ASSUME NEW h \in Handlers, Proceed(h)
      PROVE  UNCHANGED invoice \/ WriteInvoice(h) \/ IssueInvoice(h)
  BY <1>2, Zenon DEF Proceed, RequestApproval, UpdateDraftWrite, UpdateDraftCommit,
     DeadlockVictim, SubmitCommit, BankConflict, BankReject, BankApply, OverrideCommit, ActivateGate,
     ActivateScan, ActivateCommit, ReEvaluate, FindInvoice, MarkOrder
<1> QED
  BY <1>1, <1>2, Zenon DEF Next, RequestFails, DraftExpires, CleanupDraft, vars

(* The invoice part of the invariant.                                      *)
LEMMA InvoiceStep ==
  ASSUME SafetyInv, [Next]_vars, Grows
  PROVE  ApprovedInvoice'
<1> USE DEF SafetyInv
<1> SUFFICES ASSUME "invoice" \notin Endpoints, invoice'.status = "APPROVED"
             PROVE  /\ intent'.status # "NONE"
                    /\ invoice'.settled
                    /\ invoice'.paid = intent'.locked
  BY DEF ApprovedInvoice
<1>1. CASE UNCHANGED invoice
  BY <1>1 DEF ApprovedInvoice, Grows
<1>2. ASSUME NEW h \in Handlers, WriteInvoice(h), ~UNCHANGED invoice
      PROVE  /\ intent'.status # "NONE"
             /\ invoice'.settled
             /\ invoice'.paid = intent'.locked
  <2>1. req[h] \in Requests /\ req[h].pc = "bill"
    BY <1>2 DEF TypeOK, WriteInvoice, At
  <2>2. req[h].full \in BOOLEAN
    BY <2>1, RequestKinds
  <2>3. /\ invoice'.status = InvoiceStatus(req[h].full)
        /\ invoice'.paid = req[h].paid
        /\ invoice'.settled = req[h].full
    <3>1. CASE invoice' = [invoice EXCEPT !.status = InvoiceStatus(req[h].full),
                                          !.paid = req[h].paid,
                                          !.settled = req[h].full]
      BY <3>1 DEF TypeOK, Invoices
    <3>2. CASE invoice' = [status |-> InvoiceStatus(req[h].full),
                           total |-> req[h].total, paid |-> req[h].paid,
                           settled |-> req[h].full]
      BY <3>2
    <3> QED
      BY <1>2, <3>1, <3>2 DEF WriteInvoice
  <2>4. req[h].full
    BY <2>2, <2>3 DEF InvoiceStatus
  <2>5. intent.status # "NONE" /\ req[h].paid = intent.locked
    BY <2>1, <2>4 DEF RequestsCovered, CoveredBy
  <2> QED
    BY <2>3, <2>4, <2>5 DEF Grows
<1>3. ASSUME NEW h \in Handlers, IssueInvoice(h) PROVE FALSE
  BY <1>3 DEF IssueInvoice, At, RequestsCovered, CoveredBy
<1> QED
  BY <1>1, <1>2, <1>3, InvoiceFrame

(* The invariant holds of every reachable state.                           *)
THEOREM SafetyInvariant == Spec => []SafetyInv
<1>1. Init => SafetyInv
  <2> SUFFICES ASSUME Init PROVE SafetyInv
    OBVIOUS
  <2>1. TypeOK
    BY InitTypeOK
  <2>2. PaymentInv
    BY DEF Init, PaymentInv, IntentShape, NoPhantomCredit, KeysSettleOnce,
         NoIntent
  <2>3. RequestsCovered
    BY PlainCovered DEF Init, RequestsCovered, Idle
  <2>4. ApprovedInvoice
    BY DEF Init, ApprovedInvoice, NoInvoice
  <2> QED
    BY <2>1, <2>2, <2>3, <2>4 DEF SafetyInv
<1>2. SafetyInv /\ [Next]_vars /\ TypeOK' => SafetyInv'
  BY PaymentStep, RequestsStep, InvoiceStep DEF SafetyInv
<1> QED
  BY <1>1, <1>2, TypeCorrect, PTL DEF Spec

(* The intent's paid and remaining amounts, status and QR switch always    *)
(* agree, whatever requests race on them, no more is paid than was locked, *)
(* and the intent never shows more than the money credited.                *)
THEOREM IntentAlwaysConsistent == Spec => []IntentConsistent
<1>1. SafetyInv => IntentConsistent
  BY IntentFacts DEF SafetyInv, PaymentInv, IntentConsistent
<1> QED
  BY <1>1, SafetyInvariant, PTL

(* A bank event is credited at most once, and never when it was rejected,  *)
(* however often and however concurrently it is delivered.                 *)
THEOREM KeysAlwaysSettleOnce == Spec => []KeysSettleOnce
<1>1. SafetyInv => KeysSettleOnce
  BY DEF SafetyInv, PaymentInv
<1> QED
  BY <1>1, SafetyInvariant, PTL

(* The automation approves an invoice only for the whole locked amount.    *)
THEOREM ApprovedInvoiceAlwaysCovered == Spec => []ApprovedInvoiceIsCovered
<1>1. SafetyInv => ApprovedInvoiceIsCovered
  BY DEF SafetyInv, ApprovedInvoice, ApprovedInvoiceIsCovered
<1> QED
  BY <1>1, SafetyInvariant, PTL
-----------------------------------------------------------------------------
(* The steps that touch the payment state are steps of the abstract ledger.*)
LEMMA OpenStep ==
  ASSUME SafetyInv, NEW h \in Handlers, SubmitCommit(h)
  PROVE  UNCHANGED <<intent, txns, ledger>> \/
           /\ intent.locked = 0 /\ intent'.locked \in Nat \ {0}
           /\ intent'.paid = intent.paid
           /\ UNCHANGED <<txns, ledger>>
<1> USE DEF SafetyInv
<1>1. req[h] \in Requests /\ req[h].pc = "submit"
  BY DEF TypeOK, SubmitCommit, At
<1>2. req[h].total \in Nat \ {0}
  BY <1>1, RequestKinds
<1>3. UNCHANGED <<txns, ledger>>
  BY DEF SubmitCommit
<1>4. CASE intent' = intent
  BY <1>3, <1>4
<1>5. CASE intent.status = "NONE" /\ intent' = IntentRow(req[h].total, 0)
  <2>1. intent'.locked = req[h].total /\ intent'.paid = 0
    BY <1>2, <1>5, IntentRowFacts
  <2>2. intent = NoIntent
    BY <1>5, IntentFacts DEF PaymentInv
  <2> QED
    BY <1>2, <1>3, <2>1, <2>2 DEF NoIntent
<1> QED
  BY <1>4, <1>5 DEF SubmitCommit

(* A bank event is accepted under a key no transaction row has.            *)
LEMMA NewKey ==
  ASSUME SafetyInv, NEW h \in Handlers, BankApply(h) \/ BankReject(h)
  PROVE  \E k \in Keys \ SeenKeys : SeenKeys' = SeenKeys \cup {k}
<1>1. req[h].key \in Keys
  BY RequestKinds DEF SafetyInv, TypeOK, BankApply, BankReject, At
<1>2. req[h].key \notin SeenKeys
  BY DEF BankApply, BankReject, FreshKey, SeenKeys
<1>3. PICK status : txns' = txns \cup {[key |-> req[h].key, status |-> status]}
  BY DEF BankApply, BankReject
<1>4. SeenKeys' = SeenKeys \cup {req[h].key}
  <2> DEFINE new == [key |-> req[h].key, status |-> status]
  <2>1. new.key = req[h].key /\ txns' = txns \cup {new}
    BY <1>3
  <2>2. {t.key : t \in txns \cup {new}} = {t.key : t \in txns} \cup {new.key}
    BY Zenon
  <2>3. SeenKeys' = {t.key : t \in txns'}
    BY DEF SeenKeys
  <2> HIDE DEF new
  <2> QED
    BY <2>1, <2>2, <2>3 DEF SeenKeys
<1> QED
  BY <1>1, <1>2, <1>4

(* Under READ COMMITTED the payment part implements the ledger in which a  *)
(* credit may overwrite another one but can never invent money, exceed the *)
(* locked amount or reuse a key.                                           *)
THEOREM ImplementsReadCommittedLedger == Spec => ReadCommittedLedger
<1> USE DEF SafetyInv
<1>1. Init => Racy!LedgerInit
  BY DEF Init, Racy!LedgerInit, NoIntent, SeenKeys
<1>2. SafetyInv /\ [Next]_vars => [Racy!LedgerNext]_Racy!ledgerVars
  <2> SUFFICES ASSUME SafetyInv, [Next]_vars
               PROVE  [Racy!LedgerNext]_Racy!ledgerVars
    OBVIOUS
  <2>1. CASE UNCHANGED <<intent, txns, ledger>>
    BY <2>1 DEF Racy!ledgerVars, SeenKeys
  <2>2. ASSUME NEW h \in Handlers, SubmitCommit(h)
        PROVE  [Racy!LedgerNext]_Racy!ledgerVars
    <3>1. CASE UNCHANGED <<intent, txns, ledger>>
      BY <2>1, <3>1
    <3>2. CASE /\ intent.locked = 0 /\ intent'.locked \in Nat \ {0}
               /\ intent'.paid = intent.paid
               /\ UNCHANGED <<txns, ledger>>
      <4>1. Racy!Open
        BY <3>2 DEF Racy!Open, SeenKeys
      <4> QED
        BY <4>1 DEF Racy!LedgerNext
    <3> QED
      BY <2>2, <3>1, <3>2, OpenStep
  <2>3. ASSUME NEW h \in Handlers, BankReject(h)
        PROVE  [Racy!LedgerNext]_Racy!ledgerVars
    <3>1. intent.locked > 0
      BY <2>3, IntentFacts
      DEF BankReject, At, RequestsCovered, CoveredBy, PaymentInv
    <3>2. Racy!Refuse
      BY <2>3, <3>1, NewKey DEF BankReject, Racy!Refuse
    <3> QED
      BY <3>2 DEF Racy!LedgerNext
  <2>4. ASSUME NEW h \in Handlers, BankApply(h) \/ OverrideCommit(h)
        PROVE  Racy!Credit /\ ledger'.credited - ledger.credited = req[h].amount
    <3> DEFINE next == NextPaid(req[h].paid, req[h].amount)
    <3>1. /\ intent'.locked = intent.locked /\ intent'.paid = next
      BY <2>4, PaymentWrites, IntentRowFacts
    <3>2. ledger.credited \in Nat
      BY RowFields
    <3>3. /\ ledger'.credited \in Nat /\ ledger'.credited > ledger.credited
          /\ ledger'.credited - ledger.credited = req[h].amount
      BY <2>4, <3>2, PaymentWrites
    <3>4. intent'.paid \in Racy!PaidAfter(ledger'.credited - ledger.credited)
      BY <2>4, <3>1, <3>2, <3>3, PaymentWrites
      DEF Racy!PaidAfter, Racy!Least
    <3> QED
      BY <2>4, <3>1, <3>3, <3>4, PaymentWrites DEF Racy!Credit
  <2>5. ASSUME NEW h \in Handlers, OverrideCommit(h)
        PROVE  [Racy!LedgerNext]_Racy!ledgerVars
    <3>1. req[h].amount <= intent.locked
      BY <2>5 DEF OverrideCommit, At, RequestsCovered, CoveredBy
    <3>2. SeenKeys' = SeenKeys
      BY <2>5 DEF OverrideCommit, SeenKeys
    <3>3. Racy!OverrideCredit
      BY <2>4, <2>5, <3>1, <3>2 DEF Racy!OverrideCredit
    <3> QED
      BY <3>3 DEF Racy!LedgerNext
  <2>6. ASSUME NEW h \in Handlers, BankApply(h)
        PROVE  [Racy!LedgerNext]_Racy!ledgerVars
    <3>1. Racy!BankCredit
      BY <2>4, <2>6, NewKey DEF Racy!BankCredit
    <3> QED
      BY <3>1 DEF Racy!LedgerNext
  <2> QED
    BY <2>1, <2>2, <2>3, <2>5, <2>6, PaymentFrame
<1> QED
  BY <1>1, <1>2, SafetyInvariant, PTL
  DEF Spec, ReadCommittedLedger, Racy!LedgerSpec
-----------------------------------------------------------------------------
(* When requests do not overlap, what a payment in flight has read is what *)
(* the intent still shows.                                                 *)
OneAtATime == \A g, h \in Handlers : g = h

FreshReads ==
  \A h \in Handlers :
    req[h].pc \in {"bank", "override"} => req[h].paid = intent.paid

LEMMA FreshReadsStep ==
  ASSUME OneAtATime, SafetyInv, FreshReads, [Next]_vars
  PROVE  FreshReads'
<1> USE DEF SafetyInv
<1>0. ASSUME NEW h \in Handlers, NEW r, Continue(h, r),
             r.pc \in {"bank", "override"} => r.paid = intent'.paid
      PROVE  FreshReads'
  <2>1. \A g \in Handlers : req'[g] = r
    BY <1>0 DEF Continue, TypeOK, OneAtATime
  <2> QED
    BY <1>0, <2>1 DEF FreshReads
<1>1. ASSUME NEW h \in Handlers, Done(h) PROVE FreshReads'
  BY <1>0, <1>1 DEF Done, Idle
<1>2. ASSUME NEW h \in Handlers, Begin(h) PROVE FreshReads'
  <2>1. CASE CreateOrder(h)
    <3>1. Done(h) \/ Continue(h, [pc |-> "approval"])
      BY <2>1 DEF CreateOrder
    <3> QED
      BY <1>0, <1>1, <3>1
  <2>2. CASE UpdateDraftRead(h)
    <3>1. PICK total, discount, ls :
            Continue(h, [pc |-> "update", total |-> total,
                         discount |-> discount, newLines |-> ls])
      BY <2>2 DEF UpdateDraftRead
    <3> QED
      BY <1>0, <3>1
  <2>3. CASE SubmitRead(h)
    <3>1. PICK has : Continue(h, [pc |-> "submit", total |-> order.total,
                                  hasIntent |-> has])
      BY <2>3 DEF SubmitRead
    <3> QED
      BY <1>0, <3>1
  <2>4. ASSUME NEW k \in Keys, NEW amount \in Amounts, BankRead(h, k, amount)
        PROVE  FreshReads'
    <3>1. /\ Continue(h, [pc |-> "bank", key |-> k, amount |-> amount,
                          paid |-> intent.paid])
          /\ intent' = intent
      BY <2>4 DEF BankRead
    <3> QED
      BY <1>0, <3>1
  <2>5. CASE OverrideRead(h)
    <3>1. /\ \E amount : Continue(h, [pc |-> "override", paid |-> intent.paid,
                                      amount |-> amount])
          /\ intent' = intent
      BY <2>5 DEF OverrideRead
    <3> QED
      BY <1>0, <3>1
  <2>6. ASSUME NEW l \in LineIds, ActivateRead(h, l) PROVE FreshReads'
    <3>1. Continue(h, [pc |-> "gate", line |-> l, status |-> order.status])
      BY <2>6 DEF ActivateRead
    <3> QED
      BY <1>0, <3>1
  <2>7. ASSUME NEW force \in BOOLEAN, ManualReEvaluate(h, force)
        PROVE  FreshReads'
    <3>1. Continue(h, [pc |-> "reevaluate", source |-> "MANUAL",
                       force |-> force])
      BY <2>7 DEF ManualReEvaluate
    <3> QED
      BY <1>0, <3>1
  <2>8. CASE InvoiceFromOrder(h)
    <3>1. PICK amount, covers :
            Continue(h, [pc |-> "find", amount |-> amount,
                         total |-> order.total, covers |-> covers])
      BY <2>8 DEF InvoiceFromOrder
    <3> QED
      BY <1>0, <3>1
  <2> QED
    BY <1>2, <2>1, <2>2, <2>3, <2>4, <2>5, <2>6, <2>7, <2>8, Zenon DEF Begin
<1>3. ASSUME NEW h \in Handlers, Proceed(h) PROVE FreshReads'
  <2>1. CASE \/ RequestApproval(h) \/ UpdateDraftCommit(h) \/ SubmitCommit(h)
             \/ BankConflict(h) \/ BankReject(h) \/ WriteInvoice(h)
             \/ MarkOrder(h) \/ DeadlockVictim(h)
    <3>1. Done(h)
      BY <2>1 DEF RequestApproval, UpdateDraftCommit, SubmitCommit,
           BankConflict, BankReject, WriteInvoice, MarkOrder, DeadlockVictim
    <3> QED
      BY <1>1, <3>1
  <2>2. CASE BankApply(h) \/ OverrideCommit(h)
    <3>1. Done(h) \/ Continue(h, [pc |-> "reevaluate", source |-> "ON_PAID",
                                  force |-> FALSE])
      BY <2>2 DEF BankApply, OverrideCommit, RecordPayment
    <3> QED
      BY <1>0, <1>1, <3>1
  <2>3. CASE ActivateGate(h)
    <3>1. Done(h) \/ Continue(h, [req[h] EXCEPT !.pc = "activate"])
      BY <2>3 DEF ActivateGate
    <3>2. [req[h] EXCEPT !.pc = "activate"].pc = "activate"
      BY <2>3, RequestKinds DEF ActivateGate, At, TypeOK
    <3> QED
      BY <1>0, <1>1, <3>1, <3>2
  <2>4. CASE ActivateScan(h)
    <3>1. PICK l, status : Continue(h, [pc |-> "activated", line |-> l,
                                        status |-> status])
      BY <2>4 DEF ActivateScan
    <3> QED
      BY <1>0, <3>1
  <2>5. CASE ActivateCommit(h)
    <3>1. Done(h) \/ Continue(h, [pc |-> "reevaluate",
                                  source |-> "ON_ACTIVATED", force |-> FALSE])
      BY <2>5 DEF ActivateCommit
    <3> QED
      BY <1>0, <1>1, <3>1
  <2>6. CASE ReEvaluate(h)
    <3>1. Done(h) \/ \E full, exists :
            Continue(h, [pc |-> "bill", full |-> full, paid |-> intent.paid,
                         total |-> order.total, exists |-> exists])
      BY <2>6 DEF ReEvaluate
    <3> QED
      BY <1>0, <1>1, <3>1
  <2>7. CASE FindInvoice(h)
    <3>1. \E amount, total, covers, exists :
            Continue(h, [pc |-> "issue", amount |-> amount, total |-> total,
                         covers |-> covers, exists |-> exists,
                         paid |-> invoice.paid])
      BY <2>7 DEF FindInvoice
    <3> QED
      BY <1>0, <3>1
  <2>8. CASE IssueInvoice(h)
    <3>1. Done(h) \/ Continue(h, [pc |-> "mark", covers |-> req[h].covers])
      BY <2>8 DEF IssueInvoice
    <3> QED
      BY <1>0, <1>1, <3>1
  <2>9. CASE UpdateDraftWrite(h)
    <3>1. Done(h) \/ Continue(h, [req[h] EXCEPT !.pc = "updating"])
      BY <2>9 DEF UpdateDraftWrite
    <3>2. [req[h] EXCEPT !.pc = "updating"].pc = "updating"
      BY <2>9, RequestKinds DEF UpdateDraftWrite, At, TypeOK
    <3> QED
      BY <1>0, <1>1, <3>1, <3>2
  <2> QED
    BY <1>3, <2>1, <2>2, <2>3, <2>4, <2>5, <2>6, <2>7, <2>8, <2>9, Zenon
    DEF Proceed
<1>4. ASSUME NEW h \in Handlers, RequestFails(h) PROVE FreshReads'
  BY <1>1, <1>4 DEF RequestFails
<1>5. CASE DraftExpires \/ CleanupDraft \/ UNCHANGED vars
  <2>1. UNCHANGED <<intent, req>>
    BY <1>5 DEF DraftExpires, CleanupDraft, vars
  <2> QED
    BY <2>1 DEF FreshReads
<1> QED
  BY <1>2, <1>3, <1>4, <1>5, Zenon DEF Next

(* Without overlapping requests no payment is lost: the payment part       *)
(* implements the exact ledger, whatever fails half way.                   *)
THEOREM ImplementsExactLedger ==
  ASSUME OneAtATime PROVE Spec => ExactLedger
<1> USE DEF SafetyInv
<1>1. Init => Exact!LedgerInit /\ FreshReads
  BY DEF Init, Exact!LedgerInit, NoIntent, SeenKeys, FreshReads, Idle
<1>2. SafetyInv /\ FreshReads /\ [Next]_vars => FreshReads'
  BY FreshReadsStep
<1>3. SafetyInv /\ FreshReads /\ [Next]_vars
        => [Exact!LedgerNext]_Exact!ledgerVars
  <2> SUFFICES ASSUME SafetyInv, FreshReads, [Next]_vars
               PROVE  [Exact!LedgerNext]_Exact!ledgerVars
    OBVIOUS
  <2>1. CASE UNCHANGED <<intent, txns, ledger>>
    BY <2>1 DEF Exact!ledgerVars, SeenKeys
  <2>2. ASSUME NEW h \in Handlers, SubmitCommit(h)
        PROVE  [Exact!LedgerNext]_Exact!ledgerVars
    <3>1. CASE UNCHANGED <<intent, txns, ledger>>
      BY <2>1, <3>1
    <3>2. CASE /\ intent.locked = 0 /\ intent'.locked \in Nat \ {0}
               /\ intent'.paid = intent.paid
               /\ UNCHANGED <<txns, ledger>>
      <4>1. Exact!Open
        BY <3>2 DEF Exact!Open, SeenKeys
      <4> QED
        BY <4>1 DEF Exact!LedgerNext
    <3> QED
      BY <2>2, <3>1, <3>2, OpenStep
  <2>3. ASSUME NEW h \in Handlers, BankReject(h)
        PROVE  [Exact!LedgerNext]_Exact!ledgerVars
    <3>1. intent.locked > 0
      BY <2>3, IntentFacts
      DEF BankReject, At, RequestsCovered, CoveredBy, PaymentInv
    <3>2. Exact!Refuse
      BY <2>3, <3>1, NewKey DEF BankReject, Exact!Refuse
    <3> QED
      BY <3>2 DEF Exact!LedgerNext
  <2>4. ASSUME NEW h \in Handlers, BankApply(h) \/ OverrideCommit(h)
        PROVE  Exact!Credit /\ ledger'.credited - ledger.credited = req[h].amount
    <3> DEFINE next == NextPaid(req[h].paid, req[h].amount)
    <3>1. /\ intent'.locked = intent.locked /\ intent'.paid = next
      BY <2>4, PaymentWrites, IntentRowFacts
    <3>2. ledger.credited \in Nat /\ intent.paid \in Nat
      BY RowFields
    <3>3. /\ ledger'.credited \in Nat /\ ledger'.credited > ledger.credited
          /\ ledger'.credited - ledger.credited = req[h].amount
      BY <2>4, <3>2, PaymentWrites
    <3>4. req[h].paid = intent.paid
      BY <2>4 DEF FreshReads, BankApply, OverrideCommit, At
    <3>5. intent'.paid \in Exact!PaidAfter(ledger'.credited - ledger.credited)
      <4>1. next = Exact!Least(intent.locked, intent.paid + req[h].amount)
        BY <2>4, <3>2, <3>4, PaymentWrites DEF Exact!Least, NextPaid, Least
      <4>2. Exact!PaidAfter(req[h].amount)
              = {Exact!Least(intent.locked, intent.paid + req[h].amount)}
        BY DEF Exact!PaidAfter
      <4> QED
        BY <3>1, <3>3, <4>1, <4>2
    <3> QED
      BY <2>4, <3>1, <3>3, <3>5, PaymentWrites DEF Exact!Credit
  <2>5. ASSUME NEW h \in Handlers, OverrideCommit(h)
        PROVE  [Exact!LedgerNext]_Exact!ledgerVars
    <3>1. req[h].amount <= intent.locked
      BY <2>5 DEF OverrideCommit, At, RequestsCovered, CoveredBy
    <3>2. SeenKeys' = SeenKeys
      BY <2>5 DEF OverrideCommit, SeenKeys
    <3>3. Exact!OverrideCredit
      BY <2>4, <2>5, <3>1, <3>2 DEF Exact!OverrideCredit
    <3> QED
      BY <3>3 DEF Exact!LedgerNext
  <2>6. ASSUME NEW h \in Handlers, BankApply(h)
        PROVE  [Exact!LedgerNext]_Exact!ledgerVars
    <3>1. Exact!BankCredit
      BY <2>4, <2>6, NewKey DEF Exact!BankCredit
    <3> QED
      BY <3>1 DEF Exact!LedgerNext
  <2> QED
    BY <2>1, <2>2, <2>3, <2>5, <2>6, PaymentFrame
<1> QED
  BY <1>1, <1>2, <1>3, SafetyInvariant, PTL
  DEF Spec, ExactLedger, Exact!LedgerSpec
-----------------------------------------------------------------------------
(* When requests do not overlap, what an edit, a submission or an          *)
(* activation in flight has read of the order still holds, although the    *)
(* cleanup job may cancel the draft under it.                              *)
Unsubmitted(status) == status \in {"DRAFT", "CANCELLED"}

TermsRead(r) ==
  /\ r.pc \in {"update", "updating"} =>
       /\ Unsubmitted(order.status)
       /\ r.newLines = {} => r.total = order.itemsTotal
       /\ r.pc = "updating" => r.newLines # {}
  /\ r.pc = "submit" =>
       Unsubmitted(order.status) /\ r.total = order.total /\ ~r.hasIntent
  /\ r.pc \in {"gate", "activate"} => r.line \in OnOrder
  /\ r.pc = "activated" => r.status \in {"ACTIVE", "ACTIVATING"}

OrderTerms ==
  /\ order.total = order.itemsTotal
  /\ order.status = "NONE" \/ Unsubmitted(order.status) =>
       ~order.commerciallyLocked /\ intent.status = "NONE"
  /\ order.commerciallyLocked => intent.locked = order.total

SerialTerms == OrderTerms /\ \A h \in Handlers : TermsRead(req[h])

(* A request that goes on with r leaves the terms alone when the order     *)
(* keeps them and r has read what is there.                                *)
LEMMA TermsContinue ==
  ASSUME OneAtATime, SafetyInv, NEW h \in Handlers, NEW r, Continue(h, r),
         OrderTerms', TermsRead(r)'
  PROVE  SerialTerms'
<1>1. \A g \in Handlers : req'[g] = r
  BY DEF Continue, SafetyInv, TypeOK, OneAtATime
<1> QED
  BY <1>1 DEF SerialTerms, TermsRead

(* Requests at other steps have read nothing of the terms.                 *)
LEMMA TermsElsewhere ==
  ASSUME OneAtATime, SafetyInv, NEW h \in Handlers, NEW r, Continue(h, r),
         OrderTerms',
         r.pc \notin {"update", "updating", "submit", "gate", "activate", "activated"}
  PROVE  SerialTerms'
<1>1. TermsRead(r)'
  BY DEF TermsRead
<1> QED
  BY <1>1, TermsContinue

LEMMA TermsDone ==
  ASSUME OneAtATime, SafetyInv, NEW h \in Handlers, Done(h), OrderTerms'
  PROVE  SerialTerms'
BY TermsElsewhere DEF Done, Idle

(* A payment moves the order to a status of a submitted one and keeps the  *)
(* locked amount.                                                          *)
LEMMA TermsPaid ==
  ASSUME OneAtATime, SafetyInv, SerialTerms, NEW h \in Handlers,
         BankApply(h) \/ OverrideCommit(h)
  PROVE  SerialTerms'
<1> DEFINE next == NextPaid(req[h].paid, req[h].amount)
<1>1. /\ intent' = IntentRow(intent.locked, next)
      /\ intent'.locked = intent.locked
  BY PaymentWrites DEF IntentRow
<1>2. /\ order' = [order EXCEPT !.status = OrderStatusFor(intent'.status)]
      /\ \/ Done(h)
         \/ Continue(h, [pc |-> "reevaluate", source |-> "ON_PAID", force |-> FALSE])
  BY <1>1 DEF BankApply, OverrideCommit, RecordPayment
<1>3. OrderStatusFor(intent'.status) \in {"PAID", "PARTIALLY_PAID", "PENDING_PAYMENT"}
  BY DEF OrderStatusFor
<1>4. /\ order'.status \in {"PAID", "PARTIALLY_PAID", "PENDING_PAYMENT"}
      /\ order'.total = order.total /\ order'.itemsTotal = order.itemsTotal
      /\ order'.commerciallyLocked = order.commerciallyLocked
  BY <1>2, <1>3 DEF SafetyInv, TypeOK, Orders
<1>5. OrderTerms'
  BY <1>1, <1>4 DEF SerialTerms, OrderTerms, Unsubmitted
<1> QED
  BY <1>2, <1>5, TermsDone, TermsElsewhere

(* Beginning a request reads the terms as they are.                        *)
LEMMA TermsBegin ==
  ASSUME OneAtATime, SafetyInv, SerialTerms, NEW h \in Handlers, Begin(h)
  PROVE  SerialTerms'
<1>0. ASSUME UNCHANGED <<order, intent>> PROVE OrderTerms'
  BY <1>0 DEF SerialTerms, OrderTerms, Unsubmitted
<1>1. CASE CreateOrder(h)
  <2>1. PICK total \in Totals, discount \in Discounts :
          order' = [order EXCEPT !.status = "DRAFT", !.total = total,
                                 !.itemsTotal = total, !.discount = discount]
    BY <1>1 DEF CreateOrder
  <2>2. /\ order'.total = total /\ order'.itemsTotal = total
        /\ order'.status = "DRAFT"
        /\ order'.commerciallyLocked = order.commerciallyLocked
    BY <2>1 DEF SafetyInv, TypeOK, Orders
  <2>3. OrderTerms'
    BY <1>1, <2>2 DEF CreateOrder, SerialTerms, OrderTerms, Unsubmitted
  <2>4. Done(h) \/ Continue(h, [pc |-> "approval"])
    BY <1>1 DEF CreateOrder
  <2> QED
    BY <2>3, <2>4, TermsDone, TermsElsewhere
<1>2. CASE UpdateDraftRead(h)
  <2>1. PICK total, discount, ls :
          /\ Continue(h, [pc |-> "update", total |-> total,
                          discount |-> discount, newLines |-> ls])
          /\ ls = {} => total = order.itemsTotal
    BY <1>2 DEF UpdateDraftRead
  <2>2. order' = order /\ intent' = intent /\ Unsubmitted(order.status)
    BY <1>2 DEF UpdateDraftRead, Editable, Unsubmitted
  <2> DEFINE r == [pc |-> "update", total |-> total, discount |-> discount,
                   newLines |-> ls]
  <2>3. TermsRead(r)'
    BY <2>1, <2>2 DEF TermsRead, Unsubmitted
  <2> QED
    BY <1>0, <2>1, <2>2, <2>3, TermsContinue
<1>3. CASE SubmitRead(h)
  <2>1. /\ Continue(h, [pc |-> "submit", total |-> order.total,
                        hasIntent |-> intent.status # "NONE"])
        /\ order' = order /\ intent' = intent /\ order.status = "DRAFT"
    BY <1>3 DEF SubmitRead
  <2>2. intent.status = "NONE"
    BY <2>1 DEF SerialTerms, OrderTerms, Unsubmitted
  <2> DEFINE r == [pc |-> "submit", total |-> order.total,
                   hasIntent |-> intent.status # "NONE"]
  <2>3. r.pc = "submit" /\ r.total = order'.total /\ ~r.hasIntent
    BY <2>1, <2>2
  <2>4. PICK s : s = r
    OBVIOUS
  <2>5. TermsRead(s)'
    BY <2>1, <2>3, <2>4 DEF TermsRead, Unsubmitted
  <2> QED
    BY <1>0, <2>1, <2>4, <2>5, TermsContinue
<1>4. ASSUME NEW k \in Keys, NEW amount \in Amounts, BankRead(h, k, amount)
      PROVE  SerialTerms'
  BY <1>0, <1>4, TermsElsewhere DEF BankRead
<1>5. CASE OverrideRead(h)
  <2>1. /\ UNCHANGED <<order, intent>>
        /\ \E amount : Continue(h, [pc |-> "override", paid |-> intent.paid,
                                    amount |-> amount])
    BY <1>5 DEF OverrideRead
  <2> QED
    BY <1>0, <2>1, TermsElsewhere
<1>6. ASSUME NEW l \in LineIds, ActivateRead(h, l) PROVE SerialTerms'
  <2>1. PICK status : Continue(h, [pc |-> "gate", line |-> l, status |-> status])
    BY <1>6 DEF ActivateRead
  <2>2. l \in OnOrder /\ UNCHANGED <<order, intent, lines>>
    BY <1>6 DEF ActivateRead
  <2> DEFINE r == [pc |-> "gate", line |-> l, status |-> status]
  <2>3. TermsRead(r)'
    BY <2>2 DEF TermsRead, OnOrder
  <2> QED
    BY <1>0, <2>1, <2>2, <2>3, TermsContinue
<1>7. ASSUME NEW force \in BOOLEAN, ManualReEvaluate(h, force)
      PROVE  SerialTerms'
  BY <1>0, <1>7, TermsElsewhere DEF ManualReEvaluate
<1>8. CASE InvoiceFromOrder(h)
  <2>1. /\ UNCHANGED <<order, intent>>
        /\ \E amount, covers :
             Continue(h, [pc |-> "find", amount |-> amount,
                          total |-> order.total, covers |-> covers])
    BY <1>8 DEF InvoiceFromOrder
  <2> QED
    BY <1>0, <2>1, TermsElsewhere
<1> QED
  BY <1>1, <1>2, <1>3, <1>4, <1>5, <1>6, <1>7, <1>8, Zenon DEF Begin

(* No step of a request undoes the terms it has read.                      *)
LEMMA TermsProceed ==
  ASSUME OneAtATime, SafetyInv, SerialTerms, NEW h \in Handlers, Proceed(h)
  PROVE  SerialTerms'
<1> USE DEF SafetyInv
<1>0. ASSUME UNCHANGED <<order, intent>> PROVE OrderTerms'
  BY <1>0 DEF SerialTerms, OrderTerms, Unsubmitted
<1>r. req[h] \in Requests /\ TermsRead(req[h]) /\ OrderTerms
  BY DEF TypeOK, SerialTerms
<1>1. CASE RequestApproval(h)
  <2>1. /\ Done(h) /\ UNCHANGED intent
        /\ order'.status = order.status /\ order'.total = order.total
        /\ order'.itemsTotal = order.itemsTotal
        /\ order'.commerciallyLocked = order.commerciallyLocked
    BY <1>1 DEF RequestApproval, TypeOK, Orders
  <2>2. OrderTerms'
    BY <1>r, <2>1 DEF OrderTerms, Unsubmitted
  <2> QED
    BY <2>1, <2>2, TermsDone
<1>2. CASE UpdateDraftWrite(h)
  <2>1. /\ req[h].pc = "update" /\ UNCHANGED <<intent, lines>>
        /\ Unsubmitted(order.status)
    BY <1>2, <1>r DEF UpdateDraftWrite, At, TermsRead
  <2>2. CASE req[h].newLines = {}
    <3>1. /\ order' = [order EXCEPT !.total = req[h].total] /\ Done(h)
          /\ req[h].total = order.itemsTotal
      BY <1>2, <1>r, <2>1, <2>2 DEF UpdateDraftWrite, TermsRead
    <3>2. order' = order
      BY <1>r, <3>1 DEF OrderTerms, TypeOK, Orders
    <3> QED
      BY <1>0, <2>1, <3>1, <3>2, TermsDone
  <2>3. CASE req[h].newLines # {}
    <3>1. /\ Continue(h, [req[h] EXCEPT !.pc = "updating"]) /\ order' = order
      BY <1>2, <2>3 DEF UpdateDraftWrite
    <3>2. PICK r : r = [req[h] EXCEPT !.pc = "updating"]
      OBVIOUS
    <3>3. r.pc = "updating" /\ r.newLines = req[h].newLines
      BY <1>r, <2>1, <3>2, RequestKinds
    <3>4. TermsRead(r)'
      BY <2>1, <2>3, <3>1, <3>3 DEF TermsRead, Unsubmitted
    <3> QED
      BY <1>0, <2>1, <3>1, <3>2, <3>4, TermsContinue
  <2> QED
    BY <2>2, <2>3
<1>3. CASE UpdateDraftCommit(h)
  <2>1. /\ Done(h) /\ UNCHANGED intent /\ Unsubmitted(order.status)
        /\ order'.status = order.status
        /\ order'.total = req[h].total /\ order'.itemsTotal = req[h].total
        /\ order'.commerciallyLocked = order.commerciallyLocked
    BY <1>3, <1>r DEF UpdateDraftCommit, At, TermsRead, TypeOK, Orders
  <2>2. OrderTerms'
    BY <1>r, <2>1 DEF OrderTerms, Unsubmitted
  <2> QED
    BY <2>1, <2>2, TermsDone
<1>4. CASE SubmitCommit(h)
  <2>1. /\ req[h].pc = "submit" /\ Done(h) /\ intent.status = "NONE"
        /\ req[h].total = order.total /\ ~req[h].hasIntent
    BY <1>4, <1>r DEF SubmitCommit, At, TermsRead, OrderTerms
  <2>2. /\ intent' = IntentRow(req[h].total, 0)
        /\ order' = [order EXCEPT !.status = "PENDING_PAYMENT",
                                  !.commerciallyLocked = TRUE]
    BY <1>4, <2>1 DEF SubmitCommit
  <2>3. /\ intent'.locked = order.total
        /\ order'.status = "PENDING_PAYMENT"
        /\ order'.total = order.total /\ order'.itemsTotal = order.itemsTotal
    BY <2>1, <2>2 DEF IntentRow, TypeOK, Orders
  <2>4. OrderTerms'
    BY <1>r, <2>3 DEF OrderTerms, Unsubmitted
  <2> QED
    BY <2>1, <2>4, TermsDone
<1>5. CASE BankApply(h) \/ OverrideCommit(h)
  BY <1>5, TermsPaid
<1>6. CASE \/ DeadlockVictim(h) \/ BankConflict(h) \/ BankReject(h) \/ WriteInvoice(h)
  <2>1. Done(h) /\ UNCHANGED <<order, intent>>
    BY <1>6 DEF DeadlockVictim, BankConflict, BankReject, WriteInvoice
  <2> QED
    BY <1>0, <2>1, TermsDone
<1>7. CASE ActivateGate(h)
  <2>1. /\ UNCHANGED <<order, intent, lines>> /\ req[h].pc = "gate"
        /\ Done(h) \/ Continue(h, [req[h] EXCEPT !.pc = "activate"])
    BY <1>7 DEF ActivateGate, At
  <2>2. PICK r : r = [req[h] EXCEPT !.pc = "activate"]
    OBVIOUS
  <2>3. r.pc = "activate" /\ r.line = req[h].line
    BY <1>r, <2>1, <2>2, RequestKinds
  <2>4. TermsRead(r)'
    BY <1>r, <2>1, <2>3 DEF TermsRead, OnOrder
  <2> QED
    BY <1>0, <2>1, <2>2, <2>4, TermsContinue, TermsDone
<1>8. CASE ActivateScan(h)
  <2>1. /\ UNCHANGED <<order, intent, lines>>
        /\ req[h].line \in OnOrder
        /\ Continue(h, [pc |-> "activated", line |-> req[h].line,
                        status |-> StatusAfterActivation(req[h].line, req[h].status)])
    BY <1>8, <1>r DEF ActivateScan, At, TermsRead
  <2>2. StatusAfterActivation(req[h].line, req[h].status) \in {"ACTIVE", "ACTIVATING"}
    BY <2>1 DEF StatusAfterActivation
  <2>3. PICK r : r = [pc |-> "activated", line |-> req[h].line,
                      status |-> StatusAfterActivation(req[h].line, req[h].status)]
    OBVIOUS
  <2>4. TermsRead(r)'
    BY <2>2, <2>3 DEF TermsRead
  <2> QED
    BY <1>0, <2>1, <2>3, <2>4, TermsContinue
<1>9. CASE ActivateCommit(h)
  <2>1. /\ req[h].status \in {"ACTIVE", "ACTIVATING"} /\ UNCHANGED intent
        /\ order' = [order EXCEPT !.status = req[h].status]
        /\ \/ Done(h)
           \/ Continue(h, [pc |-> "reevaluate", source |-> "ON_ACTIVATED",
                           force |-> FALSE])
    BY <1>9, <1>r DEF ActivateCommit, At, TermsRead
  <2>2. /\ order'.status \in {"ACTIVE", "ACTIVATING"}
        /\ order'.total = order.total /\ order'.itemsTotal = order.itemsTotal
        /\ order'.commerciallyLocked = order.commerciallyLocked
    BY <2>1 DEF TypeOK, Orders
  <2>3. OrderTerms'
    BY <1>r, <2>1, <2>2 DEF OrderTerms, Unsubmitted
  <2> QED
    BY <2>1, <2>3, TermsDone, TermsElsewhere
<1>10. CASE ReEvaluate(h)
  <2>1. /\ UNCHANGED <<order, intent>>
        /\ \/ Done(h)
           \/ \E full, exists :
                Continue(h, [pc |-> "bill", full |-> full, paid |-> intent.paid,
                             total |-> order.total, exists |-> exists])
    BY <1>10 DEF ReEvaluate
  <2> QED
    BY <1>0, <2>1, TermsDone, TermsElsewhere
<1>11. CASE FindInvoice(h)
  <2>1. /\ UNCHANGED <<order, intent>>
        /\ \E amount, total, covers, exists :
             Continue(h, [pc |-> "issue", amount |-> amount, total |-> total,
                          covers |-> covers, exists |-> exists,
                          paid |-> invoice.paid])
    BY <1>11 DEF FindInvoice
  <2> QED
    BY <1>0, <2>1, TermsElsewhere
<1>12. CASE IssueInvoice(h)
  <2>1. /\ UNCHANGED <<order, intent>>
        /\ Done(h) \/ Continue(h, [pc |-> "mark", covers |-> req[h].covers])
    BY <1>12 DEF IssueInvoice
  <2> QED
    BY <1>0, <2>1, TermsDone, TermsElsewhere
<1>13. CASE MarkOrder(h)
  <2>1. /\ Done(h) /\ UNCHANGED intent
        /\ order'.status \in {"PAID", "PENDING_PAYMENT"}
        /\ order'.total = order.total /\ order'.itemsTotal = order.itemsTotal
        /\ order'.commerciallyLocked = order.commerciallyLocked
    BY <1>13 DEF MarkOrder, TypeOK, Orders
  <2>2. OrderTerms'
    BY <1>r, <2>1 DEF OrderTerms, Unsubmitted
  <2> QED
    BY <2>1, <2>2, TermsDone
<1> QED
  BY <1>1, <1>2, <1>3, <1>4, <1>5, <1>6, <1>7, <1>8, <1>9, <1>10, <1>11, <1>12,
     <1>13, Zenon DEF Proceed

(* Time and the cleanup job keep an unsubmitted order unsubmitted.         *)
LEMMA TermsStep ==
  ASSUME OneAtATime, SafetyInv, SerialTerms, [Next]_vars
  PROVE  SerialTerms'
<1>1. ASSUME NEW h \in Handlers, Begin(h) PROVE SerialTerms'
  BY <1>1, TermsBegin
<1>2. ASSUME NEW h \in Handlers, Proceed(h) PROVE SerialTerms'
  BY <1>2, TermsProceed
<1>3. ASSUME NEW h \in Handlers, RequestFails(h) PROVE SerialTerms'
  <2>1. Done(h) /\ UNCHANGED <<order, intent>>
    BY <1>3 DEF RequestFails
  <2>2. OrderTerms'
    BY <2>1 DEF SerialTerms, OrderTerms, Unsubmitted
  <2> QED
    BY <2>1, <2>2, TermsDone
<1>4. CASE DraftExpires \/ CleanupDraft
  <2>1. /\ UNCHANGED <<intent, lines, req>>
        /\ order.status = "DRAFT" /\ Unsubmitted(order'.status)
        /\ order'.total = order.total /\ order'.itemsTotal = order.itemsTotal
        /\ order'.commerciallyLocked = order.commerciallyLocked
    BY <1>4 DEF DraftExpires, CleanupDraft, Cleanable, Unsubmitted, SafetyInv,
         TypeOK, Orders
  <2>2. OrderTerms'
    BY <2>1 DEF SerialTerms, OrderTerms, Unsubmitted
  <2>3. ASSUME NEW h \in Handlers PROVE TermsRead(req[h])'
    BY <2>1 DEF SerialTerms, TermsRead, OnOrder
  <2> QED
    BY <2>2, <2>3 DEF SerialTerms
<1>5. CASE UNCHANGED vars
  BY <1>5 DEF vars, SerialTerms, OrderTerms, TermsRead, Unsubmitted, OnOrder
<1> QED
  BY <1>1, <1>2, <1>3, <1>4, <1>5, Zenon DEF Next

(* Without overlapping requests the terms are locked from submission on.   *)
LEMMA TermsInvariant ==
  ASSUME OneAtATime PROVE Spec => []SerialTerms
<1>1. Init => SerialTerms
  BY DEF Init, SerialTerms, OrderTerms, TermsRead, Unsubmitted, NoIntent, Idle
<1>2. SafetyInv /\ SerialTerms /\ [Next]_vars => SerialTerms'
  BY TermsStep
<1> QED
  BY <1>1, <1>2, SafetyInvariant, PTL DEF Spec

(* The amount to be paid, the order total and the sum of the lines agree   *)
(* from submission on, whatever fails half way and whenever the cleanup    *)
(* job comes, if requests do not overlap (updateDraftOrder,                *)
(* submitCheckoutOrder).                                                   *)
THEOREM TermsStayLocked ==
  ASSUME OneAtATime PROVE Spec => []CommercialTermsLocked
<1>1. SerialTerms => CommercialTermsLocked
  BY DEF SerialTerms, OrderTerms, CommercialTermsLocked
<1> QED
  BY <1>1, TermsInvariant, PTL

(* A draft or cancelled order cannot be paid, if requests do not overlap   *)
(* (completeActivationLine, SalesDraftCleanupService.runCleanup).          *)
THEOREM DraftsHaveNoIntent ==
  ASSUME OneAtATime PROVE Spec => []DraftHasNoIntent
<1>1. SerialTerms => DraftHasNoIntent
  BY DEF SerialTerms, OrderTerms, DraftHasNoIntent, Unsubmitted
<1> QED
  BY <1>1, TermsInvariant, PTL
=============================================================================
