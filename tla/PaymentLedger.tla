---------------------------- MODULE PaymentLedger ----------------------------
(***************************************************************************)
(* What the payment part of the checkout promises, without its requests:   *)
(* one order, the amount locked for it, the money credited to it and the   *)
(* paid amount the rest of the system reads.                               *)
(*                                                                         *)
(* Checkout.tla implements it twice: with MayLose = FALSE when requests    *)
(* never overlap, and with MayLose = TRUE under the READ COMMITTED         *)
(* isolation the code really runs at.                                      *)
(***************************************************************************)
EXTENDS Integers

CONSTANTS
  Keys,     \* dedupe hashes of bank events
  MayLose   \* TRUE: a credit may be overwritten by a concurrent one

VARIABLES
  locked,    \* amount locked at submission, 0 before it
  paid,      \* paid amount recorded on the payment intent
  credited,  \* money accepted so far: applied bank events and overrides
  accepted   \* keys that have a transaction row, applied or rejected

ledgerVars == <<locked, paid, credited, accepted>>

Least(a, b) == IF a <= b THEN a ELSE b

LedgerInit ==
  /\ locked = 0
  /\ paid = 0
  /\ credited = 0
  /\ accepted = {}

(* Submission locks a positive amount, once.                               *)
Open ==
  /\ locked = 0
  /\ locked' \in Nat \ {0}
  /\ UNCHANGED <<paid, credited, accepted>>

(* The paid amount after one more credit: exact, or, when credits can be   *)
(* lost, anything that is covered by the money received.                   *)
PaidAfter(amount) ==
  IF MayLose
  THEN 0 .. Least(locked, credited + amount)
  ELSE {Least(locked, paid + amount)}

Credit ==
  /\ locked > 0
  /\ credited' \in Nat
  /\ credited' > credited
  /\ paid' \in PaidAfter(credited' - credited)
  /\ UNCHANGED locked

(* A bank event is credited under a key that was never seen before.        *)
BankCredit ==
  /\ Credit
  /\ \E k \in Keys \ accepted : accepted' = accepted \cup {k}

(* A manual override credits no more than what was locked.                 *)
OverrideCredit ==
  /\ Credit
  /\ credited' - credited <= locked
  /\ UNCHANGED accepted

(* A bank event refused by policy uses up its key and moves no money.      *)
Refuse ==
  /\ locked > 0
  /\ \E k \in Keys \ accepted : accepted' = accepted \cup {k}
  /\ UNCHANGED <<locked, paid, credited>>

LedgerNext == Open \/ BankCredit \/ OverrideCredit \/ Refuse

LedgerSpec == LedgerInit /\ [][LedgerNext]_ledgerVars
=============================================================================
