------------------------------ MODULE MCBilling ------------------------------
(* Small instances of Billing for TLC.                                     *)
EXTENDS Billing, TLC

CONSTANTS o1, e1, e2, h1, h2, none

(* Requests are alike, and so are edits. Months come one after the other.  *)
Interchangeable ==
  Permutations({h1, h2}) \cup Permutations({e1, e2})

(* ClosedPeriodIsFrozen speaks of these states alone, and no step leads    *)
(* back to them: TLC goes no further from the others.                      *)
Undisturbed == ~clash /\ \A o \in Orders : "overlap" \notin mixed[o]
==============================================================================
