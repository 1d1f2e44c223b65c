------------------------------ MODULE MCCheckout ------------------------------
(* Small instances of Checkout for TLC.                                    *)
EXTENDS Checkout, TLC

CONSTANTS h1, h2, k1, k2, l1, l2, l3

Interchangeable == Permutations(Handlers) \cup Permutations(Keys)
                     \cup Permutations(LineIds)
=============================================================================
