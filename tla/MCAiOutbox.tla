------------------------------ MODULE MCAiOutbox ------------------------------
(* Small instances of AiOutbox for TLC.                                    *)
EXTENDS AiOutbox

CONSTANTS j1, d1, d2, c1, none
=============================================================================
