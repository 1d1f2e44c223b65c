------------------------------- MODULE MCAudit -------------------------------
(* Small instances of Audit for TLC.                                       *)
EXTENDS Audit

CONSTANTS w1, w2, r1, r2, nobody
==============================================================================
