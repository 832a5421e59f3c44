----------------------------- MODULE MCIPMapper -----------------------------
(* IPMapper on a pool too small for its targets, so that it wraps twice.   *)
EXTENDS IPMapper, TLC

CONSTANTS t1, t2, t3, t4, t5

MCTargets == {t1, t2, t3, t4, t5}

MCStart == -3   \* like 126.0.0.0: Next() is still outside the prefix

=============================================================================
