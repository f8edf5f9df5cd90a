------------------------------ MODULE MCFwEnv ------------------------------
(* Instances of FwEnv for TLC: one write-once variable and another. *)
EXTENDS FwEnv

CONSTANTS ethaddr, mtdset, v1, v2, r1


MCNames   == {ethaddr, mtdset}
MCOnce    == {ethaddr}
MCValues  == {v1, v2}
MCDefault == [n \in Names |-> IF n = mtdset THEN v1 ELSE NoValue]
=============================================================================
