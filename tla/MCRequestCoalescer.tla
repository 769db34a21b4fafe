------------------------- MODULE MCRequestCoalescer -------------------------
(***************************************************************************)
(* Three requests for one key and one for another: a leader, a waiter that *)
(* joins it, a third request that finds the waiter or a cancelled leader,  *)
(* and a request that must not be affected.                                *)
(***************************************************************************)
EXTENDS RequestCoalescer

CONSTANTS r1, r2, r3, r4, k1, k2

MCKeyOf == [r \in Requests |-> IF r = r4 THEN k2 ELSE k1]
=============================================================================
