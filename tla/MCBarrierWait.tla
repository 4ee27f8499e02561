---------------------------- MODULE MCBarrierWait ---------------------------
(* BarrierWait with four callers; WeakStores is set in the .cfg files. *)
EXTENDS BarrierWait

CONSTANTS p1, p2, p3, p4

MCProcs == {p1, p2, p3, p4}
=============================================================================
