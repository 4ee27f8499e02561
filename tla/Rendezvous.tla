----------------------------- MODULE Rendezvous -----------------------------
(***************************************************************************)
(* What a synchronization barrier promises its callers, apart from how it  *)
(* is built: processes come in one at a time, and the barrier opens for    *)
(* all of them at once, only when every one of them is inside.  A process  *)
(* that has come out may come in again immediately.                        *)
(***************************************************************************)
EXTENDS FiniteSets

CONSTANT Procs          \* the processes that share the barrier

VARIABLE inside         \* those that have called BarrierWait and may not go on

Init == inside = {}

Enter(p) ==
  /\ p \notin inside
  /\ inside' = inside \cup {p}

Open ==
  /\ inside = Procs
  /\ inside' = {}

Next == Open \/ \E p \in Procs : Enter(p)

Spec == Init /\ [][Next]_inside

=============================================================================
