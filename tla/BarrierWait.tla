----------------------------- MODULE BarrierWait ----------------------------
(***************************************************************************)
(* The sense-reversing spin barrier of the benchmark host                  *)
(* (cuda_scheduling_examiner_mirror/src/barrier_wait.c).                   *)
(*                                                                         *)
(* The barrier lives in memory shared by the threads or processes of one   *)
(* experiment: a count of those still to arrive and a "sense" that flips   *)
(* each time the barrier opens.  Each caller keeps a private sense of its  *)
(* own.  One action is one access to the shared memory.                    *)
(***************************************************************************)
EXTENDS Integers, FiniteSets

CONSTANTS
  Procs,        \* the callers: process_count of them
  WeakStores    \* TRUE for a CPU that may make the plain store to sense
                \* visible before the earlier store to processes_remaining

ASSUME ProcsAssumption == IsFiniteSet(Procs) /\ Procs # {}
ASSUME WeakStoresAssumption == WeakStores \in BOOLEAN

VARIABLES
  processes_remaining,  \* atomic_int in shared memory
  sense,                \* volatile int in shared memory
  local_sense,          \* each caller's *local_sense
  at                    \* where each caller is in BarrierWait

barrierVars == <<processes_remaining, sense, local_sense, at>>

process_count == Cardinality(Procs)

(***************************************************************************)
(* "outside": not in BarrierWait.  "spin": waiting for sense to change.    *)
(* "reset" and "release": the last arrival, about to store the counter and *)
(* about to store sense.  "late_reset": the last arrival on a CPU that     *)
(* has made the two stores visible in the other order.                     *)
(***************************************************************************)
Places == {"outside", "spin", "reset", "release", "late_reset"}

BarrierCreate ==
  /\ processes_remaining = process_count
  /\ sense = 0
  /\ local_sense = [p \in Procs |-> 0]
  /\ at = [p \in Procs |-> "outside"]

-----------------------------------------------------------------------------
(* Slips that the properties below must catch: variants of the actions they *)
(* stand before, never part of Next.                                        *)

\* The decremented value is compared with 1 in place of the fetched one.
ArriveDecrementFirst(p) ==
  /\ at[p] = "outside"
  /\ local_sense' = [local_sense EXCEPT ![p] = 1 - @]
  /\ processes_remaining' = processes_remaining - 1
  /\ at' = [at EXCEPT ![p] = IF processes_remaining' = 1 THEN "reset" ELSE "spin"]
  /\ UNCHANGED sense

\* The counter is not reset for the next use.
ResetForgotten(p) ==
  /\ at[p] = "reset"
  /\ at' = [at EXCEPT ![p] = "release"]
  /\ UNCHANGED <<processes_remaining, sense, local_sense>>

\* The last arrival returns without storing its sense.
ReleaseForgotten(p) ==
  /\ at[p] = "release"
  /\ at' = [at EXCEPT ![p] = "outside"]
  /\ UNCHANGED <<processes_remaining, sense, local_sense>>

-----------------------------------------------------------------------------
(* The actions of the code *)

\* The entry of BarrierWait: flip the private sense, fetch and decrement the
\* counter.  The caller that fetched 1 is the last one.
Arrive(p) ==
  /\ at[p] = "outside"
  /\ local_sense' = [local_sense EXCEPT ![p] = 1 - @]
  /\ processes_remaining' = processes_remaining - 1
  /\ at' = [at EXCEPT ![p] = IF processes_remaining = 1 THEN "reset" ELSE "spin"]
  /\ UNCHANGED sense

\* The last arrival stores process_count in the counter ...
ResetCounter(p) ==
  /\ at[p] = "reset"
  /\ processes_remaining' = process_count
  /\ at' = [at EXCEPT ![p] = "release"]
  /\ UNCHANGED <<sense, local_sense>>

\* ... then stores its private sense in the shared one, and returns.
Release(p) ==
  /\ at[p] = "release"
  /\ sense' = local_sense[p]
  /\ at' = [at EXCEPT ![p] = "outside"]
  /\ UNCHANGED <<processes_remaining, local_sense>>

\* sense is not atomic, so nothing orders the two stores on a weak memory.
ReleaseFirst(p) ==
  /\ WeakStores
  /\ at[p] = "reset"
  /\ sense' = local_sense[p]
  /\ at' = [at EXCEPT ![p] = "late_reset"]
  /\ UNCHANGED <<processes_remaining, local_sense>>

LateReset(p) ==
  /\ at[p] = "late_reset"
  /\ processes_remaining' = process_count
  /\ at' = [at EXCEPT ![p] = "outside"]
  /\ UNCHANGED <<sense, local_sense>>

\* A spinning caller sees the sense it waits for, and returns.
Leave(p) ==
  /\ at[p] = "spin"
  /\ sense = local_sense[p]
  /\ at' = [at EXCEPT ![p] = "outside"]
  /\ UNCHANGED <<processes_remaining, sense, local_sense>>

\* What a caller inside BarrierWait does next, without the help of its caller.
Proceed(p) ==
  \/ ResetCounter(p)
  \/ Release(p)
  \/ ReleaseFirst(p)
  \/ LateReset(p)
  \/ Leave(p)

BarrierNext == \E p \in Procs : Arrive(p) \/ Proceed(p)

BarrierSpec == BarrierCreate /\ [][BarrierNext]_barrierVars

\* The callers are scheduled while they are inside; nothing obliges one of
\* them ever to call BarrierWait again.
BarrierFairSpec == BarrierSpec /\ \A p \in Procs : WF_barrierVars(Proceed(p))

-----------------------------------------------------------------------------
(* Properties *)

Waiting == {p \in Procs : local_sense[p] # sense}

\* The callers that fetched 1 and have not finished what the last one does.
Busy == {p \in Procs : at[p] \in {"reset", "release", "late_reset"}}

\* The types of the variables on any CPU.
BarrierShape ==
  /\ processes_remaining \in Int
  /\ sense \in {0, 1}
  /\ local_sense \in [Procs -> {0, 1}]
  /\ at \in [Procs -> Places]

\* The counter stays in its range: below 0 it counts the callers that come
\* back before a late reset.
BarrierTypeOK ==
  /\ BarrierShape
  /\ processes_remaining \in 1 - process_count .. process_count

\* The two stores have not been seen in the other order.
Ordered == \A p \in Procs : at[p] # "late_reset"

\* The counter agrees with the senses: it has counted exactly the callers
\* whose private sense differs from the shared one, except while the last
\* arrival has reset it and not yet released the others.
CounterCountsArrivals ==
  processes_remaining =
    IF \E p \in Procs : at[p] = "release"
    THEN process_count
    ELSE process_count - Cardinality(Waiting)

\* As long as the stores of barrier_wait.c:64-65 are seen in their order, no
\* arrival is ever lost, nor counted twice.
OrderedExact == []Ordered => []CounterCountsArrivals

\* On any CPU, a single caller takes itself for the last one, and only once
\* every caller has arrived: counter and sense are never reset twice for one
\* opening, nor while somebody still has to come (barrier_wait.c:61-66).
OneLastArrival ==
  /\ \A p, q \in Busy : p = q
  /\ \A p \in Procs : at[p] \in {"reset", "release"} => Waiting = Procs

\* A caller whose use of the barrier is over carries the shared sense.
SensesAgreeOutside ==
  \A p \in Procs : at[p] \in {"outside", "late_reset"} => local_sense[p] = sense

\* The counter may be higher than the number of callers still to come (an
\* arrival was wiped out by a late reset), never lower.
CounterNeverLow ==
  /\ Busy = {} => processes_remaining >= process_count - Cardinality(Waiting)
  /\ \A p \in Procs :
       /\ at[p] \in {"reset", "late_reset"} => processes_remaining <= 0
       /\ at[p] = "release" => processes_remaining = process_count

\* The inductive invariant behind the refinement: on any CPU the barrier opens
\* once per use, when all have come, and no caller leaves with another sense
\* than the shared one (barrier_wait.c:55-71).
BarrierInv ==
  /\ BarrierShape
  /\ OneLastArrival
  /\ SensesAgreeOutside
  /\ CounterNeverLow

\* The barrier implements the abstract rendezvous: it lets nobody out before
\* everybody is in, however often it is used and however far a fast caller
\* runs ahead of a slow one (barrier_wait.c:17, "to prevent multiple barriers
\* from interfering with each other").  It holds on any CPU.
RV == INSTANCE Rendezvous WITH inside <- Waiting
ImplementsRendezvous == RV!Spec

\* Once every caller is inside, each one gets out, even if those that are out
\* never call again: no release is lost to a caller that had not yet looked
\* (barrier_wait.c:62-63, "release the other processes").
AllInAllOut ==
  \A p \in Procs : (Waiting = Procs) ~> (at[p] = "outside")

\* The same, as long as the two stores are seen in their order.
OrderedAllOut == []Ordered => AllInAllOut

=============================================================================
