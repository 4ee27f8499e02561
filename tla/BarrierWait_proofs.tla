------------------------- MODULE BarrierWait_proofs -------------------------
(***************************************************************************)
(* Proofs about the sense-reversing barrier, for every finite set of       *)
(* callers and both memory orders.                                         *)
(***************************************************************************)
EXTENDS BarrierWait, FiniteSetTheorems, TLAPS

\* The callers are finitely many, and so are those of them that wait; if as
\* many wait as there are, all of them do.
LEMMA WaitingFinite ==
  /\ process_count \in Nat
  /\ IsFiniteSet(Waiting)
  /\ Cardinality(Waiting) \in 0 .. process_count
  /\ Cardinality(Waiting) = process_count => Waiting = Procs
<1>1. Waiting \in SUBSET Procs
  BY DEF Waiting
<1>2. process_count \in Nat
  BY ProcsAssumption, FS_CardinalityType DEF process_count
<1>3. IsFiniteSet(Waiting) /\ Cardinality(Waiting) <= Cardinality(Procs)
      /\ (Cardinality(Procs) = Cardinality(Waiting) => Procs = Waiting)
  BY <1>1, ProcsAssumption, FS_Subset
<1>4. Cardinality(Waiting) \in Nat
  BY <1>3, FS_CardinalityType
<1> QED
  BY <1>2, <1>3, <1>4 DEF process_count

\* With nobody waiting the count of those that wait is zero; the set of
\* callers is not empty.
LEMMA CountsAtTheEnds ==
  /\ Waiting = {} => Cardinality(Waiting) = 0
  /\ process_count > 0
<1>1. process_count # 0
  BY ProcsAssumption, FS_EmptySet DEF process_count
<1> QED
  BY <1>1, WaitingFinite, FS_EmptySet

\* The barrier as BarrierCreate leaves it satisfies the invariant: nobody
\* waits, and the counter is full.
LEMMA InitInv == BarrierCreate => BarrierInv
<1> SUFFICES ASSUME BarrierCreate PROVE BarrierInv
  OBVIOUS
<1>1. Waiting = {}
  BY DEF BarrierCreate, Waiting
<1>2. Cardinality(Waiting) = 0
  BY <1>1, CountsAtTheEnds
<1> QED
  BY <1>1, <1>2, WaitingFinite
  DEF BarrierCreate, BarrierInv, BarrierShape, OneLastArrival,
      SensesAgreeOutside, CounterNeverLow, Busy, Places

\* An arrival adds the caller to those that wait, and to no other effect.
LEMMA ArriveWaiting ==
  ASSUME BarrierInv, NEW p \in Procs, Arrive(p)
  PROVE  /\ p \notin Waiting
         /\ Waiting' = Waiting \cup {p}
         /\ Cardinality(Waiting') = Cardinality(Waiting) + 1
         /\ \A q \in Procs : at[q] \notin {"reset", "release"}
<1>1. p \notin Waiting
  BY DEF BarrierInv, SensesAgreeOutside, Arrive, Waiting
<1>2. Waiting' = Waiting \cup {p}
  BY <1>1 DEF BarrierInv, BarrierShape, Arrive, Waiting
<1>3. Cardinality(Waiting') = Cardinality(Waiting) + 1
  BY <1>1, <1>2, WaitingFinite, FS_AddElement
<1>4. \A q \in Procs : at[q] \notin {"reset", "release"}
  BY <1>1 DEF BarrierInv, OneLastArrival
<1> QED
  BY <1>1, <1>2, <1>3, <1>4

\* The release by the last arrival empties the set of those that wait.
LEMMA OpenWaiting ==
  ASSUME BarrierInv, NEW p \in Procs, at[p] \in {"reset", "release"},
         sense' = local_sense[p], UNCHANGED local_sense
  PROVE  /\ Waiting = Procs
         /\ Waiting' = {}
         /\ \A q \in Procs : local_sense'[q] = sense'
<1>1. Waiting = Procs
  BY DEF BarrierInv, OneLastArrival
<1>2. \A q \in Procs : local_sense[q] # sense
  BY <1>1 DEF Waiting
<1>3. \A q \in Procs : local_sense[q] = local_sense[p]
  BY <1>2 DEF BarrierInv, BarrierShape
<1> QED
  BY <1>1, <1>3 DEF Waiting

\* Every step of a caller preserves the invariant.
LEMMA StepInv == BarrierInv /\ [BarrierNext]_barrierVars => BarrierInv'
<1> SUFFICES ASSUME BarrierInv, [BarrierNext]_barrierVars
             PROVE  BarrierInv'
  OBVIOUS
<1> USE DEF BarrierInv, BarrierShape, Places
<1>1. ASSUME NEW p \in Procs, Arrive(p)
      PROVE  BarrierInv'
  <2>1. /\ Waiting' = Waiting \cup {p}
        /\ Cardinality(Waiting') = Cardinality(Waiting) + 1
        /\ \A q \in Procs : at[q] \notin {"reset", "release"}
    BY <1>1, ArriveWaiting
  <2>2. Cardinality(Waiting) \in Nat /\ process_count \in Nat
    BY WaitingFinite
  <2>3. BarrierShape'
    BY <1>1 DEF Arrive
  <2>4. SensesAgreeOutside'
    BY <1>1 DEF Arrive, SensesAgreeOutside
  <2>5. CASE processes_remaining = 1
    <3>1. Busy = {}
      BY <2>1, <2>5 DEF Busy, CounterNeverLow
    <3>2. Cardinality(Waiting)' >= process_count
      BY <2>1, <2>2, <2>5, <3>1 DEF CounterNeverLow
    <3>3. Waiting' = Procs
      <4>1. Waiting' \in SUBSET Procs
        BY DEF Waiting
      <4>2. Cardinality(Waiting') <= Cardinality(Procs)
            /\ (Cardinality(Procs) = Cardinality(Waiting') => Procs = Waiting')
        BY <4>1, ProcsAssumption, FS_Subset
      <4> QED
        BY <2>1, <2>2, <3>2, <4>2 DEF process_count
    <3>4. Busy' = {p}
      BY <1>1, <2>5, <3>1 DEF Arrive, Busy
    <3>5. OneLastArrival'
      BY <3>3, <3>4 DEF OneLastArrival
    <3>6. CounterNeverLow'
      BY <1>1, <2>1, <2>5, <3>1, <3>4 DEF Arrive, CounterNeverLow, Busy
    <3> QED
      BY <2>3, <2>4, <3>5, <3>6
  <2>6. CASE processes_remaining # 1
    <3>1. Busy' = Busy
      BY <1>1, <2>6 DEF Arrive, Busy
    <3>2. \A q \in Procs : at'[q] \notin {"reset", "release"}
      BY <1>1, <2>1, <2>6 DEF Arrive
    <3>3. OneLastArrival'
      BY <3>1, <3>2 DEF OneLastArrival
    <3>4. Busy' = {} => processes_remaining' >= process_count - Cardinality(Waiting')
      BY <1>1, <2>1, <2>2, <3>1 DEF Arrive, CounterNeverLow
    <3>5. \A q \in Procs : at'[q] = "late_reset" => processes_remaining' <= 0
      BY <1>1, <2>6 DEF Arrive, CounterNeverLow
    <3>6. CounterNeverLow'
      BY <3>2, <3>4, <3>5 DEF CounterNeverLow, process_count
    <3> QED
      BY <2>3, <2>4, <3>3, <3>6
  <2> QED
    BY <2>5, <2>6
<1>2. ASSUME NEW p \in Procs, ResetCounter(p)
      PROVE  BarrierInv'
  <2>1. Busy' = Busy /\ p \in Busy /\ Waiting' = Waiting
    BY <1>2 DEF ResetCounter, Busy, Waiting
  <2>2. \A q \in Procs : q # p => at'[q] \notin {"reset", "release", "late_reset"}
    BY <1>2, <2>1 DEF ResetCounter, OneLastArrival, Busy
  <2>3. BarrierShape'
    BY <1>2, WaitingFinite DEF ResetCounter
  <2>4. OneLastArrival'
    BY <1>2, <2>1, <2>2 DEF ResetCounter, OneLastArrival
  <2>5. SensesAgreeOutside'
    BY <1>2 DEF ResetCounter, SensesAgreeOutside
  <2>6. CounterNeverLow'
    BY <1>2, <2>1, <2>2, WaitingFinite DEF ResetCounter, CounterNeverLow, process_count
  <2> QED
    BY <2>3, <2>4, <2>5, <2>6
<1>3. ASSUME NEW p \in Procs, Release(p)
      PROVE  BarrierInv'
  <2>1. Waiting' = {} /\ \A q \in Procs : local_sense'[q] = sense'
    BY <1>3, OpenWaiting DEF Release
  <2>2. \A q \in Procs : at'[q] \notin {"reset", "release", "late_reset"}
    BY <1>3 DEF Release, OneLastArrival, Busy
  <2>3. Cardinality(Waiting') = 0
    BY <2>1, FS_EmptySet
  <2>4. processes_remaining' = process_count
    BY <1>3 DEF Release, CounterNeverLow
  <2>5. BarrierShape' /\ OneLastArrival' /\ SensesAgreeOutside'
    BY <1>3, <2>1, <2>2 DEF Release, OneLastArrival, SensesAgreeOutside, Busy
  <2>6. CounterNeverLow'
    BY <2>2, <2>3, <2>4, WaitingFinite DEF CounterNeverLow, process_count
  <2> QED
    BY <2>5, <2>6
<1>4. ASSUME NEW p \in Procs, ReleaseFirst(p)
      PROVE  BarrierInv'
  <2>1. Waiting' = {} /\ \A q \in Procs : local_sense'[q] = sense'
    BY <1>4, OpenWaiting DEF ReleaseFirst
  <2>2. \A q \in Procs : q # p => at'[q] \notin {"reset", "release", "late_reset"}
    BY <1>4 DEF ReleaseFirst, OneLastArrival, Busy
  <2>3. at'[p] = "late_reset" /\ Busy' = {p}
    BY <1>4, <2>2 DEF ReleaseFirst, Busy
  <2>4. BarrierShape' /\ OneLastArrival' /\ SensesAgreeOutside'
    BY <1>4, <2>1, <2>2, <2>3 DEF ReleaseFirst, OneLastArrival, SensesAgreeOutside
  <2>5. CounterNeverLow'
    BY <1>4, <2>2, <2>3 DEF ReleaseFirst, CounterNeverLow
  <2> QED
    BY <2>4, <2>5
<1>5. ASSUME NEW p \in Procs, LateReset(p)
      PROVE  BarrierInv'
  <2>1. Waiting' = Waiting
    BY <1>5 DEF LateReset, Waiting
  <2>2. \A q \in Procs : at'[q] \notin {"reset", "release", "late_reset"}
    BY <1>5 DEF LateReset, OneLastArrival, Busy
  <2>3. BarrierShape' /\ OneLastArrival' /\ SensesAgreeOutside'
    BY <1>5, <2>2, WaitingFinite
    DEF LateReset, OneLastArrival, SensesAgreeOutside, Busy
  <2>4. CounterNeverLow'
    BY <1>5, <2>1, <2>2, WaitingFinite DEF LateReset, CounterNeverLow, process_count
  <2> QED
    BY <2>3, <2>4
<1>6. ASSUME NEW p \in Procs, Leave(p)
      PROVE  BarrierInv'
  <2>1. Waiting' = Waiting /\ Busy' = Busy
    BY <1>6 DEF Leave, Waiting, Busy
  <2>2. BarrierShape' /\ OneLastArrival' /\ SensesAgreeOutside'
    BY <1>6, <2>1 DEF Leave, OneLastArrival, SensesAgreeOutside
  <2>3. CounterNeverLow'
    BY <1>6, <2>1 DEF Leave, CounterNeverLow, process_count
  <2> QED
    BY <2>2, <2>3
<1>7. CASE UNCHANGED barrierVars
  BY <1>7 DEF barrierVars, OneLastArrival, SensesAgreeOutside, CounterNeverLow,
              Busy, Waiting, process_count
<1> QED
  BY <1>1, <1>2, <1>3, <1>4, <1>5, <1>6, <1>7 DEF BarrierNext, Proceed

\* For every number of callers and both memory orders: a single caller takes
\* itself for the last, and only when everybody has arrived.
THEOREM BarrierSafe == BarrierSpec => []BarrierInv
  BY InitInv, StepInv, PTL DEF BarrierSpec

\* A step of the barrier is a step of the abstract rendezvous, or leaves the
\* set of those that wait as it was.
LEMMA StepRefines ==
  BarrierInv /\ [BarrierNext]_barrierVars => [RV!Next]_Waiting
<1> SUFFICES ASSUME BarrierInv, [BarrierNext]_barrierVars
             PROVE  [RV!Next]_Waiting
  OBVIOUS
<1>1. ASSUME NEW p \in Procs, Arrive(p)
      PROVE  RV!Enter(p)
  BY <1>1, ArriveWaiting DEF RV!Enter
<1>2. ASSUME NEW p \in Procs, Release(p) \/ ReleaseFirst(p)
      PROVE  RV!Open
  BY <1>2, OpenWaiting DEF Release, ReleaseFirst, RV!Open
<1>3. ASSUME NEW p \in Procs, ResetCounter(p) \/ LateReset(p) \/ Leave(p)
      PROVE  UNCHANGED Waiting
  BY <1>3 DEF ResetCounter, LateReset, Leave, Waiting
<1>4. CASE UNCHANGED barrierVars
  BY <1>4 DEF barrierVars, Waiting
<1> QED
  BY <1>1, <1>2, <1>3, <1>4 DEF BarrierNext, Proceed, RV!Next

\* For every number of callers and both memory orders the spin barrier
\* implements the abstract one: it opens for all at once, when all are in.
THEOREM BarrierRefines == BarrierSpec => ImplementsRendezvous
<1>1. BarrierCreate => RV!Init
  BY DEF BarrierCreate, RV!Init, Waiting
<1> QED
  BY <1>1, StepRefines, BarrierSafe, PTL DEF BarrierSpec, ImplementsRendezvous, RV!Spec

-----------------------------------------------------------------------------
(* As long as the two stores are seen in their order. *)

\* The exact count, the range of the counter, and what makes them inductive.
ExactInv ==
  /\ BarrierInv
  /\ Ordered
  /\ processes_remaining \in 0 .. process_count
  /\ CounterCountsArrivals

\* Every step that does not reorder the stores keeps the count exact.
LEMMA StepExact ==
  ExactInv /\ Ordered' /\ [BarrierNext]_barrierVars => ExactInv'
<1> SUFFICES ASSUME ExactInv, Ordered', [BarrierNext]_barrierVars
             PROVE  ExactInv'
  OBVIOUS
<1> USE DEF ExactInv, BarrierInv, BarrierShape, Places
<1>1. BarrierInv'
  BY StepInv
<1>2. ASSUME NEW p \in Procs, Arrive(p)
      PROVE  ExactInv'
  <2>1. /\ Cardinality(Waiting') = Cardinality(Waiting) + 1
        /\ p \notin Waiting
        /\ \A q \in Procs : at[q] \notin {"reset", "release"}
    BY <1>2, ArriveWaiting
  <2>2. processes_remaining = process_count - Cardinality(Waiting)
    BY <2>1 DEF CounterCountsArrivals
  <2>3. Cardinality(Waiting) \in 0 .. process_count /\ process_count \in Nat
    BY WaitingFinite
  <2>4. Waiting # Procs
    BY <2>1
  <2>5. Cardinality(Waiting) # process_count
    BY <2>4, WaitingFinite
  <2>6. processes_remaining' = process_count - Cardinality(Waiting')
        /\ processes_remaining' \in 0 .. process_count
    BY <1>2, <2>1, <2>2, <2>3, <2>5 DEF Arrive
  <2>7. \A q \in Procs : at'[q] # "release"
    BY <1>2, <2>1 DEF Arrive
  <2> QED
    BY <1>1, <2>6, <2>7 DEF CounterCountsArrivals, process_count
<1>3. ASSUME NEW p \in Procs, ResetCounter(p)
      PROVE  ExactInv'
  <2>1. processes_remaining' = process_count /\ at'[p] = "release"
    BY <1>3 DEF ResetCounter
  <2> QED
    BY <1>1, <2>1, WaitingFinite DEF CounterCountsArrivals, process_count
<1>4. ASSUME NEW p \in Procs, Release(p)
      PROVE  ExactInv'
  <2>1. Waiting' = {}
    BY <1>4, OpenWaiting DEF Release
  <2>2. Cardinality(Waiting') = 0
    BY <2>1, FS_EmptySet
  <2>3. processes_remaining' = process_count
    BY <1>4 DEF Release, CounterNeverLow
  <2>4. \A q \in Procs : at'[q] # "release"
    BY <1>4 DEF Release, OneLastArrival, Busy
  <2> QED
    BY <1>1, <2>2, <2>3, <2>4, WaitingFinite DEF CounterCountsArrivals, process_count
<1>5. ASSUME NEW p \in Procs, ReleaseFirst(p) \/ LateReset(p)
      PROVE  FALSE
  BY <1>5 DEF ReleaseFirst, LateReset, Ordered
<1>6. ASSUME NEW p \in Procs, Leave(p)
      PROVE  ExactInv'
  <2>1. Waiting' = Waiting
    BY <1>6 DEF Leave, Waiting
  <2>2. \A q \in Procs : at'[q] = "release" <=> at[q] = "release"
    BY <1>6 DEF Leave
  <2>3. processes_remaining' = processes_remaining
    BY <1>6 DEF Leave
  <2>4. CounterCountsArrivals'
    BY <2>1, <2>2, <2>3 DEF CounterCountsArrivals, process_count
  <2> QED
    BY <1>1, <2>3, <2>4 DEF process_count
<1>7. CASE UNCHANGED barrierVars
  <2>1. Waiting' = Waiting
    BY <1>7 DEF barrierVars, Waiting
  <2> QED
    BY <1>1, <1>7, <2>1 DEF barrierVars, CounterCountsArrivals, process_count
<1> QED
  BY <1>2, <1>3, <1>4, <1>5, <1>6, <1>7 DEF BarrierNext, Proceed

\* For every number of callers: while the stores are seen in their order, the
\* counter counts exactly the arrivals, however often the barrier is used.
THEOREM BarrierExact == BarrierSpec => OrderedExact
<1>1. BarrierCreate /\ Ordered => ExactInv
  <2> SUFFICES ASSUME BarrierCreate, Ordered PROVE ExactInv
    OBVIOUS
  <2>1. BarrierInv
    BY InitInv
  <2>2. Waiting = {}
    BY DEF BarrierCreate, Waiting
  <2>3. Cardinality(Waiting) = 0
    BY <2>2, CountsAtTheEnds
  <2> QED
    BY <2>1, <2>3, WaitingFinite
    DEF ExactInv, BarrierInv, BarrierCreate, CounterCountsArrivals
<1>2. ExactInv => CounterCountsArrivals
  BY DEF ExactInv
<1> QED
  BY <1>1, <1>2, StepExact, PTL DEF BarrierSpec, OrderedExact

=============================================================================
