------------------------- MODULE SliceQueue_proofs -------------------------
(***************************************************************************)
(* Proofs about the queue of slices in flight, for every number of slices, *)
(* every cap, every length of the queue and every rate of sampling.        *)
(***************************************************************************)
EXTENDS SliceQueue, FiniteSetTheorems, TLAPS

\* The slices finished so far; those before it are recorded, those from it on
\* are in the queue.
Finished == Len(rows)

\* The ranges of main's variables.
LoopShape ==
  /\ pc \in {"loop", "drain", "deploy", "final", "sync", "done"}
  /\ deploy_idx \in 0 .. NumSlices /\ deploy_idx <= MaxSlices
  /\ inflight \in Seq(Nat) /\ rows \in Seq(Nat)
  /\ Finished + Len(inflight) = deploy_idx

\* The queue holds the slices deployed and not finished, oldest first.
QueueInOrder == \A x \in 1 .. Len(inflight) : inflight[x] = Finished + x - 1

RowsInOrder == \A x \in 1 .. Len(rows) : rows[x] = x - 1

\* What main has found out when it is at a given place.
LoopKnows ==
  /\ Len(inflight) <= MaxInflight
  /\ pc = "deploy" => /\ Len(inflight) < MaxInflight
                      /\ deploy_idx < NumSlices /\ deploy_idx < MaxSlices
  /\ pc = "drain" => Len(inflight) > 0
  /\ pc \in {"final", "sync", "done"} => deploy_idx = NumSlices \/ deploy_idx = MaxSlices
  /\ pc \in {"sync", "done"} => inflight = << >>

\* Streams and buffers are those of the slices in the queue.
HeldBySlices ==
  /\ streams = Finished .. deploy_idx - 1
  /\ buffers = {n \in streams : Sampled(n)}

\* A slice runs after its deployment and is done when it is finished.
KernelsInOrder ==
  /\ kernel \in [Slices -> {"none", "queued", "running", "done"}]
  /\ \A n \in Slices : n >= deploy_idx => kernel[n] = "none"
  /\ \A n \in Slices : n < Finished => kernel[n] = "done"

QueueInv ==
  /\ LoopShape /\ QueueInOrder /\ RowsInOrder /\ LoopKnows
  /\ HeldBySlices /\ KernelsInOrder

LEMMA OptionsPositive ==
  /\ NumSlices \in Nat \ {0} /\ MaxSlices \in Nat \ {0}
  /\ MaxInflight \in Nat \ {0} /\ SampleEvery \in Nat \ {0}
BY OptionsAssumption

\* Before the loop nothing is deployed.
LEMMA QueueInit == Init => QueueInv
<1> SUFFICES ASSUME Init PROVE QueueInv
  OBVIOUS
<1>1. LoopShape /\ QueueInOrder /\ RowsInOrder /\ LoopKnows /\ KernelsInOrder
  BY OptionsPositive
  DEF Init, LoopShape, QueueInOrder, RowsInOrder, LoopKnows, KernelsInOrder, Finished, Slices
<1>2. HeldBySlices
  BY DEF Init, HeldBySlices, Finished
<1> QED BY <1>1, <1>2 DEF QueueInv

\* Finishing the front of the queue moves one slice from the queue to the rows.
LEMMA FinishKeeps ==
  ASSUME QueueInv, inflight # << >>, Finish(Head(inflight)),
         pc' = "loop" \/ (pc' = "final" /\ pc = "final")
  PROVE  QueueInv'
<1> USE OptionsPositive
<1> DEFINE n == Head(inflight)
<1>1. n = Finished /\ n \in Slices /\ Len(inflight) > 0 /\ Finished \in Nat
  BY DEF QueueInv, LoopShape, QueueInOrder, Finished, Slices
<1>2. /\ inflight' = Tail(inflight) /\ rows' = Append(rows, n)
      /\ buffers' = buffers \ {n} /\ streams' = streams \ {n}
      /\ kernel[n] = "done" /\ deploy_idx' = deploy_idx /\ kernel' = kernel
  BY DEF Finish
<1> HIDE DEF n
<1>3. /\ rows' \in Seq(Nat) /\ Len(rows') = Len(rows) + 1
      /\ inflight' \in Seq(Nat) /\ Len(inflight') = Len(inflight) - 1
      /\ \A x \in 1 .. Len(inflight') : inflight'[x] = inflight[x + 1]
      /\ \A x \in 1 .. Len(rows) : rows'[x] = rows[x]
      /\ rows'[Len(rows) + 1] = n
  BY <1>1, <1>2 DEF QueueInv, LoopShape, Slices
<1>4. LoopShape'
  <2>1. Finished' + Len(inflight') = Finished + Len(inflight)
    BY <1>1, <1>3 DEF Finished
  <2> QED BY <1>2, <1>3, <2>1 DEF QueueInv, LoopShape
<1>5. QueueInOrder'
  BY <1>2, <1>3 DEF QueueInv, LoopShape, QueueInOrder, Finished
<1>6. RowsInOrder'
  BY <1>1, <1>2, <1>3 DEF QueueInv, LoopShape, RowsInOrder, Finished
<1>7. LoopKnows'
  BY <1>2, <1>3 DEF QueueInv, LoopShape, LoopKnows, Finished
<1>8. HeldBySlices'
  <2>1. Finished' = Finished + 1 /\ streams' = streams \ {Finished}
    BY <1>1, <1>2, <1>3 DEF Finished
  <2>2. streams' = Finished' .. deploy_idx' - 1
    BY <1>1, <1>2, <2>1 DEF QueueInv, HeldBySlices, LoopShape
  <2>3. buffers' = {k \in streams' : Sampled(k)}
    BY <1>2 DEF QueueInv, HeldBySlices
  <2> QED BY <2>2, <2>3 DEF HeldBySlices, Sampled
<1>9. KernelsInOrder'
  BY <1>1, <1>2, <1>3 DEF QueueInv, LoopShape, KernelsInOrder, Finished, Slices
<1> QED BY <1>4, <1>5, <1>6, <1>7, <1>8, <1>9 DEF QueueInv

\* A deployment adds one slice behind the end of the queue.
LEMMA DeployKeeps == QueueInv /\ Deploy => QueueInv'
<1> SUFFICES ASSUME QueueInv, Deploy PROVE QueueInv'
  OBVIOUS
<1> USE OptionsPositive
<1>1. deploy_idx \in Nat /\ deploy_idx \in Slices /\ Finished \in Nat /\ Finished <= deploy_idx
  BY DEF QueueInv, LoopShape, LoopKnows, Deploy, Slices, Finished
<1>2. /\ inflight' \in Seq(Nat) /\ Len(inflight') = Len(inflight) + 1
      /\ \A x \in 1 .. Len(inflight) : inflight'[x] = inflight[x]
      /\ inflight'[Len(inflight) + 1] = deploy_idx
      /\ rows' = rows /\ Finished' = Finished
  BY <1>1 DEF QueueInv, LoopShape, Deploy, Finished
<1>3. LoopShape' /\ LoopKnows'
  BY <1>1, <1>2 DEF QueueInv, LoopShape, LoopKnows, Deploy
<1>4. QueueInOrder'
  <2>1. deploy_idx = Finished' + (Len(inflight) + 1) - 1 /\ Len(inflight) \in Nat
    BY <1>1, <1>2 DEF QueueInv, LoopShape
  <2>2. \A x \in 1 .. Len(inflight) : inflight'[x] = Finished' + x - 1
    BY <1>2 DEF QueueInv, QueueInOrder
  <2> QED BY <1>2, <2>1, <2>2 DEF QueueInOrder
<1>5. RowsInOrder'
  BY <1>2 DEF QueueInv, RowsInOrder
<1>6. HeldBySlices'
  <2>1. streams' = Finished' .. deploy_idx' - 1
    BY <1>1, <1>2 DEF QueueInv, HeldBySlices, Deploy
  <2>2. buffers' = {k \in streams' : Sampled(k)}
    BY DEF QueueInv, HeldBySlices, Deploy
  <2> QED BY <2>1, <2>2 DEF HeldBySlices, Sampled
<1>7. KernelsInOrder'
  BY <1>1, <1>2 DEF QueueInv, LoopShape, KernelsInOrder, Deploy, Finished, Slices
<1> QED BY <1>3, <1>4, <1>5, <1>6, <1>7 DEF QueueInv

\* The GPU changes nothing but the kernels of deployed, unfinished slices.
LEMMA GpuKeeps ==
  ASSUME QueueInv, NEW n \in Slices, Gpu(n)
  PROVE  QueueInv'
<1>1. KernelsInOrder'
  BY DEF QueueInv, LoopShape, KernelsInOrder, Gpu, Finished, Slices
<1> QED
  BY <1>1 DEF QueueInv, LoopShape, QueueInOrder, RowsInOrder, LoopKnows,
              HeldBySlices, Sampled, Finished, Gpu

\* Main's other steps only move its place.
LEMMA PlaceKeeps ==
  ASSUME QueueInv,
         \/ LoopTop \/ DeviceSync \/ vars' = vars
         \/ FinalDrain /\ inflight = << >>
  PROVE  QueueInv'
<1> USE OptionsPositive
<1>1. UNCHANGED <<deploy_idx, inflight, kernel, streams, buffers, rows>>
  BY DEF LoopTop, DeviceSync, FinalDrain, vars
<1>2. LoopShape' /\ LoopKnows'
  BY <1>1 DEF QueueInv, LoopShape, LoopKnows, LoopTop, DeviceSync, FinalDrain, vars, Finished
<1> QED
  BY <1>1, <1>2 DEF QueueInv, QueueInOrder, RowsInOrder, HeldBySlices, Sampled,
                    KernelsInOrder, Finished

LEMMA QueueStep == QueueInv /\ [Next]_vars => QueueInv'
<1> SUFFICES ASSUME QueueInv, [Next]_vars PROVE QueueInv'
  OBVIOUS
<1>1. CASE DrainOldest
  <2>1. inflight # << >> /\ pc' = "loop" /\ Finish(Head(inflight))
    BY <1>1 DEF DrainOldest, QueueInv, LoopShape, LoopKnows
  <2> QED BY <2>1, FinishKeeps
<1>2. CASE FinalDrain
  <2>1. CASE inflight # << >>
    <3>1. pc = "final" /\ pc' = "final" /\ Finish(Head(inflight))
      BY <1>2, <2>1 DEF FinalDrain
    <3> QED BY <2>1, <3>1, FinishKeeps
  <2> QED BY <1>2, <2>1, PlaceKeeps
<1>3. CASE Deploy
  BY <1>3, DeployKeeps
<1>4. ASSUME NEW n \in Slices, Gpu(n) PROVE QueueInv'
  BY <1>4, GpuKeeps
<1>5. CASE LoopTop \/ DeviceSync \/ vars' = vars
  BY <1>5, PlaceKeeps
<1> QED
  BY <1>1, <1>2, <1>3, <1>4, <1>5 DEF Next, Host, Stopped

LEMMA QueueInvariant == Spec => []QueueInv
BY QueueInit, QueueStep, PTL DEF Spec

\* There are never more streams than --max-inflight, each belongs to a slice in
\* the queue, and no SMID buffer or stream is destroyed while a kernel may use it
\* (finish_inflight_slice, :383).
THEOREM QueueHoldsResources == Spec => []ResourcesHeld
<1>1. QueueInv => ResourcesHeld
  <2> SUFFICES ASSUME QueueInv PROVE ResourcesHeld
    OBVIOUS
  <2> USE OptionsPositive
  <2>1. Finished \in Nat /\ deploy_idx \in Nat /\ deploy_idx - Finished = Len(inflight)
        /\ Len(inflight) \in Nat
    BY DEF QueueInv, LoopShape, Finished
  <2>2. Cardinality(streams) = Len(inflight)
    <3>1. Cardinality(Finished .. deploy_idx - 1)
            = IF Finished > deploy_idx - 1 THEN 0 ELSE deploy_idx - 1 - Finished + 1
      <4>1. Finished \in Int /\ deploy_idx - 1 \in Int
        BY <2>1
      <4> QED BY <4>1, FS_Interval
    <3> QED BY <2>1, <3>1 DEF QueueInv, HeldBySlices
  <2>3. \A n \in streams : \E x \in 1 .. Len(inflight) : inflight[x] = n
    <3> SUFFICES ASSUME NEW n \in streams
                 PROVE  \E x \in 1 .. Len(inflight) : inflight[x] = n
      OBVIOUS
    <3>1. n - Finished + 1 \in 1 .. Len(inflight)
      BY <2>1 DEF QueueInv, HeldBySlices
    <3>2. inflight[n - Finished + 1] = n
      BY <2>1, <3>1 DEF QueueInv, HeldBySlices, QueueInOrder
    <3> QED BY <3>1, <3>2
  <2>4. BuffersOutliveKernels
    BY <2>1 DEF BuffersOutliveKernels, QueueInv, HeldBySlices, KernelsInOrder, Slices
  <2> QED BY <2>2, <2>3, <2>4 DEF ResourcesHeld, ResourcesBounded, QueueInv, LoopKnows
<1> QED BY <1>1, QueueInvariant, PTL

\* When main is through, every slice up to the cap was recorded once, in the
\* order of deployment, and no stream and no buffer is left (:588, :645).
THEOREM RunRecordsAll == Spec => []EverySliceRecorded
<1>1. QueueInv => EverySliceRecorded
  <2> SUFFICES ASSUME QueueInv, pc = "done"
               PROVE  /\ rows = [x \in 1 .. deploy_idx |-> x - 1]
                      /\ deploy_idx = NumSlices \/ deploy_idx = MaxSlices
                      /\ streams = {} /\ buffers = {}
    BY DEF EverySliceRecorded
  <2>1. inflight = << >> /\ Len(rows) = deploy_idx /\ rows \in Seq(Nat)
        /\ (deploy_idx = NumSlices \/ deploy_idx = MaxSlices)
    BY OptionsPositive DEF QueueInv, LoopShape, LoopKnows, Finished
  <2>2. rows = [x \in 1 .. deploy_idx |-> x - 1]
    BY <2>1 DEF QueueInv, RowsInOrder
  <2>3. streams = {}
    BY <2>1, OptionsPositive DEF QueueInv, LoopShape, HeldBySlices, Finished
  <2>4. buffers = {}
    BY <2>3 DEF QueueInv, HeldBySlices
  <2> QED BY <2>1, <2>2, <2>3, <2>4
<1> QED BY <1>1, QueueInvariant, PTL
=============================================================================
