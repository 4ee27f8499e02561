------------------------ MODULE SwapPartitions_proofs ------------------------
(***************************************************************************)
(* Proofs about the two-process benchmark, for every device and every set  *)
(* of command lines.                                                       *)
(***************************************************************************)
EXTENDS SwapPartitions, TLAPS

-----------------------------------------------------------------------------
(* The inductive invariant *)

Places ==
  {"setup", "warm", "warm_sync", "loop", "start", "in_start", "set", "launch", "drain",
   "end", "in_end", "record", "final", "csv", "waitpid", "exited", "merge", "done",
   "failed", "reported"}

\* A process that took a phase up and has not counted it yet.
Started == {"start", "in_start", "set", "launch", "drain", "end", "in_end", "record"}

\* One that has launched its slice for it.
Launched == {"drain", "end", "in_end", "record"}

Kernels == [tpcs : SUBSET (0 .. NumTpcs - 1), iter : Nat \cup {WarmupKernel}]

\* The kernels of r that the GPU has not completed.
Queued(r) == {queue[r][x] : x \in 1 .. Len(queue[r])}

Shape ==
  /\ options \in Invocations
  /\ pc \in [Roles -> Places]
  /\ warm \in [Roles -> Nat] /\ iter \in [Roles -> Nat]
  /\ mask \in [Roles -> SUBSET (0 .. NumTpcs - 1)]
  /\ queue \in [Roles -> Seq(Kernels)]
  /\ running \subseteq {r \in Roles : queue[r] # << >>}
  /\ waiting \in [Barriers -> SUBSET Roles]
  /\ rows \in [Roles -> SUBSET [iter : Nat, phase : {0, 1}, role : Roles, mask_id : {0, 1}]]
  /\ shard \in [Roles -> SUBSET [iter : Nat, phase : {0, 1}, role : Roles, mask_id : {0, 1}]]

\* The loop's bounds.
Bounded ==
  \A r \in Roles :
    /\ warm[r] <= options.warmup
    /\ pc[r] \in {"setup", "warm", "warm_sync"} => iter[r] = 0
    /\ pc[r] = "warm_sync" => warm[r] < options.warmup
    /\ iter[r] <= options.num_slices /\ iter[r] <= options.max_phases
    /\ pc[r] \in Started => iter[r] < options.num_slices /\ iter[r] < options.max_phases

\* The two barriers open in turn, so that one count of openings tells how far
\* each process is: a process opens with its peer twice per phase.
WaitsIn ==
  /\ \A r \in waiting["start"] : pc[r] = "in_start"
  /\ \A r \in waiting["end"] : pc[r] = "in_end"

Early(r) ==
  \/ pc[r] \in Places \ {"in_start", "set", "launch", "drain", "end", "in_end", "record", "failed"}
  \/ pc[r] = "in_start" /\ r \in waiting["start"]
Middle(r) ==
  \/ pc[r] \in {"set", "launch", "drain", "end"}
  \/ pc[r] = "in_start" /\ r \notin waiting["start"]
  \/ pc[r] = "in_end" /\ r \in waiting["end"]
Late(r) ==
  \/ pc[r] = "record"
  \/ pc[r] = "in_end" /\ r \notin waiting["end"]

InTurn(g) ==
  \A r \in Roles :
    /\ Early(r) => g = 2 * iter[r]
    /\ Middle(r) => g = 2 * iter[r] + 1
    /\ Late(r) => g = 2 * iter[r] + 2
    /\ pc[r] = "failed" => g = 2 * iter[r] \/ g = 2 * iter[r] + 1

TurnsInv == WaitsIn /\ \E g \in Nat : InTurn(g)

\* What is queued: warm-up kernels before the loop, one slice per phase after
\* it, each confined to the partition of its phase; nothing after the last
\* synchronization, and with the clean handoff nothing outside the phase.
QueueOf(r) ==
  /\ pc[r] # "setup" /\ pc[r] # "failed" => ~Overlap
  /\ pc[r] = "launch" => mask[r] = Partition(options.partition[PartitionOf(r, Phase(r))])
  /\ \A k \in Queued(r) : k.iter # WarmupKernel =>
       /\ k.iter \in Nat
       /\ k.tpcs = Partition(options.partition[PartitionOf(r, k.iter % 2)])
       /\ ~Overlap
  /\ pc[r] = "warm_sync" =>
       Len(queue[r]) <= 1 /\ \A k \in Queued(r) : k.iter = WarmupKernel
  /\ pc[r] # "warm_sync" =>
       Len(queue[r]) <= IF pc[r] \in Launched THEN iter[r] + 1 ELSE iter[r]
  /\ pc[r] \in {"csv", "exited", "waitpid", "merge", "done", "reported", "failed"}
       => queue[r] = << >>
  /\ options.drain_before_swap /\ queue[r] # << >> => pc[r] \in {"warm_sync", "drain"}
  /\ options.drain_before_swap /\ pc[r] = "drain" =>
       \A k \in Queued(r) : k.iter = iter[r]

QueueInv == \A r \in Roles : QueueOf(r)

\* What is recorded: one row per phase so far, written out when the loop has
\* ended, and merged when both processes have.
FilesOf(r) ==
  /\ rows[r] = {[iter |-> n, phase |-> n % 2, role |-> r,
                 mask_id |-> PartitionOf(r, n % 2)] : n \in 0 .. iter[r] - 1}
  /\ pc[r] \in {"exited", "waitpid", "merge", "done"} => shard[r] = rows[r]

FilesInv ==
  /\ \A r \in Roles : FilesOf(r)
  /\ pc[1] \notin {"waitpid", "merge", "done"} /\ pc[0] # "exited"
  /\ pc[0] \in {"merge", "done"} => pc[1] = "exited"
  /\ pc[0] = "done" => merged = shard[0] \cup shard[1]

Inv == Shape /\ Bounded /\ TurnsInv /\ QueueInv /\ FilesInv

-----------------------------------------------------------------------------
(* Operators *)

\* The two processes of one phase take different partitions.
LEMMA OppositePartition ==
  ASSUME ~Overlap, NEW n \in Nat
  PROVE  Partition(options.partition[PartitionOf(0, n % 2)])
           \cap Partition(options.partition[PartitionOf(1, n % 2)]) = {}
<1>1. n % 2 = 0 \/ n % 2 = 1
  OBVIOUS
<1>2. CASE n % 2 = 0
  <2>1. PartitionOf(0, n % 2) = 0 /\ PartitionOf(1, n % 2) = 1
    BY <1>2 DEF PartitionOf
  <2> QED
    BY <2>1 DEF Overlap
<1>3. CASE n % 2 = 1
  <2>1. PartitionOf(0, n % 2) = 1 /\ PartitionOf(1, n % 2) = 0
    BY <1>3 DEF PartitionOf
  <2> QED
    BY <2>1 DEF Overlap
<1> QED
  BY <1>1, <1>2, <1>3

\* Whatever the phase, a process takes one of the two partitions, within the
\* TPCs of the device.
LEMMA PartitionTypes ==
  /\ \A r \in Roles, n \in Nat : n % 2 \in {0, 1} /\ PartitionOf(r, n % 2) \in {0, 1}
  /\ \A range : Partition(range) \in SUBSET (0 .. NumTpcs - 1)
BY DEF PartitionOf, Roles, Partition

\* An enqueued kernel is the last of its stream.
LEMMA EnqueueEffect ==
  ASSUME Shape, NEW r \in Roles, NEW n \in Nat \cup {WarmupKernel}, Enqueue(r, n),
         mask'[r] \in SUBSET (0 .. NumTpcs - 1)
  PROVE  /\ queue' \in [Roles -> Seq(Kernels)]
         /\ queue'[r] # << >> /\ Len(queue'[r]) = Len(queue[r]) + 1
         /\ Queued(r)' = Queued(r) \cup {[tpcs |-> mask'[r], iter |-> n]}
         /\ \A q \in Roles \ {r} : queue'[q] = queue[q]
<1> DEFINE k == [tpcs |-> mask'[r], iter |-> n]
<1>1. queue \in [Roles -> Seq(Kernels)] /\ k \in Kernels
  BY DEF Shape, Kernels
<1>2. queue' = [queue EXCEPT ![r] = Append(queue[r], k)]
  BY DEF Enqueue
<1> HIDE DEF k
<1>3. /\ queue' \in [Roles -> Seq(Kernels)] /\ queue'[r] = Append(queue[r], k)
      /\ \A q \in Roles \ {r} : queue'[q] = queue[q]
  BY <1>1, <1>2
<1>4. /\ Len(queue'[r]) = Len(queue[r]) + 1 /\ Len(queue[r]) \in Nat
      /\ \A x \in 1 .. Len(queue[r]) : queue'[r][x] = queue[r][x]
      /\ queue'[r][Len(queue[r]) + 1] = k
  BY <1>1, <1>3
<1>5. Queued(r)' = Queued(r) \cup {k}
  BY <1>4, SMTT(20) DEF Queued
<1>6. queue'[r] # << >>
  BY <1>4
<1> QED
  BY <1>3, <1>4, <1>5, <1>6 DEF k

\* A completed kernel is the first one.
LEMMA CompleteEffect ==
  ASSUME Shape, NEW r \in Roles, Complete(r)
  PROVE  /\ queue' \in [Roles -> Seq(Kernels)]
         /\ queue[r] # << >> /\ Len(queue'[r]) = Len(queue[r]) - 1
         /\ Queued(r)' \subseteq Queued(r)
         /\ \A q \in Roles \ {r} : queue'[q] = queue[q]
<1>1. queue \in [Roles -> Seq(Kernels)] /\ queue[r] # << >>
  BY DEF Shape, Complete
<1>2. /\ queue' \in [Roles -> Seq(Kernels)] /\ queue'[r] = Tail(queue[r])
      /\ \A q \in Roles \ {r} : queue'[q] = queue[q]
  BY <1>1 DEF Complete
<1>3. /\ Len(queue'[r]) = Len(queue[r]) - 1 /\ Len(queue[r]) \in Nat
      /\ \A x \in 1 .. Len(queue'[r]) : queue'[r][x] = queue[r][x + 1]
  BY <1>1, <1>2
<1>4. \A x \in 1 .. Len(queue'[r]) : x + 1 \in 1 .. Len(queue[r])
  BY <1>3
<1>5. Queued(r)' \subseteq Queued(r)
  BY <1>3, <1>4 DEF Queued
<1> QED
  BY <1>1, <1>2, <1>3, <1>5

-----------------------------------------------------------------------------
(* Every step preserves the invariant *)

\* The steps of one process and of its stream.
Step(r) == RunRole(r) \/ Fail(r) \/ Gpu(r)

LEMMA NextCases ==
  ASSUME [Next]_vars
  PROVE  (\E r \in Roles : Step(r)) \/ WaitChild \/ Merge \/ UNCHANGED vars
BY DEF Next, Step, AllStopped

LEMMA ShapeStep ==
  ASSUME Inv, [Next]_vars
  PROVE  Shape'
<1> USE DEF Inv
<1>1. ASSUME NEW r \in Roles, Step(r)
      PROVE  Shape'
  <2> USE DEF Shape, GoTo, Places, Inside
  <2>1. CASE Setup(r)
    BY <2>1 DEF Setup
  <2>2. CASE WarmUp(r)
    <3>1. mask' \in [Roles -> SUBSET (0 .. NumTpcs - 1)] /\ Enqueue(r, WarmupKernel)
      BY <2>2, PartitionTypes DEF WarmUp
    <3>2. queue' \in [Roles -> Seq(Kernels)] /\ queue'[r] # << >>
          /\ \A q \in Roles \ {r} : queue'[q] = queue[q]
      BY <3>1, EnqueueEffect
    <3> QED
      BY <2>2, <3>1, <3>2 DEF WarmUp
  <2>3. CASE WarmupSync(r)
    <3>1. warm' \in [Roles -> Nat]
      BY <2>3 DEF WarmupSync
    <3> QED
      BY <2>3, <3>1 DEF WarmupSync
  <2>4. CASE WarmupDone(r)
    BY <2>4 DEF WarmupDone
  <2>5. CASE LoopTop(r)
    BY <2>5 DEF LoopTop
  <2>6. CASE Arrive(r, "start")
    BY <2>6 DEF Arrive, Barriers
  <2>7. CASE Depart(r, "start", "set")
    BY <2>7 DEF Depart
  <2>8. CASE SetMask(r)
    <3>1. mask' \in [Roles -> SUBSET (0 .. NumTpcs - 1)]
      BY <2>8, PartitionTypes DEF SetMask
    <3> QED
      BY <2>8, <3>1 DEF SetMask
  <2>9. CASE LaunchSlice(r)
    <3>1. mask' = mask /\ iter[r] \in Nat /\ Enqueue(r, iter[r])
      BY <2>9 DEF LaunchSlice
    <3>2. queue' \in [Roles -> Seq(Kernels)] /\ queue'[r] # << >>
          /\ \A q \in Roles \ {r} : queue'[q] = queue[q]
      BY <3>1, EnqueueEffect
    <3>3. pc' \in [Roles -> Places]
      BY <2>9 DEF LaunchSlice
    <3> QED
      BY <2>9, <3>1, <3>2, <3>3 DEF LaunchSlice
  <2>10. CASE Drain(r)
    BY <2>10 DEF Drain
  <2>11. CASE Arrive(r, "end")
    BY <2>11 DEF Arrive, Barriers
  <2>12. CASE Depart(r, "end", "record")
    BY <2>12 DEF Depart
  <2>13. CASE Record(r)
    <3>1. iter' \in [Roles -> Nat] /\ pc' \in [Roles -> Places]
      BY <2>13 DEF Record
    <3>2. iter[r] \in Nat /\ Phase(r) \in {0, 1} /\ PartitionOf(r, Phase(r)) \in {0, 1}
      BY PartitionTypes DEF Phase
    <3>3. rows' \in [Roles -> SUBSET [iter : Nat, phase : {0, 1}, role : Roles,
                                     mask_id : {0, 1}]]
      BY <2>13, <3>2 DEF Record
    <3> QED
      BY <2>13, <3>1, <3>3 DEF Record
  <2>14. CASE FinalSync(r)
    BY <2>14 DEF FinalSync
  <2>15. CASE WriteShard(r)
    BY <2>15 DEF WriteShard
  <2>16. CASE Fail(r)
    BY <2>16 DEF Fail, Checked
  <2>17. CASE Begin(r)
    BY <2>17 DEF Begin
  <2>18. CASE Complete(r)
    BY <2>18, CompleteEffect DEF Complete
  <2> QED
    BY <1>1, <2>1, <2>2, <2>3, <2>4, <2>5, <2>6, <2>7, <2>8, <2>9, <2>10, <2>11, <2>12, <2>13, <2>14, <2>15, <2>16, <2>17, <2>18 DEF Step, RunRole, Gpu
<1>2. CASE WaitChild \/ Merge
  <2>1. pc' \in [Roles -> Places]
    BY <1>2 DEF WaitChild, Merge, Shape, GoTo, Places
  <2> QED
    BY <1>2, <2>1 DEF WaitChild, Merge, Shape
<1>3. CASE UNCHANGED vars
  BY <1>3 DEF vars, Shape
<1> QED
  BY <1>1, <1>2, <1>3, NextCases

\* The bounds of the loop and of the warm-up.
LEMMA BoundedStep ==
  ASSUME Inv, [Next]_vars
  PROVE  Bounded'
<1>0. /\ Shape /\ Bounded
      /\ options.num_slices \in Nat \ {0} /\ options.max_phases \in Nat \ {0}
      /\ options.warmup \in Nat
  BY InvocationsAssumption DEF Inv, Shape
<1>1. ASSUME NEW r \in Roles, Step(r)
      PROVE  Bounded'
  <2> USE <1>0 DEF Shape, Bounded, GoTo, Places, Started, Inside
  <2>1. CASE Setup(r) \/ WarmupDone(r)
    BY <2>1 DEF Setup, WarmupDone
  <2>2. CASE WarmUp(r)
    BY <2>2 DEF WarmUp
  <2>3. CASE WarmupSync(r)
    BY <2>3 DEF WarmupSync
  <2>4. CASE LoopTop(r)
    BY <2>4 DEF LoopTop
  <2>5. CASE Arrive(r, "start") \/ Arrive(r, "end")
    BY <2>5 DEF Arrive
  <2>6. CASE Depart(r, "start", "set") \/ Depart(r, "end", "record")
    BY <2>6 DEF Depart
  <2>7. CASE SetMask(r) \/ LaunchSlice(r) \/ Drain(r)
    BY <2>7 DEF SetMask, LaunchSlice, Drain
  <2>8. CASE Record(r)
    BY <2>8 DEF Record
  <2>9. CASE FinalSync(r) \/ WriteShard(r)
    BY <2>9 DEF FinalSync, WriteShard
  <2>10. CASE Fail(r)
    BY <2>10 DEF Fail, Checked
  <2>11. CASE Begin(r) \/ Complete(r)
    BY <2>11 DEF Begin, Complete
  <2> QED
    BY <1>1, <2>1, <2>2, <2>3, <2>4, <2>5, <2>6, <2>7, <2>8, <2>9, <2>10, <2>11 DEF Step, RunRole, Gpu
<1>2. CASE WaitChild \/ Merge
  BY <1>0, <1>2, SMTT(20) DEF WaitChild, Merge, Shape, Bounded, GoTo, Started, Roles
<1>3. CASE UNCHANGED vars
  BY <1>0, <1>3 DEF vars, Bounded
<1> QED
  BY <1>1, <1>2, <1>3, NextCases

\* A process waits in the barrier it is in, and no other.
LEMMA WaitsStep ==
  ASSUME Inv, [Next]_vars
  PROVE  WaitsIn'
<1>0. Shape /\ WaitsIn
  BY DEF Inv, TurnsInv
<1>1. ASSUME NEW r \in Roles, Step(r)
      PROVE  WaitsIn'
  <2>1. CASE pc[r] \notin {"in_start", "in_end"} /\ waiting' = waiting
             /\ \A q \in Roles \ {r} : pc'[q] = pc[q]
    BY <1>0, <2>1 DEF WaitsIn, Shape, Barriers
  <2>2. CASE Arrive(r, "start") \/ Arrive(r, "end")
    <3>1. ASSUME NEW b \in Barriers, Arrive(r, b)
          PROVE  /\ pc' = [pc EXCEPT ![r] = Inside(b)] /\ waiting'[b] \subseteq waiting[b] \cup {r}
                 /\ \A c \in Barriers \ {b} : waiting'[c] = waiting[c]
                 /\ \A c \in Barriers : r \notin waiting[c]
      BY <1>0, <3>1 DEF WaitsIn, Shape, Barriers, Arrive, GoTo
    <3>2. CASE Arrive(r, "start")
      BY <1>0, <3>1, <3>2 DEF WaitsIn, Shape, Barriers, Inside
    <3>3. CASE Arrive(r, "end")
      BY <1>0, <3>1, <3>3, ZenonT(60) DEF WaitsIn, Shape, Barriers, Inside
    <3> QED
      BY <2>2, <3>2, <3>3
  <2>3. CASE Depart(r, "start", "set") \/ Depart(r, "end", "record")
    BY <1>0, <2>3 DEF WaitsIn, Shape, Barriers, Depart, GoTo, Inside
  <2>4. CASE Gpu(r)
    BY <1>0, <2>4 DEF WaitsIn, Gpu, Begin, Complete
  <2>5. CASE Fail(r)
    BY <1>0, <2>1, <2>5 DEF Fail, Checked, GoTo, Shape
  <2>6. CASE Setup(r) \/ WarmUp(r) \/ WarmupSync(r) \/ WarmupDone(r) \/ LoopTop(r)
    BY <1>0, <2>1, <2>6 DEF Setup, WarmUp, WarmupSync, WarmupDone, LoopTop, GoTo, Shape
  <2>7. CASE SetMask(r) \/ LaunchSlice(r) \/ Drain(r) \/ Record(r) \/ FinalSync(r)
             \/ WriteShard(r)
    BY <1>0, <2>1, <2>7
    DEF SetMask, LaunchSlice, Drain, Record, FinalSync, WriteShard, GoTo, Shape
  <2> QED
    BY <1>1, <2>2, <2>3, <2>4, <2>5, <2>6, <2>7 DEF Step, RunRole
<1>2. CASE WaitChild \/ Merge
  BY <1>0, <1>2 DEF WaitChild, Merge, Shape, WaitsIn, GoTo, Barriers
<1>3. CASE UNCHANGED vars
  BY <1>0, <1>3 DEF vars, WaitsIn
<1> QED
  BY <1>1, <1>2, <1>3, NextCases

\* The processes take turns through the barriers: only the arrival of the second
\* process opens one.
LEMMA TurnsStep ==
  ASSUME Inv, [Next]_vars
  PROVE  TurnsInv'
<1>0. PICK g \in Nat : Shape /\ WaitsIn /\ InTurn(g) /\ WaitsIn'
  BY WaitsStep DEF Inv, TurnsInv
<1>a. SUFFICES \E h \in Nat : InTurn(h)'
  BY <1>0 DEF TurnsInv
<1>1. ASSUME NEW r \in Roles, Step(r)
      PROVE  \E h \in Nat : InTurn(h)'
  <2> USE <1>0 DEF Shape, InTurn, Early, Middle, Late, GoTo, Places, Inside
  <2>1. CASE Setup(r) \/ WarmupDone(r)
    <3>1. InTurn(g)'
      BY <2>1, SMTT(20) DEF Setup, WarmupDone
    <3> QED
      BY <3>1
  <2>2. CASE WarmUp(r)
    <3>1. InTurn(g)'
      BY <2>2 DEF WarmUp
    <3> QED
      BY <3>1
  <2>3. CASE WarmupSync(r)
    <3>1. InTurn(g)'
      BY <2>3 DEF WarmupSync
    <3> QED
      BY <3>1
  <2>4. CASE LoopTop(r)
    <3>1. InTurn(g)'
      BY <2>4 DEF LoopTop
    <3> QED
      BY <3>1
  <2>6. CASE Depart(r, "start", "set") \/ Depart(r, "end", "record")
    <3>1. InTurn(g)'
      BY <2>6, SMTT(20) DEF Depart, Barriers
    <3> QED
      BY <3>1
  <2>7. CASE SetMask(r) \/ LaunchSlice(r) \/ Drain(r)
    <3>1. InTurn(g)'
      BY <2>7, ZenonT(60) DEF SetMask, LaunchSlice, Drain
    <3> QED
      BY <3>1
  <2>8. CASE Record(r)
    <3>1. iter' = [iter EXCEPT ![r] = iter[r] + 1] /\ pc' = [pc EXCEPT ![r] = "loop"]
          /\ waiting' = waiting /\ pc[r] = "record"
      BY <2>8 DEF Record
    <3>2. Late(r) /\ iter'[r] = iter[r] + 1 /\ pc'[r] = "loop"
      BY <3>1
    <3>3. g = 2 * iter'[r]
      BY <3>2
    <3>4. \A q \in Roles \ {r} : iter'[q] = iter[q] /\ pc'[q] = pc[q]
      BY <3>1
    <3>5. InTurn(g)'
      BY <3>1, <3>2, <3>3, <3>4
    <3> QED
      BY <3>5
  <2>9. CASE FinalSync(r) \/ WriteShard(r)
    <3>1. InTurn(g)'
      BY <2>9, SMTT(20) DEF FinalSync, WriteShard
    <3> QED
      BY <3>1
  <2>10. CASE Fail(r)
    <3>1. InTurn(g)'
      BY <2>10 DEF Fail, Checked
    <3> QED
      BY <3>1
  <2>11. CASE Begin(r) \/ Complete(r)
    <3>1. InTurn(g)'
      BY <2>11 DEF Begin, Complete
    <3> QED
      BY <3>1
  <2>5. ASSUME NEW b \in Barriers, Arrive(r, b)
        PROVE  \E h \in Nat : InTurn(h)'
    <3> USE <2>5 DEF Arrive, Barriers, WaitsIn
    <3>1. CASE waiting[b] # Roles \ {r}
      <4>1. InTurn(g)'
        BY <3>1, SMTT(20)
      <4> QED
        BY <4>1
    <3>2. CASE waiting[b] = Roles \ {r}
      <4>1. PICK o \in Roles : Roles = {o, r} /\ o # r
        BY DEF Roles
      <4>2. /\ waiting[b] = {o} /\ pc[o] = Inside(b) /\ pc[r] = b
            /\ waiting' = [waiting EXCEPT ![b] = {}]
            /\ pc'[o] = Inside(b) /\ pc'[r] = Inside(b)
            /\ iter' = iter
        BY <3>2, <4>1
      <4>3. CASE b = "start"
        <5>1. /\ Early(o) /\ Early(r) /\ Middle(o)' /\ Middle(r)'
              /\ ~Early(o)' /\ ~Early(r)' /\ ~Late(o)' /\ ~Late(r)'
          BY <4>2, <4>3
        <5>2. InTurn(g + 1)'
          BY <4>1, <4>2, <4>3, <5>1
        <5> HIDE DEF InTurn
        <5> QED
          BY <5>2
      <4>4. CASE b = "end"
        <5>1. /\ Middle(o) /\ Middle(r) /\ Late(o)' /\ Late(r)'
              /\ ~Early(o)' /\ ~Early(r)' /\ ~Middle(o)' /\ ~Middle(r)'
          BY <4>2, <4>4
        <5>2. InTurn(g + 1)'
          BY <4>1, <4>2, <4>4, <5>1
        <5> HIDE DEF InTurn
        <5> QED
          BY <5>2
      <4> QED
        BY <4>3, <4>4
    <3> QED
      BY <3>1, <3>2
  <2> QED
    BY <1>1, <2>1, <2>2, <2>3, <2>4, <2>5, <2>6, <2>7, <2>8, <2>9, <2>10, <2>11 DEF Step, RunRole, Gpu, Barriers
<1>2. CASE WaitChild \/ Merge
  <2>1. InTurn(g)'
    BY <1>0, <1>2, SMTT(20) DEF WaitChild, Merge, Shape, InTurn, Early, Middle, Late, GoTo, Places, Roles
  <2> QED
    BY <2>1
<1>3. CASE UNCHANGED vars
  <2>1. InTurn(g)'
    BY <1>0, <1>3 DEF vars, InTurn, Early, Middle, Late
  <2> QED
    BY <2>1
<1> QED
  BY <1>1, <1>2, <1>3, NextCases

\* A step of one process leaves the other's state and stream alone.
LEMMA StepFrame ==
  ASSUME Shape, NEW r \in Roles, Step(r), NEW q \in Roles \ {r}
  PROVE  /\ options' = options /\ pc'[q] = pc[q] /\ iter'[q] = iter[q]
         /\ mask'[q] = mask[q] /\ queue'[q] = queue[q] /\ rows'[q] = rows[q]
         /\ shard'[q] = shard[q] /\ merged' = merged
<1>1. CASE Setup(r) \/ WarmupSync(r) \/ WarmupDone(r) \/ LoopTop(r) \/ Drain(r) \/ FinalSync(r)
  BY <1>1 DEF Setup, WarmupSync, WarmupDone, LoopTop, Drain, FinalSync, GoTo, Shape
<1>2. CASE WarmUp(r) \/ LaunchSlice(r)
  BY <1>2 DEF WarmUp, LaunchSlice, Enqueue, GoTo, Shape
<1>3. CASE \E b \in Barriers : Arrive(r, b) \/ Depart(r, b, "set") \/ Depart(r, b, "record")
  BY <1>3 DEF Arrive, Depart, GoTo, Shape
<1>4. CASE SetMask(r) \/ Record(r) \/ WriteShard(r)
  BY <1>4 DEF SetMask, Record, WriteShard, GoTo, Shape
<1>5. CASE Fail(r) \/ Gpu(r)
  BY <1>5 DEF Fail, Gpu, Begin, Complete, GoTo, Shape
<1> QED
  BY <1>1, <1>2, <1>3, <1>4, <1>5 DEF Step, RunRole, Barriers

\* What is queued stays what it should be.
LEMMA QueueStep ==
  ASSUME Inv, [Next]_vars
  PROVE  QueueInv'
<1>0. Shape /\ Bounded /\ QueueInv
  BY DEF Inv
<1>1. ASSUME NEW r \in Roles, Step(r), NEW q \in Roles \ {r}
      PROVE  QueueOf(q)'
  <2>1. /\ options' = options /\ pc'[q] = pc[q] /\ iter'[q] = iter[q]
        /\ mask'[q] = mask[q] /\ queue'[q] = queue[q]
    BY <1>0, <1>1, StepFrame
  <2> QED
    BY <1>0, <2>1 DEF QueueInv, QueueOf, Queued, Overlap, Phase
<1>2. ASSUME NEW r \in Roles, Step(r)
      PROVE  QueueOf(r)'
  <2>0. /\ QueueOf(r) /\ iter[r] \in Nat /\ queue[r] \in Seq(Kernels) /\ Len(queue[r]) \in Nat
        /\ pc \in [Roles -> Places]
        /\ pc[r] \in {"setup", "warm", "warm_sync"} => iter[r] = 0
        /\ Len(queue[r]) = 0 => queue[r] = << >>
    BY <1>0 DEF QueueInv, Shape, Bounded
  <2>1. CASE Setup(r) \/ WarmupSync(r) \/ WarmupDone(r) \/ LoopTop(r) \/ Drain(r)
              \/ FinalSync(r) \/ WriteShard(r)
    <3>1. /\ UNCHANGED <<options, iter, mask, queue>> /\ Queued(r)' = Queued(r)
          /\ Overlap' = Overlap
      BY <2>1 DEF Setup, WarmupSync, WarmupDone, LoopTop, Drain, FinalSync, WriteShard,
                  Queued, Overlap
    <3>2. \/ pc[r] = "setup" /\ pc'[r] = "warm" /\ ~Overlap
          \/ pc[r] = "warm_sync" /\ pc'[r] = "warm" /\ queue[r] = << >>
          \/ pc[r] = "warm" /\ pc'[r] = "loop"
          \/ pc[r] = "loop" /\ pc'[r] \in {"start", "final"}
          \/ pc[r] = "drain" /\ pc'[r] = "end" /\ queue[r] = << >>
          \/ pc[r] = "final" /\ pc'[r] = "csv" /\ queue[r] = << >>
          \/ pc[r] = "csv" /\ pc'[r] \in {"waitpid", "exited"}
      BY <2>0, <2>1 DEF Setup, WarmupSync, WarmupDone, LoopTop, Drain, FinalSync, WriteShard, GoTo
    <3>3. queue[r] = << >> => Len(queue[r]) = 0
      OBVIOUS
    <3> QED
      BY <2>0, <3>1, <3>2, <3>3 DEF QueueOf, Launched
  <2>2. CASE WarmUp(r)
    <3>1. /\ pc[r] = "warm" /\ pc'[r] = "warm_sync" /\ UNCHANGED <<options, iter>>
          /\ Enqueue(r, WarmupKernel) /\ mask'[r] \in SUBSET (0 .. NumTpcs - 1)
      BY <1>0, <2>0, <2>2, PartitionTypes DEF WarmUp, GoTo, Shape
    <3>2. /\ Len(queue'[r]) = Len(queue[r]) + 1
          /\ Queued(r)' = Queued(r) \cup {[tpcs |-> mask'[r], iter |-> WarmupKernel]}
      BY <1>0, <3>1, EnqueueEffect
    <3>3. Len(queue[r]) = 0 /\ Queued(r) = {}
      BY <2>0, <3>1 DEF QueueOf, Launched, Queued
    <3>4. Overlap' = Overlap
      BY <3>1 DEF Overlap
    <3> QED
      BY <2>0, <3>1, <3>2, <3>3, <3>4 DEF QueueOf
  <2>3. CASE Arrive(r, "start") \/ Arrive(r, "end")
    <3>1. /\ UNCHANGED <<options, iter, mask, queue>> /\ Queued(r)' = Queued(r)
          /\ Overlap' = Overlap
      BY <2>3 DEF Arrive, Queued, Overlap
    <3>2. \/ pc[r] = "start" /\ pc'[r] = "in_start"
          \/ pc[r] = "end" /\ pc'[r] = "in_end"
      BY <2>0, <2>3 DEF Arrive, GoTo, Inside
    <3> QED
      BY <2>0, <3>1, <3>2 DEF QueueOf, Launched
  <2>4. CASE Depart(r, "start", "set") \/ Depart(r, "end", "record")
    <3>1. /\ UNCHANGED <<options, iter, mask, queue>> /\ Queued(r)' = Queued(r)
          /\ Overlap' = Overlap
      BY <2>4 DEF Depart, Queued, Overlap
    <3>2. \/ pc[r] = "in_start" /\ pc'[r] = "set"
          \/ pc[r] = "in_end" /\ pc'[r] = "record"
      BY <2>0, <2>4 DEF Depart, GoTo, Inside
    <3> QED
      BY <2>0, <3>1, <3>2 DEF QueueOf, Launched
  <2>5. CASE SetMask(r)
    <3>1. /\ UNCHANGED <<options, iter, queue>> /\ Queued(r)' = Queued(r)
          /\ Overlap' = Overlap /\ pc[r] = "set" /\ pc'[r] = "launch"
      BY <2>0, <2>5 DEF SetMask, GoTo, Queued, Overlap
    <3>2. mask'[r] = Partition(options.partition[PartitionOf(r, Phase(r))])
      BY <1>0, <2>5 DEF SetMask, Shape
    <3> QED
      BY <2>0, <3>1, <3>2 DEF QueueOf, Launched, Phase
  <2>6. CASE LaunchSlice(r)
    <3>1. /\ pc[r] = "launch" /\ UNCHANGED <<options, iter, mask>>
          /\ pc'[r] = IF options.drain_before_swap THEN "drain" ELSE "end"
          /\ Enqueue(r, iter[r]) /\ mask'[r] \in SUBSET (0 .. NumTpcs - 1)
      BY <1>0, <2>0, <2>6 DEF LaunchSlice, GoTo, Shape
    <3>2. /\ Len(queue'[r]) = Len(queue[r]) + 1
          /\ Queued(r)' = Queued(r) \cup {[tpcs |-> mask'[r], iter |-> iter[r]]}
      BY <1>0, <2>0, <3>1, EnqueueEffect
    <3>3. /\ mask'[r] = Partition(options.partition[PartitionOf(r, iter[r] % 2)]) /\ ~Overlap
      BY <2>0, <3>1 DEF QueueOf, Phase
    <3>4. Overlap' = Overlap /\ iter[r] # WarmupKernel
      BY <2>0, <3>1 DEF Overlap, WarmupKernel
    <3>5. options.drain_before_swap => Queued(r) = {}
      BY <2>0, <3>1 DEF QueueOf, Queued
    <3> QED
      BY <2>0, <3>1, <3>2, <3>3, <3>4, <3>5 DEF QueueOf, Launched
  <2>7. CASE Record(r)
    <3>1. /\ UNCHANGED <<options, mask, queue>> /\ Queued(r)' = Queued(r)
          /\ Overlap' = Overlap /\ pc[r] = "record" /\ pc'[r] = "loop"
          /\ iter'[r] = iter[r] + 1
      BY <1>0, <2>0, <2>7 DEF Record, GoTo, Queued, Overlap, Shape
    <3> QED
      BY <2>0, <3>1 DEF QueueOf, Launched
  <2>8. CASE Fail(r)
    <3>1. /\ UNCHANGED options /\ pc'[r] = "failed" /\ iter' = iter /\ queue'[r] = << >>
      BY <1>0, <2>0, <2>8 DEF Fail, GoTo, Shape
    <3>2. Queued(r)' = {} /\ Len(queue'[r]) = 0
      BY <3>1 DEF Queued
    <3> QED
      BY <2>0, <3>1, <3>2 DEF QueueOf, Launched
  <2>9. CASE Begin(r)
    <3>1. /\ UNCHANGED <<options, pc, iter, mask, queue>> /\ Queued(r)' = Queued(r)
          /\ Overlap' = Overlap
      BY <2>9 DEF Begin, Queued, Overlap
    <3> QED
      BY <2>0, <3>1 DEF QueueOf, Phase
  <2>10. CASE Complete(r)
    <3>1. UNCHANGED <<options, pc, iter, mask>> /\ Overlap' = Overlap
      BY <2>10 DEF Complete, Overlap
    <3>2. /\ queue[r] # << >> /\ Len(queue'[r]) = Len(queue[r]) - 1
          /\ Queued(r)' \subseteq Queued(r)
      BY <1>0, <2>10, CompleteEffect
    <3> QED
      BY <2>0, <3>1, <3>2 DEF QueueOf, Phase
  <2> QED
    BY <1>2, <2>1, <2>2, <2>3, <2>4, <2>5, <2>6, <2>7, <2>8, <2>9, <2>10
    DEF Step, RunRole, Gpu
<1>3. CASE WaitChild \/ Merge
  <2>1. /\ UNCHANGED <<options, iter, mask, queue>> /\ pc'[1] = pc[1]
        /\ \/ pc[0] = "waitpid" /\ pc'[0] \in {"merge", "reported"}
           \/ pc[0] = "merge" /\ pc'[0] = "done"
    BY <1>0, <1>3 DEF WaitChild, Merge, GoTo, Shape, Roles
  <2> QED
    BY <1>0, <2>1 DEF QueueInv, QueueOf, Queued, Overlap, Phase, Launched, Roles
<1>4. CASE UNCHANGED vars
  BY <1>0, <1>4 DEF vars, QueueInv, QueueOf, Queued, Overlap, Phase
<1> QED
  BY <1>1, <1>2, <1>3, <1>4, NextCases DEF QueueInv

\* Where a step of a process leads, as far as the files depend on it.
LEMMA StepPlaces ==
  ASSUME Shape, NEW r \in Roles, Step(r)
  PROVE  /\ merged' = merged
         /\ \/ pc'[r] = pc[r]
            \/ pc'[r] \notin {"exited", "waitpid", "merge", "done"}
            \/ pc[r] = "csv" /\ pc'[r] = IF r = 0 THEN "waitpid" ELSE "exited"
         /\ pc[r] \in {"exited", "waitpid", "done"} => pc'[r] = pc[r]
         /\ pc[r] = "merge" => pc'[r] \in {"merge", "failed"}
<1>1. CASE Setup(r) \/ WarmupSync(r) \/ WarmupDone(r) \/ LoopTop(r) \/ Drain(r) \/ FinalSync(r)
  BY <1>1 DEF Setup, WarmupSync, WarmupDone, LoopTop, Drain, FinalSync, GoTo, Shape
<1>2. CASE WarmUp(r) \/ LaunchSlice(r)
  BY <1>2 DEF WarmUp, LaunchSlice, Enqueue, GoTo, Shape
<1>3. CASE Arrive(r, "start") \/ Arrive(r, "end")
  BY <1>3 DEF Arrive, GoTo, Shape, Inside
<1>4. CASE Depart(r, "start", "set") \/ Depart(r, "end", "record")
  BY <1>4 DEF Depart, GoTo, Shape, Inside
<1>5. CASE SetMask(r) \/ Record(r) \/ WriteShard(r)
  BY <1>5 DEF SetMask, Record, WriteShard, GoTo, Shape
<1>6. CASE Fail(r) \/ Gpu(r)
  BY <1>6 DEF Fail, Checked, Gpu, Begin, Complete, GoTo, Shape
<1> QED
  BY <1>1, <1>2, <1>3, <1>4, <1>5, <1>6 DEF Step, RunRole

\* The records and the files keep up with the phases.
LEMMA FilesStep ==
  ASSUME Inv, [Next]_vars
  PROVE  FilesInv'
<1>0. Shape /\ FilesInv
  BY DEF Inv
<1>1. ASSUME NEW r \in Roles, Step(r)
      PROVE  FilesInv'
  <2>1. ASSUME NEW q \in Roles \ {r}
        PROVE  FilesOf(q)'
    BY <1>0, <1>1, StepFrame DEF FilesInv, FilesOf
  <2>2. FilesOf(r)'
    <3>1. FilesOf(r)
      BY <1>0 DEF FilesInv
    <3>2. pc[r] = "csv" => WriteShard(r) \/ Fail(r) \/ Gpu(r)
      BY <1>1 DEF Step, RunRole, Setup, WarmUp, WarmupSync, WarmupDone, LoopTop, Arrive, Depart,
                  SetMask, LaunchSlice, Drain, Record, FinalSync, Inside
    <3>3. CASE WriteShard(r)
      BY <1>0, <3>1, <3>3 DEF WriteShard, FilesOf, Shape
    <3>4. CASE Record(r)
      <4>1. /\ iter[r] \in Nat /\ iter'[r] = iter[r] + 1 /\ pc'[r] = "loop"
            /\ rows'[r] = rows[r] \cup
                 {[iter |-> iter[r], phase |-> iter[r] % 2, role |-> r,
                   mask_id |-> PartitionOf(r, iter[r] % 2)]}
        BY <1>0, <3>4 DEF Record, GoTo, Shape, Phase
      <4>2. 0 .. iter'[r] - 1 = (0 .. iter[r] - 1) \cup {iter[r]}
        BY <4>1
      <4> QED
        BY <3>1, <4>1, <4>2 DEF FilesOf
    <3>5. CASE UNCHANGED <<rows, shard, iter>> /\ ~WriteShard(r)
      <4>1. pc'[r] = pc[r] \/ pc'[r] \notin {"exited", "waitpid", "merge", "done"}
        BY <1>0, <1>1, <3>5, <3>2, StepPlaces
        DEF Fail, Gpu, Begin, Complete, GoTo, Shape
      <4> QED
        BY <3>1, <3>5, <4>1 DEF FilesOf
    <3> QED
      BY <1>1, <3>3, <3>4, <3>5
      DEF Step, RunRole, Gpu, Setup, WarmUp, WarmupSync, WarmupDone, LoopTop, Arrive, Depart,
          SetMask, LaunchSlice, Drain, FinalSync, Fail, Begin, Complete
  <2>3. /\ pc'[1] \notin {"waitpid", "merge", "done"} /\ pc'[0] # "exited"
        /\ pc'[0] \in {"merge", "done"} => pc'[1] = "exited"
        /\ pc'[0] = "done" => pc[0] = "done" /\ pc[1] = "exited"
    BY <1>0, <1>1, StepPlaces, StepFrame DEF FilesInv, Roles
  <2>4. ASSUME pc'[0] = "done"
        PROVE  merged' = shard'[0] \cup shard'[1]
    <3>1. pc[0] = "done" /\ pc[1] = "exited" /\ merged' = merged
      BY <1>0, <1>1, <2>3, <2>4, StepPlaces
    <3>2. shard' = shard
      BY <1>1, <3>1
      DEF Step, RunRole, Gpu, Setup, WarmUp, WarmupSync, WarmupDone, LoopTop, Arrive, Depart,
          SetMask, LaunchSlice, Drain, Record, FinalSync, WriteShard, Fail, Begin, Complete, Roles
    <3> QED
      BY <1>0, <3>1, <3>2 DEF FilesInv
  <2> QED
    BY <2>1, <2>2, <2>3, <2>4 DEF FilesInv
<1>2. CASE WaitChild
  BY <1>0, <1>2 DEF WaitChild, GoTo, Shape, FilesInv, FilesOf, Roles
<1>3. CASE Merge
  BY <1>0, <1>3 DEF Merge, GoTo, Shape, FilesInv, FilesOf, Roles
<1>4. CASE UNCHANGED vars
  BY <1>0, <1>4 DEF vars, FilesInv, FilesOf
<1> QED
  BY <1>1, <1>2, <1>3, <1>4, NextCases

-----------------------------------------------------------------------------
(* The theorems *)

\* The invariant holds before either process has begun.
LEMMA InitInv == Init => Inv
<1> SUFFICES ASSUME Init PROVE Inv
  OBVIOUS
<1> USE DEF Init
<1>1. /\ options.num_slices \in Nat \ {0} /\ options.max_phases \in Nat \ {0}
      /\ options.warmup \in Nat
  BY InvocationsAssumption
<1>2. Shape
  BY DEF Shape, Places, NoFile
<1>3. Bounded
  BY <1>1 DEF Bounded, Started
<1>4. WaitsIn /\ InTurn(0)
  BY DEF WaitsIn, InTurn, Early, Middle, Late, Barriers
<1>5. QueueInv
  BY DEF QueueInv, QueueOf, Queued, Launched
<1>6. FilesInv
  BY DEF FilesInv, FilesOf, Roles
<1> HIDE DEF Init
<1>7. TurnsInv
  BY <1>4 DEF TurnsInv
<1> QED
  BY <1>2, <1>3, <1>5, <1>6, <1>7 DEF Inv

\* So it holds in every reachable state.
LEMMA InvAlways == Spec => []Inv
<1>1. Inv /\ [Next]_vars => Inv'
  <2> SUFFICES ASSUME Inv, [Next]_vars PROVE Inv'
    OBVIOUS
  <2>1. Shape' /\ Bounded'
    BY ShapeStep, BoundedStep
  <2>2. TurnsInv' /\ QueueInv' /\ FilesInv'
    BY TurnsStep, QueueStep, FilesStep
  <2> QED
    BY <2>1, <2>2 DEF Inv
<1> QED
  BY <1>1, InitInv, PTL DEF Spec

LEMMA InvOpposite == Inv => OppositePartitions
<1> SUFFICES ASSUME Inv PROVE OppositePartitions
  OBVIOUS
<1>0. Shape /\ Bounded /\ QueueInv
  BY DEF Inv
<1>1. /\ options.num_slices \in Nat /\ options.max_phases \in Nat /\ options.warmup \in Nat
  BY <1>0, InvocationsAssumption DEF Shape
<1>2. PICK g \in Nat : InTurn(g)
  BY DEF Inv, TurnsInv
<1>3. TypeOK
  <2>1. /\ warm \in [Roles -> 0 .. options.warmup]
        /\ iter \in [Roles -> 0 .. options.max_phases]
    BY <1>0, <1>1 DEF Shape, Bounded
  <2>2. ASSUME NEW r \in Roles
        PROVE  Len(queue[r]) <= options.num_slices
    <3>1. /\ iter[r] \in Nat /\ Len(queue[r]) \in Nat
          /\ iter[r] <= options.num_slices
          /\ pc[r] \in Launched => iter[r] < options.num_slices
          /\ QueueOf(r) /\ options.num_slices >= 1
      BY <1>0, InvocationsAssumption DEF Shape, Bounded, QueueInv, Launched, Started
    <3> QED
      BY <1>1, <3>1 DEF QueueOf
  <2> QED
    BY <1>0, <2>1, <2>2 DEF TypeOK, Shape
<1>4. SamePhase
  <2>1. iter[0] \in Nat /\ iter[1] \in Nat
    BY <1>0 DEF Shape, Roles
  <2>2. \A r \in Roles : g = 2 * iter[r] \/ g = 2 * iter[r] + 1 \/ g = 2 * iter[r] + 2
    BY <1>0, <1>2 DEF InTurn, Early, Middle, Late, Shape, Places
  <2>3. \A r \in Roles : InPhase(r) => g = 2 * iter[r] + 1
    BY <1>2 DEF InPhase, InTurn, Middle
  <2>4. iter[0] - iter[1] \in {-1, 0, 1}
    <3>1. 2 * iter[0] <= 2 * iter[1] + 2 /\ 2 * iter[1] <= 2 * iter[0] + 2
      BY <2>1, <2>2 DEF Roles
    <3> QED
      BY <2>1, <3>1
  <2>5. InPhase(0) /\ InPhase(1) => iter[0] = iter[1]
    BY <2>1, <2>3 DEF Roles
  <2> QED
    BY <2>4, <2>5 DEF SamePhase
<1>5. SlicesOfAPhaseDisjoint
  <2> SUFFICES ASSUME NEW x \in 1 .. Len(queue[0]), NEW y \in 1 .. Len(queue[1]),
                      queue[0][x].iter = queue[1][y].iter,
                      queue[0][x].iter # WarmupKernel
               PROVE  queue[0][x].tpcs \cap queue[1][y].tpcs = {}
    BY DEF SlicesOfAPhaseDisjoint
  <2>1. queue[0][x] \in Queued(0) /\ queue[1][y] \in Queued(1)
    BY DEF Queued
  <2>2. QueueOf(0) /\ QueueOf(1)
    BY <1>0 DEF QueueInv, Roles
  <2>3. /\ queue[0][x].iter \in Nat /\ ~Overlap
        /\ queue[0][x].tpcs = Partition(options.partition[PartitionOf(0, queue[0][x].iter % 2)])
        /\ queue[1][y].tpcs = Partition(options.partition[PartitionOf(1, queue[0][x].iter % 2)])
    BY <2>1, <2>2 DEF QueueOf
  <2> QED
    BY <2>3, OppositePartition
<1> QED
  BY <1>3, <1>4, <1>5 DEF OppositePartitions

LEMMA InvDrained == Inv => DrainedDisjoint
<1> SUFFICES ASSUME Inv, options.drain_before_swap, running = Roles,
                    NEW m \in Roles, Kernel(m).iter # WarmupKernel
             PROVE  Kernel(0).tpcs \cap Kernel(1).tpcs = {}
  BY DEF DrainedDisjoint, DisjointKernels
<1>0. Shape /\ Bounded /\ QueueInv
  BY DEF Inv
<1>1. PICK g \in Nat : InTurn(g)
  BY DEF Inv, TurnsInv
<1>2. ASSUME NEW r \in Roles
      PROVE  Kernel(r) \in Queued(r) /\ pc[r] \in {"warm_sync", "drain"}
  <2>1. queue[r] # << >> /\ queue[r] \in Seq(Kernels)
    BY <1>0 DEF Shape
  <2>2. Kernel(r) = queue[r][1] /\ 1 \in 1 .. Len(queue[r])
    BY <2>1 DEF Kernel
  <2> QED
    BY <1>0, <2>1, <2>2 DEF Queued, QueueInv, QueueOf
<1>3. pc[m] = "drain"
  BY <1>0, <1>2 DEF QueueInv, QueueOf
<1>4. g = 2 * iter[m] + 1 /\ iter[m] \in Nat
  BY <1>0, <1>1, <1>3 DEF InTurn, Middle, Shape
<1>5. \A r \in Roles : pc[r] = "drain" /\ iter[r] = iter[m]
  <2>1. \A r \in Roles : pc[r] = "warm_sync" => g = 0
    BY <1>0, <1>1 DEF InTurn, Early, Bounded, Places
  <2>2. \A r \in Roles : pc[r] = "drain"
    BY <1>2, <1>4, <2>1
  <2>3. \A r \in Roles : g = 2 * iter[r] + 1 /\ iter[r] \in Nat
    BY <1>0, <1>1, <2>2 DEF InTurn, Middle, Shape
  <2> QED
    BY <1>4, <2>2, <2>3
<1>6. \A r \in Roles : Kernel(r).iter = iter[m]
  BY <1>0, <1>2, <1>5 DEF QueueInv, QueueOf
<1>7. iter[m] # WarmupKernel
  BY <1>4 DEF WarmupKernel
<1>8. \A r \in Roles :
        /\ Kernel(r).tpcs = Partition(options.partition[PartitionOf(r, iter[m] % 2)])
        /\ ~Overlap
  BY <1>0, <1>2, <1>6, <1>7 DEF QueueInv, QueueOf
<1> QED
  BY <1>4, <1>8, OppositePartition DEF Roles

LEMMA InvFiles == Inv => FilesComplete
<1> SUFFICES ASSUME Inv PROVE FilesComplete
  OBVIOUS
<1>0. Shape /\ QueueInv /\ FilesInv
  BY DEF Inv
<1>1. WritesAfterWork
  BY <1>0 DEF WritesAfterWork, QueueInv, QueueOf
<1>2. ASSUME pc[0] = "done"
      PROVE  /\ \A n \in 0 .. iter[0] - 1, r \in Roles :
                   \E row \in merged : row.iter = n /\ row.role = r
             /\ \A one, two \in merged :
                   (one.iter = two.iter /\ one.role # two.role) => one.mask_id # two.mask_id
  <2>1. pc[1] = "exited" /\ merged = rows[0] \cup rows[1]
    BY <1>0, <1>2 DEF FilesInv, FilesOf, Roles
  <2>2. iter[0] = iter[1] /\ iter[0] \in Nat
    <3>1. PICK g \in Nat : InTurn(g)
      BY DEF Inv, TurnsInv
    <3>2. g = 2 * iter[0] /\ g = 2 * iter[1]
      BY <1>2, <2>1, <3>1 DEF InTurn, Early, Places, Roles
    <3> QED
      BY <1>0, <3>2 DEF Shape, Roles
  <2>3. \A r \in Roles :
          rows[r] = {[iter |-> n, phase |-> n % 2, role |-> r,
                      mask_id |-> PartitionOf(r, n % 2)] : n \in 0 .. iter[0] - 1}
    BY <1>0, <2>2 DEF FilesInv, FilesOf, Roles
  <2>4. ASSUME NEW n \in 0 .. iter[0] - 1, NEW r \in Roles
        PROVE  \E row \in merged : row.iter = n /\ row.role = r
    <3> DEFINE row == [iter |-> n, phase |-> n % 2, role |-> r, mask_id |-> PartitionOf(r, n % 2)]
    <3>1. row \in rows[r] /\ rows[r] \subseteq merged
      BY <2>1, <2>3 DEF Roles
    <3>2. row.iter = n /\ row.role = r
      OBVIOUS
    <3> QED
      BY <3>1, <3>2
  <2>5. ASSUME NEW one \in merged, NEW two \in merged,
               one.iter = two.iter, one.role # two.role
        PROVE  one.mask_id # two.mask_id
    <3>1. \A row \in merged : /\ row.iter \in Nat /\ row.role \in Roles
                             /\ row.mask_id = PartitionOf(row.role, row.iter % 2)
      BY <2>1, <2>2, <2>3 DEF Roles
    <3>2. \A n \in Nat : PartitionOf(0, n % 2) # PartitionOf(1, n % 2)
      BY DEF PartitionOf
    <3> QED
      BY <2>5, <3>1, <3>2 DEF Roles
  <2> QED
    BY <2>4, <2>5
<1>3. MergedPairs
  BY <1>2 DEF MergedPairs
<1> QED
  BY <1>1, <1>3 DEF FilesComplete

\* For every device and every command line: the two processes are in opposite
\* partitions of the same phase, also in what the GPU has not come to yet, and
\* neither is a phase ahead.
THEOREM PartitionsOpposite == Spec => []OppositePartitions
BY InvAlways, InvOpposite, PTL

\* For every device and every command line with the clean handoff: kernels of
\* the two processes that execute at a time never share a TPC once one of them
\* is of a measured phase.
THEOREM HandoffClean == Spec => []DrainedDisjoint
BY InvAlways, InvDrained, PTL

\* For every device and every command line: the merged file has both rows of
\* every phase, with opposite partitions, and is written from finished work.
THEOREM MergeComplete == Spec => []FilesComplete
BY InvAlways, InvFiles, PTL

=============================================================================
