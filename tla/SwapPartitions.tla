--------------------------- MODULE SwapPartitions ---------------------------
(***************************************************************************)
(* The two-process benchmark                                               *)
(* tests/mask_switch_rate_two_process_dynamic: a parent (role 0) and the   *)
(* child it forks (role 1) each work through a sliced GEMM on a stream of  *)
(* their own.  In every phase they exchange two disjoint SM partitions:    *)
(* each sets the mask of its stream and enqueues one slice, between two    *)
(* barriers that live in memory they share.                                *)
(*                                                                         *)
(* The GPU runs the kernels of a stream in order and those of the two      *)
(* streams independently; a kernel runs on the TPCs its stream's mask      *)
(* enabled when it was launched (module SmMask says how it gets there).    *)
(***************************************************************************)
EXTENDS Integers, Sequences, FiniteSets

CONSTANTS
  NumSms, NumTpcs,   \* what the device reports
  Invocations        \* the command lines considered; each run has one

Roles == {0, 1}
Barriers == {"start", "end"}

ASSUME DeviceAssumption == NumSms \in Nat /\ NumTpcs \in Nat \ {0} /\ NumSms >= NumTpcs
ASSUME InvocationsAssumption ==
  \A o \in Invocations :
    /\ o.num_slices \in Nat \ {0}         \* ceil(m / slice_rows)
    /\ o.max_phases \in Nat \ {0} /\ o.warmup \in Nat
    /\ o.drain_before_swap \in BOOLEAN
    /\ \A k \in Roles :                   \* --partition0 and --partition1
         LET range == o.partition[k]
         IN  range.lo \in Nat /\ range.hi \in Nat /\ range.lo <= range.hi /\ range.hi < NumSms
    /\ o.may_fail \in BOOLEAN             \* whether a CUDA call may return an error

VARIABLES
  options,  \* the command line, parsed before the fork
  pc,       \* where each process is in run_role or main
  warm,     \* its warm-up slices so far
  iter,     \* its measured slices so far (row0 = iter * slice_rows)
  mask,     \* the TPCs its stream's mask enables
  queue,    \* the kernels of its stream that have not completed
  running,  \* the roles whose first queued kernel is executing
  waiting,  \* the processes blocked in each barrier
  rows,     \* its measurement records
  shard,    \* its shard file: the records written, or the ones of an older run
  merged    \* the merged file, NoFile before it is written

vars == <<options, pc, warm, iter, mask, queue, running, waiting, rows, shard, merged>>

NoFile == {}

\* parse_one_partition: the TPCs of a range of SMs, by integer division.
SmsPerTpc == NumSms \div NumTpcs
Partition(range) == {sm \div SmsPerTpc : sm \in range.lo .. range.hi} \cap 0 .. NumTpcs - 1
Overlap == Partition(options.partition[0]) \cap Partition(options.partition[1]) # {}

Init ==
  /\ options \in Invocations
  /\ pc = [r \in Roles |-> "setup"]
  /\ warm = [r \in Roles |-> 0]
  /\ iter = [r \in Roles |-> 0]
  /\ mask = [r \in Roles |-> 0 .. NumTpcs - 1]
  /\ queue = [r \in Roles |-> << >>]
  /\ running = {}
  /\ waiting = [b \in Barriers |-> {}]
  /\ rows = [r \in Roles |-> {}]
  /\ shard = [r \in Roles |-> {}]
  /\ merged = NoFile

GoTo(r, place) == pc' = [pc EXCEPT ![r] = place]
Inside(b) == IF b = "start" THEN "in_start" ELSE "in_end"

-----------------------------------------------------------------------------
(* Mutants *)

\* A barrier initialized for one process: nobody waits in it.
ArriveAlone(r, b) ==
  /\ pc[r] = b
  /\ GoTo(r, Inside(b))
  /\ UNCHANGED <<options, warm, iter, mask, queue, running, waiting, rows, shard, merged>>

\* The stream is not synchronized, whatever the option says.
DrainSkipped(r) ==
  /\ pc[r] = "drain"
  /\ GoTo(r, "end")
  /\ UNCHANGED <<options, warm, iter, mask, queue, running, waiting, rows, shard, merged>>

\* A child that exited with 0 is taken for one that failed.
WaitChildInverted ==
  /\ pc[0] = "waitpid" /\ pc[1] \in {"exited", "failed"}
  /\ GoTo(0, IF pc[1] = "failed" THEN "merge" ELSE "reported")
  /\ UNCHANGED <<options, warm, iter, mask, queue, running, waiting, rows, shard, merged>>

\* The parent merges the shards without waiting for the child.
WaitChildSkipped ==
  /\ pc[0] = "waitpid"
  /\ GoTo(0, "merge")
  /\ UNCHANGED <<options, warm, iter, mask, queue, running, waiting, rows, shard, merged>>

-----------------------------------------------------------------------------
(* run_role *)

\* mask_for_role_phase
PartitionOf(role, phase) == (role + phase) % 2

\* The device is set up and both partitions are rebuilt and found disjoint.
Setup(r) ==
  /\ pc[r] = "setup" /\ ~Overlap
  /\ GoTo(r, "warm")
  /\ UNCHANGED <<options, warm, iter, mask, queue, running, waiting, rows, shard, merged>>

\* A kernel enqueued on a stream runs under the mask the stream has now.
Enqueue(r, number) ==
  queue' = [queue EXCEPT ![r] = Append(@, [tpcs |-> mask'[r], iter |-> number])]

\* Warm-up slices alternate the partitions, with no barrier between the
\* processes; each is waited for before the next.
WarmupKernel == -1
WarmUp(r) ==
  /\ pc[r] = "warm" /\ warm[r] < options.warmup
  /\ mask' = [mask EXCEPT ![r] = Partition(options.partition[PartitionOf(r, warm[r] % 2)])]
  /\ Enqueue(r, WarmupKernel)
  /\ GoTo(r, "warm_sync")
  /\ UNCHANGED <<options, warm, iter, running, waiting, rows, shard, merged>>

WarmupSync(r) ==
  /\ pc[r] = "warm_sync" /\ queue[r] = << >>
  /\ warm' = [warm EXCEPT ![r] = @ + 1]
  /\ GoTo(r, "warm")
  /\ UNCHANGED <<options, iter, mask, queue, running, waiting, rows, shard, merged>>

WarmupDone(r) ==
  /\ pc[r] = "warm" /\ warm[r] = options.warmup
  /\ GoTo(r, "loop")
  /\ UNCHANGED <<options, warm, iter, mask, queue, running, waiting, rows, shard, merged>>

\* The loop goes on while rows are left and the cap is not reached.
LoopTop(r) ==
  /\ pc[r] = "loop"
  /\ GoTo(r, IF iter[r] < options.num_slices /\ iter[r] < options.max_phases THEN "start" ELSE "final")
  /\ UNCHANGED <<options, warm, iter, mask, queue, running, waiting, rows, shard, merged>>

\* pthread_barrier_wait: the second process to arrive releases the first.
Arrive(r, b) ==
  /\ pc[r] = b
  /\ waiting' = [waiting EXCEPT ![b] = IF @ = Roles \ {r} THEN {} ELSE @ \cup {r}]
  /\ GoTo(r, Inside(b))
  /\ UNCHANGED <<options, warm, iter, mask, queue, running, rows, shard, merged>>

Depart(r, b, next) ==
  /\ pc[r] = Inside(b) /\ r \notin waiting[b]
  /\ GoTo(r, next)
  /\ UNCHANGED <<options, warm, iter, mask, queue, running, waiting, rows, shard, merged>>

Phase(r) == iter[r] % 2

\* libsmctrl_set_stream_mask_ext for this phase's partition.
SetMask(r) ==
  /\ pc[r] = "set"
  /\ mask' = [mask EXCEPT ![r] = Partition(options.partition[PartitionOf(r, Phase(r))])]
  /\ GoTo(r, "launch")
  /\ UNCHANGED <<options, warm, iter, queue, running, waiting, rows, shard, merged>>

LaunchSlice(r) ==
  /\ pc[r] = "launch"
  /\ UNCHANGED mask
  /\ Enqueue(r, iter[r])
  /\ GoTo(r, IF options.drain_before_swap THEN "drain" ELSE "end")
  /\ UNCHANGED <<options, warm, iter, running, waiting, rows, shard, merged>>

\* cudaStreamSynchronize of the "clean handoff" mode.
Drain(r) ==
  /\ pc[r] = "drain" /\ queue[r] = << >>
  /\ GoTo(r, "end")
  /\ UNCHANGED <<options, warm, iter, mask, queue, running, waiting, rows, shard, merged>>

\* The slice's record, and row0 and iter advance.
Record(r) ==
  /\ pc[r] = "record"
  /\ rows' = [rows EXCEPT ![r] = @ \cup
       {[iter |-> iter[r], phase |-> Phase(r), role |-> r,
         mask_id |-> PartitionOf(r, Phase(r))]}]
  /\ iter' = [iter EXCEPT ![r] = @ + 1]
  /\ GoTo(r, "loop")
  /\ UNCHANGED <<options, warm, mask, queue, running, waiting, shard, merged>>

FinalSync(r) ==
  /\ pc[r] = "final" /\ queue[r] = << >>
  /\ GoTo(r, "csv")
  /\ UNCHANGED <<options, warm, iter, mask, queue, running, waiting, rows, shard, merged>>

\* write_iterations_csv; then the child exits and the parent waits for it.
WriteShard(r) ==
  /\ pc[r] = "csv"
  /\ shard' = [shard EXCEPT ![r] = rows[r]]
  /\ GoTo(r, IF r = 0 THEN "waitpid" ELSE "exited")
  /\ UNCHANGED <<options, warm, iter, mask, queue, running, waiting, rows, merged>>

\* cuda_check (and die): any checked call that fails ends its own process with
\* exit(1), and the driver discards what the process had enqueued.
Checked ==
  {"setup", "warm", "warm_sync", "launch", "drain", "final", "csv", "merge"}

Fail(r) ==
  /\ pc[r] \in Checked
  /\ options.may_fail \/ (pc[r] = "setup" /\ Overlap)
  /\ GoTo(r, "failed")
  /\ queue' = [queue EXCEPT ![r] = << >>]
  /\ running' = running \ {r}
  /\ UNCHANGED <<options, warm, iter, mask, waiting, rows, shard, merged>>

-----------------------------------------------------------------------------
(* main, after run_role(0) *)

\* waitpid, and "child exited abnormally" unless it exited with 0.
WaitChild ==
  /\ pc[0] = "waitpid" /\ pc[1] \in {"exited", "failed"}
  /\ GoTo(0, IF pc[1] = "exited" THEN "merge" ELSE "reported")
  /\ UNCHANGED <<options, warm, iter, mask, queue, running, waiting, rows, shard, merged>>

\* merge_iteration_files: the rows of both shards.
Merge ==
  /\ pc[0] = "merge"
  /\ merged' = shard[0] \cup shard[1]
  /\ GoTo(0, "done")
  /\ UNCHANGED <<options, warm, iter, mask, queue, running, waiting, rows, shard>>

-----------------------------------------------------------------------------
(* The GPU (external) *)

Begin(r) ==
  /\ r \notin running /\ queue[r] # << >>
  /\ running' = running \cup {r}
  /\ UNCHANGED <<options, pc, warm, iter, mask, queue, waiting, rows, shard, merged>>

Complete(r) ==
  /\ r \in running
  /\ running' = running \ {r}
  /\ queue' = [queue EXCEPT ![r] = Tail(@)]
  /\ UNCHANGED <<options, pc, warm, iter, mask, waiting, rows, shard, merged>>

-----------------------------------------------------------------------------
RunRole(r) ==
  \/ Setup(r) \/ WarmUp(r) \/ WarmupSync(r) \/ WarmupDone(r)
  \/ LoopTop(r)
  \/ Arrive(r, "start") \/ Depart(r, "start", "set")
  \/ SetMask(r) \/ LaunchSlice(r) \/ Drain(r)
  \/ Arrive(r, "end") \/ Depart(r, "end", "record")
  \/ Record(r) \/ FinalSync(r) \/ WriteShard(r)

Gpu(r) == Begin(r) \/ Complete(r)

Stopped(r) == pc[r] \in {"exited", "failed", "reported", "done"}
AllStopped == (\A r \in Roles : Stopped(r)) /\ UNCHANGED vars

Next ==
  \/ \E r \in Roles : RunRole(r) \/ Fail(r) \/ Gpu(r)
  \/ WaitChild \/ Merge
  \/ AllStopped

Spec == Init /\ [][Next]_vars

\* Both processes are scheduled, the GPU makes progress on every stream, and
\* a call need not fail.
Fairness ==
  /\ \A r \in Roles : WF_vars(RunRole(r)) /\ WF_vars(Gpu(r))
  /\ WF_vars(WaitChild \/ Merge)

FairSpec == Spec /\ Fairness

-----------------------------------------------------------------------------
(* Properties *)

\* The measured part of a phase, between its two barriers.
InPhase(r) == pc[r] \in {"set", "launch", "drain"}

\* Every variable keeps its type; in particular no process runs more phases
\* than --max-phases or enqueues more slices than the matrix has.
TypeOK ==
  /\ options \in Invocations
  /\ warm \in [Roles -> 0 .. options.warmup] /\ iter \in [Roles -> 0 .. options.max_phases]
  /\ mask \in [Roles -> SUBSET (0 .. NumTpcs - 1)]
  /\ running \subseteq {r \in Roles : queue[r] # << >>}
  /\ \A r \in Roles : Len(queue[r]) <= options.num_slices
  /\ waiting \in [Barriers -> SUBSET Roles]

\* Both processes apply a mask for the same logical phase (:467), and neither
\* ever races ahead in phase id (:490).
SamePhase ==
  /\ (InPhase(0) /\ InPhase(1)) => iter[0] = iter[1]
  /\ iter[0] - iter[1] \in {-1, 0, 1}

Kernel(r) == Head(queue[r])

\* No two executing kernels, one of them of a measured phase, share a TPC.
DisjointKernels ==
  (running = Roles /\ \E r \in Roles : Kernel(r).iter # WarmupKernel)
    => Kernel(0).tpcs \cap Kernel(1).tpcs = {}

\* With the clean handoff (README.md:8) the device is split between the two
\* processes without overlap; without it, slices of two phases may share TPCs.
DrainedDisjoint == options.drain_before_swap => DisjointKernels

\* Even without draining, the slices two processes enqueue in the same phase
\* are confined to different TPCs, whenever the GPU gets to them.
SlicesOfAPhaseDisjoint ==
  \A x \in 1 .. Len(queue[0]), y \in 1 .. Len(queue[1]) :
    (queue[0][x].iter = queue[1][y].iter /\ queue[0][x].iter # WarmupKernel)
      => queue[0][x].tpcs \cap queue[1][y].tpcs = {}

\* The two processes are in opposite partitions of the same phase, also in what
\* they have queued and the GPU has not come to (:467-490).
OppositePartitions == TypeOK /\ SamePhase /\ SlicesOfAPhaseDisjoint

\* No record is written to a file, and no process is reported to have
\* finished, while work it launched is still on the GPU.
WritesAfterWork == \A r \in Roles : pc[r] \in {"csv", "exited", "waitpid", "merge", "done"} => queue[r] = << >>

\* Every measured slice of the merged file has its counterpart: each phase of
\* each process, with the other partition in the other process's row.
MergedPairs ==
  pc[0] = "done" =>
    /\ \A n \in 0 .. iter[0] - 1, r \in Roles :
         \E row \in merged : row.iter = n /\ row.role = r
    /\ \A one, two \in merged :
         (one.iter = two.iter /\ one.role # two.role) => one.mask_id # two.mask_id

\* The merged file is complete, and every file is written from finished work.
FilesComplete == WritesAfterWork /\ MergedPairs

\* Without errors, the benchmark completes and merges its results.
RunCompletes == (~options.may_fail /\ ~Overlap) => <>(pc[0] = "done")

=============================================================================
