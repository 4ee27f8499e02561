------------------------------- MODULE Plugin -------------------------------
(***************************************************************************)
(* The life of one instance of a benchmark plug-in of the scheduling       *)
(* examiner, as RunBenchmark of src/task_host.c drives it: Initialize,     *)
(* then CopyIn, Execute and CopyOut once per iteration, then Cleanup.      *)
(*                                                                         *)
(* The actions interpret the programs of modules PluginPrograms and        *)
(* StreamAction; the GPU runs what was queued on the streams at its own    *)
(* pace, and every call that the code checks may fail.                     *)
(***************************************************************************)
EXTENDS PluginPrograms, StreamAction

CONSTANTS Plugins,      \* the plug-ins that may be loaded
          Infos,        \* a sequence of parameters for stream_action
          Iterations    \* iterations of an instance

\* cJSON gives an array of actions for an array, a boolean for a boolean.
ASSUME PluginAssumption ==
  /\ Iterations \in Nat \ {0} /\ Plugins \subseteq DOMAIN Programs
  /\ Len(Infos) \in Nat /\ DOMAIN Infos = 1..Len(Infos)
  /\ \A x \in DOMAIN Infos :
       LET list == Item(Infos[x].json, "actions")
       IN  /\ ParseSettings(Infos[x].json) /\ ParseActionList(Infos[x].json)
                => Len(list) \in Nat /\ DOMAIN list = 1..Len(list)
           /\ \A i \in DOMAIN Actions(Infos[x]) : Actions(Infos[x])[i].host \in BOOLEAN

VARIABLES plugin,    \* the plug-in loaded
          info,      \* the parameters of stream_action, 0 for another plug-in
          priority,  \* "in_range": its stream is created non-blocking
          fn,        \* the function the host is in: pc is the next call of it
          iter,      \* the current iteration
          stack,     \* the pointers of the malloc actions
          queue,     \* GPU operations issued and not complete, in issue order
          content,   \* iteration whose data each buffer holds, 0 for none
          walk,      \* the indices stored in a walk buffer
          outcome    \* how the instance ended

pluginVars == <<plugin, info, program, priority, fn, pc, iter, held, stack, todo,
                queue, content, walk, outcome>>

StreamPrograms == <<>> \o [x \in DOMAIN Infos |-> StreamActionProgram(Infos[x])]

\* Memory of the GPU: cudaFree waits until the device is idle.
DeviceMemory == ProgramDeviceMemory \cup StreamDeviceMemory(4)

Stacks == {"device_memory_allocations", "host_memory_allocations"}
Functions3 == {"copy_in", "execute", "copy_out"}

\* The buffers that the calls of a program name.
BuffersOf(p) ==
  LET calls == UNION {ToSet(p[f]) : f \in {"init"} \cup Functions3}
  IN  p.results \cup UNION {c.dst \cup {c.src} : c \in calls}

PluginInit ==
  /\ \/ plugin \in Plugins /\ info = 0
     \/ plugin = "stream_action" /\ info \in DOMAIN Infos
  /\ program = IF plugin = "stream_action" THEN StreamPrograms[info] ELSE Programs[plugin]
  /\ priority \in {"default", "in_range"}
  /\ fn = "init" /\ pc = 1 /\ iter = 1
  /\ held = {} /\ todo = <<>> /\ queue = <<>>
  /\ stack = [s \in Stacks |-> <<>>]
  /\ content = [b \in BuffersOf(program) |-> 0]
  /\ walk = <<>>
  /\ outcome = "running"

InFunction == fn \in {"init"} \cup Functions3 /\ pc <= Len(program[fn])
NextCall == program[fn][pc]
Config == <<plugin, info, program, priority>>

\* CreateCUDAStreamWithPriorityAndMask: a priority of the device's range gives
\* a non-blocking stream, which is not ordered with the default stream.
Ordered(a, b) ==
  \/ a.stream = b.stream
  \/ "legacy" \in {a.stream, b.stream} /\ priority = "default"

\* The current call succeeds and does nothing but let the function go on.
CheckPasses ==
  /\ InFunction /\ NextCall.op = "check"
  /\ pc' = pc + 1
  /\ UNCHANGED <<Config, fn, iter, held, stack, todo, queue, content, walk, outcome>>

AcquireNext ==
  /\ InFunction /\ NextCall.op \in {"get", "unchecked"}
  /\ held' = held \cup {NextCall.res}
  /\ pc' = pc + 1
  /\ UNCHANGED <<Config, fn, iter, stack, todo, queue, content, walk, outcome>>

FreeLocal ==
  /\ InFunction /\ NextCall.op = "put"
  /\ held' = held \ {NextCall.res}
  /\ pc' = pc + 1
  /\ UNCHANGED <<Config, fn, iter, stack, todo, queue, content, walk, outcome>>

ComputeOnHost ==
  /\ InFunction /\ NextCall.op = "compute"
  /\ content' = [b \in DOMAIN content |-> IF b \in NextCall.dst THEN iter ELSE content[b]]
  /\ pc' = pc + 1
  /\ UNCHANGED <<Config, fn, iter, held, stack, todo, queue, walk, outcome>>

CopySynchronously ==
  /\ InFunction /\ NextCall.op = "copy_now"
  /\ \A i \in DOMAIN queue : ~Ordered(queue[i], [stream |-> "legacy"])
  /\ content' = [b \in DOMAIN content |-> IF b \in NextCall.dst THEN content[NextCall.src] ELSE content[b]]
  /\ pc' = pc + 1
  /\ UNCHANGED <<Config, fn, iter, held, stack, todo, queue, walk, outcome>>

FillWalk ==
  /\ InFunction /\ NextCall.op = "fill"
  /\ walk' \in (IF NextCall.res = "random" THEN ShuffleArray ELSE InorderArray)
  /\ pc' = pc + 1
  /\ UNCHANGED <<Config, fn, iter, held, stack, todo, queue, content, outcome>>

\* A launch, a cudaMemcpyAsync or a cudaMemsetAsync returns at once.
Issue ==
  /\ InFunction /\ NextCall.op \in {"kernel", "kernel_if_reset", "copy", "reset"}
  /\ queue' = Append(queue, [op |-> NextCall.op, stream |-> NextCall.res,
                             src |-> NextCall.src, dst |-> NextCall.dst, iter |-> iter])
  /\ pc' = pc + 1
  /\ UNCHANGED <<Config, fn, iter, held, stack, todo, content, walk, outcome>>

Synchronize ==
  /\ InFunction /\ NextCall.op = "wait"
  /\ \A i \in DOMAIN queue : NextCall.res \notin {"device", queue[i].stream}
  /\ pc' = pc + 1
  /\ UNCHANGED <<Config, fn, iter, held, stack, todo, queue, content, walk, outcome>>

\* A malloc action: the pointer goes on top of the stack, unless it is full.
MallocAction ==
  /\ InFunction /\ NextCall.op = "push" /\ Len(stack[NextCall.res]) < NextCall.size
  /\ LET used == {n \in 1..NextCall.size : Numbered(NextCall.res, n) \in held}
         new == Numbered(NextCall.res, Min(1..(Cardinality(used) + 1) \ used))
     IN  /\ held' = held \cup {new}
         /\ stack' = [stack EXCEPT ![NextCall.res] = Append(@, new)]
  /\ pc' = pc + 1
  /\ UNCHANGED <<Config, fn, iter, todo, queue, content, walk, outcome>>

\* A free action takes the pointer off the stack before it frees the memory;
\* cudaFree waits for the device.
FreeAction ==
  /\ InFunction /\ NextCall.op = "pop" /\ stack[NextCall.res] # <<>>
  /\ NextCall.res \in DeviceMemory => queue = <<>>
  /\ held' = held \ {Last(stack[NextCall.res])}
  /\ stack' = [stack EXCEPT ![NextCall.res] = Front(@)]
  /\ pc' = pc + 1
  /\ UNCHANGED <<Config, fn, iter, todo, queue, content, walk, outcome>>

FreeActionFails ==
  /\ InFunction /\ NextCall.op = "pop" /\ stack[NextCall.res] # <<>>
  /\ stack' = [stack EXCEPT ![NextCall.res] = Front(@)]
  /\ fn' = "done" /\ outcome' = "iteration_failed"
  /\ UNCHANGED <<Config, pc, iter, held, todo, queue, content, walk>>

\* A malloc action meets a full stack, a free action an empty one.
ActionRefused ==
  /\ InFunction
  /\ \/ NextCall.op = "push" /\ Len(stack[NextCall.res]) >= NextCall.size
     \/ NextCall.op = "pop" /\ stack[NextCall.res] = <<>>
  /\ fn' = "done" /\ outcome' = "refused"
  /\ UNCHANGED <<Config, pc, iter, held, stack, todo, queue, content, walk>>

\* A call fails.  Initialize makes the releases the code makes there; in an
\* iteration the function returns 0 and RunBenchmark returns without Cleanup.
InitializeFails ==
  /\ InFunction /\ fn = "init"
  /\ NextCall.op \in {"check", "refuse", "get", "push", "copy", "copy_now", "reset", "wait"}
  /\ fn' = "cleanup" /\ pc' = 1
  /\ todo' = NextCall.fail
  /\ outcome' = "init_failed"
  /\ UNCHANGED <<Config, iter, held, stack, queue, content, walk>>

IterationFails ==
  /\ InFunction /\ fn \in Functions3
  /\ NextCall.op \in {"push", "copy", "copy_now", "reset", "wait"}
  /\ NextCall.op = "push" => Len(stack[NextCall.res]) < NextCall.size
  /\ fn' = "done" /\ outcome' = "iteration_failed"
  /\ UNCHANGED <<Config, pc, iter, held, stack, todo, queue, content, walk>>

\* The next statement dereferences the NULL that calloc returned.
UncheckedFails ==
  /\ InFunction /\ NextCall.op = "unchecked"
  /\ fn' = "done" /\ outcome' = "crashed"
  /\ UNCHANGED <<Config, pc, iter, held, stack, todo, queue, content, walk>>

\* The stream is not created.  With libsmctrl built in, its mask is stored all
\* the same, through the stream handle that is still NULL.
StreamNotCreated ==
  /\ InFunction /\ NextCall.op = "get" /\ NextCall.res = "stream"
  /\ fn' = "done" /\ outcome' = "crashed"
  /\ UNCHANGED <<Config, pc, iter, held, stack, todo, queue, content, walk>>

Returned == fn \in {"init"} \cup Functions3 /\ pc > Len(program[fn])

\* Mutant: the counter is not advanced.
SameIteration == iter

LastIteration == iter = Iterations

NextIteration == iter + 1

\* RunBenchmark goes on to the next function, the next iteration or Cleanup.
NextFunction ==
  /\ Returned
  /\ LET over == fn = "copy_out" /\ LastIteration
     IN  /\ fn' = CASE fn = "init" -> "copy_in"
                     [] fn = "copy_in" -> "execute"
                     [] fn = "execute" -> "copy_out"
                     [] fn = "copy_out" -> IF over THEN "cleanup" ELSE "copy_in"
         /\ iter' = IF fn = "copy_out" /\ ~over THEN NextIteration ELSE iter
         /\ todo' = IF over THEN program.cleanup ELSE todo
         /\ outcome' = IF over THEN "cleaned" ELSE outcome
  /\ pc' = 1
  /\ UNCHANGED <<Config, held, stack, queue, content, walk>>

\* Cleanup frees what is not NULL, in its order; with a stack, its pointers.
ReleaseNext ==
  /\ fn = "cleanup" /\ todo # <<>>
  /\ LET r == Head(todo)
         freed == {r} \cup (IF r \in Stacks THEN ToSet(stack[r]) ELSE {})
     IN  /\ r \in held \cap DeviceMemory => queue = <<>>
         /\ held' = held \ freed
  /\ todo' = Tail(todo)
  /\ UNCHANGED <<Config, fn, pc, iter, stack, queue, content, walk, outcome>>

CleanupReturns ==
  /\ fn = "cleanup" /\ todo = <<>>
  /\ fn' = "done"
  /\ UNCHANGED <<Config, pc, iter, held, stack, todo, queue, content, walk, outcome>>

\* What a completed operation leaves in the buffers.
Effect(o) ==
  [b \in DOMAIN content |->
     IF b \notin o.dst THEN content[b]
     ELSE CASE o.op = "kernel" -> o.iter
            [] o.op = "kernel_if_reset" ->
                 IF content["device_block_times"] = 0 \/ b = "d_c" THEN o.iter ELSE content[b]
            [] o.op = "copy" -> content[o.src]
            [] o.op = "reset" -> 0]

\* The GPU completes an operation that nothing issued before it holds back.
Complete ==
  \E i \in DOMAIN queue :
    /\ \A j \in 1..(i-1) : ~Ordered(queue[j], queue[i])
    /\ content' = Effect(queue[i])
    /\ queue' = RemoveAt(queue, i)
    /\ UNCHANGED <<Config, fn, pc, iter, held, stack, todo, walk, outcome>>

Finished == fn = "done" /\ queue = <<>> /\ UNCHANGED pluginVars

HostStep ==
  \/ CheckPasses \/ AcquireNext \/ FreeLocal \/ ComputeOnHost \/ FillWalk \/ Issue
  \/ CopySynchronously \/ Synchronize \/ MallocAction \/ FreeAction \/ FreeActionFails
  \/ ActionRefused \/ InitializeFails \/ IterationFails \/ UncheckedFails
  \/ StreamNotCreated
  \/ NextFunction \/ ReleaseNext \/ CleanupReturns

PluginNext == HostStep \/ Complete \/ Finished

PluginSpec ==
  PluginInit /\ [][PluginNext]_pluginVars /\ WF_pluginVars(HostStep) /\ WF_pluginVars(Complete)
----------------------------------------------------------------------------
(***************************************************************************)
(* Properties.                                                             *)
(***************************************************************************)
\* The state has its types; no stack is longer than the array behind it.
PluginTypeOK ==
  /\ plugin \in Plugins \cup {"stream_action"} /\ info \in 0..Len(Infos)
  /\ priority \in {"default", "in_range"}
  /\ fn \in {"init", "cleanup", "done"} \cup Functions3 /\ pc \in Nat
  /\ iter \in 1..Iterations
  /\ \A s \in Stacks : Len(stack[s]) <= MaxMemoryAllocationCount
  /\ content \in [DOMAIN content -> 0..Iterations]
  /\ outcome \in {"running", "init_failed", "iteration_failed", "refused", "crashed", "cleaned"}

\* A call never names a stream or a buffer that was not acquired, or that was
\* released: the order of creation in every Initialize suits its uses.  And
\* every copy and memset of an action list fits the buffer allocated for all.
UsesHeld ==
  InFunction /\ NextCall.op \in {"kernel", "kernel_if_reset", "copy", "copy_now", "reset", "wait"}
    => /\ ({NextCall.res, NextCall.src} \cup NextCall.dst) \subseteq
             (held \cup {"none", "legacy", "device", "host_accumulator"})
       /\ plugin = "stream_action" => NextCall.size <= MaxSize(Actions(Infos[info]))

\* No buffer is freed while queued work of the GPU still uses it, also when
\* Initialize fails between an asynchronous copy and its synchronization.
BuffersOutliveWork ==
  \A i \in DOMAIN queue :
    ({queue[i].src} \cup queue[i].dst) \subseteq (held \cup {"none", "host_accumulator"})

\* The stacks hold live allocations, each once: no free action, and no
\* Cleanup, frees a pointer twice.
StacksLive ==
  \A s \in Stacks :
    fn \in {"init"} \cup Functions3 \/ s \in ToSet(todo) =>
      IsInjective(stack[s]) /\ ToSet(stack[s]) \subseteq held

\* A walk never leaves its buffer: the entries are a permutation of the
\* indices; and the in-order walk comes by every one of them.
WalkStaysInside ==
  walk # <<>> =>
    /\ {walk[k] : k \in DOMAIN walk} = 0..(WalkLength - 1)
    /\ "inorder" \in {program.init[i].res : i \in DOMAIN program.init} =>
         LET at[n \in 0..WalkLength] == IF n = 0 THEN 0 ELSE walk[at[n-1]]
         IN  {at[n] : n \in 1..WalkLength} = 0..(WalkLength - 1)

\* A NULL pointer is used in two places only: the state of sharedmem_timer_spin
\* (sharedmem_timer_spin.cu:136), and a stream that was not created, when
\* libsmctrl is built in (benchmark_gpu_utilities.cu:34-36).
NullUsedInTwoPlaces ==
  outcome = "crashed" =>
    \/ plugin = "sharedmem_timer_spin" /\ held = {}
    \/ program.init[pc].res = "stream"

\* No call of a plug-in, no queued work of the GPU and no walk touches memory
\* that is not there, whichever call fails, with the exception of the two
\* uses of NULL above, after which the instance has crashed.
MemorySafe ==
  /\ PluginTypeOK /\ UsesHeld /\ NullUsedInTwoPlaces
  /\ BuffersOutliveWork /\ StacksLive /\ WalkStaysInside

\* Cleanup of an instance that ran releases everything it acquired.
CleanupReleasesAll == fn = "done" /\ outcome = "cleaned" => held = {}

Fresh == fn = "copy_out" /\ Returned => \A b \in program.results : content[b] = iter

\* What CopyOut hands to the host for writing to the log is the data of this
\* iteration's kernels, completely copied, and of every kernel of an action
\* list its own launch times; except for timer_spin_default_stream with a
\* priority in range: its kernel and its copies are not ordered.
ResultsFresh ==
  plugin # "timer_spin_default_stream" \/ priority = "default" => Fresh

\* A failed Initialize leaves no GPU resource behind, except in the two
\* plug-ins that return from a bad additional_info without a full Cleanup.
ReturnsWithoutCleanup == {"sharedmem_timer_spin", "multikernel"}
FailedInitReleases ==
  fn = "done" /\ outcome = "init_failed" /\ plugin \notin ReturnsWithoutCleanup
    => held \subseteq {"state"}

\* Nothing is leaked by an instance that ran all its iterations, nor by one that
\* could not be initialized, the two plug-ins above excepted.  Nothing is said of
\* an instance whose iteration fails or has an action refused: RunBenchmark then
\* returns without Cleanup (task_host.c:497-520), whatever library_interface.h:105
\* says; nor of one that crashed.
ReleasesAll == CleanupReleasesAll /\ FailedInitReleases

\* The malloc actions minus the free actions among the first n of a list.
Balance(as, n, host) ==
  LET of(type) == Cardinality({i \in 1..n : as[i].type = type /\ as[i].host = host})
  IN  of("malloc") - of("free")

\* A list whose mallocs and frees balance is never refused, however often it
\* runs, provided its unfreed mallocs fit in what the preallocated buffers leave
\* of the array (stream_action.cu:117 less :122), and it frees no more than was
\* preallocated.  The comment at :114-116 promises this to any balanced list of at
\* most MAX actions; the code refuses one that needs more room than the buffers
\* made beforehand leave (:1209).
BalancedRuns ==
  plugin = "stream_action" /\ outcome = "refused" =>
    LET as == Actions(Infos[info])
    IN  \E host \in BOOLEAN :
          \/ Balance(as, Len(as), host) # 0
          \/ \E n \in 1..Len(as) :
               Balance(as, n, host) \notin
                 (-InitialAllocationCount)..(MaxMemoryAllocationCount - InitialAllocationCount)

\* Every instance ends: no call waits for work that is never completed.
InstanceEnds == <>(fn = "done")
=============================================================================
