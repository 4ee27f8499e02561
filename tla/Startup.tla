------------------------------ MODULE Startup ------------------------------
(***************************************************************************)
(* The runner of the examiner from its start to its return: main of        *)
(* src/runner.c, Initialize, CreateTaskConfigs and Cleanup of              *)
(* src/task_host.c, and the measurements of src/task_host_utilities.cu.    *)
(*                                                                         *)
(* The program is a sequence of calls (module PluginCalls), each with the  *)
(* releases made by all its callers when it fails; every call may fail.    *)
(* What Execute does once all is set up is module TaskHost.                *)
(***************************************************************************)
EXTENDS ExaminerConfig, TimeSync

CONSTANTS Files,       \* a sequence of configuration files, each with how it is
                       \* read and the set of cores the process may run on
          CpuSetSize   \* CPU_SETSIZE

ASSUME StartupAssumption ==
  /\ CpuSetSize \in Nat
  /\ \A f \in DOMAIN Files :
       /\ Files[f].cpu_set \in (SUBSET (0..(CpuSetSize - 1))) \ {{}}
       /\ Files[f].chunks \in Nat
       /\ LET d == Files[f].json
          IN  d.json = "object" /\ Required(d, "benchmarks", "array")
                => Benchmarks(d) \in Seq(ToSet(Benchmarks(d)))

VARIABLES file,      \* the configuration file given
          sync,      \* config->sync_every_iteration
          cause,     \* the kind of call that failed
          result     \* "running", "ok", "error", "crashed"

startVars == <<file, program, pc, held, sync, todo, cause, result>>
vars == <<startVars, timeVars>>

----------------------------------------------------------------------------
(***************************************************************************)
(* The settings of the tasks.                                              *)
(***************************************************************************)

\* The next available core, in cyclic order.
CycleToNextCPU(c, set) ==
  (c + Min({k \in 1..CpuSetSize : (c + k) % CpuSetSize \in set})) % CpuSetSize

\* The core of the i-th task when pin_cpus is set.
PinnedCore(set, i) ==
  LET first == IF set = {0} THEN 0 ELSE CycleToNextCPU(1, set)
      core[n \in 1..i] == IF n = 1 THEN first ELSE CycleToNextCPU(core[n-1], set)
  IN  core[i]

Override(own, default) == IF own >= 0 THEN own ELSE default

\* One entry of the list that CreateTaskConfigs returns.
TaskConfig(d, set, i) ==
  LET b == Benchmarks(d)[i]
  IN  [max_iterations |-> Override(ItemOr(b, "max_iterations", -1), Item(d, "max_iterations")),
       max_seconds |-> Override(ItemOr(b, "max_time", -1), Item(d, "max_time")),
       cpu_core |-> IF IsTrue(d, "pin_cpus") THEN PinnedCore(set, i)
                    ELSE ItemOr(b, "cpu_core", UseDefaultCpuCore)]

\* A core given for one benchmark must be available.
CoreAvailable(d, set, b) ==
  \/ IsTrue(d, "pin_cpus")
  \/ ItemOr(b, "cpu_core", UseDefaultCpuCore) \in set \cup {UseDefaultCpuCore}

----------------------------------------------------------------------------
(***************************************************************************)
(* The calls of the runner.                                                *)
(***************************************************************************)
\* The number of entries of the benchmark list, if the parser gets that far.
Count(d) ==
  IF d.json = "object" /\ Required(d, "benchmarks", "array") THEN Len(Benchmarks(d)) ELSE 0

\* A call that acquires r or not, and one whose failure has no consequence.
Maybe(r) == Call("maybe", r, "none", {}, 0, <<>>)
Keep(r) == Call("keep", r, "none", {}, 0, <<>>)
Fork(fail) == Call("fork", "none", "none", {}, 0, fail)

\* The file is read in chunks into a buffer that grows.
GetConfigFileContent(f) ==
  LET opened == IF f.stdin THEN <<>> ELSE <<"config_file">>
  IN  Gets(opened, <<>>) \o <<Get("config_content", opened)>>
      \o [k \in 1..(2 * f.chunks + 1) |-> Check(<<"config_content">> \o opened)]
      \o [k \in DOMAIN opened |-> Put("config_file")]

\* Mutant: the caller's handle is set at once, and closed once more by main.
LoadTaskHostLibraryTwice(fail) ==
  <<Get("path_copy", fail), Put("path_copy"), Get("library", fail),
    Check(<<"library", "library">> \o fail)>>

\* The caller's handle stays NULL until all is well.
LoadTaskHostLibrary(fail) ==
  <<Get("path_copy", fail), Put("path_copy"), Get("library", fail),
    Check(<<"library">> \o fail)>>

TaskFiles(n) ==
  FlattenSeq([i \in 1..n |-> <<Numbered("output_file", i), Numbered("library_handle", i)>>])

FreeTaskConfigs(n) == TaskFiles(n) \o <<"task_configs">>

\* Cleanup of the task host; the pointers in has are not NULL.
HostCleanup(n, has) ==
  <<"barrier", "terminate">>
  \o (IF "task_configs" \in has THEN FreeTaskConfigs(n) ELSE <<>>)
  \o (IF "global_config" \in has THEN FreeGlobalConfiguration(n) ELSE <<>>)
  \o <<"state">>

CreateErrorCleanup(n) == TaskFiles(n) \o <<"task_configs">>

\* The calls for one task; a RegisterFunctions that fails is only reported,
\* and the buffer given to the log's stream is never freed.
CreateTaskConfig(d, set, i, fail) ==
  <<Judge(CoreAvailable(d, set, Benchmarks(d)[i]), fail),
    Get("log_path", fail),
    Get(Numbered("output_file", i), <<"log_path">> \o fail), Put("log_path"),
    Keep(Numbered("block_buf", i)),
    Get(Numbered("library_handle", i), fail), Check(fail), Maybe("no_functions")>>

CreateTaskConfigs(d, set, fail) ==
  LET n == Count(d)
      ErrorCleanup == CreateErrorCleanup(n) \o fail
  IN  <<Get("task_configs", fail), Check(ErrorCleanup)>>
      \o FlattenSeq([i \in 1..n |-> CreateTaskConfig(d, set, i, ErrorCleanup)])

\* Each measurement is made by a child process that writes its result to
\* memory shared with the parent.  Only one of them frees that memory when
\* fork fails.
GetMaxResidentThreads(fail) ==
  <<Get("max_thread_count", fail), Fork(fail),
    Check(<<"max_thread_count">> \o fail), Put("max_thread_count")>>

GetGPUTimerScale(fail) ==
  <<Get("scale", fail), Fork(<<"scale">> \o fail), Check(<<"scale">> \o fail), Put("scale")>>

GetHostDeviceTimeOffset(fail) ==
  LET FreeShared == <<"shared_cpu_time", "shared_gpu_time">> \o fail
  IN  <<Get("shared_gpu_time", fail), Get("shared_cpu_time", <<"shared_gpu_time">> \o fail),
        Fork(fail), Call("measure", "none", "none", {}, 0, FreeShared),
        Call("reap", "none", "none", {}, 0, FreeShared),
        Put("shared_cpu_time"), Put("shared_gpu_time")>>

\* A file the parser refuses ends the program there.  The mapping of the flag
\* terminate is not checked.
Initialize(d, set, smctrl, fail) ==
  LET Cleanup(has) == HostCleanup(Count(d), has) \o fail
      C == Cleanup({"global_config"})
      E == Cleanup({"global_config", "task_configs"})
      parse == ParseConfiguration(d, smctrl, Cleanup({}))
  IN  <<Get("state", fail)>> \o parse
      \o (IF \E k \in DOMAIN parse : parse[k].op \in {"refuse", "null"} THEN <<>>
          ELSE GetMaxResidentThreads(C) \o CreateTaskConfigs(d, set, C)
               \o GetGPUTimerScale(E) \o <<Get("barrier", E), Maybe("terminate")>>
               \o GetHostDeviceTimeOffset(E))

MainErrorCleanup == <<"library", "config_content">>

Main(f) ==
  LET E == HostCleanup(Count(f.json), {"global_config", "task_configs"}) \o MainErrorCleanup
  IN  GetConfigFileContent(f) \o LoadTaskHostLibrary(<<"config_content">>)
      \o Initialize(f.json, f.cpu_set, f.smctrl, MainErrorCleanup)
      \o <<Call("execute", "none", "none", {}, 0, E)>>

----------------------------------------------------------------------------
(***************************************************************************)
(* Running them.                                                           *)
(***************************************************************************)
Init ==
  /\ file \in DOMAIN Files
  /\ program = Main(Files[file])
  /\ pc = 1 /\ held = {} /\ sync = FALSE
  /\ todo = <<>> /\ cause = "none" /\ result = "running"
  /\ TimeInit

Running == todo = <<>> /\ result = "running"
Current == program[pc]
Executing == Running /\ Current.op = "execute"
Given == <<file, program>>

Goes(ops) == Running /\ Current.op \in ops /\ pc' = pc + 1

Pass ==
  /\ Goes({"pass", "check", "fork"})
  /\ UNCHANGED <<Given, held, sync, todo, cause, result, timeVars>>

Acquire ==
  /\ Goes({"get", "maybe", "keep"})
  /\ held' = held \cup {Current.res}
  /\ UNCHANGED <<Given, sync, todo, cause, result, timeVars>>

DoWithout ==
  /\ Goes({"maybe"})
  /\ UNCHANGED <<Given, held, sync, todo, cause, result, timeVars>>

Free ==
  /\ Goes({"put"})
  /\ held' = held \ {Current.res}
  /\ UNCHANGED <<Given, sync, todo, cause, result, timeVars>>

SetSync ==
  /\ Goes({"sync"})
  /\ sync' = TRUE
  /\ UNCHANGED <<Given, held, todo, cause, result, timeVars>>

OwnIterations ==
  /\ Goes({"unless_sync"}) /\ ~sync
  /\ UNCHANGED <<Given, held, sync, todo, cause, result, timeVars>>

\* The function returns an error and its callers release what they have.
Fail(ops) ==
  /\ Running /\ Current.op \in ops
  /\ todo' = SelectSeq(Current.fail, LAMBDA r : r \in held)
  /\ cause' = Current.op
  /\ result' = IF todo' = <<>> THEN "error" ELSE "running"
  /\ UNCHANGED <<Given, pc, held, sync, timeVars>>

CallFails == Fail({"refuse", "get", "check", "fork", "execute"})
OwnIterationsRefused == sync /\ Fail({"unless_sync"})
WaitFails == cpu = "killed" /\ Fail({"reap"})

\* A missing thread_count or block_count, a task without functions, or a flag
\* that could not be mapped.
Crashes ==
  /\ Running
  /\ \/ Current.op = "null"
     \/ Current.op = "execute" /\ ("no_functions" \in held \/ "terminate" \notin held)
  /\ result' = "crashed"
  /\ UNCHANGED <<Given, pc, held, sync, todo, cause, timeVars>>

Measure ==
  /\ Goes({"measure"})
  /\ ForkTiming
  /\ UNCHANGED <<Given, held, sync, todo, cause, result>>

\* wait() returns when the child has ended; an exit is enough.
Reap ==
  /\ Goes({"reap"}) /\ cpu = "exited"
  /\ UNCHANGED <<Given, held, sync, todo, cause, result, timeVars>>

\* Execute returns, and main makes the same releases as after an error.
ExecuteReturns ==
  /\ Running /\ Current.op = "execute"
  /\ todo' = SelectSeq(Current.fail, LAMBDA r : r \in held)
  /\ UNCHANGED <<Given, pc, held, sync, cause, result, timeVars>>

Release ==
  /\ todo # <<>>
  /\ held' = held \ {Head(todo)}
  /\ todo' = Tail(todo)
  /\ result' = IF Len(todo) > 1 THEN "running" ELSE IF cause = "none" THEN "ok" ELSE "error"
  /\ UNCHANGED <<Given, pc, sync, cause, timeVars>>

Measuring == MeasureStep /\ UNCHANGED startVars

RunnerStep ==
  \/ Pass \/ Acquire \/ DoWithout \/ Free \/ SetSync \/ OwnIterations \/ CallFails
  \/ OwnIterationsRefused \/ WaitFails \/ Crashes \/ Measure \/ Reap \/ ExecuteReturns
  \/ Release

Ended == result # "running" /\ UNCHANGED vars

Next == RunnerStep \/ Measuring \/ Ended

\* The runner goes on, but for Execute, which need not return.
Spec ==
  /\ Init /\ [][Next]_vars
  /\ WF_vars(RunnerStep /\ ~Executing)
  /\ WF_vars(ChildStep /\ UNCHANGED startVars) /\ WF_vars(KernelStep /\ UNCHANGED startVars)
----------------------------------------------------------------------------
(***************************************************************************)
(* Properties.                                                             *)
(***************************************************************************)
Doc == Files[file].json
CpuSet == Files[file].cpu_set
Task(i) == TaskConfig(Doc, CpuSet, i)

\* Everything has its type; the core of a task is one the CPU set can name.
TypeOK ==
  /\ pc \in DOMAIN program /\ sync \in BOOLEAN /\ now \in 1..MaxTime
  /\ raised \subseteq Flags
  /\ result \in {"running", "ok", "error", "crashed"}
  /\ Executing => \A i \in 1..Count(Doc) : Task(i).cpu_core \in -1..(CpuSetSize - 1)

\* What must still be there for a resource to be used or released: the memory
\* its pointer is in, the count of the entries, the library that holds the code.
Owners(r) ==
  LET n == Count(Doc)
      OneOf(names) == {Numbered(s, i) : s \in names, i \in 1..n}
  IN  CASE r \in OneOf(ToSet(Strings)) -> {"benchmarks"}
        [] r \in {"benchmarks", "scenario_name", "base_result_directory"} -> {"global_config"}
        [] r \in OneOf({"output_file", "library_handle"}) -> {"task_configs", "global_config"}
        [] r \in {"task_configs", "global_config", "barrier", "terminate"} -> {"state"}
        [] r = "state" -> {"library"}
        [] r = "root" -> {"config_content"}
        [] OTHER -> {}

\* Nothing is freed before what is only reachable through it, at whatever call
\* the start fails (task_host.c:643, "FreeGlobalConfiguration must not be
\* called until after FreeTaskConfigs"), and the code that cleans up is loaded.
OwnersOutliveOwned == \A r \in held : Owners(r) \subseteq held

\* When main returns it has released everything, whichever call failed, but
\* for the buffers of the logs and the shared memory of a child that could not
\* be forked.
NothingLeaks ==
  result \in {"ok", "error"} =>
    \A r \in held :
      \/ r = "no_functions" \/ \E i \in 1..Count(Doc) : r = Numbered("block_buf", i)
      \/ cause = "fork" /\ r \in {"max_thread_count", "shared_cpu_time", "shared_gpu_time"}

\* Nothing is released twice: what an error path has still to release is there,
\* each thing once, whichever of the callers releases it (runner.c:127-138 and
\* :199-202); so is what a function releases on its way, and no pointer is
\* overwritten while what it points to is there.
ReleasedOnce ==
  /\ ToSet(todo) \subseteq held /\ IsInjective(todo)
  /\ Running /\ Current.op = "put" => Current.res \in held
  /\ Running /\ Current.op = "get" => Current.res \notin held

\* Every resource of the start is released, once, and in an order that suits,
\* whichever call fails (runner.c:127-202, task_host.c:878-893).
ReleasedInOrder == OwnersOutliveOwned /\ NothingLeaks /\ ReleasedOnce

\* Tasks that meet at a barrier in every iteration have the same limit of
\* iterations: what module TaskHost takes for granted of its configurations.  That
\* they run the same number follows only without a max_time.
SyncMeansEqualLimits ==
  Executing /\ sync =>
    \A i, j \in 1..Count(Doc) : Task(i).max_iterations = Task(j).max_iterations

\* Every task is pinned to a core that is available, or to none; with pin_cpus
\* no core gets two tasks more than another (parse_config.h:78, "distributed
\* evenly").
CoresSpread ==
  Executing =>
    LET On(c) == Cardinality({i \in 1..Count(Doc) : Task(i).cpu_core = c})
    IN  /\ \A i \in 1..Count(Doc) : Task(i).cpu_core \in CpuSet \cup {UseDefaultCpuCore}
        /\ IsTrue(Doc, "pin_cpus") => \A c, d \in CpuSet : On(c) <= On(d) + 1

\* The tasks get from any accepted file the limits and cores that the host
\* relies on (parse_config.c:380-512, task_host.c:707-760).
TasksConfigured == TypeOK /\ SyncMeansEqualLimits /\ CoresSpread

\* The start comes to an end: the runner reaches Execute, returns or crashes, and
\* in particular the child and its kernel never wait for each other.  Excepted is
\* the measurement whose second kernel could not be launched, which need not end
\* (task_host_utilities.cu:170-173): the child spins, and the runner waits for it.
\* Once Execute has returned, so does the runner; whether it returns is the
\* subject of module TaskHost.
StartEnds ==
  /\ <>(result # "running" \/ Executing \/ KernelMissing)
  /\ todo # <<>> ~> result # "running"
=============================================================================
