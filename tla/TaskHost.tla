------------------------------ MODULE TaskHost ------------------------------
(***************************************************************************)
(* The benchmark host of cuda_scheduling_examiner_mirror                   *)
(* (src/task_host.c): it starts one thread or one process per configured   *)
(* benchmark, has them begin together, iterate, and clean up together, and *)
(* collects their results.                                                 *)
(*                                                                         *)
(* The tasks meet in the barrier of module BarrierWait, whose variables    *)
(* are part of the state here.                                             *)
(***************************************************************************)
EXTENDS Integers, FiniteSets

CONSTANTS
  NumTasks,     \* benchmark_count
  Configs       \* the experiments considered; each run of the host has one

FaultKinds == {"create", "init", "sleep", "iterate", "footer", "crash"}

Tasks == 1 .. NumTasks

ASSUME NumTasksAssumption == NumTasks \in Nat \ {0}

\* An experiment: the configuration file as parse_config.c leaves it, and the
\* calls that may fail in this run.
ASSUME ConfigsAssumption ==
  \A c \in Configs :
    /\ c.max_iterations \in [Tasks -> Nat]      \* 0 for no limit
    /\ c.timed \subseteq Tasks                  \* those with max_seconds > 0
    /\ c.terminators \subseteq Tasks            \* those with the terminator option
    /\ c.sync_every_iteration \in BOOLEAN
    /\ c.use_processes \in BOOLEAN
    /\ c.faults \subseteq FaultKinds
    \* parse_config.c:290 refuses a benchmark's own max_iterations with sync
    /\ c.sync_every_iteration =>
         \A t, u \in Tasks : c.max_iterations[t] = c.max_iterations[u]

VARIABLES
  config,       \* the experiment, read before anything is started
  processes_remaining, sense, local_sense, at,  \* the barrier's
  stage,        \* where each task is in RunBenchmark
  i,            \* each task's iteration counter
  expired,      \* the tasks whose max_seconds have elapsed
  terminate,    \* the shared flag a terminator sets
  host,         \* what the thread that called Execute is doing
  next_task,    \* its loop index
  forked,       \* the tasks that were really started
  reaped,       \* the children already waited for
  status,       \* thread_result / child_status of the last one
  all_ok,       \* to_return / all_ok
  set_up,       \* history: the tasks that finished initializing
  logged        \* history: the tasks whose log is complete

Barrier == INSTANCE BarrierWait WITH Procs <- Tasks, WeakStores <- FALSE

barrier == <<processes_remaining, sense, local_sense, at>>
hostVars == <<config, host, next_task, forked, reaped, status, all_ok>>
taskVars == <<stage, i, expired, terminate, set_up, logged>>
vars == <<barrier, hostVars, taskVars>>

\* The stages of RunBenchmark between the calls of BarrierWait, those that
\* call it ("ready", "sync", "finish"), and the ways to end.
AtBarrier == {"ready", "sync", "finish"}
Ended == {"ok", "error", "crashed"}
Stages == {"none", "init", "sleep", "loop", "iterate", "footer", "cleanup"}
            \cup AtBarrier \cup Ended

Init ==
  /\ config \in Configs
  /\ Barrier!BarrierCreate
  /\ stage = [t \in Tasks |-> "none"]
  /\ i = [t \in Tasks |-> 0]
  /\ expired = {}
  /\ terminate = FALSE
  /\ host = "create"
  /\ next_task = 1
  /\ forked = {}
  /\ reaped = {}
  /\ status \in {"ok", "error"}     \* child_status is not initialized
  /\ all_ok = TRUE
  /\ set_up = {}
  /\ logged = {}

GoTo(t, s) == stage' = [stage EXCEPT ![t] = s]

UseProcesses == config.use_processes
Limit(t) == config.max_iterations[t]

-----------------------------------------------------------------------------
(* Slips that the properties must catch: variants of the actions below. *)

\* sync_every_iteration is ignored.
LoopTopNoSync(t) ==
  /\ stage[t] = "loop"
  /\ LET n == IF Limit(t) > 0 THEN i[t] + 1 ELSE i[t]
     IN  /\ i' = [i EXCEPT ![t] = n]
         /\ GoTo(t, IF Limit(t) > 0 /\ n > Limit(t)
                    THEN "footer" ELSE "iterate")
  /\ UNCHANGED <<barrier, hostVars, expired, terminate, set_up, logged>>

\* A terminator does not raise the flag.
WriteFooterNoSignal(t) ==
  /\ stage[t] = "footer"
  /\ GoTo(t, "finish")
  /\ logged' = logged \cup {t}
  /\ UNCHANGED <<barrier, hostVars, i, expired, terminate, set_up>>

\* A task cleans up without waiting for the others to finish.
WriteFooterNoBarrier(t) ==
  /\ stage[t] = "footer"
  /\ GoTo(t, "cleanup")
  /\ logged' = logged \cup {t}
  /\ terminate' = (terminate \/ t \in config.terminators)
  /\ UNCHANGED <<barrier, hostVars, i, expired, set_up>>

\* A child that was killed by a signal passes for one that succeeded: only the
\* exit code is looked at, not how the child ended.
WaitChildExitCodeOnly ==
  /\ UseProcesses /\ host = "join" /\ next_task \in forked \ reaped
  /\ stage[next_task] \in Ended
  /\ status' = stage[next_task]
  /\ reaped' = reaped \cup {next_task}
  /\ all_ok' = (all_ok /\ status' # "error")
  /\ next_task' = next_task + 1
  /\ host' = IF next_task = NumTasks THEN "returned" ELSE "join"
  /\ UNCHANGED <<barrier, config, taskVars, forked>>

-----------------------------------------------------------------------------
(* RunBenchmark *)

\* Pinning, the benchmark's initialize, the log header and the warm-up.
Initialize(t) ==
  /\ stage[t] = "init"
  /\ GoTo(t, "ready")
  /\ set_up' = set_up \cup {t}
  /\ UNCHANGED <<barrier, hostVars, i, expired, terminate, logged>>

\* The call of BarrierWait after initialization, before an iteration or
\* before cleanup.
CallBarrier(t) ==
  /\ stage[t] \in AtBarrier
  /\ Barrier!Arrive(t)
  /\ UNCHANGED <<hostVars, taskVars>>

AfterBarrier(s) ==
  CASE s = "ready" -> "sleep" [] s = "sync" -> "iterate" [] s = "finish" -> "cleanup"

\* A step inside BarrierWait; the task moves on when it returns.
InBarrier(t) ==
  /\ stage[t] \in AtBarrier
  /\ Barrier!Proceed(t)
  /\ IF at'[t] = "outside" THEN GoTo(t, AfterBarrier(stage[t])) ELSE UNCHANGED stage
  /\ UNCHANGED <<hostVars, i, expired, terminate, set_up, logged>>

SleepSeconds(t) ==
  /\ stage[t] = "sleep"
  /\ GoTo(t, "loop")
  /\ UNCHANGED <<barrier, hostVars, i, expired, terminate, set_up, logged>>

\* Time passes: max_seconds after the release the next check will see it.
Expire(t) ==
  /\ t \in config.timed \ expired
  /\ stage[t] \in {"loop", "sync", "iterate"}
  /\ expired' = expired \cup {t}
  /\ UNCHANGED <<barrier, hostVars, stage, i, terminate, set_up, logged>>

\* The top of the loop: the iteration limit, the time limit, the flag.
LoopTop(t) ==
  /\ stage[t] = "loop"
  /\ LET n == IF Limit(t) > 0 THEN i[t] + 1 ELSE i[t]
         leave == \/ Limit(t) > 0 /\ n > Limit(t)
                  \/ t \in expired
                  \/ terminate
     IN  /\ i' = [i EXCEPT ![t] = n]
         /\ GoTo(t, IF leave THEN "footer"
                    ELSE IF config.sync_every_iteration THEN "sync" ELSE "iterate")
  /\ UNCHANGED <<barrier, hostVars, expired, terminate, set_up, logged>>

\* copy_in, execute, copy_out, and the two records appended to the log.
Iterate(t) ==
  /\ stage[t] = "iterate"
  /\ GoTo(t, "loop")
  /\ UNCHANGED <<barrier, hostVars, i, expired, terminate, set_up, logged>>

\* The end of the log, its flush, and the terminator's signal.
WriteFooter(t) ==
  /\ stage[t] = "footer"
  /\ GoTo(t, "finish")
  /\ logged' = logged \cup {t}
  /\ terminate' = (terminate \/ t \in config.terminators)
  /\ UNCHANGED <<barrier, hostVars, i, expired, set_up>>

Cleanup(t) ==
  /\ stage[t] = "cleanup"
  /\ GoTo(t, "ok")
  /\ UNCHANGED <<barrier, hostVars, i, expired, terminate, set_up, logged>>

\* Every error path of RunBenchmark returns NULL at once: it calls neither
\* BarrierWait nor cleanup, and a terminator does not raise the flag.
ReturnNull(t) ==
  /\ stage[t] \in {"init", "sleep", "iterate", "footer"} \cap config.faults
  /\ GoTo(t, "error")
  /\ UNCHANGED <<barrier, hostVars, i, expired, terminate, set_up, logged>>

\* A benchmark process is killed by a signal (a GPU fault, the OOM killer).
Crash(t) ==
  /\ UseProcesses /\ "crash" \in config.faults
  /\ stage[t] \notin Ended \cup {"none"}
  /\ GoTo(t, "crashed")
  /\ UNCHANGED <<barrier, hostVars, i, expired, terminate, set_up, logged>>

RunBenchmark(t) ==
  \/ Initialize(t)
  \/ CallBarrier(t)
  \/ InBarrier(t)
  \/ SleepSeconds(t)
  \/ LoopTop(t)
  \/ Iterate(t)
  \/ WriteFooter(t)
  \/ Cleanup(t)

-----------------------------------------------------------------------------
(* RunAsThreads *)

Start(t) ==
  /\ GoTo(t, "init")
  /\ forked' = forked \cup {t}
  /\ UNCHANGED <<barrier, config, i, expired, terminate, set_up, logged>>

CreateThread ==
  /\ ~UseProcesses /\ host = "create"
  /\ Start(next_task)
  /\ IF next_task = NumTasks
       THEN host' = "join" /\ UNCHANGED next_task
       ELSE next_task' = next_task + 1 /\ UNCHANGED host
  /\ UNCHANGED <<reaped, status, all_ok>>

\* The first failure ends the loop; the threads created are still joined.
CreateThreadFails ==
  /\ ~UseProcesses /\ host = "create" /\ "create" \in config.faults
  /\ all_ok' = FALSE
  /\ next_task' = next_task - 1
  /\ host' = IF next_task = 1 THEN "returned" ELSE "join"
  /\ UNCHANGED <<barrier, config, taskVars, forked, reaped, status>>

\* The threads are joined in reverse order.
JoinThread ==
  /\ ~UseProcesses /\ host = "join"
  /\ stage[next_task] \in Ended
  /\ status' = stage[next_task]
  /\ all_ok' = (all_ok /\ stage[next_task] = "ok")
  /\ next_task' = next_task - 1
  /\ host' = IF next_task = 1 THEN "returned" ELSE "join"
  /\ UNCHANGED <<barrier, config, taskVars, forked, reaped>>

-----------------------------------------------------------------------------
(* RunAsProcesses *)

NextFork ==
  IF next_task = NumTasks
    THEN next_task' = 1 /\ host' = "join"
    ELSE next_task' = next_task + 1 /\ UNCHANGED host

Fork ==
  /\ UseProcesses /\ host = "create"
  /\ Start(next_task)
  /\ NextFork
  /\ UNCHANGED <<reaped, status, all_ok>>

\* fork returned -1: not 0, so the parent stores it in pids and goes on.
ForkFails ==
  /\ UseProcesses /\ host = "create" /\ "create" \in config.faults
  /\ NextFork
  /\ UNCHANGED <<barrier, config, taskVars, forked, reaped, status, all_ok>>

\* waitpid(pids[next_task]): a pid of -1 waits for any child.
Waitable == IF next_task \in forked THEN {next_task} ELSE forked

NextWait ==
  /\ next_task' = next_task + 1
  /\ host' = IF next_task = NumTasks THEN "returned" ELSE "join"
  /\ all_ok' = (all_ok /\ status' = "ok")
  /\ UNCHANGED <<barrier, config, taskVars, forked>>

WaitChild ==
  /\ UseProcesses /\ host = "join"
  /\ \E t \in Waitable \ reaped :
       /\ stage[t] \in Ended
       /\ status' = stage[t]
       /\ reaped' = reaped \cup {t}
  /\ NextWait

\* ECHILD: no such child is left.  waitpid fails, its result is not looked
\* at, and child_status keeps the value it had.
WaitNoChild ==
  /\ UseProcesses /\ host = "join"
  /\ Waitable \subseteq reaped
  /\ UNCHANGED <<reaped, status>>
  /\ NextWait

-----------------------------------------------------------------------------
(* The runner, once Execute has returned *)

\* Cleanup of the task host: BarrierDestroy, and the flag is unmapped.
DestroyHost ==
  /\ host = "returned"
  /\ host' = "destroyed"
  /\ UNCHANGED <<barrier, config, taskVars, next_task, forked, reaped, status, all_ok>>

HostStep ==
  \/ CreateThread
  \/ CreateThreadFails
  \/ JoinThread
  \/ Fork
  \/ ForkFails
  \/ WaitChild
  \/ WaitNoChild
  \/ DestroyHost

Done == host = "destroyed" /\ UNCHANGED vars

Next ==
  \/ \E t \in Tasks : RunBenchmark(t) \/ Expire(t) \/ ReturnNull(t) \/ Crash(t)
  \/ HostStep
  \/ Done

Spec == Init /\ [][Next]_vars

\* Each thread or process is scheduled as long as it can run, the calls into
\* a benchmark return, and time passes.
Fairness ==
  /\ \A t \in Tasks : WF_vars(RunBenchmark(t)) /\ WF_vars(Expire(t))
  /\ WF_vars(HostStep)

FairSpec == Spec /\ Fairness

-----------------------------------------------------------------------------
(* Properties *)

\* The variables of the tasks and of the host stay within their ranges; the
\* iteration counter in particular ends at most one past its limit.
TypeOK ==
  /\ config \in Configs
  /\ Barrier!BarrierTypeOK
  /\ stage \in [Tasks -> Stages]
  /\ \A t \in Tasks : i[t] \in 0 .. (IF Limit(t) = 0 THEN 0 ELSE Limit(t) + 1)
  /\ expired \subseteq config.timed
  /\ terminate \in BOOLEAN
  /\ host \in {"create", "join", "returned", "destroyed"}
  /\ next_task \in 0 .. NumTasks + 1
  /\ reaped \subseteq forked /\ forked \subseteq Tasks
  /\ status \in Ended /\ all_ok \in BOOLEAN
  /\ set_up \subseteq forked /\ logged \subseteq set_up

\* No benchmark starts to iterate before every benchmark has initialized:
\* the measurements never include another benchmark's set-up (task_host.c:465).
StartTogether ==
  \A t \in Tasks :
    stage[t] \in {"sleep", "loop", "sync", "iterate", "footer", "finish", "cleanup", "ok"}
      => set_up = Tasks

\* No benchmark is cleaned up before every benchmark has left its loop and
\* completed its log: a cudaFree would stall the GPU work of one that is still
\* being measured (task_host.c:546, "Wait before cleaning up any benchmarks").
\* One kind of experiment is excepted: with sync_every_iteration the barriers of
\* the loop and of the end are the same, so a benchmark that leaves at its
\* max_seconds is counted as ready for an iteration the others go on with.
CleanupTogether ==
  (config.sync_every_iteration => config.timed = {}) =>
    \A t \in Tasks : stage[t] \in {"cleanup", "ok"} => logged = Tasks

\* The benchmarks are set up, measured and cleaned up together: the barriers of
\* RunBenchmark separate the three for all of them.
PhasesTogether == TypeOK /\ StartTogether /\ CleanupTogether

\* The number of iterations a task with a limit has completed.
Completed(t) ==
  IF stage[t] \in {"sync", "iterate", "footer", "finish", "cleanup", "ok"}
  THEN i[t] - 1 ELSE i[t]

\* With sync_every_iteration an iteration starts only when every benchmark
\* has completed the previous one (README.md:135-137).
Lockstep ==
  config.sync_every_iteration =>
    \A t, u \in Tasks :
      (Limit(t) > 0 /\ stage[t] = "iterate") => Completed(u) >= i[t] - 1

\* The host never reports success when a benchmark failed, provided every
\* benchmark could be started; as threads, it never does at all.  After a failed
\* fork it may: -1 makes waitpid take any child (task_host.c:844-864).
ResultHonest ==
  (host \in {"returned", "destroyed"} /\ all_ok /\ (UseProcesses => forked = Tasks))
    => \A t \in Tasks : stage[t] = "ok"

\* The host returns, and unmaps the barrier and the flag, only when no
\* benchmark is running any more (barrier_wait.h:20, "the caller's
\* responsibility").
HostOutlivesTasks ==
  host \in {"returned", "destroyed"} =>
    \A t \in Tasks : stage[t] \in Ended \cup {"none"}

\* When the host returns, everything it reports on is over, and it reports what
\* happened (task_host.c:838-880).
HonestReturn == ResultHonest /\ HostOutlivesTasks

\* The experiment ends: the host returns and is cleaned up.
HostReturns == <>(host = "destroyed")

\* The benchmarks reach a limit, or are told to stop by one that does.
Ends(t) == Limit(t) > 0 \/ t \in config.timed
Limited ==
  (\A t \in Tasks : Ends(t)) \/ (\E t \in config.terminators : Ends(t))

\* A limited experiment in which no call fails and no process is killed ends,
\* in whatever order its benchmarks reach their limits (task_host.c:478-489).
\* One kind of experiment is excepted, and need not end: sync_every_iteration
\* with a max_time, which parse_config.c accepts: a benchmark that leaves the
\* loop is missing from the barrier of the next iteration, and the others spin.
HealthyHostReturns ==
  (/\ config.faults = {} /\ Limited
   /\ config.sync_every_iteration => config.timed = {}) => HostReturns

=============================================================================
