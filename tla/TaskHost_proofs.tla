--------------------------- MODULE TaskHost_proofs ---------------------------
(***************************************************************************)
(* Proofs about the benchmark host, for every number of benchmarks and     *)
(* every set of experiments.                                               *)
(*                                                                         *)
(* What the proofs know of the barrier is what BarrierWait_proofs has      *)
(* proved of it: an arrival adds the caller to those that wait, and the    *)
(* barrier opens for all at once, when all wait.                           *)
(***************************************************************************)
EXTENDS TaskHost, FiniteSetTheorems, TLAPS

BP == INSTANCE BarrierWait_proofs WITH Procs <- Tasks, WeakStores <- FALSE

\* The tasks are finitely many, and there is one.
LEMMA TasksFinite == IsFiniteSet(Tasks) /\ Tasks # {}
<1>1. NumTasks \in Int /\ 1 \in Int
  BY NumTasksAssumption
<1>2. IsFiniteSet(1 .. NumTasks)
  BY <1>1, FS_Interval
<1> QED
  BY <1>2, NumTasksAssumption DEF Tasks

-----------------------------------------------------------------------------
(* The barrier, as the tasks see it *)

Waiting == {t \in Tasks : local_sense[t] # sense}
Inside(t) == at[t] # "outside"
Released(t) == Inside(t) /\ t \notin Waiting

\* What the barrier's own proofs say of its variables, and of the tasks that
\* are in none of its calls.
BarrierOK ==
  /\ BP!ExactInv
  /\ \A t \in Waiting : Inside(t)

\* The assumptions of the barrier's proofs hold of the tasks.
LEMMA BarrierAssumptions == BP!ProcsAssumption /\ BP!WeakStoresAssumption
BY TasksFinite
DEF BP!ProcsAssumption, BP!WeakStoresAssumption, BP!IsFiniteSet, IsFiniteSet

\* The barrier of the host is the barrier of the proofs.
LEMMA SameCount == Barrier!process_count = BP!process_count
BY DEF Barrier!process_count, BP!process_count, Barrier!Cardinality, BP!Cardinality

LEMMA SameActions ==
  ASSUME BarrierOK, NEW t \in Tasks
  PROVE  /\ Barrier!Arrive(t) => BP!Arrive(t)
         /\ Barrier!ResetCounter(t) => BP!ResetCounter(t)
         /\ Barrier!Release(t) => BP!Release(t)
         /\ Barrier!Leave(t) => BP!Leave(t)
         /\ Barrier!Proceed(t) =>
              Barrier!ResetCounter(t) \/ Barrier!Release(t) \/ Barrier!Leave(t)
<1>1. Barrier!Arrive(t) => BP!Arrive(t)
  BY DEF Barrier!Arrive, BP!Arrive
<1>2. Barrier!ResetCounter(t) => BP!ResetCounter(t)
  BY SameCount DEF Barrier!ResetCounter, BP!ResetCounter
<1>3. Barrier!Release(t) => BP!Release(t)
  BY DEF Barrier!Release, BP!Release
<1>4. Barrier!Leave(t) => BP!Leave(t)
  BY DEF Barrier!Leave, BP!Leave
<1>5. ASSUME Barrier!Proceed(t)
      PROVE  Barrier!ResetCounter(t) \/ Barrier!Release(t) \/ Barrier!Leave(t)
  <2>1. at[t] # "late_reset"
    BY DEF BarrierOK, BP!ExactInv, BP!Ordered
  <2> QED
    BY <1>5, <2>1 DEF Barrier!Proceed, Barrier!ReleaseFirst, Barrier!LateReset
<1> QED
  BY <1>1, <1>2, <1>3, <1>4, <1>5

LEMMA WaitingIsWaiting ==
  Waiting = BP!Waiting /\ Waiting' = BP!Waiting' /\ Waiting \subseteq Tasks
BY DEF Waiting, BP!Waiting

\* What the barrier's proofs give for the state.
LEMMA BarrierFacts ==
  ASSUME BarrierOK
  PROVE  /\ Barrier!BarrierTypeOK
         /\ local_sense \in [Tasks -> {0, 1}] /\ sense \in {0, 1}
         /\ at \in [Tasks -> BP!Places]
         /\ \A t \in Tasks : ~Inside(t) => t \notin Waiting
         /\ \A t \in Tasks : at[t] \in {"reset", "release"} => Waiting = Tasks
<1>1. BP!process_count \in Nat /\ BP!process_count >= 1
  BY BarrierAssumptions, BP!WaitingFinite, BP!CountsAtTheEnds
<1>2. BP!BarrierShape
  BY DEF BarrierOK, BP!ExactInv, BP!BarrierInv
<1>3. Barrier!BarrierShape
  BY <1>2 DEF BP!BarrierShape, Barrier!BarrierShape, BP!Places, Barrier!Places
<1>4. processes_remaining \in 0 .. BP!process_count
  BY DEF BarrierOK, BP!ExactInv
<1>5. Barrier!BarrierTypeOK
  BY <1>1, <1>3, <1>4, SameCount DEF Barrier!BarrierTypeOK
<1>6. \A t \in Tasks : ~Inside(t) => t \notin Waiting
  BY DEF BarrierOK
<1>7. \A t \in Tasks : at[t] \in {"reset", "release"} => Waiting = Tasks
  BY WaitingIsWaiting DEF BarrierOK, BP!ExactInv, BP!BarrierInv, BP!OneLastArrival
<1> QED
  BY <1>2, <1>5, <1>6, <1>7 DEF BP!BarrierShape

\* The barrier as it is created.
LEMMA BarrierInit == Barrier!BarrierCreate => BarrierOK /\ Waiting = {}
<1> SUFFICES ASSUME Barrier!BarrierCreate PROVE BarrierOK /\ Waiting = {}
  OBVIOUS
<1>1. BP!BarrierCreate
  BY SameCount DEF Barrier!BarrierCreate, BP!BarrierCreate
<1>2. Waiting = {}
  BY DEF Barrier!BarrierCreate, Waiting
<1>3. BP!BarrierInv
  BY <1>1, BarrierAssumptions, BP!InitInv
<1>4. BP!process_count \in Nat /\ BP!Cardinality(BP!Waiting) = 0
  BY <1>2, WaitingIsWaiting, BarrierAssumptions, BP!WaitingFinite, BP!CountsAtTheEnds
<1>5. BP!ExactInv
  BY <1>1, <1>3, <1>4
  DEF BP!ExactInv, BP!Ordered, BP!BarrierCreate, BP!CounterCountsArrivals
<1> QED
  BY <1>2, <1>5 DEF BarrierOK

\* A step that does not touch the barrier.
LEMMA BarrierStays ==
  ASSUME BarrierOK, UNCHANGED barrier
  PROVE  BarrierOK' /\ Waiting' = Waiting /\ at' = at
<1>1. Waiting' = Waiting /\ at' = at
  BY DEF barrier, Waiting
<1>2. UNCHANGED BP!barrierVars /\ BP!Ordered'
  BY DEF barrier, BP!barrierVars, BarrierOK, BP!ExactInv, BP!Ordered
<1>3. BP!ExactInv'
  BY <1>2, BarrierAssumptions, BP!StepExact DEF BarrierOK
<1> QED
  BY <1>1, <1>3 DEF BarrierOK, Inside

\* A call of BarrierWait: the caller is in, and waits.
LEMMA ArriveEffect ==
  ASSUME BarrierOK, NEW t \in Tasks, Barrier!Arrive(t)
  PROVE  /\ BarrierOK'
         /\ ~Inside(t) /\ Inside(t)'
         /\ \A u \in Tasks \ {t} : at'[u] = at[u]
         /\ Waiting' = Waiting \cup {t}
<1>1. BP!Arrive(t)
  BY SameActions
<1>2. at \in [Tasks -> BP!Places]
  BY BarrierFacts
<1>3. /\ ~Inside(t) /\ Inside(t)'
      /\ \A u \in Tasks \ {t} : at'[u] = at[u]
  BY <1>1, <1>2 DEF BP!Arrive, Inside
<1>4. Waiting' = Waiting \cup {t}
  BY <1>1, WaitingIsWaiting, BarrierAssumptions, BP!ArriveWaiting
  DEF BarrierOK, BP!ExactInv
<1>5. BP!Ordered'
  BY <1>1, <1>2 DEF BarrierOK, BP!ExactInv, BP!Ordered, BP!Arrive
<1>6. BP!BarrierNext
  BY <1>1 DEF BP!BarrierNext
<1>7. BP!ExactInv'
  BY <1>5, <1>6, BarrierAssumptions, BP!StepExact DEF BarrierOK
<1> QED
  BY <1>3, <1>4, <1>7, WaitingIsWaiting DEF BarrierOK, Inside

\* A step inside BarrierWait: the caller goes on waiting, or returns because
\* it was released, or, when all wait, releases all of them and returns.
LEMMA ProceedEffect ==
  ASSUME BarrierOK, NEW t \in Tasks, Barrier!Proceed(t)
  PROVE  /\ BarrierOK'
         /\ Inside(t)
         /\ \A u \in Tasks \ {t} : at'[u] = at[u]
         /\ \/ Inside(t)' /\ Waiting' = Waiting
            \/ ~Inside(t)' /\ t \notin Waiting /\ Waiting' = Waiting
            \/ ~Inside(t)' /\ Waiting = Tasks /\ Waiting' = {}
<1>1. at \in [Tasks -> BP!Places]
  BY BarrierFacts
<1>2. ASSUME BP!ResetCounter(t) \/ BP!Release(t) \/ BP!Leave(t)
      PROVE  BP!ExactInv' /\ Inside(t) /\ \A u \in Tasks \ {t} : at'[u] = at[u]
  <2>1. BP!Ordered'
    BY <1>1, <1>2
    DEF BarrierOK, BP!ExactInv, BP!Ordered, BP!ResetCounter, BP!Release, BP!Leave
  <2>2. BP!BarrierNext
    BY <1>2 DEF BP!BarrierNext, BP!Proceed
  <2>3. BP!ExactInv'
    BY <2>1, <2>2, BarrierAssumptions, BP!StepExact DEF BarrierOK
  <2> QED
    BY <1>1, <1>2, <2>3 DEF BP!ResetCounter, BP!Release, BP!Leave, Inside
<1>3. CASE Barrier!ResetCounter(t)
  <2>1. BP!ResetCounter(t)
    BY <1>3, SameActions
  <2>2. Inside(t)' /\ Waiting' = Waiting
    BY <1>1, <2>1 DEF BP!ResetCounter, Inside, Waiting
  <2> QED
    BY <1>2, <2>1, <2>2, WaitingIsWaiting DEF BarrierOK, Inside
<1>4. CASE Barrier!Release(t)
  <2>1. BP!Release(t)
    BY <1>4, SameActions
  <2>2. ~Inside(t)'
    BY <1>1, <2>1 DEF BP!Release, Inside
  <2>3. Waiting = Tasks /\ Waiting' = {}
    BY <2>1, WaitingIsWaiting, BarrierAssumptions, BP!OpenWaiting
    DEF BP!Release, BarrierOK, BP!ExactInv
  <2> QED
    BY <1>2, <2>1, <2>2, <2>3 DEF BarrierOK
<1>5. CASE Barrier!Leave(t)
  <2>1. BP!Leave(t)
    BY <1>5, SameActions
  <2>2. ~Inside(t)' /\ t \notin Waiting /\ Waiting' = Waiting
    BY <1>1, <2>1 DEF BP!Leave, Inside, Waiting
  <2> QED
    BY <1>2, <2>1, <2>2, WaitingIsWaiting DEF BarrierOK, Inside
<1> QED
  BY <1>3, <1>4, <1>5, SameActions

-----------------------------------------------------------------------------
(* The inductive invariant *)

\* What holds of each task by itself.  The limit bounds the counter until the
\* task has left its loop, and only a task that left it has completed its log.
TaskInv ==
  /\ config \in Configs
  /\ stage \in [Tasks -> Stages]
  /\ i \in [Tasks -> Nat]
  /\ expired \subseteq config.timed
  /\ terminate \in BOOLEAN
  /\ set_up \subseteq Tasks /\ logged \subseteq set_up
  /\ \A t \in Tasks :
       /\ Inside(t) => stage[t] \in AtBarrier \cup {"crashed"} /\ t \in set_up
       /\ stage[t] \notin {"none", "init", "error", "crashed"} => t \in set_up
       /\ stage[t] \in {"none", "init"} => t \notin set_up
       /\ stage[t] \in {"finish", "cleanup", "ok"} => t \in logged
       /\ stage[t] = "sync" => config.sync_every_iteration
       /\ i[t] <= IF Limit(t) = 0 THEN 0 ELSE Limit(t) + 1
       /\ stage[t] \in {"none", "init", "ready", "sleep", "loop", "sync", "iterate"}
            => i[t] <= Limit(t)

\* The first barrier has not opened: no task is past it, and those in it wait.
BeforeStart ==
  /\ logged = {} /\ terminate = FALSE
  /\ \A t \in Tasks :
       /\ stage[t] \in {"none", "init", "ready", "error", "crashed"}
       /\ stage[t] = "ready" /\ Inside(t) => t \in Waiting

\* It has, and when the tasks do not go in step the next one to open is the
\* last: whoever waits has completed its log.
BeforeEnd ==
  /\ set_up = Tasks
  /\ \A t \in Tasks :
       /\ t \in Waiting => t \in logged
       /\ stage[t] = "ready" => Released(t)
       /\ stage[t] = "finish" /\ Inside(t) => t \in Waiting
       /\ stage[t] \notin {"cleanup", "ok"}

StartInv == BeforeStart \/ set_up = Tasks

EndInv ==
  ~config.sync_every_iteration => BeforeStart \/ BeforeEnd \/ logged = Tasks

\* In step: the barrier has opened g times, and a task's counter says how often
\* it has passed or is about to.  A task is ahead of its counter from the
\* opening of the barrier to the end of the iteration.
Ahead(t) ==
  \/ stage[t] \in {"sleep", "loop", "iterate", "cleanup", "ok"}
  \/ stage[t] \in AtBarrier /\ Released(t)

InStep(g) ==
  \A t \in Tasks :
    /\ g = i[t] \/ g = i[t] + 1
    /\ t \in Waiting => g = i[t]
    /\ stage[t] \notin {"error", "crashed"} => (g = i[t] + 1 <=> Ahead(t))

\* In step and without time limits, the tasks leave their loops at the same
\* count, one past the limit, terminated or not.
EndInStep(g) ==
  \A t \in Tasks :
    /\ stage[t] \in {"footer", "finish", "cleanup", "ok"} => i[t] = Limit(t) + 1
    /\ t \in logged => i[t] = Limit(t) + 1
    /\ t \in Waiting /\ i[t] = Limit(t) + 1 => t \in logged
    /\ terminate => g >= Limit(t) + 1
    /\ g >= Limit(t) + 2 => logged = Tasks

\* The tasks of an experiment that go in step have one limit.
SyncInv ==
  config.sync_every_iteration =>
    IF \A t \in Tasks : Limit(t) > 0
    THEN \E g \in Nat : InStep(g) /\ (config.timed = {} => EndInStep(g))
    ELSE config.timed = {} =>
           ~terminate /\ \A t \in Tasks :
                            stage[t] \notin {"footer", "finish", "cleanup", "ok"}

\* What the host knows of the tasks: those before its index are started, or,
\* in the join, those it is done with have ended.  As threads it goes
\* backwards through those it created, as processes forwards through all.
HostInv ==
  /\ host \in {"create", "join", "returned", "destroyed"}
  /\ status \in Ended /\ all_ok \in BOOLEAN
  /\ next_task \in 0 .. NumTasks + 1
  /\ reaped \subseteq forked /\ forked \subseteq Tasks /\ set_up \subseteq forked
  /\ \A t \in Tasks : stage[t] # "none" <=> t \in forked
  /\ host \in {"create", "join"} => next_task \in Tasks
  /\ host = "create" => \A t \in forked : t < next_task

ThreadsInv ==
  ~UseProcesses =>
    /\ host = "create" => forked = 1 .. next_task - 1
    /\ host # "create" /\ all_ok => forked = Tasks
    /\ host # "create" =>
         \A t \in forked : t > next_task =>
           stage[t] \in Ended /\ (all_ok => stage[t] = "ok")
    /\ host \in {"returned", "destroyed"} => next_task = 0

ProcessesInv ==
  UseProcesses =>
    /\ \A t \in reaped : stage[t] \in Ended /\ (all_ok => stage[t] = "ok")
    /\ host # "create" => \A t \in forked : t < next_task => t \in reaped
    /\ host \in {"returned", "destroyed"} => next_task = NumTasks + 1

Inv ==
  /\ BarrierOK /\ TaskInv /\ StartInv /\ EndInv /\ SyncInv
  /\ HostInv /\ ThreadsInv /\ ProcessesInv

\* The start of a thread or process that was not started before.
Starts(t) == stage[t] = "none" /\ Start(t)

\* The steps of a task that do not touch the barrier.
Quiet(t) ==
  \/ Initialize(t)
  \/ SleepSeconds(t)
  \/ LoopTop(t)
  \/ Iterate(t)
  \/ WriteFooter(t)
  \/ Cleanup(t)
  \/ Expire(t)
  \/ ReturnNull(t)
  \/ Crash(t)
  \/ Starts(t)

\* A step of the program, as one task sees it.
LEMMA NextCases ==
  ASSUME HostInv, [Next]_vars
  PROVE  \/ \E t \in Tasks : Quiet(t) \/ CallBarrier(t) \/ InBarrier(t)
         \/ UNCHANGED <<barrier, config, taskVars>>
<1>1. ASSUME Start(next_task), host = "create"
      PROVE  next_task \in Tasks /\ Starts(next_task)
  <2>1. next_task \in Tasks /\ next_task \notin forked
    BY <1>1, NumTasksAssumption DEF HostInv, Tasks
  <2> QED
    BY <1>1, <2>1 DEF HostInv, Starts
<1>2. CASE CreateThread
  BY <1>1, <1>2 DEF CreateThread, Quiet
<1>3. CASE Fork
  BY <1>1, <1>3 DEF Fork, Quiet
<1>4. CASE CreateThreadFails \/ JoinThread \/ ForkFails \/ WaitChild \/ WaitNoChild
           \/ DestroyHost
  BY <1>4 DEF CreateThreadFails, JoinThread, ForkFails, WaitChild, WaitNoChild,
              NextWait, DestroyHost
<1>5. CASE \E t \in Tasks : RunBenchmark(t) \/ Expire(t) \/ ReturnNull(t) \/ Crash(t)
  BY <1>5 DEF RunBenchmark, Quiet
<1>6. CASE UNCHANGED vars
  BY <1>6 DEF vars, hostVars
<1> QED
  BY <1>2, <1>3, <1>4, <1>5, <1>6 DEF Next, HostStep, Done

\* What a quiet step leaves alone.
LEMMA QuietFrame ==
  ASSUME NEW t \in Tasks, Quiet(t), TaskInv
  PROVE  /\ UNCHANGED barrier /\ UNCHANGED config
         /\ stage' \in [Tasks -> Stages] /\ i' \in [Tasks -> Nat]
         /\ \A u \in Tasks \ {t} : stage'[u] = stage[u] /\ i'[u] = i[u]
<1> USE DEF TaskInv, GoTo
<1>1. CASE Initialize(t)
  BY <1>1 DEF Initialize, hostVars, Stages, Ended, AtBarrier
<1>2. CASE SleepSeconds(t)
  BY <1>2 DEF SleepSeconds, hostVars, Stages, Ended, AtBarrier
<1>3. CASE LoopTop(t)
  BY <1>3, ConfigsAssumption DEF LoopTop, Limit, hostVars, Stages, Ended, AtBarrier
<1>4. CASE Iterate(t)
  BY <1>4 DEF Iterate, hostVars, Stages, Ended, AtBarrier
<1>5. CASE WriteFooter(t)
  BY <1>5 DEF WriteFooter, hostVars, Stages, Ended, AtBarrier
<1>6. CASE Cleanup(t)
  BY <1>6 DEF Cleanup, hostVars, Stages, Ended, AtBarrier
<1>7. CASE Expire(t)
  BY <1>7 DEF Expire, hostVars, Stages, Ended, AtBarrier
<1>8. CASE ReturnNull(t)
  BY <1>8 DEF ReturnNull, hostVars, Stages, Ended, AtBarrier
<1>9. CASE Crash(t)
  BY <1>9 DEF Crash, hostVars, Stages, Ended, AtBarrier
<1>10. CASE Starts(t)
  BY <1>10 DEF Starts, Start, Stages, Ended, AtBarrier
<1> QED
  BY <1>1, <1>2, <1>3, <1>4, <1>5, <1>6, <1>7, <1>8, <1>9, <1>10 DEF Quiet

\* The barrier's variables are touched by calls of the barrier only.
LEMMA BarrierStep ==
  ASSUME BarrierOK, HostInv, [Next]_vars
  PROVE  BarrierOK'
<1>1. ASSUME NEW t \in Tasks, Quiet(t) PROVE UNCHANGED barrier
  BY <1>1 DEF Quiet, Initialize, SleepSeconds, LoopTop, Iterate, WriteFooter, Cleanup,
              Expire, ReturnNull, Crash, Starts, Start
<1>2. ASSUME NEW t \in Tasks, CallBarrier(t) PROVE BarrierOK'
  BY <1>2, ArriveEffect DEF CallBarrier
<1>3. ASSUME NEW t \in Tasks, InBarrier(t) PROVE BarrierOK'
  BY <1>3, ProceedEffect DEF InBarrier
<1> QED
  BY <1>1, <1>2, <1>3, NextCases, BarrierStays

\* A task returns from the barrier, or goes on waiting in it.
LEMMA InBarrierStage ==
  ASSUME BarrierOK, TaskInv, NEW t \in Tasks, InBarrier(t)
  PROVE  /\ Inside(t) /\ stage[t] \in AtBarrier
         /\ UNCHANGED <<hostVars, i, expired, terminate, set_up, logged>>
         /\ \A u \in Tasks \ {t} : stage'[u] = stage[u] /\ at'[u] = at[u]
         /\ stage' \in [Tasks -> Stages]
         /\ Inside(t)' => stage'[t] = stage[t]
         /\ ~Inside(t)' =>
              /\ stage[t] = "ready" => stage'[t] = "sleep"
              /\ stage[t] = "sync" => stage'[t] = "iterate"
              /\ stage[t] = "finish" => stage'[t] = "cleanup"
<1>1. Inside(t) /\ \A u \in Tasks \ {t} : at'[u] = at[u]
  BY ProceedEffect DEF InBarrier
<1>2. stage \in [Tasks -> Stages]
  BY DEF TaskInv
<1>3. /\ AfterBarrier(stage[t]) \in Stages
      /\ stage[t] = "ready" => AfterBarrier(stage[t]) = "sleep"
      /\ stage[t] = "sync" => AfterBarrier(stage[t]) = "iterate"
      /\ stage[t] = "finish" => AfterBarrier(stage[t]) = "cleanup"
  BY DEF InBarrier, AfterBarrier, Stages, AtBarrier
<1>4. IF ~Inside(t)' THEN stage' = [stage EXCEPT ![t] = AfterBarrier(stage[t])]
                    ELSE stage' = stage
  BY DEF InBarrier, GoTo, Inside
<1>5. stage[t] \in AtBarrier
      /\ UNCHANGED <<hostVars, i, expired, terminate, set_up, logged>>
  BY DEF InBarrier
<1>6. stage' \in [Tasks -> Stages]
  BY <1>2, <1>3, <1>4
<1>7. \A u \in Tasks \ {t} : stage'[u] = stage[u]
  BY <1>2, <1>4
<1>8. ~Inside(t)' => stage'[t] = AfterBarrier(stage[t])
  BY <1>2, <1>4
<1>9. Inside(t)' => stage'[t] = stage[t]
  BY <1>4
<1> QED
  BY <1>1, <1>3, <1>5, <1>6, <1>7, <1>8, <1>9

\* What holds of each task by itself is kept by every step.
LEMMA TaskInvStep ==
  ASSUME BarrierOK, TaskInv, HostInv, [Next]_vars
  PROVE  TaskInv'
<1>1. ASSUME NEW t \in Tasks, Quiet(t)
      PROVE  TaskInv'
  <2>1. /\ Waiting' = Waiting /\ at' = at /\ config' = config
        /\ stage' \in [Tasks -> Stages] /\ i' \in [Tasks -> Nat]
        /\ \A u \in Tasks \ {t} : stage'[u] = stage[u] /\ i'[u] = i[u]
    BY <1>1, QuietFrame, BarrierStays
  <2>2. Limit(t) \in Nat
    BY ConfigsAssumption DEF TaskInv, Limit
  <2> USE <2>1 DEF TaskInv, Inside, Limit, GoTo, Stages, Ended, AtBarrier
  <2>3. CASE Initialize(t)
    BY <2>3 DEF Initialize, hostVars
  <2>4. CASE SleepSeconds(t)
    BY <2>4 DEF SleepSeconds, hostVars
  <2>5. CASE LoopTop(t)
    BY <2>5, <2>2 DEF LoopTop, hostVars
  <2>6. CASE Iterate(t)
    BY <2>6 DEF Iterate, hostVars
  <2>7. CASE WriteFooter(t)
    BY <2>7 DEF WriteFooter, hostVars
  <2>8. CASE Cleanup(t)
    BY <2>8 DEF Cleanup, hostVars
  <2>9. CASE Expire(t)
    BY <2>9, ConfigsAssumption DEF Expire, hostVars
  <2>10. CASE ReturnNull(t)
    BY <2>10 DEF ReturnNull, hostVars
  <2>11. CASE Crash(t)
    BY <2>11 DEF Crash, hostVars
  <2>12. CASE Starts(t)
    BY <2>12 DEF Starts, Start
  <2> QED
    BY <1>1, <2>3, <2>4, <2>5, <2>6, <2>7, <2>8, <2>9, <2>10, <2>11, <2>12 DEF Quiet
<1>2. ASSUME NEW t \in Tasks, CallBarrier(t)
      PROVE  TaskInv'
  <2>1. Inside(t)' /\ \A u \in Tasks \ {t} : at'[u] = at[u]
    BY <1>2, ArriveEffect DEF CallBarrier
  <2> QED
    BY <1>2, <2>1 DEF CallBarrier, TaskInv, Inside, Limit, hostVars, taskVars, AtBarrier
<1>3. ASSUME NEW t \in Tasks, InBarrier(t)
      PROVE  TaskInv'
  BY <1>3, InBarrierStage DEF TaskInv, Inside, Limit, hostVars, AtBarrier
<1>4. CASE UNCHANGED <<barrier, config, taskVars>>
  BY <1>4, BarrierStays DEF TaskInv, Inside, Limit, taskVars
<1> QED
  BY <1>1, <1>2, <1>3, <1>4, NextCases

\* The tasks are set up and finished together: the first opening of the barrier
\* leaves nobody uninitialized, and without synchronized iterations the second
\* leaves no log incomplete.
LEMMA PhasesStep ==
  ASSUME BarrierOK, TaskInv, HostInv, StartInv, EndInv, [Next]_vars
  PROVE  StartInv' /\ EndInv'
<1>0. TaskInv' /\ BarrierOK'
  BY TaskInvStep, BarrierStep
<1>1. set_up \subseteq set_up' /\ logged \subseteq logged' /\ config' = config
  <2>1. ASSUME NEW t \in Tasks, Quiet(t)
        PROVE  set_up \subseteq set_up' /\ logged \subseteq logged' /\ config' = config
    BY <2>1 DEF Quiet, Initialize, SleepSeconds, LoopTop, Iterate, WriteFooter, Cleanup,
                Expire, ReturnNull, Crash, Starts, Start, hostVars
  <2> QED
    BY <2>1, NextCases DEF CallBarrier, InBarrier, taskVars, hostVars
<1>2. set_up = Tasks => set_up' = Tasks
  BY <1>0, <1>1 DEF TaskInv
<1>3. logged = Tasks => logged' = Tasks
  BY <1>0, <1>1 DEF TaskInv
<1>4. ASSUME NEW t \in Tasks, Quiet(t)
      PROVE  /\ BeforeStart => BeforeStart'
             /\ BeforeEnd /\ ~config.sync_every_iteration => BeforeEnd'
  <2>1. /\ Waiting' = Waiting /\ at' = at
        /\ \A u \in Tasks \ {t} : stage'[u] = stage[u]
    BY <1>4, QuietFrame, BarrierStays
  <2>2. t \notin Waiting \/ stage[t] \in AtBarrier \cup {"crashed"}
    BY DEF BarrierOK, TaskInv
  <2> USE <1>2, <2>1, <2>2 DEF BeforeStart, BeforeEnd, TaskInv, Inside, Released, GoTo,
                               Stages, Ended, AtBarrier
  <2>3. CASE Initialize(t)
    BY <2>3 DEF Initialize, hostVars
  <2>4. CASE SleepSeconds(t)
    BY <2>4 DEF SleepSeconds, hostVars
  <2>5. CASE LoopTop(t)
    BY <2>5 DEF LoopTop, hostVars
  <2>6. CASE Iterate(t)
    BY <2>6 DEF Iterate, hostVars
  <2>7. CASE WriteFooter(t)
    BY <2>7 DEF WriteFooter, hostVars
  <2>8. CASE Cleanup(t)
    BY <2>8 DEF Cleanup, hostVars
  <2>9. CASE Expire(t)
    BY <2>9 DEF Expire, hostVars
  <2>10. CASE ReturnNull(t)
    BY <2>10 DEF ReturnNull, hostVars
  <2>11. CASE Crash(t)
    BY <2>11 DEF Crash, hostVars
  <2>12. CASE Starts(t)
    BY <2>12 DEF Starts, Start
  <2> QED
    BY <1>4, <2>3, <2>4, <2>5, <2>6, <2>7, <2>8, <2>9, <2>10, <2>11, <2>12 DEF Quiet
<1>5. ASSUME NEW t \in Tasks, CallBarrier(t)
      PROVE  /\ BeforeStart => BeforeStart'
             /\ BeforeEnd /\ ~config.sync_every_iteration => BeforeEnd'
  <2>1. /\ Inside(t)' /\ ~Inside(t) /\ \A u \in Tasks \ {t} : at'[u] = at[u]
        /\ Waiting' = Waiting \cup {t}
        /\ stage[t] \in AtBarrier /\ UNCHANGED <<hostVars, taskVars>>
    BY <1>5, ArriveEffect DEF CallBarrier
  <2> QED
    BY <2>1, <1>2 DEF BeforeStart, BeforeEnd, TaskInv, Inside, Released, hostVars, taskVars,
                AtBarrier
<1>6. ASSUME NEW t \in Tasks, InBarrier(t)
      PROVE  StartInv' /\ EndInv'
  <2>1. /\ Inside(t) /\ stage[t] \in AtBarrier
        /\ UNCHANGED <<expired, terminate, set_up, logged>>
        /\ \A u \in Tasks \ {t} : stage'[u] = stage[u] /\ at'[u] = at[u]
        /\ Inside(t)' => stage'[t] = stage[t]
        /\ ~Inside(t)' =>
              /\ stage[t] = "ready" => stage'[t] = "sleep"
              /\ stage[t] = "sync" => stage'[t] = "iterate"
              /\ stage[t] = "finish" => stage'[t] = "cleanup"
    BY <1>6, InBarrierStage DEF hostVars
  <2>2. CASE Waiting' = Waiting /\ (Inside(t)' \/ t \notin Waiting)
    <3>1. BeforeStart => BeforeStart'
      BY <2>1, <2>2 DEF BeforeStart, TaskInv, Inside, AtBarrier
    <3>2. BeforeEnd /\ ~config.sync_every_iteration => BeforeEnd'
      BY <2>1, <2>2 DEF BeforeEnd, TaskInv, Inside, Released, AtBarrier
    <3> QED
      BY <1>1, <1>2, <1>3, <3>1, <3>2 DEF StartInv, EndInv
  <2>3. CASE ~Inside(t)' /\ Waiting = Tasks /\ Waiting' = {}
    <3>1. \A u \in Tasks : Inside(u)
      BY <2>3 DEF BarrierOK
    <3>2. set_up = Tasks
      BY <3>1 DEF TaskInv
    <3>3. BeforeStart => BeforeEnd'
      BY <2>1, <2>3, <3>1, <3>2
      DEF BeforeStart, BeforeEnd, TaskInv, Inside, Released, AtBarrier
    <3>4. BeforeEnd => logged = Tasks
      BY <2>3 DEF BeforeEnd, TaskInv
    <3> QED
      BY <1>1, <1>2, <1>3, <3>2, <3>3, <3>4 DEF StartInv, EndInv
  <2> QED
    BY <1>6, <2>2, <2>3, ProceedEffect DEF InBarrier
<1>7. CASE UNCHANGED <<barrier, config, taskVars>>
  <2>1. Waiting' = Waiting /\ at' = at
    BY <1>7, BarrierStays
  <2> QED
    BY <1>7, <2>1 DEF StartInv, EndInv, BeforeStart, BeforeEnd, Inside, Released, taskVars
<1> QED
  BY <1>1, <1>2, <1>3, <1>4, <1>5, <1>6, <1>7, NextCases DEF StartInv, EndInv

\* A quiet step keeps the tasks in step.
LEMMA QuietInStep ==
  ASSUME BarrierOK, TaskInv, config.sync_every_iteration,
         \A t \in Tasks : Limit(t) > 0,
         NEW g \in Nat, InStep(g), NEW t \in Tasks, Quiet(t)
  PROVE  InStep(g)'
<1>1. /\ Waiting' = Waiting /\ at' = at
      /\ stage' \in [Tasks -> Stages] /\ i' \in [Tasks -> Nat]
      /\ \A u \in Tasks \ {t} : stage'[u] = stage[u] /\ i'[u] = i[u]
  BY QuietFrame, BarrierStays
<1>2. t \notin Waiting \/ stage[t] \in AtBarrier \cup {"crashed"}
  BY DEF BarrierOK, TaskInv
<1>3. \A u \in Tasks \ {t} : Ahead(u)' <=> Ahead(u)
  BY <1>1 DEF Ahead, Released, Inside
<1>4. ASSUME g = i'[t] \/ g = i'[t] + 1,
             t \in Waiting => g = i'[t],
             stage'[t] \notin {"error", "crashed"} => (g = i'[t] + 1 <=> Ahead(t)')
      PROVE  InStep(g)'
  BY <1>1, <1>3, <1>4 DEF InStep
<1>5. /\ g = i[t] \/ g = i[t] + 1
      /\ t \in Waiting => g = i[t]
      /\ stage[t] \notin {"error", "crashed"} => (g = i[t] + 1 <=> Ahead(t))
  BY DEF InStep
<1> USE <1>1, <1>2, <1>5 DEF TaskInv, Ahead, Released, Inside, GoTo, Stages, Ended, AtBarrier
<1>6. CASE Initialize(t)
  BY <1>4, <1>6 DEF Initialize, hostVars
<1>7. CASE SleepSeconds(t)
  BY <1>4, <1>7 DEF SleepSeconds, hostVars
<1>8. CASE LoopTop(t)
  BY <1>4, <1>8 DEF LoopTop, hostVars, Limit
<1>9. CASE Iterate(t)
  BY <1>4, <1>9 DEF Iterate, hostVars
<1>10. CASE WriteFooter(t)
  BY <1>4, <1>10 DEF WriteFooter, hostVars
<1>11. CASE Cleanup(t)
  BY <1>4, <1>11 DEF Cleanup, hostVars
<1>12. CASE Expire(t)
  BY <1>4, <1>12 DEF Expire, hostVars
<1>13. CASE ReturnNull(t)
  BY <1>4, <1>13 DEF ReturnNull, hostVars
<1>14. CASE Crash(t)
  BY <1>4, <1>14 DEF Crash, hostVars
<1>15. CASE Starts(t)
  BY <1>4, <1>15 DEF Starts, Start
<1> QED
  BY <1>6, <1>7, <1>8, <1>9, <1>10, <1>11, <1>12, <1>13, <1>14, <1>15 DEF Quiet

\* ... and, without time limits, on their way to the same end.
LEMMA QuietEndInStep ==
  ASSUME BarrierOK, TaskInv, TaskInv', config.sync_every_iteration, config.timed = {},
         \A t \in Tasks : Limit(t) > 0,
         NEW g \in Nat, InStep(g), EndInStep(g), NEW t \in Tasks, Quiet(t)
  PROVE  EndInStep(g)'
<1>1. /\ Waiting' = Waiting /\ at' = at /\ config' = config
      /\ stage' \in [Tasks -> Stages] /\ i' \in [Tasks -> Nat]
      /\ \A u \in Tasks \ {t} : stage'[u] = stage[u] /\ i'[u] = i[u]
  BY QuietFrame, BarrierStays
<1>2. t \notin Waiting \/ stage[t] \in AtBarrier \cup {"crashed"}
  BY DEF BarrierOK, TaskInv
<1>3. \A u, v \in Tasks : Limit(u) = Limit(v) /\ Limit(u) \in Nat
  BY ConfigsAssumption DEF TaskInv, Limit
<1>4. \A u \in Tasks : Limit(u)' = Limit(u)
  BY <1>1 DEF Limit
<1>5. /\ g = i[t] \/ g = i[t] + 1
      /\ stage[t] \in {"loop", "iterate"} => g = i[t] + 1
  BY DEF InStep, Ahead
<1>6. ASSUME stage'[t] \in {"footer", "finish", "cleanup", "ok"} => i'[t] = Limit(t) + 1,
             t \in logged' => i'[t] = Limit(t) + 1,
             t \in Waiting /\ i'[t] = Limit(t) + 1 => t \in logged',
             terminate' => g >= Limit(t) + 1,
             logged' = logged \/ logged' = logged \cup {t}
      PROVE  EndInStep(g)'
  BY <1>1, <1>3, <1>4, <1>6 DEF EndInStep, TaskInv
<1>7. /\ stage[t] \in {"footer", "finish", "cleanup", "ok"} => i[t] = Limit(t) + 1
      /\ t \in logged => i[t] = Limit(t) + 1
      /\ t \in Waiting /\ i[t] = Limit(t) + 1 => t \in logged
      /\ terminate => g >= Limit(t) + 1
  BY DEF EndInStep
<1>8. expired = {}
  BY DEF TaskInv
<1> USE <1>1, <1>2, <1>3, <1>5, <1>7, <1>8
    DEF TaskInv, GoTo, Stages, Ended, AtBarrier
<1>9. CASE Initialize(t)
  BY <1>6, <1>9 DEF Initialize, hostVars
<1>10. CASE SleepSeconds(t)
  BY <1>6, <1>10 DEF SleepSeconds, hostVars
<1>11. CASE LoopTop(t)
  BY <1>6, <1>11 DEF LoopTop, hostVars
<1>12. CASE Iterate(t)
  BY <1>6, <1>12 DEF Iterate, hostVars
<1>13. CASE WriteFooter(t)
  BY <1>6, <1>13 DEF WriteFooter, hostVars
<1>14. CASE Cleanup(t)
  BY <1>6, <1>14 DEF Cleanup, hostVars
<1>15. CASE Expire(t)
  BY <1>6, <1>15 DEF Expire, hostVars
<1>16. CASE ReturnNull(t)
  BY <1>6, <1>16 DEF ReturnNull, hostVars
<1>17. CASE Crash(t)
  BY <1>6, <1>17 DEF Crash, hostVars
<1>18. CASE Starts(t)
  BY <1>6, <1>18 DEF Starts, Start
<1> QED
  BY <1>9, <1>10, <1>11, <1>12, <1>13, <1>14, <1>15, <1>16, <1>17, <1>18 DEF Quiet

\* A call of the barrier: a task that is about to wait has completed as many
\* iterations as the barrier has opened for.
LEMMA CallInStep ==
  ASSUME BarrierOK, TaskInv, \A t \in Tasks : Limit(t) > 0,
         NEW g \in Nat, InStep(g), NEW t \in Tasks, CallBarrier(t)
  PROVE  InStep(g)' /\ (EndInStep(g) => EndInStep(g)')
<1>1. /\ Inside(t)' /\ ~Inside(t) /\ \A u \in Tasks \ {t} : at'[u] = at[u]
      /\ Waiting' = Waiting \cup {t}
      /\ stage[t] \in AtBarrier /\ UNCHANGED <<hostVars, taskVars>>
  BY ArriveEffect DEF CallBarrier
<1>2. ~Ahead(t) /\ ~Ahead(t)' /\ \A u \in Tasks \ {t} : Ahead(u)' <=> Ahead(u)
  BY <1>1 DEF Ahead, Released, Inside, AtBarrier, taskVars
<1>3. g = i[t]
  BY <1>1, <1>2 DEF InStep, AtBarrier
<1>4. InStep(g)'
  BY <1>1, <1>2, <1>3 DEF InStep, taskVars
<1>5. i[t] = Limit(t) + 1 => t \in logged
  BY <1>1, ConfigsAssumption DEF TaskInv, AtBarrier, Limit
<1>6. EndInStep(g) => EndInStep(g)'
  BY <1>1, <1>5 DEF EndInStep, Limit, taskVars, hostVars
<1> QED
  BY <1>4, <1>6

\* A step inside the barrier: it opens when all tasks are at the same count, for
\* the next round.
LEMMA InBarrierInStep ==
  ASSUME BarrierOK, TaskInv, config.sync_every_iteration,
         \A t \in Tasks : Limit(t) > 0,
         NEW g \in Nat, InStep(g), NEW t \in Tasks, InBarrier(t)
  PROVE  \E h \in Nat : InStep(h)' /\ (EndInStep(g) => EndInStep(h)')
<1>1. /\ Inside(t) /\ stage[t] \in AtBarrier
      /\ UNCHANGED <<hostVars, i, expired, terminate, set_up, logged>>
      /\ \A u \in Tasks \ {t} : stage'[u] = stage[u] /\ at'[u] = at[u]
      /\ Inside(t)' => stage'[t] = stage[t]
      /\ ~Inside(t)' =>
            /\ stage[t] = "ready" => stage'[t] = "sleep"
            /\ stage[t] = "sync" => stage'[t] = "iterate"
            /\ stage[t] = "finish" => stage'[t] = "cleanup"
  BY InBarrierStage
<1>2. config' = config /\ \A u \in Tasks : Limit(u)' = Limit(u) /\ Limit(u) \in Nat
  BY <1>1, ConfigsAssumption DEF hostVars, TaskInv, Limit
<1>3. \A u \in Tasks : stage'[u] \in {"footer", "finish", "cleanup", "ok"}
                         => stage[u] \in {"footer", "finish", "cleanup", "ok"}
  BY <1>1 DEF AtBarrier
<1>4. CASE Waiting' = Waiting /\ (Inside(t)' \/ t \notin Waiting)
  <2>1. \A u \in Tasks : Ahead(u)' <=> Ahead(u)
    BY <1>1, <1>4 DEF Ahead, Released, Inside, AtBarrier
  <2>2. \A u \in Tasks :
          stage'[u] \in {"error", "crashed"} <=> stage[u] \in {"error", "crashed"}
    BY <1>1 DEF AtBarrier
  <2>3. InStep(g)'
    BY <1>1, <1>4, <2>1, <2>2 DEF InStep
  <2>4. EndInStep(g) => EndInStep(g)'
    BY <1>1, <1>2, <1>3, <1>4 DEF EndInStep
  <2> QED
    BY <2>3, <2>4
<1>5. CASE ~Inside(t)' /\ Waiting = Tasks /\ Waiting' = {}
  <2>1. \A u \in Tasks : Inside(u) /\ i[u] = g /\ stage[u] \in AtBarrier \cup {"crashed"}
    BY <1>5 DEF BarrierOK, InStep, TaskInv
  <2>2. \A u \in Tasks : stage'[u] # "crashed" => Ahead(u)'
    BY <1>1, <1>5, <2>1 DEF Ahead, Released, Inside, AtBarrier
  <2>3. g + 1 \in Nat /\ \A u \in Tasks : g + 1 = i'[u] + 1
    BY <1>1, <2>1
  <2>4. InStep(g + 1)'
    BY <1>5, <2>2, <2>3 DEF InStep
  <2>5. ASSUME EndInStep(g)
        PROVE  EndInStep(g + 1)'
    <3>1. ASSUME NEW u \in Tasks, g + 1 >= Limit(u) + 2
          PROVE  logged = Tasks
      <4>1. \A v \in Tasks : i[v] <= Limit(v) + 1 /\ i[v] = g
        BY <2>1, ConfigsAssumption DEF TaskInv, Limit
      <4>2. i[u] = Limit(u) + 1
        BY <1>2, <3>1, <4>1
      <4>3. \A v \in Tasks : Limit(v) = Limit(u)
        BY ConfigsAssumption DEF TaskInv, Limit
      <4>4. \A v \in Tasks : v \in logged
        BY <1>5, <2>1, <2>5, <4>2, <4>3 DEF EndInStep
      <4> QED
        BY <4>4 DEF TaskInv
    <3> QED
      BY <1>1, <1>2, <1>3, <1>5, <2>5, <3>1 DEF EndInStep
  <2> QED
    BY <2>3, <2>4, <2>5
<1> QED
  BY <1>4, <1>5, ProceedEffect DEF InBarrier

\* With neither an iteration limit nor a time limit nobody leaves the loop.
LEMMA EndlessStep ==
  ASSUME BarrierOK, TaskInv, HostInv, [Next]_vars,
         config.timed = {}, \A t \in Tasks : Limit(t) = 0,
         ~terminate,
         \A t \in Tasks : stage[t] \notin {"footer", "finish", "cleanup", "ok"}
  PROVE  /\ ~terminate'
         /\ \A t \in Tasks : stage'[t] \notin {"footer", "finish", "cleanup", "ok"}
<1>1. ASSUME NEW t \in Tasks, Quiet(t)
      PROVE  /\ terminate' = terminate
             /\ stage'[t] \notin {"footer", "finish", "cleanup", "ok"}
  BY <1>1 DEF Quiet, Initialize, SleepSeconds, LoopTop, Iterate, WriteFooter, Cleanup,
              Expire, ReturnNull, Crash, Starts, Start, TaskInv, GoTo
<1>2. ASSUME NEW t \in Tasks, Quiet(t)
      PROVE  \A u \in Tasks \ {t} : stage'[u] = stage[u]
  BY <1>2, QuietFrame
<1>3. ASSUME NEW t \in Tasks, InBarrier(t)
      PROVE  /\ terminate' = terminate
             /\ stage'[t] \notin {"footer", "finish", "cleanup", "ok"}
             /\ \A u \in Tasks \ {t} : stage'[u] = stage[u]
  BY <1>3, InBarrierStage DEF AtBarrier
<1>4. ASSUME NEW t \in Tasks, CallBarrier(t)
      PROVE  UNCHANGED taskVars
  BY <1>4 DEF CallBarrier
<1> QED
  BY <1>1, <1>2, <1>3, <1>4, NextCases DEF taskVars

\* The tasks of an experiment that goes in step stay in step.
LEMMA SyncStep ==
  ASSUME BarrierOK, TaskInv, HostInv, SyncInv, [Next]_vars
  PROVE  SyncInv'
<1>1. TaskInv'
  BY TaskInvStep
<1>2. config' = config
  <2>1. ASSUME NEW t \in Tasks, Quiet(t) PROVE config' = config
    BY <2>1, QuietFrame
  <2> QED
    BY <2>1, NextCases DEF CallBarrier, InBarrier, hostVars
<1>3. \A t \in Tasks : Limit(t)' = Limit(t) /\ Limit(t) \in Nat
  BY <1>2, ConfigsAssumption DEF TaskInv, Limit
<1>4. SUFFICES ASSUME config.sync_every_iteration PROVE SyncInv'
  BY <1>2 DEF SyncInv
<1>5. \A t, u \in Tasks : Limit(t) = Limit(u)
  BY <1>4, ConfigsAssumption DEF TaskInv, Limit
<1>6. CASE \A t \in Tasks : Limit(t) > 0
  <2>1. PICK g \in Nat : InStep(g) /\ (config.timed = {} => EndInStep(g))
    BY <1>4, <1>6 DEF SyncInv
  <2>2. SUFFICES \E h \in Nat : InStep(h)' /\ (config.timed = {} => EndInStep(h)')
    BY <1>2, <1>3, <1>6 DEF SyncInv
  <2>3. ASSUME NEW t \in Tasks, Quiet(t)
        PROVE  InStep(g)' /\ (config.timed = {} => EndInStep(g)')
    BY <1>1, <1>4, <1>6, <2>1, <2>3, QuietInStep, QuietEndInStep
  <2>4. ASSUME NEW t \in Tasks, CallBarrier(t)
        PROVE  InStep(g)' /\ (config.timed = {} => EndInStep(g)')
    BY <1>6, <2>1, <2>4, CallInStep
  <2>5. ASSUME NEW t \in Tasks, InBarrier(t)
        PROVE  \E h \in Nat : InStep(h)' /\ (config.timed = {} => EndInStep(h)')
    BY <1>4, <1>6, <2>1, <2>5, InBarrierInStep
  <2>6. CASE UNCHANGED <<barrier, config, taskVars>>
    <3>1. Waiting' = Waiting /\ at' = at
      BY <2>6, BarrierStays
    <3> QED
      BY <1>3, <2>1, <2>6, <3>1 DEF InStep, EndInStep, Ahead, Released, Inside, taskVars
  <2> QED
    BY <2>3, <2>4, <2>5, <2>6, NextCases
<1>7. CASE ~\A t \in Tasks : Limit(t) > 0
  <2>1. \A t \in Tasks : Limit(t) = 0
    BY <1>3, <1>5, <1>7
  <2>2. SUFFICES ASSUME config.timed = {}
                 PROVE  /\ ~terminate'
                        /\ \A t \in Tasks :
                              stage'[t] \notin {"footer", "finish", "cleanup", "ok"}
    BY <1>2, <1>3, <1>7 DEF SyncInv
  <2>3. /\ ~terminate
        /\ \A t \in Tasks : stage[t] \notin {"footer", "finish", "cleanup", "ok"}
    BY <1>4, <1>7, <2>2 DEF SyncInv
  <2> QED
    BY <2>1, <2>2, <2>3, EndlessStep
<1> QED
  BY <1>6, <1>7

-----------------------------------------------------------------------------
(* The host *)

\* A task that has ended stays as it ended, and no step of a task changes what
\* the host keeps.
LEMMA TaskFrame ==
  ASSUME TaskInv, BarrierOK, NEW t \in Tasks,
         RunBenchmark(t) \/ Expire(t) \/ ReturnNull(t) \/ Crash(t)
  PROVE  /\ UNCHANGED hostVars
         /\ stage[t] \notin Ended \cup {"none"} \/ stage'[t] = stage[t]
         /\ stage[t] # "none" <=> stage'[t] # "none"
         /\ \A u \in Tasks \ {t} : stage'[u] = stage[u]
         /\ set_up' = set_up \/ (stage[t] = "init" /\ set_up' = set_up \cup {t})
<1> USE DEF Ended
<1>1. CASE InBarrier(t)
  BY <1>1, InBarrierStage DEF AtBarrier
<1>2. CASE CallBarrier(t)
  BY <1>2 DEF CallBarrier, taskVars
<1>3. CASE Initialize(t) \/ SleepSeconds(t) \/ Iterate(t) \/ Cleanup(t) \/ Expire(t)
  BY <1>3 DEF Initialize, SleepSeconds, Iterate, Cleanup, Expire, TaskInv, GoTo
<1>4. CASE LoopTop(t)
  BY <1>4 DEF LoopTop, TaskInv, GoTo
<1>5. CASE WriteFooter(t) \/ ReturnNull(t) \/ Crash(t)
  BY <1>5 DEF WriteFooter, ReturnNull, Crash, TaskInv, GoTo
<1> QED
  BY <1>1, <1>2, <1>3, <1>4, <1>5 DEF RunBenchmark

\* A step of a task preserves what the host knows.
LEMMA TaskKeepsHost ==
  ASSUME TaskInv, BarrierOK, HostInv, ThreadsInv, ProcessesInv, NEW t \in Tasks,
         RunBenchmark(t) \/ Expire(t) \/ ReturnNull(t) \/ Crash(t)
  PROVE  HostInv' /\ ThreadsInv' /\ ProcessesInv'
<1>1. /\ UNCHANGED <<config, host, next_task, forked, reaped, status, all_ok>>
      /\ \A u \in Tasks : stage[u] \in Ended => stage'[u] = stage[u]
      /\ \A u \in Tasks : stage[u] # "none" <=> stage'[u] # "none"
      /\ set_up' = set_up \/ (stage[t] = "init" /\ set_up' = set_up \cup {t})
  BY TaskFrame DEF hostVars
<1>2. HostInv'
  BY <1>1 DEF HostInv
<1>3. ThreadsInv'
  BY <1>1 DEF ThreadsInv, HostInv, UseProcesses
<1>4. ProcessesInv'
  BY <1>1 DEF ProcessesInv, HostInv, UseProcesses
<1> QED
  BY <1>2, <1>3, <1>4

\* So does a step of the host.
LEMMA HostKeepsHost ==
  ASSUME TaskInv, HostInv, ThreadsInv, ProcessesInv, HostStep
  PROVE  HostInv' /\ ThreadsInv' /\ ProcessesInv'
<1> USE NumTasksAssumption DEF UseProcesses, Tasks, Ended
<1>0. /\ next_task \in 0 .. NumTasks + 1 /\ forked \subseteq Tasks /\ reaped \subseteq forked
      /\ host \in {"create", "join"} => next_task \in Tasks
  BY DEF HostInv
<1>1. ASSUME Start(next_task), host = "create"
      PROVE  /\ next_task \in Tasks /\ next_task \notin forked
             /\ UNCHANGED <<config, set_up>>
             /\ stage'[next_task] = "init"
             /\ \A t \in Tasks \ {next_task} : stage'[t] = stage[t]
             /\ forked' = forked \cup {next_task} /\ forked' \subseteq Tasks
             /\ \A t \in Tasks : stage'[t] # "none" <=> t \in forked'
  <2>1. next_task \in Tasks /\ next_task \notin forked
    BY <1>0, <1>1 DEF HostInv
  <2>2. stage \in [Tasks -> Stages]
    BY DEF TaskInv
  <2>3. stage' = [stage EXCEPT ![next_task] = "init"]
        /\ UNCHANGED <<config, set_up>> /\ forked' = forked \cup {next_task}
    BY <1>1 DEF Start, GoTo
  <2>4. /\ stage'[next_task] = "init"
        /\ \A t \in Tasks \ {next_task} : stage'[t] = stage[t]
    BY <2>1, <2>2, <2>3
  <2>5. \A t \in Tasks : stage'[t] # "none" <=> t \in forked'
    BY <2>3, <2>4 DEF HostInv
  <2> QED
    BY <1>0, <2>1, <2>3, <2>4, <2>5
<1>2. CASE CreateThread
  <2>1. /\ ~config.use_processes /\ host = "create" /\ UNCHANGED <<reaped, status, all_ok>>
        /\ \/ next_task = NumTasks /\ host' = "join" /\ next_task' = next_task
           \/ next_task # NumTasks /\ host' = "create" /\ next_task' = next_task + 1
    BY <1>2 DEF CreateThread
  <2>2. /\ next_task \in Tasks /\ next_task \notin forked
        /\ UNCHANGED <<config, set_up>>
        /\ stage'[next_task] = "init"
        /\ \A t \in Tasks \ {next_task} : stage'[t] = stage[t]
        /\ forked' = forked \cup {next_task} /\ forked' \subseteq Tasks
        /\ \A t \in Tasks : stage'[t] # "none" <=> t \in forked'
    BY <1>1, <1>2, <2>1 DEF CreateThread
  <2>3. HostInv'
    BY <1>0, <2>1, <2>2 DEF HostInv
  <2>4. ThreadsInv'
    BY <1>0, <2>1, <2>2 DEF ThreadsInv
  <2>5. ProcessesInv'
    BY <1>0, <2>1, <2>2 DEF ProcessesInv
  <2> QED
    BY <2>3, <2>4, <2>5
<1>3. CASE CreateThreadFails
  <2>1. /\ ~config.use_processes /\ host = "create" /\ all_ok' = FALSE
        /\ next_task' = next_task - 1
        /\ host' = IF next_task = 1 THEN "returned" ELSE "join"
        /\ UNCHANGED <<config, stage, set_up, forked, reaped, status>>
    BY <1>3 DEF CreateThreadFails, taskVars
  <2>2. ~all_ok' /\ all_ok' \in BOOLEAN
    BY <2>1
  <2>3. HostInv'
    BY <1>0, <2>1, <2>2 DEF HostInv
  <2>4. ThreadsInv'
    BY <1>0, <2>1, <2>2 DEF ThreadsInv
  <2>5. ProcessesInv'
    BY <1>0, <2>1, <2>2 DEF ProcessesInv
  <2> QED
    BY <2>3, <2>4, <2>5
<1>4. CASE JoinThread
  <2>1. /\ ~config.use_processes /\ host = "join" /\ stage[next_task] \in Ended
        /\ status' = stage[next_task]
        /\ all_ok' = (all_ok /\ stage[next_task] = "ok")
        /\ next_task' = next_task - 1
        /\ host' = IF next_task = 1 THEN "returned" ELSE "join"
        /\ UNCHANGED <<config, stage, set_up, forked, reaped>>
    BY <1>4 DEF JoinThread, taskVars
  <2>2. all_ok' \in BOOLEAN /\ (all_ok' => all_ok /\ stage[next_task] = "ok")
    BY <2>1
  <2>3. HostInv'
    BY <1>0, <2>1, <2>2 DEF HostInv
  <2>4. ThreadsInv'
    BY <1>0, <2>1, <2>2 DEF ThreadsInv
  <2>5. ProcessesInv'
    BY <1>0, <2>1, <2>2 DEF ProcessesInv
  <2> QED
    BY <2>3, <2>4, <2>5
<1>5. CASE Fork
  <2>1. /\ config.use_processes /\ host = "create" /\ UNCHANGED <<reaped, status, all_ok>>
        /\ \/ next_task = NumTasks /\ host' = "join" /\ next_task' = 1
           \/ next_task # NumTasks /\ host' = "create" /\ next_task' = next_task + 1
    BY <1>5 DEF Fork, NextFork
  <2>2. /\ next_task \in Tasks /\ next_task \notin forked
        /\ UNCHANGED <<config, set_up>>
        /\ stage'[next_task] = "init"
        /\ \A t \in Tasks \ {next_task} : stage'[t] = stage[t]
        /\ forked' = forked \cup {next_task} /\ forked' \subseteq Tasks
        /\ \A t \in Tasks : stage'[t] # "none" <=> t \in forked'
    BY <1>1, <1>5, <2>1 DEF Fork
  <2>3. HostInv'
    BY <1>0, <2>1, <2>2 DEF HostInv
  <2>4. ThreadsInv'
    BY <1>0, <2>1, <2>2 DEF ThreadsInv
  <2>5. ProcessesInv'
    BY <1>0, <2>1, <2>2 DEF ProcessesInv
  <2> QED
    BY <2>3, <2>4, <2>5
<1>6. CASE ForkFails
  <2>1. /\ config.use_processes /\ host = "create"
        /\ UNCHANGED <<config, stage, set_up, forked, reaped, status, all_ok>>
        /\ \/ next_task = NumTasks /\ host' = "join" /\ next_task' = 1
           \/ next_task # NumTasks /\ host' = "create" /\ next_task' = next_task + 1
    BY <1>6 DEF ForkFails, NextFork, taskVars
  <2>2. HostInv'
    BY <1>0, <2>1 DEF HostInv
  <2>3. ThreadsInv'
    BY <1>0, <2>1 DEF ThreadsInv
  <2>4. ProcessesInv'
    BY <1>0, <2>1 DEF ProcessesInv
  <2> QED
    BY <2>2, <2>3, <2>4
<1>7. CASE WaitChild \/ WaitNoChild
  <2>1. /\ config.use_processes /\ host = "join"
        /\ next_task' = next_task + 1
        /\ host' = IF next_task = NumTasks THEN "returned" ELSE "join"
        /\ all_ok' = (all_ok /\ status' = "ok")
        /\ UNCHANGED <<config, stage, set_up, forked>>
    BY <1>7 DEF WaitChild, WaitNoChild, NextWait, taskVars
  <2>2. all_ok' \in BOOLEAN /\ (all_ok' => all_ok /\ status' = "ok")
    BY <2>1 DEF HostInv
  <2>3. next_task \in forked => next_task \in reaped'
    BY <1>7 DEF WaitChild, WaitNoChild, Waitable
  <2>4. \/ \E t \in forked : stage[t] \in Ended /\ status' = stage[t]
                              /\ reaped' = reaped \cup {t}
        \/ UNCHANGED <<reaped, status>>
    BY <1>7 DEF WaitChild, WaitNoChild, Waitable, HostInv
  <2>5. status' \in Ended /\ reaped \subseteq reaped' /\ reaped' \subseteq forked
    BY <1>0, <2>4 DEF HostInv
  <2>6. HostInv'
    BY <1>0, <2>1, <2>2, <2>5 DEF HostInv
  <2>7. \A t \in reaped' : stage[t] \in Ended /\ (all_ok' => stage[t] = "ok")
    BY <2>1, <2>2, <2>4 DEF ProcessesInv
  <2>8. ProcessesInv'
    BY <1>0, <2>1, <2>3, <2>5, <2>7 DEF ProcessesInv
  <2>9. ThreadsInv'
    BY <2>1 DEF ThreadsInv
  <2> QED
    BY <2>6, <2>8, <2>9
<1>8. CASE DestroyHost
  <2>1. /\ host = "returned" /\ host' = "destroyed"
        /\ UNCHANGED <<config, stage, set_up, next_task, forked, reaped, status, all_ok>>
    BY <1>8 DEF DestroyHost, taskVars
  <2>2. HostInv'
    BY <1>0, <2>1 DEF HostInv
  <2>3. ThreadsInv'
    BY <1>0, <2>1 DEF ThreadsInv
  <2>4. ProcessesInv'
    BY <1>0, <2>1 DEF ProcessesInv
  <2> QED
    BY <2>2, <2>3, <2>4
<1> QED
  BY <1>2, <1>3, <1>4, <1>5, <1>6, <1>7, <1>8 DEF HostStep

-----------------------------------------------------------------------------
(* The theorems *)

\* The invariant holds of an experiment that has not begun.
LEMMA InitInv == Init => Inv
<1> SUFFICES ASSUME Init PROVE Inv
  OBVIOUS
<1> USE DEF Init
<1>1. BarrierOK /\ Waiting = {}
  BY BarrierInit
<1>2. \A t \in Tasks : ~Inside(t)
  BY DEF Inside, Barrier!BarrierCreate
<1>3. \A t \in Tasks : Limit(t) \in Nat
  BY ConfigsAssumption DEF Limit
<1>4. TaskInv
  <2>1. stage \in [Tasks -> Stages] /\ i \in [Tasks -> Nat]
    BY DEF Stages
  <2>2. \A t \in Tasks : stage[t] = "none" /\ i[t] = 0
    OBVIOUS
  <2>3. /\ config \in Configs /\ expired = {} /\ terminate \in BOOLEAN
        /\ set_up = {} /\ logged = {}
    OBVIOUS
  <2> HIDE DEF Init
  <2> QED
    BY <1>2, <1>3, <2>1, <2>2, <2>3 DEF TaskInv
<1>5. BeforeStart
  BY <1>2 DEF BeforeStart
<1>6. InStep(0)
  BY <1>1, <1>2 DEF InStep, Ahead, AtBarrier
<1>7. EndInStep(0)
  BY <1>1, <1>3 DEF EndInStep
<1>8. SyncInv
  BY <1>6, <1>7 DEF SyncInv
<1>9. HostInv /\ ThreadsInv /\ ProcessesInv
  BY NumTasksAssumption DEF HostInv, ThreadsInv, ProcessesInv, Tasks, Ended
<1> QED
  BY <1>1, <1>4, <1>5, <1>8, <1>9 DEF Inv, StartInv, EndInv

\* Every step preserves it.
LEMMA NextInv == Inv /\ [Next]_vars => Inv'
<1> SUFFICES ASSUME Inv, [Next]_vars PROVE Inv'
  OBVIOUS
<1> USE DEF Inv
<1>1. BarrierOK' /\ TaskInv'
  BY BarrierStep, TaskInvStep
<1>2. StartInv' /\ EndInv'
  BY PhasesStep
<1>3. SyncInv'
  BY SyncStep
<1>4. HostInv' /\ ThreadsInv' /\ ProcessesInv'
  <2>1. ASSUME NEW t \in Tasks,
               RunBenchmark(t) \/ Expire(t) \/ ReturnNull(t) \/ Crash(t)
        PROVE  HostInv' /\ ThreadsInv' /\ ProcessesInv'
    BY <2>1, TaskKeepsHost
  <2>2. CASE UNCHANGED vars
    BY <2>2 DEF vars, hostVars, taskVars, HostInv, ThreadsInv, ProcessesInv, UseProcesses
  <2> QED
    BY <2>1, <2>2, HostKeepsHost DEF Next, Done
<1> QED
  BY <1>1, <1>2, <1>3, <1>4

\* So it holds in every reachable state.
LEMMA InvAlways == Spec => []Inv
BY InitInv, NextInv, PTL DEF Spec

\* What the run checks follows from it.
LEMMA InvPhases == Inv => PhasesTogether
<1> SUFFICES ASSUME Inv PROVE PhasesTogether
  OBVIOUS
<1> USE DEF Inv
<1>1. TypeOK
  <2>1. Barrier!BarrierTypeOK
    BY BarrierFacts
  <2>2. \A t \in Tasks : i[t] \in 0 .. (IF Limit(t) = 0 THEN 0 ELSE Limit(t) + 1)
    BY ConfigsAssumption DEF TaskInv, Limit
  <2> QED
    BY <2>1, <2>2 DEF TypeOK, TaskInv, HostInv
<1>2. StartTogether
  BY DEF StartTogether, StartInv, BeforeStart
<1>3. CleanupTogether
  <2> SUFFICES ASSUME config.sync_every_iteration => config.timed = {},
                      NEW t \in Tasks, stage[t] \in {"cleanup", "ok"}
               PROVE  logged = Tasks
    BY DEF CleanupTogether
  <2>1. CASE ~config.sync_every_iteration
    BY <2>1 DEF EndInv, BeforeStart, BeforeEnd
  <2>2. CASE config.sync_every_iteration
    <3>1. \A u \in Tasks : Limit(u) > 0
      BY <2>2 DEF SyncInv
    <3>2. PICK g \in Nat : InStep(g) /\ EndInStep(g)
      BY <2>2, <3>1 DEF SyncInv
    <3>3. g = i[t] + 1 /\ i[t] = Limit(t) + 1
      BY <3>2 DEF InStep, EndInStep, Ahead
    <3>4. g >= Limit(t) + 2
      BY <3>3, ConfigsAssumption DEF TaskInv, Limit
    <3> QED
      BY <3>2, <3>4 DEF EndInStep
  <2> QED
    BY <2>1, <2>2
<1> QED
  BY <1>1, <1>2, <1>3 DEF PhasesTogether

LEMMA InvLockstep == Inv => Lockstep
<1> SUFFICES ASSUME Inv, config.sync_every_iteration, NEW t \in Tasks, NEW u \in Tasks,
                    Limit(t) > 0, stage[t] = "iterate"
             PROVE  Completed(u) >= i[t] - 1
  BY DEF Lockstep
<1> USE DEF Inv
<1>1. \A v \in Tasks : Limit(v) > 0
  BY ConfigsAssumption DEF TaskInv, Limit
<1>2. PICK g \in Nat : InStep(g)
  BY <1>1 DEF SyncInv
<1>3. g = i[t] + 1
  BY <1>2 DEF InStep, Ahead
<1>4. g = i[u] \/ g = i[u] + 1
  BY <1>2 DEF InStep
<1>5. i[t] \in Nat /\ i[u] \in Nat
  BY DEF TaskInv
<1> QED
  BY <1>3, <1>4, <1>5 DEF Completed

LEMMA InvHonest == Inv => HonestReturn
<1> SUFFICES ASSUME Inv PROVE HonestReturn
  OBVIOUS
<1> USE DEF Inv
<1>1. \A t \in forked : t \in 1 .. NumTasks
  BY DEF HostInv, Tasks
<1>2. ASSUME host \in {"returned", "destroyed"}, ~UseProcesses
      PROVE  /\ \A t \in forked : stage[t] \in Ended /\ (all_ok => stage[t] = "ok")
             /\ all_ok => forked = Tasks
  BY <1>1, <1>2, NumTasksAssumption DEF ThreadsInv
<1>3. ASSUME host \in {"returned", "destroyed"}, UseProcesses
      PROVE  \A t \in forked : stage[t] \in Ended /\ (all_ok => stage[t] = "ok")
  BY <1>1, <1>3, NumTasksAssumption DEF ProcessesInv
<1>4. ResultHonest
  BY <1>2, <1>3 DEF ResultHonest
<1>5. HostOutlivesTasks
  BY <1>2, <1>3 DEF HostOutlivesTasks, HostInv
<1> QED
  BY <1>4, <1>5 DEF HonestReturn

\* For every number of benchmarks and every experiment: no benchmark begins
\* before all are initialized, and none is cleaned up before all have completed
\* their logs, whatever fails or is killed on the way.
THEOREM BenchmarksPhased == Spec => []PhasesTogether
BY InvAlways, InvPhases, PTL

\* For every number of benchmarks: with synchronized iterations nobody starts
\* iteration n before everybody has completed iteration n - 1.
THEOREM BenchmarksInStep == Spec => []Lockstep
BY InvAlways, InvLockstep, PTL

\* For every number of benchmarks: the host returns when all it started have
\* ended, and a reported success is one.
THEOREM HostHonest == Spec => []HonestReturn
BY InvAlways, InvHonest, PTL

=============================================================================
