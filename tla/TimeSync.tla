------------------------------ MODULE TimeSync ------------------------------
(***************************************************************************)
(* InternalReadGPUNanoseconds of src/task_host_utilities.cu: a child       *)
(* process and a GPU kernel meet at three flags in memory both can see, so *)
(* that one reading of the GPU's clock falls between two of the CPU's.     *)
(* Times are in ticks of one clock; 0 stands for a time never stored.      *)
(***************************************************************************)
EXTENDS Integers

CONSTANT MaxTime     \* bound on the clock

ASSUME MaxTimeAssumption == MaxTime \in Nat \ {0}

VARIABLES cpu,       \* where the child is
          gpu,       \* where the GetTime kernel is; "idle" when none runs,
                     \* "failed" when none runs as its launch failed
          raised,    \* the flags that are 1
          now,       \* the clock
          cpu_start, cpu_end, device_time,
          cpu_time,  \* twice the estimate stored for the parent
          gpu_time   \* the GPU's time stored for the parent

Flags == {"ready", "start", "end"}
timeVars == <<cpu, gpu, raised, now, cpu_start, cpu_end, device_time, cpu_time, gpu_time>>
stamps == <<cpu_start, cpu_end, device_time, cpu_time, gpu_time>>

TimeInit ==
  /\ cpu = "none" /\ gpu = "idle" /\ raised = {} /\ now = 1
  /\ cpu_start = 0 /\ cpu_end = 0 /\ device_time = 0 /\ cpu_time = 0 /\ gpu_time = 0

\* The parent forks the child.
ForkTiming == cpu = "none" /\ cpu' = "fork" /\ UNCHANGED <<gpu, raised, now, stamps>>

\* cudaSetDevice, the allocations and the device pointers; what cudaHostAlloc
\* returns is not initialized.
SetUpTiming ==
  /\ cpu = "fork"
  /\ raised' \in SUBSET Flags
  /\ cpu' = "warm_launch"
  /\ UNCHANGED <<gpu, now, stamps>>

\* Mutant: the warm-up kernel is waited for before it is let go.
LaunchThenSync ==
  /\ cpu \in {"warm_launch", "launch"}
  /\ gpu' = "launched"
  /\ cpu' = IF cpu = "launch" THEN "await_ready" ELSE "warm_sync"
  /\ UNCHANGED <<raised, now, stamps>>

Launch ==
  /\ cpu \in {"warm_launch", "launch"}
  /\ gpu' = "launched"
  /\ cpu' = IF cpu = "launch" THEN "await_ready" ELSE "warm_start"
  /\ UNCHANGED <<raised, now, stamps>>

\* A kernel launch returns nothing, and its error is not asked for: the child
\* goes on as if the kernel ran.
LaunchFails ==
  /\ cpu \in {"warm_launch", "launch"}
  /\ gpu' = "failed"
  /\ cpu' = IF cpu = "launch" THEN "await_ready" ELSE "warm_start"
  /\ UNCHANGED <<raised, now, stamps>>

RaiseStart ==
  /\ cpu \in {"warm_start", "start"}
  /\ raised' = raised \cup {"start"}
  /\ cpu' = IF cpu = "start" THEN "await_end" ELSE "warm_sync"
  /\ UNCHANGED <<gpu, now, stamps>>

WarmUpDone ==
  /\ cpu = "warm_sync" /\ gpu \in {"idle", "failed"}
  /\ cpu' = "reset"
  /\ UNCHANGED <<gpu, raised, now, stamps>>

\* Mutant: the flag that holds the kernel back is not taken down.
ResetFlagsNotStart ==
  /\ cpu = "reset"
  /\ raised' = raised \ {"end", "ready"}
  /\ cpu' = "launch"
  /\ UNCHANGED <<gpu, now, stamps>>

ResetFlags ==
  /\ cpu = "reset"
  /\ raised' = {}
  /\ cpu' = "launch"
  /\ UNCHANGED <<gpu, now, stamps>>

SeeReady ==
  /\ cpu = "await_ready" /\ "ready" \in raised
  /\ cpu_start' = now
  /\ cpu' = "start"
  /\ UNCHANGED <<gpu, raised, now, cpu_end, device_time, cpu_time, gpu_time>>

SeeEnd ==
  /\ cpu = "await_end" /\ "end" \in raised
  /\ cpu_end' = now
  /\ cpu_time' = cpu_start + now
  /\ cpu' = "copy"
  /\ UNCHANGED <<gpu, raised, now, cpu_start, device_time, gpu_time>>

\* cudaMemcpy waits for the kernel.
CopyTime ==
  /\ cpu = "copy" /\ gpu = "idle"
  /\ gpu_time' = device_time
  /\ cpu' = "exited"
  /\ UNCHANGED <<gpu, raised, now, cpu_start, cpu_end, device_time, cpu_time>>

\* A CUDA call or CurrentSeconds fails: the child exits, whatever its status
\* WIFEXITED holds; its kernel ends with it.
TimingFails ==
  /\ \/ cpu \in {"fork", "warm_sync", "copy"}
     \/ cpu = "await_ready" /\ "ready" \in raised
     \/ cpu = "await_end" /\ "end" \in raised
  /\ cpu' = "exited" /\ gpu' = "idle"
  /\ UNCHANGED <<raised, now, stamps>>

\* A signal kills the child.
TimingKilled ==
  /\ cpu \notin {"none", "exited", "killed"}
  /\ cpu' = "killed" /\ gpu' = "idle"
  /\ UNCHANGED <<raised, now, stamps>>

\* The kernel GetTime.
KernelReady ==
  /\ gpu = "launched"
  /\ gpu' = "spinning"
  /\ raised' = raised \cup {"ready"}
  /\ UNCHANGED <<cpu, now, stamps>>

KernelStamp ==
  /\ gpu = "spinning" /\ "start" \in raised
  /\ gpu' = "stamped"
  /\ device_time' = now
  /\ UNCHANGED <<cpu, raised, now, cpu_start, cpu_end, cpu_time, gpu_time>>

KernelEnd ==
  /\ gpu = "stamped"
  /\ gpu' = "idle"
  /\ raised' = raised \cup {"end"}
  /\ UNCHANGED <<cpu, now, stamps>>

\* The clock runs while the second kernel does.
Tick ==
  /\ cpu \in {"await_ready", "start", "await_end"} /\ now < MaxTime
  /\ now' = now + 1
  /\ UNCHANGED <<cpu, gpu, raised, stamps>>

ChildStep ==
  \/ SetUpTiming \/ Launch \/ RaiseStart \/ WarmUpDone \/ ResetFlags
  \/ SeeReady \/ SeeEnd \/ CopyTime

KernelStep == KernelReady \/ KernelStamp \/ KernelEnd

MeasureStep ==
  ChildStep \/ LaunchFails \/ KernelStep \/ TimingFails \/ TimingKilled \/ Tick

TimeNext == ForkTiming \/ MeasureStep

TimeSpec == TimeInit /\ [][TimeNext]_timeVars
----------------------------------------------------------------------------
\* A GPU time handed to the parent was read between the child's two readings,
\* so that the estimate is off by at most half the interval between them (the
\* worst error stated in task_host_utilities.cu:153).
ClockBracketed ==
  gpu_time # 0 =>
    /\ cpu_start <= gpu_time /\ gpu_time <= cpu_end
    /\ 2 * gpu_time - cpu_time \in -(cpu_end - cpu_start)..(cpu_end - cpu_start)

\* The kernel that the child waits for was never launched.
KernelMissing == cpu = "await_ready" /\ gpu = "failed"
=============================================================================
