--------------------------- MODULE PluginPrograms ---------------------------
(***************************************************************************)
(* The benchmark plug-ins of the examiner whose functions do not depend on *)
(* a list of actions, as programs of the calls of module PluginCalls.      *)
(***************************************************************************)
EXTENDS PluginCalls

CONSTANT WalkLength    \* elements of a walk buffer

ASSUME WalkLengthAssumption == WalkLength \in Nat \ {0}

DeviceTimes == <<"device_block_times", "device_block_smids">>
HostTimes   == <<"block_times", "block_smids">>

\* The copies of the block times that every CopyOut makes first.
CopyTimes(s) == <<Copy(s, "device_block_times", "block_times", <<>>),
                  Copy(s, "device_block_smids", "block_smids", <<>>)>>
----------------------------------------------------------------------------
(***************************************************************************)
(* The spinning kernels.                                                   *)
(***************************************************************************)
SpinCleanup == DeviceTimes \o HostTimes \o <<"stream", "state">>

SpinInit == <<Get("state", <<>>), Check(<<>>), Check(SpinCleanup)>>
            \o Gets(DeviceTimes \o HostTimes, SpinCleanup)
            \o <<Check(SpinCleanup), Get("stream", SpinCleanup)>>

CounterSpin ==
  [init |-> SpinInit, copy_in |-> <<>>,
   execute |-> <<Kernel("stream", ToSet(DeviceTimes)), Wait("stream", <<>>)>>,
   copy_out |-> CopyTimes("stream") \o <<Wait("stream", <<>>)>>,
   cleanup |-> SpinCleanup, results |-> ToSet(HostTimes)]

TimerSpin == CounterSpin

\* The kernel goes to the default stream and Execute does not wait for it.
TimerSpinDefaultStream ==
  [CounterSpin EXCEPT !.execute = <<Kernel("legacy", ToSet(DeviceTimes))>>]

\* A bad additional_info returns NULL without Cleanup.
SharedmemTimerSpinInit ==
  <<Unchecked("state"), Check(<<>>), Check(SpinCleanup)>>
  \o Gets(DeviceTimes \o HostTimes, SpinCleanup)
  \o <<Check(<<>>), Get("stream", SpinCleanup)>>

SharedmemTimerSpin == [CounterSpin EXCEPT !.init = SharedmemTimerSpinInit]
----------------------------------------------------------------------------
(***************************************************************************)
(* The walks over a buffer.                                                *)
(***************************************************************************)
WalkCleanup == DeviceTimes \o <<"device_walk_buffer", "device_accumulator">>
               \o HostTimes \o <<"stream", "state">>

WalkInit(order) ==
  <<Get("state", <<>>), Check(<<>>), Check(WalkCleanup), Check(WalkCleanup)>>
  \o Gets(DeviceTimes \o <<"device_walk_buffer", "device_accumulator">> \o HostTimes,
          WalkCleanup)
  \o <<Get("host_initial_buffer", WalkCleanup), Fill(order),
       CopyNow("host_initial_buffer", "device_walk_buffer",
               <<"host_initial_buffer">> \o WalkCleanup),
       Put("host_initial_buffer"), Check(WalkCleanup), Get("stream", WalkCleanup),
       Kernel("stream", {}), Wait("stream", WalkCleanup)>>

RandomWalkInit  == WalkInit("random")
InorderWalkInit == WalkInit("inorder")

RandomWalk ==
  [init |-> RandomWalkInit, copy_in |-> <<>>,
   execute |-> <<Kernel("stream", ToSet(DeviceTimes) \cup {"device_accumulator"}),
                 Wait("stream", <<>>)>>,
   copy_out |-> <<Copy("stream", "device_accumulator", "host_accumulator", <<>>)>>
                \o CopyTimes("stream") \o <<Wait("stream", <<>>)>>,
   cleanup |-> WalkCleanup, results |-> ToSet(HostTimes) \cup {"host_accumulator"}]

InorderWalk == [RandomWalk EXCEPT !.init = InorderWalkInit]

\* The walks on the CPU have no stream: Execute computes the sum itself.
CpuWalk(order) ==
  [init |-> <<Get("state", <<>>), Check(<<"state">>), Get("buffer", <<"state">>), Fill(order)>>,
   copy_in |-> <<>>, execute |-> <<Compute({"accumulator"})>>,
   copy_out |-> <<>>, cleanup |-> <<"buffer", "state">>, results |-> {"accumulator"}]

CpuRandomWalk  == CpuWalk("random")
CpuInorderWalk == CpuWalk("inorder")

\* ShuffleArray: entry i is swapped with an entry RandomRange(i, length)
\* draws, which may be i itself.  The arrays it can leave behind.
Swapped(a, i, j) == [a EXCEPT ![i] = a[j], ![j] = a[i]]
ShuffleArray ==
  LET after[i \in 0..WalkLength] ==
        IF i = 0 THEN {[k \in 0..WalkLength-1 |-> k]}
        ELSE {Swapped(a, i-1, j) : a \in after[i-1], j \in (i-1)..(WalkLength-1)}
  IN  after[WalkLength]

\* The in-order walk stores the index of the next entry, and 0 in the last.
InorderArray == {[k \in 0..WalkLength-1 |-> IF k < WalkLength - 1 THEN k + 1 ELSE 0]}
----------------------------------------------------------------------------
(***************************************************************************)
(* The computing kernels.                                                  *)
(***************************************************************************)
MandelbrotCleanup == <<"device_points">> \o DeviceTimes \o <<"host_points">>
                     \o HostTimes \o <<"stream", "state">>

MandelbrotInit ==
  <<Get("state", <<>>), Check(<<>>), Check(MandelbrotCleanup), Check(MandelbrotCleanup)>>
  \o Gets(<<"device_points">> \o DeviceTimes \o <<"host_points">> \o HostTimes,
          MandelbrotCleanup)
  \o <<Get("stream", MandelbrotCleanup)>>

Mandelbrot ==
  [init |-> MandelbrotInit, copy_in |-> <<>>,
   execute |-> <<Kernel("stream", ToSet(DeviceTimes) \cup {"device_points"}),
                 Wait("stream", <<>>)>>,
   copy_out |-> CopyTimes("stream")
                \o <<Copy("stream", "device_points", "host_points", <<>>),
                     Wait("stream", <<>>)>>,
   cleanup |-> MandelbrotCleanup, results |-> ToSet(HostTimes) \cup {"host_points"}]

\* Mutant: the host matrices are freed before the device is idle.
MatrixCleanupHostFirst == <<"h_a", "h_b", "h_c", "d_a", "d_b", "d_c">> \o HostTimes
                          \o <<"stream">> \o DeviceTimes \o <<"state">>

MatrixCleanup == <<"d_a", "d_b", "d_c", "h_a", "h_b", "h_c">> \o HostTimes
                 \o <<"stream">> \o DeviceTimes \o <<"state">>

MatrixAllocateMemory ==
  Gets(<<"block_times", "device_block_times", "block_smids", "device_block_smids",
         "d_a", "d_b", "d_c", "h_a", "h_b", "h_c">>, MatrixCleanup)
  \o <<Copy("stream", "h_a", "d_a", MatrixCleanup), Copy("stream", "h_b", "d_b", MatrixCleanup),
       Wait("stream", MatrixCleanup)>>

MatrixInit == <<Check(<<>>), Get("state", <<>>), Check(MatrixCleanup),
                Get("stream", MatrixCleanup)>> \o MatrixAllocateMemory

MatrixCopyIn(skip_copy) ==
  <<Reset("stream", "device_block_times", <<>>)>>
  \o (IF skip_copy THEN <<>>
      ELSE <<Copy("stream", "h_a", "d_a", <<>>), Copy("stream", "h_b", "d_b", <<>>)>>)
  \o <<Wait("stream", <<>>)>>

\* With skip_copy the matrices are copied by Initialize only.
MatrixMultiply(skip_copy) ==
  [init |-> MatrixInit, copy_in |-> MatrixCopyIn(skip_copy),
   execute |-> <<KernelIfReset("stream", ToSet(DeviceTimes) \cup {"d_c"}),
                 Wait("stream", <<>>)>>,
   copy_out |-> CopyTimes("stream")
                \o (IF skip_copy THEN <<>> ELSE <<Copy("stream", "d_c", "h_c", <<>>)>>)
                \o <<Wait("stream", <<>>)>>,
   cleanup |-> MatrixCleanup,
   results |-> ToSet(HostTimes) \cup (IF skip_copy THEN {} ELSE {"h_c"})]
----------------------------------------------------------------------------
(***************************************************************************)
(* multikernel: a list of kernels, each with its own buffers.              *)
(***************************************************************************)
\* Two kernels: what they copy, and whether Execute waits before them.
Kernels == <<[delay |-> FALSE, copy_in |-> TRUE, copy_out |-> FALSE],
             [delay |-> TRUE, copy_in |-> TRUE, copy_out |-> TRUE]>>

HostData(k)   == <<Numbered("host_block_times", k), Numbered("host_smids", k),
                   Numbered("host_copy_data", k)>>
DeviceData(k) == <<Numbered("device_block_times", k), Numbered("device_smids", k),
                   Numbered("device_copy_data", k)>>

OfAllKernels(Calls(_)) == FlattenSeq([k \in DOMAIN Kernels |-> Calls(k)])

CleanupKernelConfig(k) == HostData(k) \o <<Numbered("name", k)>> \o DeviceData(k)

MultikernelCleanup == OfAllKernels(CleanupKernelConfig)
                      \o <<"stream", "kernel_configs", "kernel_times", "state">>

\* A failure here frees the names and the array; kernel_count is still 0 in
\* the state, so the Cleanup that follows frees none of the buffers.
ConfigsFailed == [k \in DOMAIN Kernels |-> Numbered("name", k)] \o <<"kernel_configs", "state">>

AllocateKernelDataMemory(k) == Gets(HostData(k) \o DeviceData(k), ConfigsFailed)

InitializeKernelConfigs ==
  LET One(k) == <<Check(ConfigsFailed), Get(Numbered("name", k), ConfigsFailed),
                  Check(ConfigsFailed)>> \o AllocateKernelDataMemory(k)
  IN  <<Check(<<"state">>), Get("kernel_configs", <<"state">>)>>
      \o OfAllKernels(One) \o <<Check(ConfigsFailed)>>

MultikernelInit ==
  <<Get("state", <<>>), Check(<<"state">>)>> \o InitializeKernelConfigs
  \o <<Get("kernel_times", MultikernelCleanup), Get("stream", MultikernelCleanup)>>

MultikernelExecute ==
  LET When(b, calls) == IF b THEN calls ELSE <<>>
      host(k) == HostData(k)[3]
      device(k) == DeviceData(k)[3]
      One(k) == When(Kernels[k].delay, <<Wait("stream", <<>>)>>)
                \o When(Kernels[k].copy_in, <<Copy("stream", host(k), device(k), <<>>)>>)
                \o <<Kernel("stream", {DeviceData(k)[1], DeviceData(k)[2]})>>
                \o When(Kernels[k].copy_out, <<Copy("stream", device(k), host(k), <<>>)>>)
  IN  OfAllKernels(One) \o <<Wait("stream", <<>>)>>

MultikernelCopyOut ==
  LET One(k) == [b \in 1..2 |-> Copy("stream", DeviceData(k)[b], HostData(k)[b], <<>>)]
  IN  OfAllKernels(One) \o <<Wait("stream", <<>>)>>

Multikernel ==
  [init |-> MultikernelInit, copy_in |-> <<>>, execute |-> MultikernelExecute,
   copy_out |-> MultikernelCopyOut, cleanup |-> MultikernelCleanup,
   results |-> UNION {{HostData(k)[1], HostData(k)[2]} : k \in DOMAIN Kernels}]

----------------------------------------------------------------------------
Programs ==
  [counter_spin |-> CounterSpin, timer_spin |-> TimerSpin,
   timer_spin_default_stream |-> TimerSpinDefaultStream,
   sharedmem_timer_spin |-> SharedmemTimerSpin,
   random_walk |-> RandomWalk, inorder_walk |-> InorderWalk,
   cpu_random_walk |-> CpuRandomWalk, cpu_inorder_walk |-> CpuInorderWalk,
   mandelbrot |-> Mandelbrot, matrix_multiply |-> MatrixMultiply(FALSE),
   matrix_multiply_skip_copy |-> MatrixMultiply(TRUE), multikernel |-> Multikernel]

\* Memory of the GPU that these plug-ins allocate.
ProgramDeviceMemory ==
  {"device_block_times", "device_block_smids", "device_walk_buffer", "device_accumulator",
   "device_points", "d_a", "d_b", "d_c"}
  \cup UNION {ToSet(DeviceData(k)) : k \in DOMAIN Kernels}
=============================================================================
