---------------------------- MODULE StreamAction ----------------------------
(***************************************************************************)
(* The stream_action plug-in (src/stream_action.cu): it parses a list of   *)
(* actions from its additional_info and issues them to a stream.           *)
(*                                                                         *)
(* The plug-in is compiled here to a program of the calls of module        *)
(* PluginCalls.  input.json is the additional_info; input.one_dimensional    *)
(* says whether the benchmark's own block and grid dimensions are one-     *)
(* dimensional, as a kernel that uses them by default demands.             *)
(***************************************************************************)
EXTENDS PluginCalls, JsonObject

CONSTANTS MaxMemoryAllocationCount,   \* MAX_MEMORY_ALLOCATION_COUNT
          InitialAllocationCount      \* INITIAL_ALLOCATION_COUNT

ASSUME AllocationAssumption ==
  /\ MaxMemoryAllocationCount \in Nat
  /\ InitialAllocationCount \in 0..MaxMemoryAllocationCount
----------------------------------------------------------------------------
(***************************************************************************)
(* Parsing: each predicate holds when the function of its name returns 1.  *)
(***************************************************************************)
VerifyJSONKeys(o, valid) == Keys(o) \subseteq (valid \cup {"comment"})

ParseKernelParameters(p, one_dimensional) ==
  /\ VerifyJSONKeys(p, {"type", "thread_count", "block_count", "shared_memory_size", "duration"})
  /\ Optional(p, "type", "string")
  /\ ItemOr(p, "type", "timer_spin") \in {"timer_spin", "counter_spin"}
  /\ Required(p, "duration", "number")
  /\ one_dimensional
  /\ \A k \in {"block_count", "thread_count", "shared_memory_size"} : Optional(p, k, "number")
  /\ ItemOr(p, "shared_memory_size", 0) \in {0, 4096, 8192, 10240}

ParseMallocParameters(p) ==
  /\ VerifyJSONKeys(p, {"size", "host"})
  /\ Optional(p, "host", "boolean") /\ Required(p, "size", "number")

ParseFreeParameters(p) ==
  VerifyJSONKeys(p, {"host"}) /\ Optional(p, "host", "boolean")

ParseMemsetParameters(p) ==
  /\ VerifyJSONKeys(p, {"async", "size"})
  /\ Required(p, "size", "number") /\ Optional(p, "async", "boolean")

ParseMemcpyParameters(p) ==
  /\ VerifyJSONKeys(p, {"async", "size", "direction"})
  /\ Required(p, "size", "number") /\ Optional(p, "async", "boolean")
  /\ Required(p, "direction", "string")
  /\ Item(p, "direction") \in {"deviceToHost", "hostToDevice", "deviceToDevice"}

ParseSyncParameters(p) ==
  VerifyJSONKeys(p, {"device"}) /\ Optional(p, "device", "boolean")

\* The parameters of an action, {} when they may be and are omitted.
Parameters(a) == IF "parameters" \in Keys(a) THEN a.value["parameters"] ELSE Obj(<<>>)

ParseSingleAction(a, one_dimensional) ==
  /\ VerifyJSONKeys(a, {"type", "label", "delay", "parameters"})
  /\ Required(a, "type", "string") /\ Required(a, "label", "string")
  /\ Optional(a, "delay", "number") /\ Optional(a, "parameters", "object")
  /\ LET type == Item(a, "type")
         p == Parameters(a)
     IN  \/ type = "free" /\ ParseFreeParameters(p)
         \/ type = "synchronize" /\ ParseSyncParameters(p)
         \/ /\ "parameters" \in Keys(a)
            /\ \/ type = "kernel" /\ ParseKernelParameters(p, one_dimensional)
               \/ type = "malloc" /\ ParseMallocParameters(p)
               \/ type = "memset" /\ ParseMemsetParameters(p)
               \/ type = "memcpy" /\ ParseMemcpyParameters(p)

\* The ActionConfig that an accepted action becomes, with its defaults.
ActionConfig(a) ==
  LET p == Parameters(a)
  IN  [type |-> Item(a, "type"), host |-> ItemOr(p, "host", FALSE),
       synchronous |-> ~ItemOr(p, "async", TRUE), size |-> ItemOr(p, "size", 0),
       direction |-> ItemOr(p, "direction", "none"), device |-> ItemOr(p, "device", FALSE)]

\* The settings of the plug-in itself, up to its list of actions.
ParseSettings(json) ==
  /\ json.json = "object"
  /\ VerifyJSONKeys(json, {"actions", "use_null_stream"})
  /\ Optional(json, "use_null_stream", "boolean")

ParseActionList(json) == Required(json, "actions", "array") /\ Item(json, "actions") # <<>>

Accepted(input) ==
  /\ ParseSettings(input.json) /\ ParseActionList(input.json)
  /\ \A a \in ToSet(Item(input.json, "actions")) : ParseSingleAction(a, input.one_dimensional)

Actions(input) ==
  IF Accepted(input)
  THEN [i \in DOMAIN Item(input.json, "actions") |-> ActionConfig(Item(input.json, "actions")[i])]
  ELSE <<>>
----------------------------------------------------------------------------
(***************************************************************************)
(* Initialize and Cleanup.                                                 *)
(***************************************************************************)
KernelActions(as) == {i \in DOMAIN as : as[i].type = "kernel"}

DeviceTimesOf(i) == <<Numbered("device_block_times", i), Numbered("device_smids", i)>>
HostTimesOf(i)   == <<Numbered("host_block_times", i), Numbered("host_smids", i)>>

OfAllActions(as, Calls(_)) == FlattenSeq([i \in DOMAIN as |-> Calls(i)])

CleanupAction(as, i) ==
  IF i \in KernelActions(as)
  THEN <<Numbered("device_block_times", i), Numbered("host_block_times", i),
         Numbered("device_smids", i), Numbered("host_smids", i)>>
  ELSE <<>>

\* Mutant: the buffers that malloc actions left are forgotten.
CleanupNoStacks(as) ==
  <<"actions", "kernel_times", "stream", "host_copy_buffer", "device_copy_buffer",
    "device_secondary_buffer", "state">>

\* Cleanup, which is called with no actions when they could not be parsed.
Cleanup(as) ==
  OfAllActions(as, LAMBDA i : CleanupAction(as, i))
  \o (IF as # <<>> THEN <<"actions">> ELSE <<>>)
  \o <<"kernel_times", "stream", "host_copy_buffer", "device_copy_buffer",
       "device_secondary_buffer", "device_memory_allocations",
       "host_memory_allocations", "state">>

\* The stream is created before the list of actions is looked at; the error
\* paths free the actions parsed so far, of which the state knows nothing.
ParseParameters(input) ==
  LET failed == <<"actions">> \o Cleanup(<<>>)
      list == input.json.value["actions"].value
  IN  <<Test(ParseSettings(input.json), Cleanup(<<>>))>>
      \o (IF ~ParseSettings(input.json) THEN <<>>
          ELSE <<Get("stream", Cleanup(<<>>)), Test(ParseActionList(input.json), Cleanup(<<>>))>>
               \o (IF ~ParseActionList(input.json) THEN <<>>
                   ELSE <<Get("actions", Cleanup(<<>>))>>
                        \o [i \in DOMAIN list |->
                              Test(ParseSingleAction(list[i], input.one_dimensional), failed)]))

AllocateKernelActionMemory(as, i) ==
  IF i \in KernelActions(as) THEN Gets(DeviceTimesOf(i) \o HostTimesOf(i), Cleanup(as)) ELSE <<>>

\* Mutant: one buffer too many.
PreallocateOneMore(as) ==
  FlattenSeq([i \in 1..(InitialAllocationCount + 1) |->
    <<Push("device_memory_allocations", MaxMemoryAllocationCount, Cleanup(as)),
      Push("host_memory_allocations", MaxMemoryAllocationCount, Cleanup(as))>>])

PreallocateFreeActionBuffers(as) ==
  FlattenSeq([i \in 1..InitialAllocationCount |->
    <<Push("device_memory_allocations", MaxMemoryAllocationCount, Cleanup(as)),
      Push("host_memory_allocations", MaxMemoryAllocationCount, Cleanup(as))>>])

\* A free action falls through to the memset case, where its size is 0.
MaxSize(as) ==
  Max({0} \cup {as[i].size : i \in {j \in DOMAIN as : as[j].type \in {"free", "memset", "memcpy"}}})

SecondaryBufferNeeded(as) ==
  \E i \in DOMAIN as : as[i].type = "memcpy" /\ as[i].direction = "deviceToDevice"

MallocActionExists(as) == \E i \in DOMAIN as : as[i].type \in {"malloc", "free"}

AllocateMemory(as) ==
  OfAllActions(as, LAMBDA i : AllocateKernelActionMemory(as, i))
  \o <<Get("device_copy_buffer", Cleanup(as))>>
  \o (IF SecondaryBufferNeeded(as) THEN <<Get("device_secondary_buffer", Cleanup(as))>> ELSE <<>>)
  \o <<Get("host_copy_buffer", Cleanup(as))>>
  \o (IF MallocActionExists(as)
      THEN Gets(<<"device_memory_allocations", "host_memory_allocations">>, Cleanup(as))
           \o PreallocateFreeActionBuffers(as)
      ELSE <<>>)
  \o <<Get("kernel_times", Cleanup(as))>>

\* The place of kernel action i in kernel_times, and what Execute and the
\* host find there: its launch times and the buffers that CopyOut fills.
KernelIndex(as, i) == Cardinality({j \in KernelActions(as) : j < i})
LaunchTimes(k) == Numbered("cuda_launch_times", k)
InitializeKernelTimes(as) ==
  [k \in {KernelIndex(as, i) : i \in KernelActions(as)} |->
     ToSet(HostTimesOf(CHOOSE i \in KernelActions(as) : KernelIndex(as, i) = k))
       \cup {LaunchTimes(k)}]

StreamActionInit(input) ==
  <<Get("state", <<>>), Check(<<"state">>)>> \o ParseParameters(input)
  \o (IF Accepted(input) THEN AllocateMemory(Actions(input)) ELSE <<>>)
----------------------------------------------------------------------------
(***************************************************************************)
(* Execute and CopyOut.                                                    *)
(***************************************************************************)
\* The stream of the actions; CopyOut always uses the plug-in's own.
StreamOf(input) == IF ItemOr(input.json, "use_null_stream", FALSE) THEN "legacy" ELSE "stream"

ExecuteKernelAction(as, i, s) ==
  <<Compute({LaunchTimes(KernelIndex(as, i))}), Kernel(s, ToSet(DeviceTimesOf(i)))>>

StackOf(a) == IF a.host THEN "host_memory_allocations" ELSE "device_memory_allocations"

ExecuteMallocAction(a) == <<Push(StackOf(a), MaxMemoryAllocationCount, <<>>)>>

ExecuteFreeAction(a) == <<Pop(StackOf(a))>>

\* The memset of device memory returns before it is done, on either stream.
ExecuteMemsetAction(a, s) ==
  <<Sized(Reset(IF a.synchronous THEN "legacy" ELSE s, "device_copy_buffer", <<>>), a.size)>>

\* So does a copy within the device; cudaMemcpy waits for any other.
ExecuteMemcpyAction(a, s) ==
  LET src == IF a.direction = "hostToDevice" THEN "host_copy_buffer" ELSE "device_copy_buffer"
      dst == CASE a.direction = "deviceToDevice" -> "device_secondary_buffer"
               [] a.direction = "deviceToHost"   -> "host_copy_buffer"
               [] a.direction = "hostToDevice"   -> "device_copy_buffer"
  IN  <<Sized(IF a.synchronous /\ a.direction # "deviceToDevice" THEN CopyNow(src, dst, <<>>)
              ELSE Copy(IF a.synchronous THEN "legacy" ELSE s, src, dst, <<>>), a.size)>>

ExecuteSyncAction(a, s) == <<Wait(IF a.device THEN "device" ELSE s, <<>>)>>

\* Mutant: the last wait is on the stream of CopyOut.
ExecuteWaitsOnOwn(input) ==
  LET as == Actions(input)
  IN  OfAllActions(as, LAMBDA i : IF as[i].type = "kernel"
                                  THEN ExecuteKernelAction(as, i, StreamOf(input)) ELSE <<>>)
      \o <<Wait("stream", <<>>)>>

Execute(input) ==
  LET as == Actions(input)
      s == StreamOf(input)
      One(i) == CASE as[i].type = "kernel"      -> ExecuteKernelAction(as, i, s)
                  [] as[i].type = "malloc"      -> ExecuteMallocAction(as[i])
                  [] as[i].type = "free"        -> ExecuteFreeAction(as[i])
                  [] as[i].type = "memset"      -> ExecuteMemsetAction(as[i], s)
                  [] as[i].type = "memcpy"      -> ExecuteMemcpyAction(as[i], s)
                  [] as[i].type = "synchronize" -> ExecuteSyncAction(as[i], s)
  IN  OfAllActions(as, One) \o <<Wait(s, <<>>)>>

CopyKernelActionMemoryOut(as, i) ==
  IF i \in KernelActions(as)
  THEN [b \in 1..2 |-> Copy("stream", DeviceTimesOf(i)[b], HostTimesOf(i)[b], <<>>)]
  ELSE <<>>

CopyOut(as) ==
  OfAllActions(as, LAMBDA i : CopyKernelActionMemoryOut(as, i)) \o <<Wait("stream", <<>>)>>

StreamActionProgram(input) ==
  LET as == Actions(input)
  IN  [init |-> StreamActionInit(input), copy_in |-> <<>>,
       execute |-> IF Accepted(input) THEN Execute(input) ELSE <<>>,
       copy_out |-> CopyOut(as), cleanup |-> Cleanup(as),
       results |-> UNION {InitializeKernelTimes(as)[k] : k \in DOMAIN InitializeKernelTimes(as)}]

StreamDeviceMemory(n) ==
  {"device_copy_buffer", "device_secondary_buffer", "device_memory_allocations"}
    \cup UNION {ToSet(DeviceTimesOf(i)) : i \in 1..n}
=============================================================================
