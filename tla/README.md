# A TLA+ model of A100-Partitioning

The repository partitions the compute units (TPCs) of an NVIDIA GPU among
kernels, threads and processes. `libsmctrl` sets masks of TPCs, `nvdebug` is a
kernel module that shows and steers the GPU's scheduling, the "scheduling
examiner" runs benchmarks side by side, and `tests/` measures how masks
behave when they change quickly. This directory holds TLA+ modules that model
the parts in which threads, processes and the GPU interleave, or in which any
of many calls may fail; TLC configurations that check them on small instances;
and TLAPS proofs.

Paths below are relative to the repository. `EX` stands for
`cuda_scheduling_examiner_mirror`, `T2` for
`tests/mask_switch_rate_two_process_dynamic/libsmctrl_two_process_dynamic_mask_matmul.cu`,
`T1` for
`tests/mask_switch_rate_single_process_dynamic/libsmctrl_single_process_dynamic_mask_matmul.cu`.

## 1. The system

| Component | State it keeps | Operations | Interacts with | What is hard |
|---|---|---|---|---|
| libsmctrl mask control (`libsmctrl/libsmctrl.c`) | global mask, next mask per thread, mask in each stream, once-only flag, supreme mask | `set_global_mask`, `set_next_mask`, `set_stream_mask(_ext)`, the launch callback | CUDA calls the callback at every launch; other threads set masks meanwhile | torn reads and writes of masks, the race of the first calls, 0 as "no mask" |
| libcuda wrapper (constructor in `libsmctrl.c`) | the supreme mask, in a memfd shared with other processes | constructor; read at every launch | nvtaskset finds it through /proc and writes it | partial failure of the constructor, 128-bit stores, a tool that comes too early |
| nvtaskset (`libsmctrl/nvtaskset.c`) | none of its own | start a program under a mask, read or change that of a running one | maps the wrapper's memfd through /proc | list parsing, torn stores |
| GPC/TPC information (`libsmctrl.c:480-640`) | static tables | `get_gpc_info*`, `get_tpc_info*` | reads nvdebug's procfs files | bounds of tables and shifts |
| nvdebug: scheduling files (`nvdebug/runlist_procfs.c`, `runlist.c`) | hardware registers only | enable, disable, preempt, resubmit, switch | GPU, driver, any process | no locks: read-modify-write of registers, partial failures |
| nvdebug: printing a runlist | a static iterator | the seq_file operations | the kernel's retries, PRAMIN window | one iterator for all readers, records shown again |
| nvdebug: PRAMIN window (`bus.c`) | one register of the GPU | `addr_to_pramin_mut` | every call, the driver | a pointer is good only until the next move |
| nvdebug: page tables (`mmu.c`) | the list of allocated page directories | search, translate, map, collect | map files, module exit | pages that outlive, or do not outlive, what points at them |
| nvdebug: module (`nvdebug_entry.c`) | device table, procfs files, interrupts | `nvdebug_init`, `nvdebug_exit` | all of the above | order of the teardown, failures half way |
| Examiner barrier (`EX/src/barrier_wait.c`) | counter and sense in shared memory, a private sense per caller | `BarrierCreate`, `BarrierWait`, `BarrierDestroy` | tasks of the host | reuse, memory order |
| Examiner runner and host (`EX/src/runner.c`, `task_host.c`) | the configuration, the plug-ins' libraries, the tasks, the terminate flag, the barrier, threads or child processes | `Initialize`, `Execute`, `Cleanup`; `RunBenchmark` in every task | barrier, plug-ins, configuration | errors and limits that make tasks skip barrier calls, release of everything at every failure |
| Examiner configuration (`EX/src/parse_config.c`) | none | parse and verify JSON | host | combinations of options |
| Examiner clocks (`EX/src/task_host_utilities.cu`) | three flags shared by a child and a kernel | read the CPU's and the GPU's clocks at once | runner | a handshake without a timeout, done twice |
| Plug-ins (`EX/src/*.cu`, `cpu_*.c`) | buffers and streams of one task | `initialize`, `copy_in`, `execute`, `copy_out`, `cleanup` | host, libsmctrl, GPU | a dozen resources of which any may fail, work queued on several streams, results of another iteration |
| Two-process swap (`T2`) | shared barriers, stream and mask per process, records, shard files | fork, phases, merge | libsmctrl, GPU | lockstep of two processes, kernels that outlive a phase, failure of one side |
| Single-process slices (`T1`) | a queue of slices in flight, streams, events, buffers | deploy, drain | libsmctrl, GPU | bounded queue, completion out of order |
| Other demonstrations, gpu-microbench, scripts | local | sequential | libsmctrl | none beyond the calls they make |

What makes each correct, in one line each:

* mask control: every launch uses the mask of highest precedence, and no launch
  ever uses a TPC the supreme mask disabled;
* wrapper and nvtaskset: the mask asked for last is the one applied, and the one
  printed;
* barrier: nobody leaves before everybody has arrived, and everybody leaves;
* host: nobody measures while another initializes or cleans up, the experiment
  ends, and its result is honest;
* runner: whatever fails, everything is released in an order that frees nothing
  still needed; the tasks get limits and cores the host can rely on; a reading of
  the GPU's clock lies between two of the CPU's;
* plug-ins: nothing is used before it is there or after it is gone, by the CPU or
  by queued GPU work, everything is released, and the results are this
  iteration's;
* swap: both processes are in the same phase, on disjoint TPCs, and the merged
  file pairs their records;
* slices: resources stay bounded and no buffer is freed under a kernel;
* nvdebug: a command changes the channels of the runlist and TSG it names,
  all or none of them; a print shows a runlist as it is; a pointer leads where it
  was made for; a success is one; and unloading leaves nothing behind.

## 2. Modules

| Module | Models | Checked by | Proved in |
|---|---|---|---|
| `Rendezvous` | what a barrier promises (abstract) | refined by `BarrierWait` | |
| `BarrierWait` | `barrier_wait.c` | `MCBarrierWait` | `BarrierWait_proofs` |
| `TaskHost` | `task_host.c`, with `BarrierWait` as the barrier | `MCTaskHost` | `TaskHost_proofs` |
| `JsonObject` | a JSON document as cJSON presents it | with its users | |
| `ExaminerConfig` | `parse_config.c` | with `Startup` | |
| `TimeSync` | the two clocks, `task_host_utilities.cu` | with `Startup` | `Programs_proofs` |
| `Startup` | `runner.c`, start and cleanup of `task_host.c`; composes the three above | `MCStartup` | `Programs_proofs` |
| `PluginCalls` | the calls that plug-ins and the start are made of | with its users | |
| `PluginPrograms` | twelve plug-ins, as programs of such calls | with `Plugin` | |
| `StreamAction` | `stream_action.cu`, which turns a list of actions into such a program | with `Plugin` | `Programs_proofs` |
| `Plugin` | an instance of a plug-in and the GPU's streams | `MCPlugin` | `Programs_proofs` |
| `SmMask` | `libsmctrl.c` masks and callback, nvtaskset's stores | `MCSmMask` | `SupremeControl_proofs` |
| `MaskList` | the lists nvtaskset reads and prints | with `SupremeControl` | `SupremeControl_proofs` |
| `SupremeControl` | the wrapper's constructor and `nvtaskset -p`, on top of `SmMask` | `MCSupremeControl` | `SupremeControl_proofs` |
| `RunlistControl` | the files of `nvdebug` that steer scheduling | `MCRunlistControl` | `RunlistControl_proofs` |
| `PraminWindow` | `bus.c` | with `Nvdebug` | `Nvdebug_proofs` |
| `PageTables` | `mmu.c`, `map_mem_for_instance` | with `Nvdebug` | `Nvdebug_proofs` |
| `RunlistFile` | the seq_file operations of `runlist_procfs.c` | with `Nvdebug` | `Nvdebug_proofs` |
| `NvdebugCalls` | what each file reads, step by step | with `Nvdebug` | `Nvdebug_proofs` |
| `NvdebugModule` | `nvdebug_init`, `nvdebug_exit` | with `Nvdebug` | `Nvdebug_proofs` |
| `Nvdebug` | composes the five above with the driver | `MCNvdebug` | `Nvdebug_proofs` |
| `NvdebugInvariants` | its inductive invariants | | `Nvdebug_proofs` |
| `SwapPartitions` | `T2` | `MCSwapPartitions` | `SwapPartitions_proofs` |
| `SliceQueue` | `T1` | `SliceQueue` itself | `SliceQueue_proofs` |

The operators under the heading "Mutants" or "Slips" of a module are errors a
programmer might have made (a dropped guard, a swapped order). They are never
part of `Next`: they are what PROJECT.json's "mutants" put in the place of an
action to show that a property notices.

Some modules have a variable that is chosen in `Init` and never changes:
`config` in `TaskHost`, `options` in `SwapPartitions`, `scenario` in
`RunlistControl`, `file` in `Startup`, `plugin` and `info` in `Plugin`, `gpu` in
`Nvdebug`. It is what the user configured, and lets one run check the same
properties of several configurations.

### BarrierWait and Rendezvous

One action is one access to shared memory: `Arrive` is the flip of
`*local_sense` with the atomic fetch-and-subtract (`:59-61`), `ResetCounter`
and `Release` the two stores of the last arrival (`:64`, `:65`), `Leave` the
read that ends the spin (`:68`). The place `at[p]` is the caller's program
counter. With `WeakStores` the last arrival may also do the two stores in the
other order (`ReleaseFirst`, `LateReset`): the counter is an `atomic_int`, but
`sense` is a plain `int` behind a `volatile` pointer, and a
sequentially consistent store does not keep a later plain store back on
AArch64. (The compiler keeps the program order of volatile accesses, so the
reordering is the CPU's alone.) Properties named `Ordered...` speak of the
behaviours in which that never happens, `[]Ordered`.

`Rendezvous` knows only who is inside: processes come in one at a time, and the
barrier opens for all at once. The refinement takes for "inside" the callers
whose private sense differs from the shared one: those are the ones that may
not go on.

### TaskHost

`stage[t]` is where `RunBenchmark` of task t is; the three calls of
`BarrierWait` ("ready" after initialization, "sync" before an iteration,
"finish" before cleanup) run through the actions of `BarrierWait`, whose
variables are part of the state, so the two are checked together. `host`,
`next_task`, `status` and `all_ok` are the locals of `RunAsThreads` and
`RunAsProcesses`. `config` says which limits the tasks have, whether they are
processes, whether they go in step and which kinds of call may fail
(`config.faults`). Every error return of `RunBenchmark` is `ReturnNull`; a
process may also be killed (`Crash`). Time is abstract: after the release a
task with a time limit may find it elapsed at any later look (`Expire`).
`set_up` and `logged` are history variables. `parse_config.c:290` refuses a
benchmark's own `max_iterations` together with `sync_every_iteration`;
`ConfigsAssumption` says the same, and `SyncMeansEqualLimits` of `Startup` checks
that the parser and the host's settings keep it. It is about limits of iterations
only: `max_time` is accepted with sync, and then the host need not return.

### SmMask

A mask is the set of TPCs it disables. Its 32-bit words are the unit of access:
a callback reads `g_sm_mask` twice (`EnterWithGlobal`, `GlobalUpper`), a
supreme mask word by word (`ApplySupreme`), a stream's mask is stored word by
word (`StoreStreamWord`), and nvtaskset's 128-bit store is two of 64 bits
(`StoreSupremeLow`, `StoreSupremeHigh`). `pc[t]`, `todo[t]` and `word[t]` are
each thread's position. CUDA is external: `Launch` copies the stream's words
into a TMD, `Unhooked` is a launch before the callback is enabled, `Upload` is
the moment the TMD takes effect, at which the properties look. History
variables remember what a launch was entitled to: the mask asked for its
thread (`due`), the mask its stream had (`copied`), the global masks there were
meanwhile (`globals`) and the supreme masks (`always`, `ever`). `escaped` holds
the threads that launched a kernel without the callback after somebody's first
call of the library had begun. `CallbackSet = TRUE` stands for a
process whose first call to the library is over, which with the wrapper is true
before `main`.

`HookedPrecedence` is the precedence that `libsmctrl.h:16-31` documents, less what the
code does not keep of it, which its comment lists: a launch whose own mask is 0
falls back to the mask below (`ZeroMask`), a thread may miss the callback while
another is still setting it up (`escaped`), the two halves of a launch's mask may be of
two global masks, and CUDA 8.0 keeps a stream's mask where the code does not store it.
`FirstMaskApplies` is the same without the second exception.

### SupremeControl and MaskList

`SupremeControl` extends `SmMask` by how the supreme mask comes to be. The
constructor of the wrapper (`libsmctrl.c:735-775`) is `CreateRegion`, the sizing,
the mapping and the store of the default, each of which may fail; on a failure
the mask becomes a private variable. An nvtaskset searches /proc for the memory
(`tool`), maps it, prints it or changes it with the two stores of `SmMask`; it may
arrive between any two steps of the constructor. Two of them may meet.
`disturbed` and `change` are history: a change that met another or the
constructor is not owed to anybody. `MaskList` has `parse_list` and `compose_list`
as recursive functions over a list of numbers, commas and dashes; the flag `in_range`,
which the code does not initialize, is a parameter, and `FALSE` in the lists that
`QueryExact` is about: nothing is promised for the other value. A GPU has `NumTPCs` TPCs, which may be fewer than the bits of a mask: a query
inverts all the bits (`Enabled`), and `parse_list` refuses what is not a TPC of the GPU
(`GpuTPCs`), so a list may be printed that is not read back. Without the
wrapper, the supreme mask of `SmMask` is empty and its steps add nothing.

### RunlistControl

The files `switch_to_tsg`, `enable_channel`, `disable_channel`, `preempt_tsg`,
`preempt_runlist` and `resubmit_runlist` of `nvdebug/runlist_procfs.c`. Anybody
may write to them and nvdebug takes no lock, so one action is one access to a
register: the address of a runlist (`ReadBase`), its length (`ReadLen`,
`ReadSubmit`), where its Channel RAM lies (`ReadConfig`), the word of a channel
before Ampere (`ReadChannel`) and the write of it (`WriteChannel`), a
submission (`Submit`). `job[w]` is the call a writer is in, with its locals.
`ReadFails` is a bad read at any place where the code looks for one, `Return`
the return of `switch_to_tsg` before the resubmit and the preempt that follow
it in the source (`:582`). `NextTsg` is one turn of the loop over a runlist in
memory, which goes on behind the end of the runlist if address and length are
of two submissions.

`scenario` is a device of one of the three generations the code tells apart
(`chip`), its number (`gpu`), its `memory`, what the driver may submit and
rebind, and what is written to the files. The driver (`DriverSubmit`,
`DriverBind`) and the GPU's scheduler (`Timeslice`, `Reschedule`) are external:
the scheduler runs any TSG of the runlist with an enabled channel. From Turing on a
resubmission also writes the offset that was asked for, cut to `OFFSETS`, or keeps the
one it has read if that is `KeepOffset`, which stands for -1 (`Keeps`). Channels not
in a TSG and the search of page tables for the
runlist are left out; failing to find it is `ReadFails`.

History variables say what the code owes its users: `bound` and `given` what the
driver last bound and submitted (`given` also the offset last asked for), `torn`,
`raced` and `stale` where that happened while a writer held the old value, `may` which
values a channel's enablement may have given the calls that are over and those that
overlap with them, `only` and `settled` which runlists have been switched undisturbed
and preempted since.

### Nvdebug: PraminWindow, PageTables, RunlistFile, NvdebugCalls, NvdebugModule

`PraminWindow` has the one window register and where each object of GPU memory
lies; a pointer remembers the window it was made in, and `addr_to_pramin_mut` is
two steps, the test of the window (`InWindow`) and its move (`Relocate`). Somebody
else may move it between the two, or before the pointer is used. `NvdebugCalls` says
for each file which registers are read, which pointers are made and used, in
which order, and where an error leads, as a table of blocks of steps; the chips
from Kepler to Ampere take different ways. `Nvdebug` takes the steps one at a time
for every process, lets a register or an allocation fail (`Fault`), lets the
driver move the window (`DriverMoves`), and records in `stray` the first access that
did not go where its pointer was made for, after which that behaviour is over:
what the code would do with garbage is not modelled.

`PageTables` keeps the tables' entries (`mem`), the pages nvdebug has allocated in
the order of its list, and where each caller is in its walk. The two lower
levels stand for all five, with two huge and two small mappings.
`RunlistFile` is start, show, next and stop on the static iterator, as the kernel
calls them: when a record does not fit its buffer, `show` is called again
(`reshown`), and each further read starts at the position reached; an empty
runlist ends the read at once (`SeqEmpty`), before anything is looked up
(`FoundEmpty`).
`NvdebugModule` probes devices up, makes their files down, and takes both down at
the exit, with the failures of the way up. Whether calls and loading overlap is
up to the case (`apart`).

### Startup: ExaminerConfig, TimeSync

The runner is a sequence of calls (`PluginCalls`): tests, acquisitions with a name,
and the releases that follow if the call fails, collected over all callers.
`ExaminerConfig` makes the part that `ParseConfiguration` contributes from the file
itself, so that which calls are made depends on the document exactly as in the
code, in particular `sync_every_iteration` before the benchmarks. `pc` goes
through the calls; a failing one fills `todo` with the releases, which are made
one by one, so that each can be checked against what is still held
(`OwnersOutliveOwned`). `Task(i)` is what `CreateTaskConfigs` makes of the settings.

`TimeSync` is the child process, the kernel and their three flags, one action per
access, with the warm-up before the measurement; memory of `cudaHostAlloc` starts
with arbitrary flags. Either launch of the kernel may fail (`LaunchFails`), which the
child does not notice. `Startup` lets it run when the runner comes to the call.
`MaxTime` bounds the clock: at the bound time stands still, which only makes
readings equal.

### Plugin: PluginCalls, PluginPrograms, StreamAction

A plug-in is a record of five programs, one per function of the library
interface. `PluginPrograms` has one for each plug-in of `EX/src` except
stream_action, with its buffers, streams, the order of its calls and what each
error return releases. `StreamAction` compiles the JSON list of actions to such a
program: parsing with its refusals, then the allocations made beforehand, the
actions, the copies of the launch times. `Plugin` interprets them: a call that
launches or copies appends to the queue of its stream, `Complete` lets the GPU do
any entry that no earlier one is ordered with (those of the legacy default
stream are ordered with all others, unless the plug-in's stream is
non-blocking), and `content` says of every buffer from which
iteration its data is. `priority` says which kind of stream
`CreateCUDAStreamWithPriorityAndMask` made; where it made none, the mask is stored
through a NULL handle (`StreamNotCreated`). Data
beyond that, what the kernels compute, is left out, except the walks of the
random_walk plug-ins: the permutation is chosen freely and
`WalkStaysInside` looks at it.

`PluginCalls` declares what the runner and an instance of a plug-in have in common:
the program, the place in it, what is held and what is still to be released. The
code calls a function `Initialize` in both; here that of stream_action is
`StreamActionInit`, and `Plugin` has `PluginInit`, `PluginNext` and `PluginSpec`, so that
one module can have the proofs of both.

### SwapPartitions

`options` is the command line; `pc[r]` is where each process is in `run_role`
and `main`; the two `pthread_barrier_t` of the shared memory are `waiting`. A
kernel takes the mask its stream has at the launch into the queue of the
stream; the GPU starts and completes the kernels of a stream in order and those
of the two streams independently (`Begin`, `Complete`). `Fail` is `cuda_check`
or `die` at any call they guard, with `options.may_fail`.

### SliceQueue

`pc` is the position of `main` in the measured loop; every slice has a stream of
its own, so their kernels start and complete in any order. `Finish` is the whole
of `finish_inflight_slice`; for a sampled slice, its `cudaMemcpy` on the legacy
default stream also waits for all slices deployed before.

## 3. What the runs show

"Violation" runs reproduce a disagreement between the code and its own
documentation, comments included; PROJECT.json quotes both under "findings". Where
a comment of the code says more than the code does without such a run, the property
of a passing run states the exception next to it, and the list below has it too.

| Run | Instance | Result |
|---|---|---|
| `barrier` | four callers, stores in either order | implements `Rendezvous` on any CPU; with ordered stores it counts exactly and everybody gets out |
| `host` | three tasks in seven experiments: threads and processes, iteration and time limits, a terminator, in step, without an end, and every call free to fail | tasks start and clean up together, the result is honest, the host outlives its tasks, and a healthy experiment ends, unless it has both sync and time limits |
| `host_init_error` | a task fails to initialize | violation: the host never returns |
| `startup` | 35 configuration files, 27 of them refused at 27 different tests; every call may fail | everything is released, once and in an order that suits; the tasks get limits and cores that keep the host's promises; the GPU's time lies between the two of the CPU; the start ends, unless the kernel is not launched |
| `plugins` | twelve plug-ins and 280 action lists, three iterations, either kind of stream; every call may fail | no memory is used that is not there, except in two places where the instance crashes; Cleanup releases everything; results are of this iteration; a list is never refused that balances within what the buffers made beforehand leave of the arrays; and every instance ends |
| `mask_threads` | two threads and a shared stream, from the first call on | the callback is subscribed once; precedence holds, word by word, for masks other than 0 at every launch the callback sees |
| `supreme` | the constructor with its failures, two nvtasksets, one thread, a GPU of four TPCs, masks of six bits in four words | a TPC disabled throughout is never used, the mask asked for last is the one applied, and a printed list reads back as the same partition or, in two known cases, is refused |
| `runlist` | two writers, two runlists, three TSGs; nine scenarios on three generations | no call undoes one that was over; bindings, submissions and offsets are kept; an Ampere switch is whole; a switch and a preempt leave only its TSG |
| `nvdebug` | two processes, two devices, five generations, 150 cases: one call at a time with faults or a driver that moves the window, calls together, calls while the module comes and goes | a pointer leads where it was made for, apart from the cases below; a success is one; a print is complete; the exit leaves nothing in use or behind |
| `nvdebug_show` | one reader with a small buffer | violation: a TSG that is shown again reports channels as missing |
| `swap` | two processes, five command lines: with and without draining and errors, overlapping ranges | same phase, disjoint TPCs, paired records; a run without errors completes |
| `slice_queue` | eight of nine slices, four in flight, every third sampled | bounded, nothing freed early, every slice recorded |

### What the models also contain

Some properties say in so many words what they except, and some behaviour no
property denies. The hazards of PROJECT.json list the most important with their
lines; all of it was met while modelling.

*libsmctrl.* A mask of 0 overrides nothing, neither as the next mask nor as a
stream's (`libsmctrl.c:127`, `:131`), although the header has it as a mask like any
other (`libsmctrl.h:20-28`); the upper
half of a 128-bit stream mask does not reach a version 4 TMD (`:112`); CUDA 8.0
falls through to another version's offset (`:334`); a thread whose first call meets
another's goes on without a callback (`:158`); a global mask may be read half old, half
new (`:133`). When the shared memory
cannot be sized or mapped, its descriptor stays open, so nvtaskset finds, prints
and "changes" a region nobody reads (`:752-766`); a change between the mapping
and the store of the default is lost (`:769`); an nvtaskset that maps the memory before
it has a size gets SIGBUS. `compose_list` (`nvtaskset.c:190`) reads
`in_range` uninitialized, never closes a range that ends at the last bit, and for an
empty mask looks before its buffer; `parse_list("")` is TPC 0. A
query of a process that may use all TPCs, or whose mask was made by inverting a list,
names TPCs past the GPU's last (`:352`), which nvtaskset refuses to read (`:150`):
`QueryExact` says exactly when.

*Examiner host.* After a failed `fork` the host may report success for a task
that never ran (`task_host.c:844`), which `ResultHonest` excepts. On a weak memory the
reset of the barrier's counter can become visible after the release
(`barrier_wait.c:65`) and wipe out an arrival, after which the next barrier never opens.
With `sync_every_iteration` and time limits, one task can clean up while another
iterates (`task_host.c:478`, `:546`), which `CleanupTogether` excepts, and
the others can wait for it for ever, although nothing failed and `parse_config.c`
accepts the file, which `HealthyHostReturns` excepts. `MCConfigs` has
such an experiment for the other properties.

*Examiner start.* `ParseDim3OrInt` turns `[a, b, c]` into a, a, a, and
dereferences NULL when `thread_count` is missing; a key is accepted if it begins
like a valid one; with cores 0 and 1, `pin_cpus` begins with core 0, unlike its
comment; a plug-in whose `RegisterFunctions` fails is run all the same; a failed
`fork` leaks the shared buffers of the measurement; a clock measurement whose
child failed counts as a success of 0; the buffer of each log is never freed; a child
whose kernel is not launched waits for it for ever, and the runner for the child
(`task_host_utilities.cu:170-173`), which `StartEnds` excepts.

*Plug-ins.* A stream that cannot be created is dereferenced by libsmctrl
(`benchmark_gpu_utilities.cu:35`), and `sharedmem_timer_spin` does not check an
allocation (`:136`): `MemorySafe` allows the crash in these two
places (`NullUsedInTwoPlaces`) and nowhere else. Cleanup is not called when a function
of an iteration fails (`task_host.c:497-520`), whatever `library_interface.h:105` says,
so `ReleasesAll` is about Cleanup and failed initializations only. The buffers that
`stream_action` makes beforehand take up room that its comment promises to the actions
(`:114-116`): a balanced list of at most `MAX_MEMORY_ALLOCATION_COUNT` mallocs may be
refused if it holds more than the rest at once (`:1209`), and `BalancedRuns` is about
lists that do not.
`sharedmem_timer_spin` and `multikernel` return from a bad
`additional_info` without a full Cleanup (`ReturnsWithoutCleanup`), and several
Initialize functions leak `state` when `cudaSetDevice` fails;
`timer_spin_default_stream` does not order its kernel with its copies when its
stream is non-blocking; the "random cycle" of `random_walk` is any permutation,
so a walk may stay in a part of the buffer.

*nvdebug, scheduling files.* Before Ampere a switch may stop half way
(`runlist_procfs.c:562`) and a channel rebound meanwhile gets its old binding
back (`:568`); `MAX_TSGID` passes the check of identifiers and then means TSG 0 or
no TSG; `resubmit_runlist` takes the number of the device for that of the runlist
(`runlist_procfs.c:351`, `nvdebug_entry.c:677-679`), and the number written for the
offset, unlike `nvdebug/README.md:85`.

*nvdebug, the other files.* `KnownStray` lists the accesses the code itself sends
astray: the instance block a reader has in the window while `get_ctxsw` moves it
(against `nvdebug.h:24-35` and `runlist.c:352-353`), the runlist in the window on
Kepler and Maxwell, where returns do not put the window back, the runlist in
the window at the second channel of `map_mem_ctxid`, an error of
`addr_to_pramin_mut` compared with -1, and a freed page without an I/O MMU. The
collection frees parents before children (`mmu.c:265`) although its comment says
depth first; a page that cannot be mapped for the GPU is lost (`mmu.c:417`);
`translate_v1` tests the wrong pointer (`mmu.c:608`). `map_mem` takes its first
mapping for all of them (`runlist_procfs.c:735-740`), and setting a preemption mode
reports success for a context it cannot find (`runlist.c:505-511`); `ReportsHonest`
excepts both. A failed `nvdebug_init` leaves interrupt handlers and register
mappings. Two readers at once share the iterator, so that the properties of reading
except them.

*Demonstrations.* Without `--drain-before-swap` slices of neighbouring phases
share TPCs; a process of the swap that fails leaves the other in a barrier.

### Bounds, and why they are enough

* Barrier: four callers have the last arrival, a fast caller in the next use, a
  slow one still spinning and one more. The senses have two values, so the
  state space is finite without a bound and covers unboundedly many uses.
* Host: three tasks, so one can be early, one late and one failing. Iteration
  limits of one and two give a first, a middle and a last pass of the loop;
  tasks without a limit have no counter, so the state space is finite anyway.
  `MCConfigs` has one experiment per way to end, or not to: by limits of different
  kinds, as processes, in step with and without a time limit, without an end, and by
  errors.
* Startup: one file per test of the parser, files with every setting, with tasks
  of different limits, and four sets of cores with more tasks than cores.
  `MaxTime` = 3 gives the two CPU readings and the GPU's three different times.
  `CpuSetSize` = 5 leaves cores outside every set.
* Plug-ins: three iterations, so that data of the first can be met in the second
  and allocations can add up to the limit, `MaxMemoryAllocationCount` = 3, with one
  made beforehand. `MCInfos` has all pairs of actions on both streams, a bad
  action before and after a good one, two kernels around every action, and mallocs
  and frees in all combinations. `WalkLength` = 3 has cycles of every length.
* Masks: one TPC per 32-bit word, as words are the unit of access; in `supreme` the
  first and the last word have two, for ranges in lists, and the GPU has four
  TPCs, two fewer than a mask has bits. Two threads suffice for every race in the code, each of
  which is between a setter and a launcher; two nvtasksets for theirs.
* Runlists: two writers, as every race is between two calls, or a call and the
  driver. A runlist has two TSGs, one of them with two channels on Ampere, and
  old entries behind the end of one submission. `MCScenarios` puts switches
  against switches and single channels, against rebinding and against
  submissions, and uses identifiers at and beyond `MAX_CHID` = 2 and
  `MAX_TSGID` = 4. There are two offsets, `OFFSETS` = 2, and `KeepOffset` = 3 is neither.
  Writers may write again and again: nothing counts the calls.
* nvdebug: two processes, each with one or two calls; a window of `WindowLen` = 2
  segments over objects that are far apart or together; `MaxPages` = 4 pages, one
  more than the four mappings need, so that one can be lost; two devices, one of
  them integrated and without an interrupt. Calls go to the last device, whose files
  are the first made and the first taken down. One runlist has two TSGs, so that
  channels can be missing at the second; the other is empty. A case has at most one fault and
  one move by the driver, as a second adds no new position of the first.
* Swap: two processes, as in the code; up to four phases swap the partitions
  three times. In `MCInvocations` the loop ends by the cap and for lack of rows,
  after odd and even numbers of phases.
* Slices: `NumSlices` exceeds `MaxSlices`, which exceeds `MaxInflight`, so that
  queue limit, cap and final drain all happen.

### Deadlock and fairness

Deadlock is checked except where the system really may stop (`barrier`, `host`,
`host_init_error`, `swap`): on a weak memory a barrier may never open again; with
errors in a task the remaining tasks spin for ever; a failed process of the swap
leaves its peer in a barrier. The models of programs that end have a stuttering
step at the end, so that a deadlock anywhere else is found.

Fairness is weak fairness of each thread's or process's own steps: Linux
schedules every runnable thread, and a spinning `BarrierWait` polls for ever.
A barrier's caller is not obliged to call again (`BarrierFairSpec` has fairness of
`Proceed` only). For the host, time passes (`Expire`), and calls into a
benchmark return. Errors are never obliged to happen. For the swap, the slices
and the plug-ins the GPU makes progress (`Complete`). In `Startup` the runner, the
child and the kernel each go on (`RunnerStep`, `ChildStep`, `KernelStep`): the child
and the kernel poll flags in memory both can see, and the kernel is the only
work on the GPU. `Execute` of the host is not assumed to return, as it need not:
`StartEnds` says that the runner reaches it, and returns once it has returned.
`SmMask`, `SupremeControl`, `RunlistControl` and `Nvdebug` have no fairness and no
liveness property: their calls wait for nobody.

## 4. What is proved

Each theorem is about every value of the constants that the assumptions below
allow; TLC has checked every invariant used here on the instance of its run.

`BarrierWait_proofs`, for every finite non-empty set of callers:

* `BarrierSafe`: `BarrierInv` is inductive, on any CPU. `OneLastArrival` alone is
  not: that the caller that fetched 1 is alone, and the last, follows only from
  a counter that is never below the number still to come (`CounterNeverLow`)
  and from every caller outside carrying the shared sense
  (`SensesAgreeOutside`).
* `BarrierRefines`: from that invariant, every step is a step of `Rendezvous` or
  leaves its state alone, so the barrier implements it.
* `BarrierExact`: `OrderedExact`. In a behaviour in which the stores are seen in
  their order, the counter is exact.

`TaskHost_proofs`, for every number of tasks and every set of experiments. What
it knows of the barrier it takes from `BarrierWait_proofs`: an arrival adds its
task to those that wait, and the barrier opens for all tasks at once
(`ArriveEffect`, `ProceedEffect`).

* `BenchmarksPhased` (`PhasesTogether`): the first opening of the barrier splits a
  run in two (`StartInv`), and so does the last (`EndInv`): before it nobody who
  waits has an incomplete log. A task in error or killed never arrives, so
  neither opening can come without it.
* `BenchmarksInStep` (`Lockstep`): `SyncInv` says that the barrier has opened g
  times and every task's counter is g or one less, depending on whether it is
  past the opening. A counter bounded by g alone would not be kept by a
  release that a task has not noticed yet. For tasks with one limit and no time
  limit, `EndInStep` adds that they leave their loops at the same count, which is
  what tells the last opening from the others in `CleanupTogether`.
* `HostHonest` (`HonestReturn`): what the host knows of the tasks before its
  index (`HostInv`), which it goes through downwards as threads (`ThreadsInv`) and
  upwards as processes (`ProcessesInv`).

`SupremeControl_proofs`, of `SmMask`, for all sets of threads, nvtasksets, streams, TPCs and masks:

* `TypeCorrect` and `SetsUpOnce`, from one invariant, `ShapeInv`, which ties the
  once-only flag, the threads between test-and-set and enable, and the number
  of subscriptions together.
* `SupremePrevails`: the invariant adds what the callback has done so far: a TPC
  disabled throughout is already disabled in every word it has passed. A
  change of the mask meanwhile only shrinks `always`, so it cannot break this.
* `PrecedenceRespected` (`HookedPrecedence`): each word the callback has written
  comes from one candidate, and the words to come can only gain TPCs the
  supreme mask disabled meanwhile. The theorem needs no assumption on
  `CallbackSet`, but excepts the threads in `escaped`, and masks of 0, for which the
  documented precedence is false in the code.
* `FirstMaskHonoured` (`FirstMaskApplies`): where the callback is set up before the
  threads run, as the wrapper does, nobody escapes it.

`SupremeControl_proofs`, of `SupremeControl`, for the same and any set of changes:

* `LastMaskApplies` (`SupremeKept`): `LoaderInv` says that the callback reads the
  shared mask from the moment the constructor has mapped it, and its own
  otherwise; `ChangeInv` that an undisturbed nvtaskset, or the constructor,
  has the low half to itself between its two stores. Without the second the
  store of the upper half could complete somebody else's mask.
* `ControlledMaskPrevails` (`SupremeHolds`): the steps of the constructor and of
  nvtaskset are steps of `SmMask` or leave its state alone, so the invariants
  proved of `SmMask` carry over. Only the wrapper has a constructor: that is part of
  `ControlInit`, so that nothing proved of `SmMask` depends on it.
* `QueriesReadBack` (`QueryExact`): this is a fact about the operators, whatever the
  state. `Listed` relates what `compose_list` keeps after n bits to what
  `parse_list` makes of the text so far: the items that are closed are read, and the
  one that is not is the number or the start of the range it holds. One bit
  of the mask (`ReadBit`), which appends up to two tokens (`ReadAppend`), keeps it.
  The induction is `FromZeroUp`, a fact about sets of numbers: the provers cannot
  use the library's induction rule, but its theorem on minimal elements
  (`WFMin`) gives it. That the recursive functions exist is proved with it too.
  The lists that are refused are found by reading them as if every number were valid:
  where fewer are, a list is read in the same way or refused, and refused it is if
  there is another number in it (`ReadNarrow`, `ListsRefused`); a last range without an
  end is read as one down to 0 (`OpenListsRefused`).
  `BitsAssumption` says that TPCs and GPCs are numbered by the bits printed.

`Programs_proofs`, of `Startup`, for any configuration files and however long the clock runs:

* `TimingSound` (`ClockBracketed`) of the measurement alone, from `TimeInv`. The child
  waits for its warm-up kernel before it takes the flags down (`KernelGone`);
  hence nothing that kernel raised, and nothing in memory that was not
  initialized, lets the second kernel go before the child has read its clock
  (`HeldBack`); hence a time stored after that is the second kernel's and lies
  between the readings (`LetGo`, `HandedOver`).
* `EstimateSound` (`ClockBracketed`) of the whole start: every other step of the
  runner leaves the measurement alone, and it is made once.
* `StartConfigures` (`TasksConfigured`), in three parts. What a file's program has in
  it is found call by call, for every list of benchmarks: a test of one's own
  limit never comes before the setting it is tested against (`ParseCalls`), and a
  core that is not available is refused (`TaskListCalls`); `MainShape` puts the parts
  together. `Progress` is the invariant of the run: no call that ends the
  program was passed, and none that tests a limit since `sync` was set; so whoever
  comes to `Execute` has passed all tests (`ExecutingKnows`). For pinned tasks,
  `NextCore` characterizes what `CycleToNextCPU` computes with a remainder, and `Even`
  says that every core has q tasks, and those given out in the current
  round one more. Comparing two cores alone would not be inductive: it does
  not tell which of them has its turn next. What `FlattenSeq` and `PinnedCore` compute
  recursively is again obtained with `FromZeroUp`.

`Programs_proofs`, of `Plugin`, for any lists of actions, numbers of iterations and sizes
of the arrays. It has the lemmas on sequences of calls in common with `Startup`:

* `BalancedListsRun` (`BalancedRuns`). The property is about a list, the code about a
  counter. `Walks` connects them: what a sequence of calls does to the length of a
  stack, and between which lengths. An action of a list moves the length as it moves
  the balance (`ActionWalks`); hence `Execute` ends where it began when the list
  balances (`ExecuteWalks`), and `Initialize` fills both stacks to the same height, if
  the list has a malloc or a free at all (`InitializeWalks`). So every function of
  the plug-in stays within the array (`FunctionsWalk`). The invariant, `StackInv`,
  says that the two stacks are where the walk of the current function has come to
  (`Tracks`), which is more than that they are within bounds: a stack within bounds may
  be full before a malloc.

`RunlistControl_proofs`, for every number of writers, runlists, channels and
TSGs, every device and every set of writes:

* `RegistersTyped`: from `ShapeInv`, which says what a call is and has read when
  it is at a given place. It is needed because a type alone does not tell that
  the word about to be written was read, or that a runlist was found before the
  loop over it began.
* `BindingPreserved` (`BindingKept`): the invariant adds that the word a writer
  holds is still bound to the channel, or the channel is in `torn`
  (`HeldFresh`).
* `SubmissionPreserved` (`SubmissionIntact`): likewise for the halves of a
  submission a writer has read (`SubmitFresh`), and for the offset of one that
  keeps it.
* `SwitchAllOrNothing` (`AllOrNothing`): from `ShapeInv`, as from Ampere on nothing
  in the loop can fail.
* `WritesKept` (`NothingStale`): `ClaimInv` says of every call in its loop where in
  memory it is (`Placed`), that it has announced what it is about to write
  (`Announced`), that what it has announced may be (`Allowed`), and that a channel
  it is past is as it or a rival wants it (`Done`). The last is what the
  return of the call turns into `NothingStale`; it needs the other three, and
  that calls in their loops know of each other as rivals.
* `SwitchTakesHold` (`SwitchThenPreempt`): `QuietInv`, on top of `ClaimInv`: while a
  switch is the last write, no call has announced anything, so that only
  its TSG can be scheduled, until the next write ends it.

`SwapPartitions_proofs`, for every device and every command line:

* `PartitionsOpposite` (`OppositePartitions`): `TurnsInv` counts the openings of the
  two barriers together; where a process is gives the number up to the phase it
  counts itself, so two counts of one number differ by at most what the places
  allow. A process that failed is at one of two numbers.
* `HandoffClean` (`DrainedDisjoint`): `QueueInv`, what is queued on each stream and
  when, with the masks the kernels were launched with.
* `MergeComplete` (`FilesComplete`): `FilesInv`, one row per phase, with the same
  partitions as the phase.

`SliceQueue_proofs`, for all positive options:

* `QueueHoldsResources` (`ResourcesHeld`) and `RunRecordsAll` (`EverySliceRecorded`), from
  one invariant, `QueueInv`: the queue is the interval of the slices from the
  number of rows on (`QueueInOrder`), and streams, buffers and kernels are
  those of this interval.

`Nvdebug_proofs`, for any number of processes, calls, runlists, pages and devices, with
the invariants of `NvdebugInvariants`:

* `ExitInvariant` and `ExitLeavesNothing` (`ExitSafe`). `ModuleInv` says which devices'
  registers, interrupts and files are left at each stage, and `CallInv` that a
  call, and with it a walk through page tables, needs a file. `WalkInv` says
  which table a walk is in and that a page about to be linked is recorded.
  `TableInv` is what the collection rests on: a positive entry of a table is
  exactly the one recorded for the page it leads to; a page is recorded
  after the page its table is in, so that freeing the oldest first always
  finds the entry in the driver's table or in a freed one; and what was freed
  is empty. `CollectInv` carries the end of the collection through the rest of
  the exit.
* `StepsInv`, which the three theorems below share, says what a call may still do:
  the steps it has left are a block of its own kind of call, which ends in a
  step of `Lasts` (`Closed`). The lemmas `ReadBlocks`, `ModeBlocks` and `MapBlocks`
  show it for every block of `NvdebugCalls`, for every GPU.
* `EntriesRead` (`ReadExact`): `ReadersInv` relates, at each place of a reader, three
  things that are kept apart in the code: the position the kernel knows, the
  static iterator, and what has been printed. When a record is to be shown, the
  iterator stands at the entry after the position (`IteratesAt`). That a record
  shown again prints no line too many needs `Due`: the channels the iterator
  waits for are those of a TSG already passed, so none are missing at the next
  TSG unless one was shown twice.
* `CallsReportHonestly` (`ReportsHonest`): `ModeAt` says for a call that sets a
  mode that it comes to its return only past `set_mode`, unless there was no way
  to the context or a read failed. `MapsInv` follows a walk: the mappings up to its own
  are made, those of GPU memory from its own on are made all or none
  (`Consistent`), the table it is in is on the way to its mapping (`OnPath`), and
  the entry it is about to write is missing. That one write neither unmakes
  nor makes another mapping (`PageLinked`, `MappingMade`) holds because the tables
  are a tree (`TablesAreTree`, from `TableInv`). `Consistent` is what justifies
  that `map_mem_for_instance` takes the rest for granted when it finds the
  first mapping; without two calls at once, or a failure, nothing breaks it.
* `PointersExact` (`WindowExact`): `WindowInv` says of each process, unless another
  moved the window since, which of its pointers still lead where they were made
  for. A pointer does if it bypasses the window or the window is where it
  was; for each step a call has left that uses one, either its pointer does so
  now and nothing before that step moves the window, or a step before it makes
  the pointer anew (`Sound`, by `Leads`). This is proved block by block for every
  GPU (`BlocksSupported`). Two facts are not of a block: while tables are
  walked, the one in hand was found last; and the runlist's pointer of a reader
  lives from record to record, although printing a channel moves the window,
  as the window is put back (`RlAt`, `RlSaved`). What a reader shows is in the
  runlist (`ShowsEntry`), so that it does not read past its end. The exceptions
  of the code (`Excused`) are those of `KnownStray`, and no more.

Constants are assumed to be what the code makes them: `ProcsAssumption`,
`WeakStoresAssumption`, `NumTasksAssumption`, `ConfigsAssumption`, `TPCsAssumption`,
`NoMaskAssumption`, `LoadingAssumption`, `GPCsAssumption`, `BitsAssumption`,
`SizesAssumption`, `NamesAssumption`, `ScenariosAssumption`, `DeviceAssumption`,
`InvocationsAssumption`, `OptionsAssumption`, `WindowAssumption`, `PagesAssumption`,
`DevicesAssumption`, `RunlistsAssumption`, `WindowUsersAssumption`,
`CasesAssumption`, `MaxTimeAssumption`, `StartupAssumption`, `AllocationAssumption` and
`PluginAssumption` in what is proved; `WalkLengthAssumption` besides. TLC evaluates them in
each run. Five say more than a type:
`StartupAssumption` that a process may run on some core the CPU set can name, and that a
JSON array is a sequence; `PluginAssumption` the latter of the lists of actions, and that
a JSON boolean is one;
`ScenariosAssumption` and `RunlistsAssumption`
that a runlist is laid out in memory as the driver writes it, every TSG's entry
followed by its channels (and, in the first, each channel in one TSG), and
`CasesAssumption` that the driver's own table leads to none of nvdebug's pages.

Only model-checked:

* `ReleasedInOrder` of `Startup`, and `MemorySafe`, `ReleasesAll` and `ResultsFresh` of
  `Plugin`: they compare resources by name, and the names of array members are
  made with `ToString`, of which the provers know nothing; they cannot tell the log
  file of the first task from that of the second.
* all liveness: the provers have neither liveness under fairness nor ENABLED.

## 5. Not modelled, and the plan

Left out for good:

* GPC and TPC information (`libsmctrl.c:480-640`): each call computes its result
  from what it has just read, in one thread; a unit test compares it with the
  text read. The same holds for the device and topology files of nvdebug, which
  print registers as they are.
* pysmctrl, whose functions are one call of libsmctrl each; libsmctrl's own tests;
  third-party cJSON (its documents are values of `JsonObject`).
* The other demonstrations and gpu-microbench: sequences of calls to libsmctrl,
  in one thread each, that `SmMask` covers.
* Figures, plots, logs and scripts: latencies, residency percentages, formats.
* Of modelled components: `ack_bad_tsg` of nvdebug (one register write), the start
  of MPS by nvtaskset, the scale of the GPU's timer, what the kernels compute, the
  warm-up of the single-process slices, and the collection of page directories
  that is not forced, which nothing calls.

What is left is to prove more: `ReleasedInOrder` of `Startup`, and `MemorySafe` and
`ReleasesAll` of `Plugin`, once the members of arrays have names that the provers can
tell apart.
