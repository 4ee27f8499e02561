---------------------------- MODULE NvdebugModule ----------------------------
(***************************************************************************)
(* Loading and unloading nvdebug, after src/nvdebug/nvdebug_entry.c: the   *)
(* devices are probed from the first to the last, their files are made     *)
(* from the last to the first, and so are they taken down.  A failure on   *)
(* the way removes the files, and leaves the registers mapped and the      *)
(* interrupt handlers installed.                                           *)
(***************************************************************************)
EXTENDS Integers

CONSTANTS LastDevice,  \* the number of the last GPU
          Integrated   \* the GPUs of a platform bus: no interrupt is requested

ASSUME DevicesAssumption == LastDevice \in Nat /\ Integrated \subseteq 0..LastDevice

VARIABLES stage,    \* what the module is doing
          device,   \* with which device
          regs,     \* the devices whose registers are mapped
          irq,      \* the devices whose interrupts are tapped
          files     \* the files of every device

moduleVars == <<stage, device, regs, irq, files>>

Devices == 0..LastDevice
\* The files of a device in the order in which they are made.
FileOrder == <<"gpu", "runlist1", "runlist0", "device_info">>
MadeFiles(n) == {FileOrder[i] : i \in 1..n}

Stage(s, d) == stage' = s /\ device' = d

\* probe_and_cache_devices for one device; without an interrupt it only warns.
Probe ==
  /\ stage = "probe"
  /\ regs' = regs \cup {device}
  /\ irq' \in {irq} \cup (IF device \in Integrated THEN {} ELSE {irq \cup {device}})
  /\ IF device = LastDevice THEN Stage("files", LastDevice) ELSE Stage("probe", device + 1)
  /\ UNCHANGED files

\* BAR0 cannot be mapped, or no register of the device can be read.
ProbeFails ==
  /\ stage = "probe"
  /\ regs' \in {regs, regs \cup {device}}
  /\ Stage("failed", device)
  /\ UNCHANGED <<irq, files>>

\* nvdebug_init makes the next files of the device.
CreateFiles ==
  /\ stage = "files"
  /\ \E n \in DOMAIN FileOrder :
       /\ files[device] = MadeFiles(n - 1)
       /\ files' = [files EXCEPT ![device] = MadeFiles(n)]
       /\ IF n < 4 THEN Stage("files", device)
          ELSE IF device = 0 THEN Stage("loaded", 0) ELSE Stage("files", device - 1)
  /\ UNCHANGED <<regs, irq>>

\* get_last_runlist_id fails; the error is kept in an unsigned variable, taken
\* for the number of a runlist, and the second directory has the name of the first.
CreateBogus ==
  /\ stage = "files" /\ files[device] = {"gpu"}
  /\ files' = [files EXCEPT ![device] = {"gpu", "bogus"}]
  /\ Stage("undo", device)
  /\ UNCHANGED <<regs, irq>>

\* Out of memory, or (labels out_nomem and out_err) masks that cannot be read.
CreateFails ==
  /\ stage = "files"
  /\ Stage("undo", device)
  /\ UNCHANGED <<regs, irq, files>>

\* remove_proc_subtree waits for the calls that are inside (busy), and the next
\* device follows.
Undo(busy) ==
  /\ stage = "undo" /\ ~busy
  /\ files' = [files EXCEPT ![device] = {}]
  /\ IF device = LastDevice THEN Stage("failed", device) ELSE Stage("undo", device + 1)
  /\ UNCHANGED <<regs, irq>>

\* nvdebug_exit.
Rmmod ==
  /\ stage = "loaded"
  /\ Stage("closing", LastDevice)
  /\ UNCHANGED <<regs, irq, files>>

RemoveFiles(busy) ==
  /\ stage = "closing" /\ ~busy
  /\ files' = [files EXCEPT ![device] = {}]
  /\ Stage("gc", device)
  /\ UNCHANGED <<regs, irq>>

FreeIrq ==
  /\ stage = "irq"
  /\ irq' = irq \ {device}
  /\ Stage("unmap", device)
  /\ UNCHANGED <<regs, files>>

Unmap ==
  /\ stage = "unmap"
  /\ regs' = regs \ {device}
  /\ IF device = 0 THEN Stage("unloaded", 0) ELSE Stage("closing", device - 1)
  /\ UNCHANGED <<irq, files>>

ModuleInit ==
  /\ stage = "probe" /\ device = 0
  /\ regs = {} /\ irq = {} /\ files = [d \in Devices |-> {}]
=============================================================================
