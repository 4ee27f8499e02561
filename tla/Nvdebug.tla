------------------------------ MODULE Nvdebug ------------------------------
(***************************************************************************)
(* nvdebug on one GPU: the module is loaded, processes use the files of    *)
(* the GPU without any lock between them, the GPU's own driver moves the   *)
(* PRAMIN window too, and the module is unloaded.  NvdebugCalls says what  *)
(* each file does; here a process takes its steps one by one.              *)
(*                                                                         *)
(* The model does not follow a program that reads or writes through a      *)
(* pointer to the wrong place: it records the access in stray and stops.   *)
(***************************************************************************)
EXTENDS PageTables, RunlistFile, NvdebugCalls, NvdebugModule

CONSTANTS Cases   \* the GPUs, the calls each process makes on them, and three
                  \* bounds: the failing reads and allocations, the moves of the
                  \* window by the driver, and whether the module is loaded and
                  \* unloaded while calls are made, or apart from them

Files == {"read", "preempt_mode", "map_mem_ctxid", "map_mem_chid"}
ASSUME CasesAssumption ==
  /\ {"iter", "exit"} \cap Readers = {}
  /\ \A c \in Cases : c.calls \in [Readers -> Seq(Files)]
  /\ \A c \in Cases : c.runlist \in [Readers -> DOMAIN Runlists]
  \* What the driver maps itself is none of nvdebug's pages.
  /\ \A c \in Cases : c.taken \in Int /\ c.taken <= 0
\* Every process, the exit and the driver may move the window, and every object
\* lies somewhere in memory.
ASSUME WindowUsersAssumption ==
  /\ Readers \cup {"exit", "driver"} \subseteq Actors /\ "driver" \notin Readers
  /\ \A c \in Cases : c.chip \in Nat
  /\ \A c \in Cases : \A obj \in {"bar2_instance", "bar2_directory", "bar2_table", "runlist",
                                  "instance", "directory", "table", "wfi", "ctxsw"} :
       c.layout[obj] \in Nat

VARIABLES gpu,      \* the case: chip, memory, layout, calls, bounds
          call,     \* the call a process is in
          pc,       \* the steps left of its block; whether it is about to move the window
          made,     \* the calls it has made
          result,   \* what the last of them returned
          saved,    \* the window it has saved
          stored,   \* the processes whose call has set a preemption mode
          stray,    \* the access that went wrong
          seen,     \* what excuses a later result
          faults, moves

callVars == <<call, pc, made, result, saved, stored, seen>>
vars == <<windowVars, tableVars, walk, fileVars, moduleVars, gpu, callVars, stray, faults, moves>>

Procs == Readers
\* The processes make their calls to the last device: the first whose files
\* are made, and the first that is taken down.
Gpu == LastDevice
NoAccess == [by |-> "none", k |-> "none", call |-> "none", ptr |-> 0]

Running == stray = NoAccess
InCall(p) == call[p] # "none"
Maps == {"map_mem_ctxid", "map_mem_chid"}
Cur(p) == Head(pc[p].steps)
Doing(p, op) == Running /\ InCall(p) /\ walk[p].at = "none" /\ Cur(p).op = op
\* The iterator of a reader is static; that of any other call is its own.
Owner(p) == IF Cur(p).k = "rl" /\ call[p] = "read" THEN "iter" ELSE p

Steps(s) == [steps |-> s, move |-> FALSE]
Jump(p, label) == pc' = [pc EXCEPT ![p] = Steps(Block(gpu, call[p], label))]
Onward(p) == pc' = [pc EXCEPT ![p] = Steps(Tail(@.steps))]
Fault == faults < gpu.faults /\ faults' = faults + 1
NoFault == UNCHANGED faults

\* What the groups of actions leave alone.
KeepMemory == UNCHANGED <<windowVars, tableVars, walk>>
KeepCall == UNCHANGED <<call, made, result, saved, stored, seen>>
KeepRest == UNCHANGED <<moduleVars, gpu, moves>>

----------------------------------------------------------------------------
(* Calls begin and end. *)

\* The directory whose files a call is made through; those of the whole GPU are
\* made with runlist0.
Through(p, c) == IF c = "read" THEN gpu.runlist[p] ELSE "runlist0"

\* The files of the GPU are being removed: no new call gets in.
Leaving == stage \in {"closing", "undo"} /\ device = Gpu

StartCall(p) ==
  /\ Running /\ ~InCall(p) /\ made[p] < Len(gpu.calls[p])
  /\ gpu.apart => stage = "loaded"
  /\ Through(p, gpu.calls[p][made[p] + 1]) \in files[Gpu] /\ ~Leaving
  /\ LET c == gpu.calls[p][made[p] + 1]
         others == {call[q] : q \in Procs \ {p}}
     IN  /\ call' = [call EXCEPT ![p] = c]
         /\ seen' = seen \cup (IF c = "read" /\ "read" \in others THEN {"readers"} ELSE {})
                         \cup (IF c \in Maps /\ Maps \cap others # {} THEN {"maps"} ELSE {})
         /\ IF c = "read" THEN Open(p) ELSE UNCHANGED fileVars
         /\ pc' = [pc EXCEPT ![p] = Steps(Block(gpu, c, "begin"))]
  /\ made' = [made EXCEPT ![p] = @ + 1]
  /\ result' = [result EXCEPT ![p] = <<"none", "none">>]
  /\ stored' = stored \ {p}
  /\ moved' = moved \ {p}
  /\ NoFault /\ UNCHANGED <<layout, window, ptr, tableVars, walk, saved, stray>>
  /\ KeepRest

\* A map call that gives up may leave its mappings half made.
Finish(p, r) ==
  /\ call' = [call EXCEPT ![p] = "none"]
  /\ result' = [result EXCEPT ![p] = <<call[p], r>>]
  /\ seen' = IF r = "error" /\ call[p] \in Maps THEN seen \cup {"map failed"} ELSE seen
  /\ pc' = [pc EXCEPT ![p] = Steps(<<>>)]
  /\ UNCHANGED <<made, saved, stored>>

Return(p) ==
  /\ \/ Doing(p, "return") /\ Finish(p, "ok")
     \/ Doing(p, "return_error") /\ Finish(p, "error")
  /\ NoFault /\ KeepMemory /\ UNCHANGED <<fileVars, stray>> /\ KeepRest

----------------------------------------------------------------------------
(* Registers and the window. *)

\* A reader has read the registers of its runlist, which is empty.
FoundEmpty(p) ==
  /\ Doing(p, "reg") /\ call[p] = "read" /\ Cur(p).fail = "err"
  /\ Runlists[gpu.runlist[p]] = <<>>

ReadRegister(p) ==
  /\ Doing(p, "reg")
  /\ \/ ~FoundEmpty(p) /\ NoFault /\ Onward(p)
     \/ Fault /\ Jump(p, Cur(p).fail)
  /\ KeepMemory /\ UNCHANGED <<fileVars, stray>> /\ KeepCall /\ KeepRest

\* addr_to_pramin_mut looks at the window, and may have to move it.
LookAtWindow(p) ==
  /\ Doing(p, "addr") /\ ~pc[p].move
  /\ LET s == Cur(p) IN
       \/ InWindow(Owner(p), s.k, s.obj) /\ NoFault /\ Onward(p)
       \/ ~Covered(s.obj) /\ NoFault /\ pc' = [pc EXCEPT ![p].move = TRUE] /\ UNCHANGED windowVars
       \/ /\ Fault
          /\ IF s.fail = "garbage" THEN Onward(p) /\ Point(Owner(p), s.k, Bad)
                                   ELSE Jump(p, s.fail) /\ UNCHANGED ptr
          /\ UNCHANGED <<layout, window, moved>>
  /\ UNCHANGED <<tableVars, walk, fileVars, stray>> /\ KeepCall /\ KeepRest

MoveWindow(p) ==
  /\ Doing(p, "addr") /\ pc[p].move
  /\ Relocate(p, Owner(p), Cur(p).k, Cur(p).obj)
  /\ Onward(p)
  /\ NoFault /\ UNCHANGED <<tableVars, walk, fileVars, stray>> /\ KeepCall /\ KeepRest

UsePointer(p) ==
  /\ Doing(p, "use") /\ ~Astray(Owner(p), Cur(p).k)
  /\ Onward(p)
  /\ NoFault /\ KeepMemory /\ UNCHANGED <<fileVars, stray>> /\ KeepCall /\ KeepRest

\* A pointer that no longer leads to what it was made for is used.
GoAstray(p) ==
  /\ Running /\ InCall(p)
  /\ \/ /\ Doing(p, "use") /\ Astray(Owner(p), Cur(p).k)
        /\ stray' = [by |-> p, k |-> Cur(p).k, call |-> call[p], ptr |-> ptr[Owner(p)][Cur(p).k]]
     \/ /\ walk[p].at \in {"read", "pte", "pde"} /\ Astray(p, "pd")
        /\ stray' = [by |-> p, k |-> "table", call |-> call[p], ptr |-> ptr[p]["pd"]]
  /\ NoFault /\ UNCHANGED pc /\ KeepMemory /\ UNCHANGED fileVars /\ KeepCall /\ KeepRest

\* The iterator that a reader is about to use has no entries.
NoneToShow(p) == call[p] = "read" /\ Cur(p).fail = "show" /\ iter.len = 0

\* Steps with no failure: a pointer that bypasses the window, a jump, the
\* window saved and put back, the preemption mode and the timeout written.
LocalStep(p) ==
  /\ \/ Doing(p, "bypass") /\ Onward(p) /\ Point(Owner(p), Cur(p).k, Direct)
        /\ UNCHANGED <<layout, window, moved, saved, stored>>
     \/ Doing(p, "go") /\ ~NoneToShow(p) /\ Jump(p, Cur(p).fail) /\ UNCHANGED <<windowVars, saved, stored>>
     \/ Doing(p, "save") /\ Onward(p) /\ saved' = [saved EXCEPT ![p] = window]
        /\ UNCHANGED <<windowVars, stored>>
     \/ Doing(p, "restore") /\ Onward(p) /\ window' = saved[p] /\ MovedBy(p)
        /\ UNCHANGED <<layout, ptr, saved, stored>>
     \/ Doing(p, "set_mode") /\ Onward(p) /\ stored' = stored \cup {p} /\ UNCHANGED <<windowVars, saved>>
     \/ Doing(p, "set_timeout") /\ Onward(p) /\ UNCHANGED <<windowVars, saved, stored>>
  /\ NoFault /\ UNCHANGED <<tableVars, walk, fileVars, stray, call, made, result, seen>> /\ KeepRest

\* The driver moves the window for its own purposes.
DriverMoves ==
  /\ Running /\ moves < gpu.moves /\ \E p \in Procs : InCall(p)
  /\ moves' = moves + 1
  /\ window' \in {layout[o] : o \in {"bar2_instance", "table"}} \ {window}
  /\ MovedBy("driver")
  /\ UNCHANGED <<layout, ptr, tableVars, walk, fileVars, moduleVars, gpu, callVars, stray, faults>>

----------------------------------------------------------------------------
(* Reading the runlist. *)

Iterate(p) ==
  /\ \/ Doing(p, "clear_iter") /\ (IF call[p] = "read" THEN ClearIter ELSE UNCHANGED iter)
     \/ Doing(p, "set_iter") /\ (IF call[p] = "read" THEN SetIter(gpu.runlist[p]) ELSE UNCHANGED iter)
  /\ Onward(p)
  /\ NoFault /\ KeepMemory /\ UNCHANGED <<pos, printed, buffer, reshown, stray>> /\ KeepCall /\ KeepRest

\* runlist_file_seq_start: a new iterator at position 0, the old one later;
\* the file ends when the position is at the end of the iterator's runlist.
SeqStart(p) ==
  /\ Doing(p, "seq_start")
  /\ \/ pos[p] = 0 /\ Jump(p, "runlist") /\ UNCHANGED <<call, made, result, saved, stored, seen>>
     \/ pos[p] > 0 /\ pos[p] < iter.len /\ Jump(p, "show") /\ UNCHANGED <<call, made, result, saved, stored, seen>>
     \/ pos[p] > 0 /\ pos[p] >= iter.len /\ Finish(p, "ok")
     \/ pos[p] > 0 /\ Leaving /\ Finish(p, "cut")
  /\ NoFault /\ KeepMemory /\ UNCHANGED <<fileVars, stray>> /\ KeepRest

\* There are no records, the file is at its end: get_runlist_iter returns early,
\* with the iterator cleared, when the runlist is empty.  Whether it is, the code
\* asks the iterator, which only another reader can have set since.
SeqEmpty(p) ==
  /\ \/ Doing(p, "go") /\ NoneToShow(p) /\ Finish(p, "ok")
     \/ FoundEmpty(p) /\ iter.len = 0 /\ Finish(p, "ok")
     \/ /\ FoundEmpty(p) /\ iter.len > 0 /\ "readers" \in seen
        /\ Jump(p, "show") /\ UNCHANGED <<call, made, result, saved, stored, seen>>
  /\ NoFault /\ KeepMemory /\ UNCHANGED <<fileVars, stray>> /\ KeepRest

SeqShow(p) ==
  /\ Doing(p, "show")
  /\ \/ InRange /\ AtTsg /\ ShowTsg(p) /\ Jump(p, "shown") /\ UNCHANGED stray
     \/ InRange /\ ~AtTsg /\ ShowChannel(p) /\ Jump(p, "channel") /\ UNCHANGED stray
     \/ /\ ~InRange
        /\ stray' = [by |-> p, k |-> "iter", call |-> "read", ptr |-> 0]
        /\ UNCHANGED <<pc, fileVars>>
  /\ NoFault /\ KeepMemory /\ KeepCall /\ KeepRest

\* The kernel looks whether the record fits its buffer; if not, it starts over
\* at this position with a larger buffer, or in the next read.
Shown(p) ==
  /\ Doing(p, "shown")
  /\ \/ Fits(p) /\ Jump(p, "next")
     \/ Overflows(p) /\ Jump(p, "begin")
  /\ NoFault /\ KeepMemory /\ UNCHANGED stray /\ KeepCall /\ KeepRest

\* The reader's own buffer may be full after any record.
SeqAdvance(p) ==
  /\ Doing(p, "next")
  /\ SeqNext(p)
  /\ \/ pos[p] + 1 < iter.len /\ Jump(p, "show")
     \/ Jump(p, "begin")
  /\ NoFault /\ KeepMemory /\ UNCHANGED stray /\ KeepCall /\ KeepRest

----------------------------------------------------------------------------
(* Mapping memory for a context. *)

StartWalk(p) ==
  /\ Doing(p, "map_pages")
  /\ Goes(p, At(1, 1, 0, "deref"))
  /\ NoFault /\ UNCHANGED <<windowVars, tableVars, fileVars, pc, stray>> /\ KeepCall /\ KeepRest

WalkStep(p) ==
  /\ Running
  /\ \/ DerefTable(p) \/ MoveToTable(p) \/ ReadEntry(p) \/ WritePte(p) \/ SkipMapping(p)
     \/ Allocate(p) \/ LinkPage(p)
  /\ NoFault /\ UNCHANGED <<fileVars, pc, stray>> /\ KeepCall /\ KeepRest

EndWalk(p, r) == Goes(p, NoWalk) /\ Finish(p, r)

\* The walk ends: with the last mapping, with one of GPU memory that is there
\* already, or with an error.
WalkEnds(p) ==
  /\ Running
  /\ \/ walk[p].at = "mapped" /\ EndWalk(p, "ok") /\ NoFault /\ UNCHANGED tableVars
     \/ Exists(p) /\ Huge(walk[p].n) /\ EndWalk(p, "ok") /\ NoFault /\ UNCHANGED tableVars
     \/ InUse(p) /\ EndWalk(p, "error") /\ NoFault /\ UNCHANGED tableVars
     \/ walk[p].at = "alloc" /\ Unused = {} /\ EndWalk(p, "error") /\ NoFault /\ UNCHANGED tableVars
     \/ walk[p].at = "deref" /\ walk[p].table = 0 /\ Fault /\ EndWalk(p, "error") /\ UNCHANGED tableVars
     \/ LosePage(p) /\ Fault /\ EndWalk(p, "error") /\ UNCHANGED <<mem, pd_allocs, freed>>
  /\ UNCHANGED <<windowVars, fileVars, stray>> /\ KeepRest

----------------------------------------------------------------------------
(* The module comes and goes. *)

Busy == device = Gpu /\ \E p \in Procs : InCall(p)

Idle == \A p \in Procs : ~InCall(p) /\ made[p] = Len(gpu.calls[p])

ModuleStep ==
  /\ Running /\ (gpu.apart /\ stage = "loaded" => Idle)
  /\ \/ (Probe \/ CreateFiles \/ Undo(Busy) \/ Rmmod \/ RemoveFiles(Busy) \/ FreeIrq \/ Unmap) /\ NoFault
     \/ (ProbeFails \/ CreateBogus \/ CreateFails) /\ Fault
  /\ KeepMemory /\ UNCHANGED <<fileVars, gpu, callVars, stray, moves>>

\* gc_page_directory(g, true) of the GPU.  The entry of the driver's directory
\* is looked up through the window.
Collecting == Running /\ stage = "gc" /\ device = Gpu /\ pd_allocs # <<>>
GcSeek ==
  /\ Collecting /\ Oldest.table = 0 /\ walk["exit"].at = "none"
  /\ \/ InWindow("exit", "pd", "directory") /\ Goes("exit", At(0, 0, 0, "read"))
     \/ ~Covered("directory") /\ Relocate("exit", "exit", "pd", "directory")
        /\ Goes("exit", At(0, 0, 0, "read"))
  /\ NoFault /\ UNCHANGED <<tableVars, fileVars, callVars, stray>> /\ KeepRest

\* The parent is a page that was collected before: the I/O MMU knows that it is
\* gone; without one the freed page is read, which still holds zeros, or not.
GcFree ==
  /\ Collecting
  /\ \/ walk["exit"].at = "read" /\ ~Astray("exit", "pd") /\ Free(PointsTo(Oldest)) /\ UNCHANGED stray
     \/ Oldest.table \in freed /\ Free(FALSE) /\ UNCHANGED stray
     \/ Oldest.table \in freed /\ ~gpu.iommu /\ UNCHANGED tableVars
        /\ stray' = [by |-> "exit", k |-> "freed page", call |-> "exit", ptr |-> 0]
  /\ Goes("exit", NoWalk)
  /\ NoFault /\ UNCHANGED <<windowVars, fileVars, callVars>> /\ KeepRest

\* All is collected, or the window could not be read and the rest is left.
GcEnds ==
  /\ Running /\ stage = "gc"
  /\ \/ (device # Gpu \/ pd_allocs = <<>>) /\ NoFault /\ UNCHANGED seen
     \/ Collecting /\ Oldest.table = 0 /\ walk["exit"].at = "none" /\ Fault
        /\ seen' = seen \cup {"gc failed"}
  /\ Stage("irq", device)
  /\ KeepMemory /\ UNCHANGED <<fileVars, regs, irq, files, gpu, moves, stray>>
  /\ UNCHANGED <<call, pc, made, result, saved, stored>>
----------------------------------------------------------------------------

Init ==
  /\ gpu \in Cases
  /\ layout = gpu.layout /\ window = 0 /\ moved = {}
  /\ ptr = [o \in Procs \cup {"iter", "exit"} |-> [k \in {"pd", "rl", "inst", "ctxsw"} |-> Direct]]
  /\ TablesInit(gpu.taken) /\ walk = [a \in Procs \cup {"exit"} |-> NoWalk]
  /\ FileInit /\ ModuleInit
  /\ call = [p \in Procs |-> "none"] /\ pc = [p \in Procs |-> Steps(<<>>)]
  /\ made = [p \in Procs |-> 0] /\ result = [p \in Procs |-> <<"none", "none">>]
  /\ saved = [p \in Procs |-> 0] /\ stored = {} /\ seen = {}
  /\ stray = NoAccess /\ faults = 0 /\ moves = 0

\* Nothing is left to do, or the model cannot follow the program any more.
Stopped ==
  /\ ~Running \/ stage \in {"failed", "unloaded"}
  /\ UNCHANGED vars

CallStep(p) ==
  \/ StartCall(p) \/ Return(p) \/ ReadRegister(p) \/ LookAtWindow(p) \/ MoveWindow(p)
  \/ UsePointer(p) \/ GoAstray(p) \/ LocalStep(p)
ReadStep(p) == Iterate(p) \/ SeqStart(p) \/ SeqEmpty(p) \/ SeqShow(p) \/ Shown(p) \/ SeqAdvance(p)
MapStep(p) == StartWalk(p) \/ WalkStep(p) \/ WalkEnds(p)

Next ==
  \/ \E p \in Procs : CallStep(p) \/ ReadStep(p) \/ MapStep(p)
  \/ DriverMoves \/ ModuleStep \/ GcSeek \/ GcFree \/ GcEnds \/ Stopped

Spec == Init /\ [][Next]_vars
----------------------------------------------------------------------------
(* Properties. *)

TypeOK ==
  /\ window \in Nat /\ moved \subseteq Actors
  /\ call \in [Procs -> {"none", "read", "preempt_mode"} \cup Maps]
  /\ stored \subseteq Procs /\ freed \cup leaked \subseteq 1..MaxPages
  /\ regs \cup irq \subseteq Devices /\ device \in Devices

\* The accesses the code itself sends astray: the instance block that a reader
\* has in the window while get_ctxsw moves it; the runlist that a reader has in
\* the window on chips for which the window is not put back; the runlist in the
\* window when map_mem_ctxid comes to its second channel; an error that was
\* compared with -1; a freed page without an I/O MMU.
KnownStray ==
  \/ stray.k = "inst" /\ stray.call = "read"
  \/ stray.k = "rl" /\ stray.call = "read" /\ gpu.chip < Pascal
  \/ stray.k = "rl" /\ stray.call = "map_mem_ctxid"
  \/ stray.ptr = Bad
  \/ stray.k = "freed page" /\ ~gpu.iommu

\* A pointer into the PRAMIN window leads where it was made for (bus.c:81),
\* unless somebody else has moved the window since the call began, two readers
\* share the iterator (runlist_procfs.c:185), or in the cases above.
WindowExact ==
  /\ TypeOK
  /\ stray = NoAccess \/ stray.by \in moved \/ KnownStray \/ "readers" \in seen

\* A call that reports success has done what it was asked for.  A map call has
\* made all mappings, if none ran at the same time or failed before; a mode is
\* set, if the context could be found at all: one that is not there, or whose
\* search failed, is reported as a success (runlist.c:506).  The two exceptions
\* are the code's: its comments have none (runlist.c:450, runlist_procfs.c:735).
ReportsHonest ==
  \A p \in Procs :
    /\ (/\ result[p] \in Maps \X {"ok"} /\ seen \cap {"maps", "map failed"} = {}
        /\ stage \in {"files", "loaded"})
         => \A n \in DOMAIN Mappings : Translate(n) = -n
    /\ result[p] = <<"preempt_mode", "ok">> =>
         p \in stored \/ ~gpu.wfi \/ ~(gpu.bar2 /\ gpu.in_bar2) \/ faults > 0

\* A reader gets every entry of its runlist once and in order, however often a
\* record did not fit (runlist_procfs.c:238), unless another reader took over the
\* iterator; lines about missing channels only come from showing a TSG again.
ReadExact ==
  \A p \in Procs :
    LET rl == gpu.runlist[p]
        entries(n) == Cardinality({i \in 1..n : printed[p][i] # Missing})
    IN  "readers" \notin seen =>
          /\ \A i \in DOMAIN printed[p] :
               \/ printed[p][i] = <<rl, entries(i)>>
               \/ printed[p][i] = Missing /\ p \in reshown
          /\ result[p] = <<"read", "ok">> => entries(Len(printed[p])) = Len(Runlists[rl])

\* Registers are mapped as long as an interrupt or a call may use them; no table
\* that is in use leads to a page that was given back; and after a complete exit
\* nothing is left but pages that were lost, or whose collection failed
\* (nvdebug_entry.c:868-898, mmu.c:255-297).
ExitSafe ==
  /\ irq \subseteq regs
  /\ (\E p \in Procs : InCall(p)) => Gpu \in regs
  /\ \A t \in {0} \cup Pages, i \in Indices : mem[t][i] \notin freed
  /\ stage = "unloaded" =>
       /\ regs = {} /\ irq = {} /\ \A d \in Devices : files[d] = {}
       /\ "gc failed" \notin seen => pd_allocs = <<>> /\ mem[0] = DriversTable(gpu.taken)

\* A record that is shown again is the same as before: no line about a missing
\* channel is printed for a runlist that misses none.
ShowIdempotent == \A p \in Procs : \A i \in DOMAIN printed[p] : printed[p][i] # Missing
=============================================================================
