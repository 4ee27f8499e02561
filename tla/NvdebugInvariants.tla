------------------------- MODULE NvdebugInvariants --------------------------
(***************************************************************************)
(* The inductive invariants of nvdebug on one GPU; Nvdebug_proofs proves   *)
(* that they are.                                                          *)
(*                                                                         *)
(*   ExitInv      the module's state, the calls, the walks and the tables  *)
(*   StepsInv     the steps every call has left, and how it may end        *)
(*   ReadersInv   where a reader is in its runlist, and what it has        *)
(*   MapsInv      where a walk is among the mappings, and what is made     *)
(*   WindowInv    which pointers lead where they were made for             *)
(*                                                                         *)
(* The last three hold as long as no two calls share what is made for one, *)
(* and WindowInv of a call as long as nobody else moves the window.        *)
(***************************************************************************)
EXTENDS Nvdebug

-----------------------------------------------------------------------------
(* The module *)

FileNames == {"bogus"} \cup {FileOrder[i] : i \in DOMAIN FileOrder}

\* The registers of all devices are mapped until the exit has come to them.
\* Interrupts are freed before, files removed before that.
ModuleInv ==
  /\ stage \in {"probe", "files", "undo", "failed", "loaded", "closing", "gc", "irq", "unmap",
                "unloaded"}
  /\ device \in Devices /\ files \in [Devices -> SUBSET FileNames]
  /\ irq \subseteq regs /\ regs \subseteq Devices
  /\ stage = "probe" => regs = 0..(device - 1)
  /\ stage \in {"files", "undo", "loaded"} => regs = Devices
  /\ stage \in {"closing", "gc", "irq", "unmap"} => regs = 0..device
  /\ stage = "unmap" => device \notin irq
  /\ stage = "unloaded" => regs = {}
  /\ stage \in {"probe", "unloaded"} => \A d \in Devices : files[d] = {}
  /\ stage = "closing" => \A d \in Devices : d > device => files[d] = {}
  /\ stage \in {"gc", "irq", "unmap"} => \A d \in Devices : d >= device => files[d] = {}
  /\ stage = "failed" => files[Gpu] = {}

\* The exit has come past the removal of the files of the GPU, or past the
\* collection of its pages.
FilesGone ==
  \/ stage \in {"gc", "irq", "unmap", "unloaded"}
  \/ stage = "closing" /\ device # Gpu
Collected ==
  \/ stage \in {"irq", "unmap", "unloaded"}
  \/ stage \in {"closing", "gc"} /\ device # Gpu

\* Calls are made through files that are there, and only calls walk the tables.
CallInv ==
  /\ gpu \in Cases
  /\ call \in [Procs -> Files \cup {"none"}] /\ made \in [Procs -> Nat]
  /\ \A p \in Procs : InCall(p) => files[Gpu] # {}
  /\ \A p \in Procs : walk[p].at # "none" => InCall(p)

-----------------------------------------------------------------------------
(* The tables *)

Nodes == {0} \cup Pages
Driver == DriversTable(gpu.taken)

\* Where a walk is: in the driver's table at the first level, and in a page of
\* nvdebug at any other; a page that is about to be linked is recorded.
Walks == [n : 0..4, level : 0..3, table : 0..MaxPages, page : 0..MaxPages,
          at : {"none", "deref", "move", "read", "pte", "alloc", "pde", "mapped"}]
WalkOK(w) ==
  /\ w.at \in {"deref", "move", "read", "pte", "alloc", "pde"} =>
       /\ w.n \in 1..4 /\ w.level \in 1..Len(Mappings[w.n])
       /\ w.table \in Nodes /\ (w.table = 0 <=> w.level = 1)
  /\ w.at = "pte" => LastLevel(w)
  /\ w.at \in {"alloc", "pde"} =>
       /\ ~LastLevel(w)
       /\ w.table = 0 => Driver[Mappings[w.n][w.level]] = 0
  /\ w.at = "pde" =>
       \E k \in DOMAIN pd_allocs :
         pd_allocs[k] = [page |-> w.page, table |-> w.table, idx |-> Mappings[w.n][w.level]]

WalkInv ==
  /\ walk \in [Procs \cup {"exit"} -> Walks]
  /\ \A p \in Procs : WalkOK(walk[p])
  /\ walk["exit"].at \in {"none", "read"}
  /\ walk["exit"].at = "read" => pd_allocs # <<>> /\ Oldest.table = 0

\* Every entry that leads to a page is the one recorded for it; a page is
\* younger than the table it is in; and what was given back is empty.
Allocations == [page : 1..MaxPages, table : 0..MaxPages, idx : Indices]
TableInv ==
  /\ mem \in [0..MaxPages -> [Indices -> Int]]
  /\ pd_allocs \in Seq(Allocations)
  /\ freed \subseteq 1..MaxPages /\ leaked \subseteq 1..MaxPages
  /\ \A j, k \in DOMAIN pd_allocs : pd_allocs[j].page = pd_allocs[k].page => j = k
  /\ \A k \in DOMAIN pd_allocs : pd_allocs[k].page \notin freed
  /\ \A k \in DOMAIN pd_allocs :
       \/ pd_allocs[k].table \in {0} \cup freed
       \/ \E j \in 1..(k - 1) : pd_allocs[j].page = pd_allocs[k].table
  /\ \A t \in 0..MaxPages, i \in Indices : mem[t][i] > 0 =>
       \E k \in DOMAIN pd_allocs : pd_allocs[k] = [page |-> mem[t][i], table |-> t, idx |-> i]
  /\ \A t \in freed, i \in Indices : mem[t][i] = 0
  /\ \A i \in Indices : mem[0][i] = Driver[i] \/ (mem[0][i] > 0 /\ Driver[i] = 0)
  /\ freed # {} => FilesGone

CollectInv == Collected /\ "gc failed" \notin seen => pd_allocs = <<>>

ExitInv == ModuleInv /\ CallInv /\ WalkInv /\ TableInv /\ CollectInv

-----------------------------------------------------------------------------
(* The steps that the calls have left. *)

StepOf(ops, fails) ==
  [op : ops, k : {"", "pd", "rl", "inst", "ctxsw"},
   obj : {"", "bar2_instance", "bar2_directory", "bar2_table", "runlist", "instance",
          "directory", "table", "wfi", "ctxsw"},
   fail : fails]
Plain(ops) == StepOf(ops, {""})
Jumping(labels) == StepOf({"reg", "addr", "go"}, labels)
Garbage == StepOf({"addr"}, {"garbage"})

\* The blocks of a call, and the steps they are made of.
Labels(c) ==
  CASE c = "read" -> {"begin", "runlist", "runlist_pramin", "show", "channel", "restore", "shown",
                      "next", "err"}
    [] c = "preempt_mode" -> {"begin", "runlist_pramin", "mode", "unset", "err"}
    [] c = "map_mem_ctxid" -> {"begin", "runlist_pramin", "channel1", "channel2", "map", "err"}
    [] OTHER -> {"begin", "instance_pramin", "map", "err"}
PlainOps(c) ==
  {"clear_iter", "set_iter", "use", "bypass", "return_error"} \cup
  CASE c = "read" -> {"save", "restore", "seq_start", "show", "shown", "next"}
    [] c = "preempt_mode" -> {"set_mode", "set_timeout", "return"}
    [] OTHER -> {"set_mode", "set_timeout", "map_pages"}
StepsOf(c) == Plain(PlainOps(c)) \cup Garbage \cup Jumping(Labels(c))

\* A block ends in a step that never lets the next one follow.
Lasts == {"go", "seq_start", "show", "shown", "next", "map_pages", "return", "return_error"}
Closed(c, s) == s \in Seq(StepsOf(c)) /\ s # <<>> /\ s[Len(s)].op \in Lasts

\* The steps s come to an end with the steps tail, and those before are of pre.
Ends(s, pre, tail) ==
  /\ Len(s) >= Len(tail)
  /\ \A i \in 1..(Len(s) - Len(tail)) : s[i] \in pre
  /\ \A i \in 1..Len(tail) : s[Len(s) - Len(tail) + i] = tail[i]

\* Looking for the runlist.
Searching == Plain({"clear_iter", "use", "bypass"}) \cup Garbage \cup Jumping({"err", "runlist_pramin"})
\* Looking at a channel that is printed.
Printing == Plain({"use", "bypass", "save", "restore"}) \cup Garbage \cup Jumping({"shown", "restore"})
\* Looking for the context whose preemption mode is to be set; it is given up
\* without a failure only if there is no way to find it.
NoWay(c) == ~c.wfi \/ ~(c.bar2 /\ c.in_bar2)
Finding(c) == Plain({"use", "bypass"}) \cup Garbage
              \cup StepOf({"reg", "addr"}, {"err", "unset"})
              \cup {step \in StepOf({"go"}, {"unset"}) : NoWay(c)}
\* The mode is set.
Setting == Plain({"set_timeout", "return"}) \cup StepOf({"reg"}, {"err"})
SetMode == {<<Do("set_mode"), Do("return")>>,
            <<Do("set_mode"), Reg("err"), Do("set_timeout"), Do("return")>>}

AnyStep == StepsOf("read") \cup StepsOf("preempt_mode") \cup StepsOf("map_mem_ctxid")
           \cup StepsOf("map_mem_chid")

Left(p) == pc[p].steps

\* Where a call is that sets a preemption mode.  It gives up without an error
\* only if there is no way to the context, or something failed.
ModeAt(p) ==
  \/ Left(p) = <<Go("mode")>>
  \/ Ends(Left(p), Searching, <<Do("set_iter"), Go("mode")>>)
  \/ \E tail \in SetMode : Ends(Left(p), Finding(gpu), tail)
  \/ p \in stored /\ \A i \in DOMAIN Left(p) : Left(p)[i] \in Setting
  \/ Left(p) = <<Do("return")>> /\ (NoWay(gpu) \/ faults > 0)
  \/ Left(p) = <<Do("return_error")>>

StepsInv ==
  /\ pc \in [Procs -> [steps : Seq(AnyStep), move : BOOLEAN]]
  /\ result \in [Procs -> (Files \cup {"none"}) \X {"none", "ok", "error", "cut"}]
  /\ faults \in Nat
  /\ \A p \in Procs : InCall(p) => result[p] = <<"none", "none">> /\ Closed(call[p], Left(p))
  /\ \A p \in Procs : walk[p].at # "none" => call[p] \in Maps
  /\ \A p \in Procs : call[p] = "preempt_mode" => ModeAt(p)
  /\ \A p \in Procs : result[p] = <<"preempt_mode", "ok">> => p \in stored \/ NoWay(gpu) \/ faults > 0

-----------------------------------------------------------------------------
(* The records of a runlist. *)

Records == ((DOMAIN Runlists) \X Nat) \cup {Missing}
Length(p) == Len(Runlists[gpu.runlist[p]])

\* The first n entries of the runlist, once each and in order; other lines only
\* if a record was shown again.
Entries(s, n) == Cardinality({i \in 1..n : s[i] # Missing})
Prints(p, rl, s, n, again) ==
  /\ n \in 0..Len(Runlists[rl]) /\ s \in Seq(Records) /\ Entries(s, Len(s)) = n
  /\ \A i \in DOMAIN s : s[i] = <<rl, Entries(s, i)>> \/ (s[i] = Missing /\ p \in again)
Reads(p, s, n) == Prints(p, gpu.runlist[p], s, n, reshown)

\* The iterator is where the reader is; the channels it waits for are those of a
\* TSG among the first n entries.
Due(p, it, n, again) ==
  \/ p \in again \/ it.left = 0
  \/ \E i \in 1..n : it.left = i + Runlists[it.rl][i] + 1 - it.at
IteratesAt(p, it, rl, at, n, again) ==
  /\ it.rl = rl /\ it.at = at + 1 /\ it.len = Len(Runlists[rl])
  /\ it.left \in Nat /\ Due(p, it, n, again)
Follows(p, n) == IteratesAt(p, iter, gpu.runlist[p], pos[p], n, reshown)

Kept(p, n) == buffer[p] = printed[p] /\ Reads(p, printed[p], n)
Resumes(p) == Kept(p, pos[p]) /\ (pos[p] > 0 => Follows(p, pos[p]))
Opened(p) == pos[p] = 0 /\ Kept(p, 0)
Reading(p) == Kept(p, pos[p]) /\ Follows(p, pos[p])
Shows(p) ==
  /\ Reads(p, printed[p], pos[p]) /\ Reads(p, buffer[p], pos[p] + 1)
  /\ Follows(p, IF AtTsg THEN pos[p] + 1 ELSE pos[p])
HasShown(p) == Kept(p, pos[p] + 1) /\ Follows(p, pos[p] + 1)
GivesUp(p) == \E n \in 0..Length(p) : Kept(p, n)

ReaderAt(p) ==
  \/ Left(p) = <<Do("seq_start")>> /\ Resumes(p)
  \/ Ends(Left(p), Searching, <<Do("set_iter"), Go("show")>>) /\ Opened(p)
  \/ Left(p) \in {<<Go("show")>>, <<Use("rl"), Do("show")>>, <<Do("show")>>} /\ Reading(p)
  \/ Ends(Left(p), Printing, <<Do("shown")>>) /\ Shows(p)
  \/ Left(p) = <<Do("next")>> /\ HasShown(p)
  \/ Left(p) = <<Do("return_error")>> /\ GivesUp(p)

\* What a reader has that is through, or does something else.
HasRead(p) ==
  \E n \in 0..Length(p) : Reads(p, printed[p], n) /\ (result[p] = <<"read", "ok">> => n = Length(p))

ReadersInv ==
  /\ pos \in [Procs -> Nat]
  /\ DOMAIN printed = Procs /\ DOMAIN buffer = Procs
  /\ iter \in [rl : DOMAIN Runlists \cup {"none"}, at : Nat, left : Nat, len : Nat]
  /\ iter.rl # "none" => iter.at > 0
  /\ "readers" \notin seen =>
       /\ \A p, q \in Procs : call[p] = "read" /\ call[q] = "read" => p = q
       /\ \A p \in Procs : IF call[p] = "read" THEN ReaderAt(p) ELSE HasRead(p)

-----------------------------------------------------------------------------
(* The mappings. *)

\* Where the tables m lead for the n-th mapping: by Translate, case by case.
Upper(m) == IF m[0][2] > 0 THEN m[m[0][2]][1] ELSE m[0][2]
Found(m, n) ==
  IF n <= 2 THEN IF m[0][1] > 0 THEN m[m[0][1]][n] ELSE m[0][1]
            ELSE IF Upper(m) > 0 THEN m[Upper(m)][n - 2] ELSE Upper(m)
Made(m, n) == Found(m, n) = -n
AllMade(m) == \A n \in 1..4 : Made(m, n)

\* A mapping of GPU memory from the n-th on that is there means that all are.
Consistent(m, first) == AllMade(m) \/ \A n \in 1..2 : n >= first => ~Made(m, n)

\* Where a walk is on the way to its mapping.
OnPath(m, w) ==
  /\ w.level = 2 => w.table = m[0][Mappings[w.n][1]]
  /\ w.level = 3 => m[0][Mappings[w.n][1]] > 0
                    /\ w.table = m[m[0][Mappings[w.n][1]]][Mappings[w.n][2]]
EntryIn(m, w) == m[w.table][Mappings[w.n][w.level]]

\* The mappings up to the walk's are made; what it is about to write is missing.
WalkAt(m, w) ==
  IF w.at = "mapped" THEN AllMade(m)
  ELSE /\ OnPath(m, w) /\ Consistent(m, w.n)
       /\ \A n \in 1..4 : n < w.n => Made(m, n)
       /\ w.at \in {"pte", "alloc", "pde"} => EntryIn(m, w) = 0
       /\ w.at = "pde" => w.page \in 1..MaxPages /\ \A i \in Indices : m[w.page][i] = 0

\* The mappings are told apart as long as no two calls make them at a time, none
\* has failed, and the exit has not begun.
Undisturbed == seen \cap {"maps", "map failed"} = {} /\ stage \in {"probe", "files", "loaded"}
MapsInv ==
  /\ \A t \in 1..MaxPages \ Pages, i \in Indices : mem[t][i] = 0
  /\ Undisturbed =>
       /\ \A p, q \in Procs : call[p] \in Maps /\ call[q] \in Maps => p = q
       /\ \A p \in Procs : walk[p].at # "none" => WalkAt(mem, walk[p])
       /\ (\A p \in Procs : walk[p].at = "none") => Consistent(mem, 1)
       /\ \A p \in Procs : result[p] \in Maps \X {"ok"} => AllMade(mem)

-----------------------------------------------------------------------------
(* The pointers. *)

Names == {"pd", "rl", "inst", "ctxsw"}

\* A pointer of a process, and those that lead where they were made for: they do
\* not go through the window, or the window is where it was.  An error that was
\* taken for a pointer counts as one.
Ptr(p, k) == ptr[IF k = "rl" /\ call[p] = "read" THEN "iter" ELSE p][k]
GoodPtrs(p) == {k \in Names : Ptr(p, k) \in {Direct, Bad, window}}
PastPtrs(p) == {k \in Names : Ptr(p, k) = Direct}

\* The pointers that the code itself uses when they may not lead there.
Excused(c, cl) ==
  CASE cl = "read" -> {"inst"} \cup (IF c.chip < Pascal THEN {"rl"} ELSE {})
    [] cl = "map_mem_ctxid" -> {"rl"}
    [] OTHER -> {}

\* The pointers that must be good when a block begins, and before a step.
AtEntry(c, cl, label) ==
  (CASE label = "show" -> {"rl"}
     [] label = "mode" -> IF c.chip < Ampere THEN {} ELSE {"rl"}
     [] label = "map" -> {"inst"}
     [] OTHER -> {}) \ Excused(c, cl)
Needs(c, cl, step) ==
  CASE step.op = "use" -> {step.k} \ Excused(c, cl)
    [] step.op \in {"reg", "addr", "go"} -> AtEntry(c, cl, step.fail)
    [] OTHER -> {}

\* After the first n of the steps s: a jump was on the way, or the tables were
\* walked, and the call does not come here; a pointer still bypasses the window,
\* or the window was not moved since it was made.  At first those of G were good,
\* and those of D bypassed the window.
Diverts == {"go", "map_pages"}
JumpIn(s, n) == \E j \in 1..n : s[j].op \in Diverts
Asked(s, i, k) == s[i].op = "addr" /\ s[i].k = k
StillPast(s, n, k, D) ==
  \/ \E j \in 1..n : s[j].op = "bypass" /\ s[j].k = k /\ \A i \in (j + 1)..n : ~Asked(s, i, k)
  \/ k \in D /\ \A i \in 1..n : ~Asked(s, i, k)
Moving == {"addr", "restore"}
StillGood(s, n, k, G) ==
  \/ \E j \in 1..n : Asked(s, j, k) /\ \A i \in (j + 1)..n : s[i].op \notin Moving
  \/ k \in G /\ \A i \in 1..n : s[i].op \notin Moving
Leads(s, n, k, G, D) == JumpIn(s, n) \/ StillPast(s, n, k, D) \/ StillGood(s, n, k, G)

\* Every step of s finds the pointers it needs good.
Sound(c, cl, s, G, D) ==
  \A i \in 1..Len(s) : \A k \in Needs(c, cl, s[i]) : Leads(s, i - 1, k, G, D)

\* Whoever sets a pointer says which, and what to.
Proper(step) ==
  /\ step.op \in {"addr", "bypass"} => step.k # ""
  /\ step.op = "addr" => step.obj # ""

\* Where a reader is whose pointer to the runlist stays good: the window is put
\* back after a channel is printed.
AfterSave ==
  Plain({"use"}) \cup {step \in Garbage \cup Jumping({"restore"}) : step.k # "rl"}
RlSaved(p) == Ptr(p, "rl") \in {Direct, Bad, saved[p]}
ToPrint == {<<Go("show")>>, <<Use("rl"), Do("show")>>, <<Do("show")>>}
RlKept ==
  ToPrint \cup {<<Do("shown")>>, <<Do("next")>>, Block(gpu, "read", "channel"),
                Tail(Block(gpu, "read", "channel"))}
RlAt(p) ==
  \/ Left(p) = <<Do("seq_start")>> /\ (pos[p] > 0 => "rl" \in GoodPtrs(p))
  \/ Ends(Left(p), Searching, <<Do("set_iter"), Go("show")>>)
  \/ Left(p) \in RlKept /\ "rl" \in GoodPtrs(p)
  \/ Ends(Left(p), AfterSave, <<Do("restore"), Do("shown")>>) /\ RlSaved(p)
  \/ Left(p) = <<Do("return_error")>>

\* There is an entry to show, or the runlist has just been found empty.
ShowsEntry(p) ==
  Left(p) \in ToPrint =>
    pos[p] < Length(p) \/ (Left(p) = <<Go("show")>> /\ Length(p) = 0)

PointersAt(p) ==
  /\ Sound(gpu, call[p], Left(p), GoodPtrs(p), PastPtrs(p))
  /\ walk[p].at \in {"read", "pte", "alloc", "pde"} => ~Astray(p, "pd")
  /\ call[p] = "read" /\ ~(gpu.chip < Pascal) => RlAt(p)

WindowInv ==
  /\ layout = gpu.layout /\ window \in Nat /\ saved \in [Procs -> Nat]
  /\ ptr \in [Procs \cup {"iter", "exit"} -> [Names -> Int]]
  /\ moved \subseteq Actors /\ stored \subseteq Procs
  /\ \A p \in Procs : InCall(p) => \A i \in 1..Len(Left(p)) : Proper(Left(p)[i])
  /\ \A p \in Procs : walk[p].at # "none" => Cur(p).op = "map_pages"
  /\ "readers" \notin seen =>
       \A p \in Procs : call[p] = "read" => ShowsEntry(p)
  /\ Running /\ "readers" \notin seen =>
       \A p \in Procs : InCall(p) /\ p \notin moved => PointersAt(p)
  /\ stray = NoAccess \/ stray.by \in moved \/ KnownStray \/ "readers" \in seen
=============================================================================
