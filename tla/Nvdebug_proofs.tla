--------------------------- MODULE Nvdebug_proofs ---------------------------
(***************************************************************************)
(* Proofs about nvdebug on one GPU, for any number of processes, any calls *)
(* of theirs, any runlists, and any number of pages and devices:           *)
(*                                                                         *)
(*   ExitInvariant         ExitInv is an invariant                         *)
(*   ExitLeavesNothing     ExitSafe: registers are mapped while they may   *)
(*                         be used, no table leads to a page that was      *)
(*                         given back, and a complete exit leaves nothing  *)
(*   EntriesRead           ReadExact: a reader gets every entry of its     *)
(*                         runlist once and in order                       *)
(*   CallsReportHonestly   ReportsHonest: a call that reports success has  *)
(*                         made its mappings, or set its mode              *)
(*   PointersExact         WindowExact: a pointer into the PRAMIN window   *)
(*                         leads where it was made for when it is used     *)
(***************************************************************************)
EXTENDS NvdebugInvariants, SequenceTheorems, FiniteSetTheorems, TLAPS

-----------------------------------------------------------------------------
(* What the operators of the model return. *)

LEMMA MappingFacts ==
  /\ Len(Mappings) = 4
  /\ \A n \in 1..4 :
       /\ Len(Mappings[n]) \in 2..3
       /\ \A l \in 1..Len(Mappings[n]) : Mappings[n][l] \in Indices
<1>1. Len(Mappings) = 4
  BY DEF Mappings
<1>2. ASSUME NEW n \in 1..4
      PROVE  /\ Len(Mappings[n]) \in 2..3
             /\ \A l \in 1..Len(Mappings[n]) : Mappings[n][l] \in Indices
  <2>1. CASE n = 1
    BY <2>1 DEF Mappings, Indices
  <2>2. CASE n = 2
    BY <2>2 DEF Mappings, Indices
  <2>3. CASE n = 3
    BY <2>3 DEF Mappings, Indices
  <2>4. CASE n = 4
    BY <2>4 DEF Mappings, Indices
  <2> QED
    BY <2>1, <2>2, <2>3, <2>4
<1> QED
  BY <1>1, <1>2

\* The page that is allocated is one that was not in use.
LEMMA NextPageUnused ==
  ASSUME Unused # {}
  PROVE  NextPage \in 1..MaxPages /\ NextPage \notin Pages \cup freed \cup leaked
BY DEF NextPage, Unused

LEMMA DriverFacts ==
  ASSUME gpu \in Cases
  PROVE  Driver \in [Indices -> Int] /\ \A i \in Indices : Driver[i] <= 0
BY CasesAssumption DEF Driver, DriversTable

LEMMA TablesStay ==
  ASSUME TableInv, UNCHANGED <<mem, pd_allocs, freed, leaked, gpu>>, FilesGone => FilesGone'
  PROVE  TableInv'
BY DEF TableInv, Driver

\* Calls are only in progress before the exit has removed the files.
LEMMA CallsBeforeExit ==
  ASSUME ModuleInv, CallInv, NEW p \in Procs, InCall(p)
  PROVE  ~FilesGone /\ ~Collected /\ Gpu \in regs
BY DevicesAssumption DEF ModuleInv, CallInv, FilesGone, Collected, Gpu, Devices

-----------------------------------------------------------------------------
(* Steps that leave the tables alone. *)

LEMMA ExitInit == Init => ExitInv
<1> SUFFICES ASSUME Init
             PROVE  ExitInv
  OBVIOUS
<1>1. gpu \in Cases /\ Driver \in [Indices -> Int] /\ \A i \in Indices : Driver[i] <= 0
  BY DriverFacts DEF Init
<1>2. ModuleInv
  BY DevicesAssumption DEF Init, ModuleInit, ModuleInv, Devices
<1>3. CallInv
  BY DEF Init, CallInv, InCall, NoWalk, At
<1>4. WalkInv
  BY PagesAssumption DEF Init, WalkInv, NoWalk, At, Walks, WalkOK
<1>5. TableInv
  BY <1>1, PagesAssumption DEF Init, TablesInit, TableInv, Driver, DriversTable, Indices
<1>6. CollectInv
  BY DEF Init, ModuleInit, CollectInv, Collected
<1> QED
  BY <1>2, <1>3, <1>4, <1>5, <1>6 DEF ExitInv

\* The tables, their walks and the module stay, and at most a call begins,
\* through a file that is there, or one ends that walks no table.
LEMMA QuietStep ==
  ASSUME ExitInv, UNCHANGED <<tableVars, walk, moduleVars, gpu>>,
         call' \in [Procs -> Files \cup {"none"}], made' \in [Procs -> Nat],
         \A p \in Procs : InCall(p)' => files[Gpu] # {},
         \A p \in Procs : walk[p].at # "none" => InCall(p)',
         seen \subseteq seen'
  PROVE  ExitInv'
<1> USE DEF ExitInv, tableVars, moduleVars
<1>1. ModuleInv'
  BY DEF ModuleInv
<1>2. CallInv'
  BY DEF CallInv
<1>3. Driver' = Driver /\ Nodes' = Nodes /\ FilesGone' = FilesGone /\ Collected' = Collected
  BY DEF Driver, Nodes, Pages, FilesGone, Collected
<1>4. WalkInv'
  BY <1>3 DEF WalkInv, WalkOK, Oldest
<1>5. TableInv'
  BY <1>3, TablesStay
<1>6. CollectInv'
  BY <1>3 DEF CollectInv
<1> QED
  BY <1>1, <1>2, <1>4, <1>5, <1>6

\* The steps of a call outside the page tables.
LEMMA CallStepExit ==
  ASSUME ExitInv, NEW p \in Procs, CallStep(p) \/ ReadStep(p)
  PROVE  ExitInv'
<1> USE DEF ExitInv
<1>1. CASE StartCall(p)
  <2> DEFINE c == gpu.calls[p][made[p] + 1]
  <2>1. c \in Files
    BY <1>1, CasesAssumption DEF StartCall, CallInv, Procs
  <2>2. /\ call' = [call EXCEPT ![p] = c] /\ made' = [made EXCEPT ![p] = @ + 1]
        /\ files[Gpu] # {} /\ seen \subseteq seen'
        /\ UNCHANGED <<tableVars, walk, moduleVars, gpu>>
    BY <1>1 DEF StartCall, KeepRest
  <2>3. call' \in [Procs -> Files \cup {"none"}] /\ made' \in [Procs -> Nat]
    BY <2>1, <2>2 DEF CallInv
  <2>4. \A q \in Procs : walk[q].at # "none" => InCall(q)'
    BY <2>1, <2>2 DEF CallInv, InCall, Files
  <2> QED
    BY <2>2, <2>3, <2>4, QuietStep
<1>2. ASSUME NEW r, Finish(p, r), walk[p].at = "none",
             UNCHANGED <<tableVars, walk, moduleVars, gpu>>
      PROVE  ExitInv'
  <2>1. /\ call' = [call EXCEPT ![p] = "none"] /\ UNCHANGED made /\ seen \subseteq seen'
    BY <1>2 DEF Finish
  <2>2. call' \in [Procs -> Files \cup {"none"}] /\ made' \in [Procs -> Nat]
    BY <2>1 DEF CallInv
  <2>3. \A q \in Procs : InCall(q)' => files[Gpu] # {}
    BY <2>1 DEF CallInv, InCall
  <2>4. \A q \in Procs : walk[q].at # "none" => InCall(q)'
    BY <1>2, <2>1 DEF CallInv, InCall
  <2> QED
    BY <1>2, <2>1, <2>2, <2>3, <2>4, QuietStep
<1>3. CASE UNCHANGED <<tableVars, walk, moduleVars, gpu, call, made, seen>>
  BY <1>3, QuietStep DEF CallInv, InCall
<1>4. CASE Return(p)
  BY <1>2, <1>4 DEF Return, Doing, KeepMemory, KeepRest
<1>5. CASE SeqStart(p) \/ SeqEmpty(p)
  BY <1>2, <1>3, <1>5 DEF SeqStart, SeqEmpty, FoundEmpty, Doing, KeepMemory, KeepRest
<1>6. CASE ReadRegister(p) \/ LookAtWindow(p) \/ MoveWindow(p) \/ UsePointer(p) \/ GoAstray(p)
  BY <1>3, <1>6
  DEF ReadRegister, LookAtWindow, MoveWindow, UsePointer, GoAstray, KeepMemory, KeepCall, KeepRest
<1>7. CASE LocalStep(p)
  BY <1>3, <1>7 DEF LocalStep, KeepRest
<1>8. CASE Iterate(p) \/ SeqShow(p) \/ Shown(p) \/ SeqAdvance(p)
  BY <1>3, <1>8 DEF Iterate, SeqShow, Shown, SeqAdvance, KeepMemory, KeepCall, KeepRest
<1> QED
  BY <1>1, <1>4, <1>5, <1>6, <1>7, <1>8 DEF CallStep, ReadStep

-----------------------------------------------------------------------------
(* Walks through the tables. *)

LEMMA MappingOf ==
  ASSUME NEW n \in 1..4, NEW l \in 1..Len(Mappings[n])
  PROVE  /\ l \in 1..3 /\ Mappings[n][l] \in Indices
         /\ Len(Mappings[n]) \in 2..3
BY MappingFacts

\* A positive entry leads to a page that is recorded.
LEMMA LeadsToPage ==
  ASSUME TableInv, NEW t \in 0..MaxPages, NEW i \in Indices, mem[t][i] > 0
  PROVE  mem[t][i] \in Pages /\ mem[t][i] \in 1..MaxPages
<1>1. PICK k \in DOMAIN pd_allocs : pd_allocs[k] = [page |-> mem[t][i], table |-> t, idx |-> i]
  BY DEF TableInv
<1>2. pd_allocs[k] \in Allocations
  <2>1. pd_allocs \in Seq(Allocations)
    BY DEF TableInv
  <2> QED
    BY <2>1
<1>3. pd_allocs[k].page = mem[t][i]
  BY <1>1
<1> QED
  BY <1>2, <1>3 DEF Pages, Allocations

\* A walk goes on, the tables stay.
LEMMA WalkMoves ==
  ASSUME ExitInv, NEW p \in Procs, InCall(p), NEW w \in Walks, WalkOK(w),
         walk' = [walk EXCEPT ![p] = w],
         UNCHANGED <<tableVars, moduleVars, gpu, call, made, seen>>
  PROVE  ExitInv'
<1> USE DEF ExitInv, tableVars, moduleVars
<1>1. ModuleInv'
  BY DEF ModuleInv
<1>2. CallInv'
  BY DEF CallInv, WalkInv, InCall
<1>3. Driver' = Driver /\ Nodes' = Nodes /\ FilesGone' = FilesGone /\ Collected' = Collected
  BY DEF Driver, Nodes, Pages, FilesGone, Collected
<1>4. p # "exit"
  BY CasesAssumption DEF Procs
<1>5. WalkInv'
  BY <1>3, <1>4 DEF WalkInv, WalkOK, Oldest
<1>6. TableInv'
  BY <1>3, TablesStay
<1>7. CollectInv'
  BY <1>3 DEF CollectInv
<1> QED
  BY <1>1, <1>2, <1>5, <1>6, <1>7

\* It begins a mapping, or has made them all.
LEMMA FirstLevel ==
  ASSUME NEW n \in 1..4
  PROVE  At(n, 1, 0, "deref") \in Walks /\ WalkOK(At(n, 1, 0, "deref"))
BY MappingFacts, PagesAssumption DEF At, Walks, WalkOK, Nodes

LEMMA NextMappingOK ==
  ASSUME NEW p, NextMapping(p), walk[p].n \in 1..4
  PROVE  \E w \in Walks : WalkOK(w) /\ walk' = [walk EXCEPT ![p] = w]
<1>1. At(0, 0, 0, "mapped") \in Walks /\ WalkOK(At(0, 0, 0, "mapped"))
  BY PagesAssumption DEF At, Walks, WalkOK
<1>2. CASE walk[p].n = 4
  BY <1>1, <1>2, MappingFacts DEF NextMapping, Goes
<1>3. CASE walk[p].n # 4
  <2>1. walk[p].n + 1 \in 1..4
    BY <1>3
  <2>2. walk' = [walk EXCEPT ![p] = At(walk[p].n + 1, 1, 0, "deref")]
    BY <1>3, MappingFacts DEF NextMapping, Goes
  <2> QED
    BY <2>1, <2>2, FirstLevel
<1> QED
  BY <1>2, <1>3

LEMMA StartWalkExit ==
  ASSUME ExitInv, NEW p \in Procs, StartWalk(p)
  PROVE  ExitInv'
<1>1. /\ walk' = [walk EXCEPT ![p] = At(1, 1, 0, "deref")] /\ InCall(p)
      /\ UNCHANGED <<tableVars, moduleVars, gpu, call, made, seen>>
  BY DEF StartWalk, Doing, Goes, KeepCall, KeepRest
<1>2. At(1, 1, 0, "deref") \in Walks /\ WalkOK(At(1, 1, 0, "deref"))
  BY FirstLevel
<1> QED
  BY <1>1, <1>2, WalkMoves

\* Where a process walks.
LEMMA WalkFacts ==
  ASSUME ExitInv, NEW p \in Procs,
         walk[p].at \in {"deref", "move", "read", "pte", "alloc", "pde"}
  PROVE  /\ walk[p] \in Walks /\ WalkOK(walk[p])
         /\ InCall(p)
         /\ walk[p].n \in 1..4 /\ walk[p].level \in 1..Len(Mappings[walk[p].n])
         /\ walk[p].level \in 1..3 /\ Mappings[walk[p].n][walk[p].level] \in Indices
         /\ walk[p].table \in Nodes /\ walk[p].table \in 0..MaxPages
         /\ walk[p].table = 0 <=> walk[p].level = 1
         /\ Entry(walk[p]) = mem[walk[p].table][Mappings[walk[p].n][walk[p].level]]
         /\ Entry(walk[p]) \in Int
<1>1. walk[p] \in Walks /\ WalkOK(walk[p]) /\ InCall(p)
  BY DEF ExitInv, WalkInv, CallInv
<1>2. /\ walk[p].n \in 1..4 /\ walk[p].level \in 1..Len(Mappings[walk[p].n])
      /\ walk[p].table \in Nodes /\ walk[p].table \in 0..MaxPages
      /\ walk[p].table = 0 <=> walk[p].level = 1
  BY <1>1 DEF WalkOK, Walks
<1>3. /\ walk[p].level \in 1..3 /\ Mappings[walk[p].n][walk[p].level] \in Indices
  BY <1>2, MappingOf
<1>4. Entry(walk[p]) \in Int
  BY <1>2, <1>3 DEF Entry, ExitInv, TableInv
<1> QED
  BY <1>1, <1>2, <1>3, <1>4 DEF Entry

LEMMA DerefTableExit ==
  ASSUME ExitInv, NEW p \in Procs, DerefTable(p) \/ MoveToTable(p),
         UNCHANGED <<moduleVars, gpu, call, made, seen>>
  PROVE  ExitInv'
<1>1. walk[p].at \in {"deref", "move"} /\ UNCHANGED tableVars
  BY DEF DerefTable, MoveToTable
<1>2. PICK at \in {"read", "move"} : walk' = [walk EXCEPT ![p] = [walk[p] EXCEPT !.at = at]]
  BY DEF DerefTable, MoveToTable, Goes
<1>3. [walk[p] EXCEPT !.at = at] \in Walks /\ WalkOK([walk[p] EXCEPT !.at = at])
  BY <1>1, WalkFacts DEF Walks, WalkOK
<1> QED
  BY <1>1, <1>2, <1>3, WalkFacts, WalkMoves

LEMMA ReadEntryExit ==
  ASSUME ExitInv, NEW p \in Procs, ReadEntry(p),
         UNCHANGED <<moduleVars, gpu, call, made, seen>>
  PROVE  ExitInv'
<1> DEFINE w == walk[p]
           e == Entry(w)
           i == Mappings[w.n][w.level]
<1>1. w.at = "read" /\ UNCHANGED tableVars
  BY DEF ReadEntry
<1>2. /\ w \in Walks /\ WalkOK(w) /\ InCall(p) /\ w.n \in 1..4 /\ w.level \in 1..Len(Mappings[w.n])
      /\ w.level \in 1..3 /\ i \in Indices /\ w.table \in Nodes /\ w.table \in 0..MaxPages
      /\ w.table = 0 <=> w.level = 1
      /\ e = mem[w.table][i] /\ e \in Int
  BY <1>1, WalkFacts
<1>3. CASE e = 0 /\ Goes(p, [w EXCEPT !.at = IF LastLevel(w) THEN "pte" ELSE "alloc"])
  <2> DEFINE at == IF LastLevel(w) THEN "pte" ELSE "alloc"
  <2>1. w.table = 0 => Driver[i] = 0
    BY <1>2, <1>3 DEF ExitInv, TableInv
  <2>2. [w EXCEPT !.at = at] \in Walks
    BY <1>2 DEF Walks
  <2>3. WalkOK([w EXCEPT !.at = at])
    BY <1>2, <2>1 DEF Walks, WalkOK, LastLevel
  <2> QED
    BY <1>1, <1>2, <1>3, <2>2, <2>3, WalkMoves DEF Goes
<1>4. CASE e > 0 /\ ~LastLevel(w) /\ Goes(p, At(w.n, w.level + 1, e, "deref"))
  <2>1. mem[w.table][i] > 0 /\ mem[w.table][i] = e
    BY <1>2, <1>4
  <2>2. e \in Pages /\ e \in 1..MaxPages
    BY <1>2, <2>1, LeadsToPage DEF ExitInv
  <2>3. w.level + 1 \in 1..Len(Mappings[w.n]) /\ w.level + 1 \in 2..3
    <3>1. Len(Mappings[w.n]) \in 2..3
      BY <1>2, MappingFacts
    <3>2. w.level # Len(Mappings[w.n])
      BY <1>4 DEF LastLevel
    <3>3. \A k \in 2..3, l \in 1..3 : l \in 1..k /\ l # k => l + 1 \in 1..k /\ l + 1 \in 2..3
      OBVIOUS
    <3>4. w.level \in 1..3 /\ w.level \in 1..Len(Mappings[w.n])
      BY <1>2
    <3> HIDE DEF w
    <3> QED
      BY <3>1, <3>2, <3>3, <3>4
  <2>4. At(w.n, w.level + 1, e, "deref") \in Walks /\ WalkOK(At(w.n, w.level + 1, e, "deref"))
    <3> DEFINE next == At(w.n, w.level + 1, e, "deref")
    <3>1. next \in Walks
      <4>1. w.n \in 0..4 /\ w.level + 1 \in 0..3 /\ e \in 0..MaxPages /\ 0 \in 0..MaxPages
        <5>1. w.n \in 0..4
          BY <1>2
        <5>2. w.level + 1 \in 0..3
          BY <2>3
        <5>3. e \in 0..MaxPages /\ 0 \in 0..MaxPages
          BY <2>2, PagesAssumption
        <5> QED
          BY <5>1, <5>2, <5>3
      <4> QED
        BY <4>1 DEF At, Walks
    <3>2. e \in Nodes /\ e # 0 /\ w.level + 1 # 1
      BY <1>2, <2>2, SMTT(30) DEF Nodes
    <3>3. WalkOK(next)
      BY <1>2, <2>3, <3>2 DEF At, WalkOK
    <3> QED
      BY <3>1, <3>3
  <2> QED
    BY <1>1, <1>2, <1>4, <2>4, WalkMoves DEF Goes
<1> QED
  BY <1>3, <1>4 DEF ReadEntry

\* A walk goes on and the tables change, but none is forgotten.
LEMMA TablesMove ==
  ASSUME ExitInv, NEW p \in Procs, InCall(p), NEW w \in Walks, WalkOK(w)',
         walk' = [walk EXCEPT ![p] = w],
         pd_allocs' \in Seq(Allocations), DOMAIN pd_allocs \subseteq DOMAIN pd_allocs',
         \A k \in DOMAIN pd_allocs : pd_allocs'[k] = pd_allocs[k],
         TableInv',
         UNCHANGED <<moduleVars, gpu, call, made, seen>>
  PROVE  ExitInv'
<1> USE DEF ExitInv, moduleVars
<1>1. ModuleInv'
  BY DEF ModuleInv
<1>2. CallInv'
  BY DEF CallInv, WalkInv, InCall
<1>3. pd_allocs \in Seq(Allocations)
  BY DEF TableInv
<1>4. \A k \in DOMAIN pd_allocs : k \in DOMAIN pd_allocs'
  BY <1>3
<1>5. Driver' = Driver
  BY DEF Driver
<1>6. \A t \in Nodes : t \in Nodes'
  BY <1>4 DEF Nodes, Pages
<1>7. ASSUME NEW u, WalkOK(u)
      PROVE  WalkOK(u)'
  BY <1>4, <1>5, <1>6, <1>7 DEF WalkOK
<1>8. p # "exit"
  BY CasesAssumption DEF Procs
<1>9. pd_allocs # <<>> => pd_allocs' # <<>> /\ Oldest' = Oldest
  <2>1. SUFFICES ASSUME pd_allocs # <<>>
                 PROVE  pd_allocs' # <<>> /\ Oldest' = Oldest
    OBVIOUS
  <2>2. 1 \in DOMAIN pd_allocs /\ 1 \in DOMAIN pd_allocs'
    BY <1>3, <2>1
  <2> QED
    BY <1>3, <2>1, <2>2 DEF Oldest
<1>10. WalkInv'
  BY <1>7, <1>8, <1>9 DEF WalkInv
<1>11. CollectInv'
  BY CallsBeforeExit DEF CollectInv, Collected
<1> QED
  BY <1>1, <1>2, <1>10, <1>11

\* No page has been given back while calls are made.
LEMMA NothingFreed ==
  ASSUME ExitInv, NEW p \in Procs, InCall(p)
  PROVE  freed = {}
BY CallsBeforeExit DEF ExitInv, TableInv

LEMMA WritePteExit ==
  ASSUME ExitInv, NEW p \in Procs, WritePte(p),
         UNCHANGED <<moduleVars, gpu, call, made, seen>>
  PROVE  ExitInv'
<1> DEFINE t == walk[p].table
           n == walk[p].n
           i == Mappings[n][walk[p].level]
<1>1. /\ walk[p].at = "pte" /\ NextMapping(p)
      /\ mem' = [mem EXCEPT ![t][i] = -n]
      /\ UNCHANGED <<pd_allocs, freed, leaked>>
  BY DEF WritePte, Store
<1>2. /\ InCall(p) /\ n \in 1..4 /\ i \in Indices /\ t \in 0..MaxPages
      /\ WalkOK(walk[p]) /\ (t = 0 <=> walk[p].level = 1)
  BY <1>1, WalkFacts
<1>3. t # 0
  <2>1. walk[p].level = Len(Mappings[n])
    BY <1>1, <1>2 DEF WalkOK, LastLevel
  <2>2. Len(Mappings[n]) \in 2..3
    BY <1>2, MappingFacts
  <2>3. walk[p].level # 1
    BY <2>1, <2>2, SMTT(30)
  <2> QED
    BY <1>2, <2>3
<1>4. PICK w \in Walks : WalkOK(w) /\ walk' = [walk EXCEPT ![p] = w]
  BY <1>1, <1>2, NextMappingOK
<1>5. WalkOK(w)'
  BY <1>1, <1>4 DEF WalkOK, Nodes, Pages, Driver
<1>6. /\ mem' \in [0..MaxPages -> [Indices -> Int]]
      /\ \A s \in 0..MaxPages, j \in Indices :
           mem'[s][j] = IF s = t /\ j = i THEN -n ELSE mem[s][j]
      /\ -n < 0
  BY <1>1, <1>2 DEF ExitInv, TableInv
<1>7. freed = {}
  BY <1>2, NothingFreed
<1>8. TableInv'
  BY <1>1, <1>3, <1>6, <1>7, PagesAssumption, SMTT(30) DEF ExitInv, TableInv, Driver
<1>9. pd_allocs \in Seq(Allocations)
  BY DEF ExitInv, TableInv
<1> QED
  BY <1>1, <1>2, <1>4, <1>5, <1>8, <1>9, TablesMove

LEMMA LinkPageExit ==
  ASSUME ExitInv, NEW p \in Procs, LinkPage(p),
         UNCHANGED <<moduleVars, gpu, call, made, seen>>
  PROVE  ExitInv'
<1> DEFINE t == walk[p].table
           n == walk[p].n
           l == walk[p].level
           i == Mappings[n][l]
           page == walk[p].page
<1>1. /\ walk[p].at = "pde"
      /\ walk' = [walk EXCEPT ![p] = At(n, l + 1, page, "deref")]
      /\ mem' = [mem EXCEPT ![t][i] = page]
      /\ UNCHANGED <<pd_allocs, freed, leaked>>
  BY DEF LinkPage, Store, Goes
<1>2. /\ InCall(p) /\ n \in 1..4 /\ i \in Indices /\ t \in 0..MaxPages
      /\ l \in 1..Len(Mappings[n]) /\ l \in 1..3
      /\ WalkOK(walk[p]) /\ (t = 0 <=> l = 1)
  BY <1>1, WalkFacts
<1>3. pd_allocs \in Seq(Allocations)
  BY DEF ExitInv, TableInv
<1>4. PICK k \in DOMAIN pd_allocs : pd_allocs[k] = [page |-> page, table |-> t, idx |-> i]
  BY <1>1, <1>2 DEF WalkOK
<1>5. page \in Pages /\ page \in 1..MaxPages
  <2>1. pd_allocs[k] \in Allocations /\ pd_allocs[k].page = page
    BY <1>3, <1>4
  <2> QED
    BY <2>1 DEF Pages, Allocations
<1>6. l + 1 \in 1..Len(Mappings[n]) /\ l + 1 \in 2..3
  <2>1. Len(Mappings[n]) \in 2..3
    BY <1>2, MappingFacts
  <2>2. l # Len(Mappings[n])
    BY <1>1, <1>2 DEF WalkOK, LastLevel
  <2>3. \A m \in 2..3, x \in 1..3 : x \in 1..m /\ x # m => x + 1 \in 1..m /\ x + 1 \in 2..3
    OBVIOUS
  <2>4. l \in 1..3 /\ l \in 1..Len(Mappings[n])
    BY <1>2
  <2> HIDE DEF l
  <2> QED
    BY <2>1, <2>2, <2>3, <2>4
<1>7. PICK w \in Walks : w = At(n, l + 1, page, "deref")
  <2>1. n \in 0..4 /\ l + 1 \in 0..3 /\ page \in 0..MaxPages /\ 0 \in 0..MaxPages
    BY <1>2, <1>5, <1>6, PagesAssumption
  <2> QED
    BY <2>1 DEF At, Walks
<1>8. WalkOK(w)'
  <2>1. page \in Nodes' /\ page # 0 /\ l + 1 # 1
    BY <1>1, <1>5, <1>6 DEF Nodes, Pages
  <2>2. w.at = "deref" /\ w.n = n /\ w.level = l + 1 /\ w.table = page
    BY <1>7 DEF At
  <2>3. PICK m \in 1..4, x \in 2..3 : /\ w.n = m /\ w.level = x /\ x \in 1..Len(Mappings[m]) /\ x # 1
    BY <1>2, <1>6, <2>2
  <2>4. w.table \in Nodes' /\ w.table # 0
    BY <2>1, <2>2
  <2> QED
    BY <2>2, <2>3, <2>4 DEF WalkOK
<1>9. t = 0 => Driver[i] = 0
  BY <1>1, <1>2 DEF WalkOK
<1>10. /\ mem' \in [0..MaxPages -> [Indices -> Int]]
       /\ \A s \in 0..MaxPages, j \in Indices :
            mem'[s][j] = IF s = t /\ j = i THEN page ELSE mem[s][j]
       /\ page > 0
  BY <1>1, <1>2, <1>5 DEF ExitInv, TableInv
<1>11. freed = {}
  BY <1>2, NothingFreed
<1>12. \A s \in 0..MaxPages, j \in Indices : mem'[s][j] > 0 =>
         \E x \in DOMAIN pd_allocs : pd_allocs[x] = [page |-> mem'[s][j], table |-> s, idx |-> j]
  BY <1>4, <1>10, SMTT(30) DEF ExitInv, TableInv
<1>13. \A j \in Indices : mem'[0][j] = Driver[j] \/ (mem'[0][j] > 0 /\ Driver[j] = 0)
  BY <1>9, <1>10, PagesAssumption DEF ExitInv, TableInv
<1>14. TableInv'
  BY <1>1, <1>10, <1>11, <1>12, <1>13, SMTT(30) DEF ExitInv, TableInv, Driver
<1> QED
  BY <1>1, <1>2, <1>3, <1>7, <1>8, <1>14, TablesMove

LEMMA SkipMappingExit ==
  ASSUME ExitInv, NEW p \in Procs, SkipMapping(p),
         UNCHANGED <<moduleVars, gpu, call, made, seen>>
  PROVE  ExitInv'
<1>1. walk[p].at = "read" /\ NextMapping(p) /\ UNCHANGED tableVars
  BY DEF SkipMapping, Exists
<1>2. InCall(p) /\ walk[p].n \in 1..4
  BY <1>1, WalkFacts
<1>3. PICK w \in Walks : WalkOK(w) /\ walk' = [walk EXCEPT ![p] = w]
  BY <1>1, <1>2, NextMappingOK
<1> QED
  BY <1>1, <1>2, <1>3, WalkMoves

LEMMA AllocateExit ==
  ASSUME ExitInv, NEW p \in Procs, Allocate(p),
         UNCHANGED <<moduleVars, gpu, call, made, seen>>
  PROVE  ExitInv'
<1>1. PICK page \in 1..MaxPages, t \in 0..MaxPages, i \in Indices :
        /\ page = NextPage /\ page \notin Pages \cup freed \cup leaked
        /\ t = walk[p].table /\ i = Mappings[walk[p].n][walk[p].level]
        /\ pd_allocs' = Append(pd_allocs, [page |-> page, table |-> t, idx |-> i])
        /\ walk' = [walk EXCEPT ![p] = [walk[p] EXCEPT !.at = "pde", !.page = page]]
  <2>1. walk[p].at = "alloc" /\ Unused # {}
    BY DEF Allocate
  <2>2. NextPage \in 1..MaxPages /\ NextPage \notin Pages \cup freed \cup leaked
    BY <2>1, NextPageUnused
  <2>3. walk[p].table \in 0..MaxPages /\ Mappings[walk[p].n][walk[p].level] \in Indices
    BY <2>1, WalkFacts
  <2> QED
    BY <2>2, <2>3 DEF Allocate, Goes
<1>2. walk[p].at = "alloc" /\ UNCHANGED <<mem, freed, leaked>>
  BY DEF Allocate
<1>3. /\ walk[p] \in Walks /\ WalkOK(walk[p]) /\ InCall(p) /\ t \in Nodes
  BY <1>1, <1>2, WalkFacts
<1>4. pd_allocs \in Seq(Allocations)
  BY DEF ExitInv, TableInv
<1> DEFINE e == [page |-> page, table |-> t, idx |-> i]
           last == Len(pd_allocs) + 1
<1>5. e \in Allocations
  BY DEF Allocations
<1>6. /\ pd_allocs' \in Seq(Allocations)
      /\ DOMAIN pd_allocs' = 1..last /\ DOMAIN pd_allocs = 1..(last - 1) /\ last \in Nat \ {0}
      /\ \A k \in DOMAIN pd_allocs : pd_allocs'[k] = pd_allocs[k]
      /\ pd_allocs'[last] = e
  BY <1>1, <1>4, <1>5
<1> HIDE DEF e, last
<1>7. \A k \in DOMAIN pd_allocs' : k = last \/ k \in DOMAIN pd_allocs
  BY <1>6
<1>8. e.page = page /\ e.table = t /\ e.idx = i
  BY DEF e
<1>9. \A k \in DOMAIN pd_allocs : pd_allocs[k].page # page
  BY <1>1 DEF Pages
<1>10. TableInv'
  <2>1. \A j, k \in DOMAIN pd_allocs' : pd_allocs'[j].page = pd_allocs'[k].page => j = k
    BY <1>6, <1>7, <1>8, <1>9 DEF ExitInv, TableInv
  <2>2. \A k \in DOMAIN pd_allocs' : pd_allocs'[k].page \notin freed'
    BY <1>1, <1>2, <1>6, <1>7, <1>8 DEF ExitInv, TableInv
  <2>3. \/ t \in {0} \cup freed'
        \/ \E j \in 1..(last - 1) : pd_allocs'[j].page = t
    BY <1>2, <1>3, <1>6 DEF Nodes, Pages
  <2>4. ASSUME NEW k \in DOMAIN pd_allocs'
        PROVE  \/ pd_allocs'[k].table \in {0} \cup freed'
               \/ \E j \in 1..(k - 1) : pd_allocs'[j].page = pd_allocs'[k].table
    <3>1. CASE k = last
      BY <1>6, <1>8, <2>3, <3>1
    <3>2. CASE k \in DOMAIN pd_allocs
      <4>1. \A j \in 1..(k - 1) : j \in DOMAIN pd_allocs
        BY <1>6, <3>2
      <4> QED
        BY <1>2, <1>6, <3>2, <4>1, SMTT(30) DEF ExitInv, TableInv
    <3> QED
      BY <1>7, <3>1, <3>2
  <2>5. \A s \in 0..MaxPages, j \in Indices : mem'[s][j] > 0 =>
          \E k \in DOMAIN pd_allocs' : pd_allocs'[k] = [page |-> mem'[s][j], table |-> s, idx |-> j]
    BY <1>2, <1>6 DEF ExitInv, TableInv
  <2>6. freed' = {}
    BY <1>2, <1>3, NothingFreed
  <2>7. Driver' = Driver
    BY DEF Driver
  <2> QED
    BY <1>2, <1>6, <2>1, <2>2, <2>4, <2>5, <2>6, <2>7 DEF ExitInv, TableInv
<1>11. PICK w \in Walks : w = [walk[p] EXCEPT !.at = "pde", !.page = page]
  <2>1. page \in 0..MaxPages
    BY PagesAssumption
  <2>2. [walk[p] EXCEPT !.at = "pde", !.page = page] \in Walks
    BY <1>3, <2>1 DEF Walks
  <2> QED
    BY <2>2
<1>12. WalkOK(w)'
  <2>1. /\ w.at = "pde" /\ w.page = page /\ w.table = t /\ w.n = walk[p].n
        /\ w.level = walk[p].level
    BY <1>1, <1>3, <1>11 DEF Walks
  <2>2. t \in Nodes' /\ Driver' = Driver
    BY <1>3, <1>6 DEF Nodes, Pages, Driver
  <2>3. /\ walk[p].n \in 1..4 /\ walk[p].level \in 1..Len(Mappings[walk[p].n])
        /\ (t = 0 <=> walk[p].level = 1) /\ ~LastLevel(walk[p])
        /\ t = 0 => Driver[i] = 0
    BY <1>1, <1>2, <1>3 DEF WalkOK
  <2>4. last \in DOMAIN pd_allocs' /\ pd_allocs'[last] = [page |-> page, table |-> t, idx |-> i]
    BY <1>6 DEF e
  <2> QED
    BY <1>1, <2>1, <2>2, <2>3, <2>4 DEF WalkOK, LastLevel
<1>13. DOMAIN pd_allocs \subseteq DOMAIN pd_allocs'
  BY <1>6
<1> QED
  BY <1>1, <1>3, <1>6, <1>10, <1>11, <1>12, <1>13, TablesMove

LEMMA WalkStepExit ==
  ASSUME ExitInv, NEW p \in Procs, WalkStep(p)
  PROVE  ExitInv'
<1>1. UNCHANGED <<moduleVars, gpu, call, made, seen>>
  BY DEF WalkStep, KeepCall, KeepRest
<1> QED
  BY <1>1, DerefTableExit, ReadEntryExit, WritePteExit, SkipMappingExit, AllocateExit,
     LinkPageExit
  DEF WalkStep

\* A walk ends with its call; a page that cannot be mapped is lost.
LEMMA WalkEndsExit ==
  ASSUME ExitInv, NEW p \in Procs, WalkEnds(p)
  PROVE  ExitInv'
<1> USE DEF ExitInv
<1>1. /\ walk' = [walk EXCEPT ![p] = NoWalk] /\ call' = [call EXCEPT ![p] = "none"]
      /\ UNCHANGED <<moduleVars, gpu, made, mem, pd_allocs, freed>> /\ seen \subseteq seen'
  BY DEF WalkEnds, EndWalk, Goes, Finish, KeepRest, tableVars
<1>2. leaked' \subseteq 1..MaxPages
  <2>1. UNCHANGED leaked \/ (Unused # {} /\ leaked' = leaked \cup {NextPage})
    BY DEF WalkEnds, LosePage, tableVars
  <2>2. leaked \subseteq 1..MaxPages
    BY DEF TableInv
  <2> QED
    BY <2>1, <2>2, NextPageUnused
<1>3. ModuleInv'
  BY <1>1 DEF ModuleInv, moduleVars
<1>4. p # "exit"
  BY CasesAssumption DEF Procs
<1>5. NoWalk \in Walks /\ NoWalk.at = "none"
  BY PagesAssumption DEF NoWalk, At, Walks
<1>6. CallInv'
  BY <1>1, <1>5 DEF CallInv, WalkInv, InCall, moduleVars
<1>7. /\ Driver' = Driver /\ Nodes' = Nodes /\ Oldest' = Oldest
      /\ FilesGone' = FilesGone /\ Collected' = Collected
  BY <1>1 DEF Driver, Nodes, Pages, Oldest, FilesGone, Collected, moduleVars
<1>8. WalkInv'
  BY <1>1, <1>4, <1>5, <1>7 DEF WalkInv, WalkOK
<1>9. TableInv'
  BY <1>1, <1>2, <1>7 DEF TableInv
<1>10. CollectInv'
  BY <1>1, <1>7 DEF CollectInv
<1> QED
  BY <1>3, <1>6, <1>8, <1>9, <1>10

LEMMA DriverMovesExit == ExitInv /\ DriverMoves => ExitInv'
BY QuietStep DEF DriverMoves, callVars, tableVars, ExitInv, CallInv, InCall, moduleVars

-----------------------------------------------------------------------------
(* The module comes and goes. *)

LEMMA FileOrderFacts ==
  /\ DOMAIN FileOrder = 1..4
  /\ {"gpu", "bogus"} \subseteq FileNames
  /\ \A n \in 1..4 : MadeFiles(n) \in SUBSET FileNames /\ MadeFiles(n) # {}
<1>1. DOMAIN FileOrder = 1..4 /\ FileOrder[1] = "gpu"
  BY DEF FileOrder
<1>2. ASSUME NEW n \in 1..4
      PROVE  MadeFiles(n) \in SUBSET FileNames /\ MadeFiles(n) # {}
  <2>1. 1 \in 1..n /\ \A i \in 1..n : i \in DOMAIN FileOrder
    BY <1>1
  <2> QED
    BY <2>1 DEF MadeFiles, FileNames
<1> QED
  BY <1>1, <1>2 DEF FileNames

\* What each step of the module keeps: FilesGone and Collected once they hold,
\* and the files of a GPU that is in use.
ModuleKeeps ==
  /\ ModuleInv'
  /\ FilesGone => FilesGone'
  /\ Collected' => Collected
  /\ files[Gpu] # {} => files'[Gpu] # {} \/ \A p \in Procs : ~InCall(p)

LEMMA ModuleStarts ==
  ASSUME ModuleInv,
         Probe \/ ProbeFails \/ CreateFiles \/ CreateBogus \/ CreateFails \/ Undo(Busy)
  PROVE  ModuleKeeps
<1> USE DevicesAssumption DEF Stage, Devices, Gpu, FilesGone, Collected, ModuleKeeps
<1>1. CASE Probe
  BY <1>1 DEF Probe, ModuleInv
<1>2. CASE ProbeFails
  BY <1>2 DEF ProbeFails, ModuleInv
<1>3. CASE CreateFiles
  <2>1. PICK n \in 1..4 :
          /\ files' = [files EXCEPT ![device] = MadeFiles(n)]
          /\ IF n < 4 THEN Stage("files", device)
             ELSE IF device = 0 THEN Stage("loaded", 0) ELSE Stage("files", device - 1)
    BY <1>3, FileOrderFacts DEF CreateFiles
  <2>2. MadeFiles(n) \in SUBSET FileNames /\ MadeFiles(n) # {}
    BY FileOrderFacts
  <2>3. stage = "files" /\ UNCHANGED <<regs, irq>>
    BY <1>3 DEF CreateFiles
  <2>4. stage' \in {"files", "loaded"} /\ device' \in Devices
    BY <2>1, <2>3 DEF ModuleInv
  <2>5. files' \in [Devices -> SUBSET FileNames] /\ (files[Gpu] # {} => files'[Gpu] # {})
    BY <2>1, <2>2, <2>3 DEF ModuleInv
  <2> QED
    BY <2>3, <2>4, <2>5 DEF ModuleInv
<1>4. CASE CreateBogus
  BY <1>4, FileOrderFacts DEF CreateBogus, ModuleInv
<1>5. CASE CreateFails
  BY <1>5 DEF CreateFails, ModuleInv
<1>6. CASE Undo(Busy)
  BY <1>6 DEF Undo, ModuleInv, Busy
<1> QED
  BY <1>1, <1>2, <1>3, <1>4, <1>5, <1>6

LEMMA ModuleEnds ==
  ASSUME ModuleInv, Rmmod \/ RemoveFiles(Busy) \/ FreeIrq \/ Unmap
  PROVE  ModuleKeeps
<1> USE DevicesAssumption DEF Stage, Devices, Gpu, FilesGone, Collected, ModuleKeeps
<1>1. CASE Rmmod
  BY <1>1 DEF Rmmod, ModuleInv
<1>2. CASE RemoveFiles(Busy)
  BY <1>2 DEF RemoveFiles, ModuleInv, Busy
<1>3. CASE FreeIrq
  BY <1>3 DEF FreeIrq, ModuleInv
<1>4. CASE Unmap
  <2>1. stage = "unmap" /\ regs' = regs \ {device} /\ UNCHANGED <<irq, files>>
    BY <1>4 DEF Unmap
  <2>2. regs' = 0..(device - 1) /\ irq \subseteq regs'
    BY <2>1 DEF ModuleInv
  <2>3. CASE device = 0
    <3>1. stage' = "unloaded" /\ device' = 0 /\ regs' = {}
      BY <1>4, <2>2, <2>3 DEF Unmap
    <3> QED
      BY <2>1, <2>2, <2>3, <3>1 DEF ModuleInv
  <2>4. CASE device # 0
    <3>1. stage' = "closing" /\ device' = device - 1 /\ device' \in Devices
      BY <1>4, <2>4 DEF Unmap, ModuleInv
    <3> QED
      BY <2>1, <2>2, <3>1 DEF ModuleInv
  <2> QED
    BY <2>3, <2>4
<1> QED
  BY <1>1, <1>2, <1>3, <1>4

LEMMA ModuleStepExit ==
  ASSUME ExitInv, ModuleStep
  PROVE  ExitInv'
<1> USE DEF ExitInv
<1>1. UNCHANGED <<tableVars, walk, gpu, callVars>>
  BY DEF ModuleStep, KeepMemory
<1>2. ModuleKeeps
  BY ModuleStarts, ModuleEnds DEF ModuleStep
<1>4. CallInv'
  BY <1>1, <1>2 DEF CallInv, ModuleKeeps, InCall, callVars
<1>5. Driver' = Driver /\ Nodes' = Nodes /\ Oldest' = Oldest
  BY <1>1 DEF Driver, Nodes, Pages, Oldest, tableVars
<1>6. WalkInv'
  BY <1>1, <1>5 DEF WalkInv, WalkOK, tableVars
<1>7. TableInv'
  BY <1>1, <1>2, TablesStay DEF ModuleKeeps, tableVars
<1>8. CollectInv'
  BY <1>1, <1>2 DEF CollectInv, ModuleKeeps, tableVars, callVars
<1> QED
  BY <1>2, <1>4, <1>6, <1>7, <1>8 DEF ModuleKeeps

-----------------------------------------------------------------------------
(* The pages are collected. *)

\* The exit looks at the oldest allocation, and no call is in progress.
LEMMA CollectingFacts ==
  ASSUME ExitInv, Collecting
  PROVE  /\ FilesGone /\ ~Collected
         /\ \A p \in Procs : walk[p].at = "none" /\ ~InCall(p)
         /\ pd_allocs \in Seq(Allocations) /\ pd_allocs # <<>>
         /\ Oldest = pd_allocs[1] /\ 1 \in DOMAIN pd_allocs /\ Oldest \in Allocations
<1>1. FilesGone /\ ~Collected
  BY DEF Collecting, FilesGone, Collected
<1>2. \A p \in Procs : walk[p].at = "none" /\ ~InCall(p)
  BY <1>1, CallsBeforeExit DEF ExitInv, CallInv
<1>3. pd_allocs \in Seq(Allocations) /\ pd_allocs # <<>>
  BY DEF ExitInv, TableInv, Collecting
<1>4. Oldest = pd_allocs[1] /\ 1 \in DOMAIN pd_allocs /\ Oldest \in Allocations
  BY <1>3 DEF Oldest
<1> QED
  BY <1>1, <1>2, <1>3, <1>4

\* While the exit walks, everything else rests.
LEMMA ExitWalks ==
  ASSUME ExitInv, Collecting, NEW w \in Walks, w.at \in {"none", "read"},
         walk' = [walk EXCEPT !["exit"] = w],
         w.at = "read" => pd_allocs' # <<>> /\ Oldest'.table = 0,
         TableInv',
         UNCHANGED <<moduleVars, gpu, callVars>>
  PROVE  ExitInv'
<1> USE DEF ExitInv
<1>1. ModuleInv'
  BY DEF ModuleInv, moduleVars
<1>2. /\ ~Collected /\ \A p \in Procs : walk[p].at = "none" /\ ~InCall(p)
  BY CollectingFacts
<1>3. \A p \in Procs : p # "exit"
  BY CasesAssumption DEF Procs
<1>4. CallInv'
  BY <1>2, <1>3 DEF CallInv, WalkInv, InCall, moduleVars, callVars
<1>5. \A p \in Procs : walk'[p] = walk[p] /\ walk'[p].at = "none"
  BY <1>2, <1>3 DEF WalkInv
<1>6. /\ \A p \in Procs : WalkOK(walk[p])'
  BY <1>5 DEF WalkOK
<1>7. WalkInv'
  BY <1>6 DEF WalkInv
<1>8. CollectInv'
  BY <1>2 DEF CollectInv, Collected, moduleVars
<1> QED
  BY <1>1, <1>4, <1>7, <1>8

\* The oldest page is taken from its parent, if own, and wiped.
Collects(own, page, table, idx) ==
  /\ Oldest = [page |-> page, table |-> table, idx |-> idx]
  /\ Oldest.page = page /\ Oldest.table = table /\ Oldest.idx = idx
  /\ 1 \in DOMAIN pd_allocs /\ pd_allocs[1] = [page |-> page, table |-> table, idx |-> idx]
  /\ page \notin freed /\ page # table
  /\ freed' = freed \cup {page} /\ UNCHANGED leaked
  /\ mem' \in [0..MaxPages -> [Indices -> Int]]
  /\ \A t \in 0..MaxPages, i \in Indices :
       mem'[t][i] = IF t = page \/ (own /\ t = table /\ i = idx) THEN 0 ELSE mem[t][i]

LEMMA FreeStores ==
  ASSUME ExitInv, Collecting, NEW own \in BOOLEAN, Free(own),
         Oldest.table = 0 \/ Oldest.table \in freed
  PROVE  \E page \in 1..MaxPages, table \in 0..MaxPages, idx \in Indices :
           Collects(own, page, table, idx)
<1> USE DEF ExitInv
<1>1. PICK page \in 1..MaxPages, table \in 0..MaxPages, idx \in Indices :
        /\ Oldest = [page |-> page, table |-> table, idx |-> idx]
        /\ Oldest.page = page /\ Oldest.table = table /\ Oldest.idx = idx
        /\ 1 \in DOMAIN pd_allocs /\ pd_allocs[1] = [page |-> page, table |-> table, idx |-> idx]
  BY CollectingFacts DEF Allocations
<1>2. page \notin freed /\ page # table
  <2>1. page \notin freed
    BY <1>1 DEF TableInv
  <2> QED
    BY <1>1, <2>1
<1>3. freed' = freed \cup {page} /\ UNCHANGED leaked
  BY <1>1 DEF Free
<1>4. /\ mem' \in [0..MaxPages -> [Indices -> Int]]
      /\ \A t \in 0..MaxPages, i \in Indices :
           mem'[t][i] = IF t = page \/ (own /\ t = table /\ i = idx) THEN 0 ELSE mem[t][i]
  <2>1. mem \in [0..MaxPages -> [Indices -> Int]] /\ page \in 0..MaxPages
    BY PagesAssumption DEF TableInv
  <2>2. mem' = [mem EXCEPT ![page] = [i \in Indices |-> 0],
                           ![table][idx] = IF own THEN 0 ELSE @]
    BY <1>1 DEF Free
  <2>3. \A t \in 0..MaxPages : mem'[t] = IF t = table
                                          THEN [mem[table] EXCEPT ![idx] = IF own THEN 0 ELSE @]
                                          ELSE IF t = page THEN [i \in Indices |-> 0] ELSE mem[t]
    BY <1>2, <2>1, <2>2
  <2>4. DOMAIN mem' = 0..MaxPages /\ mem' = [t \in 0..MaxPages |-> mem'[t]]
    BY <2>1, <2>2
  <2>5. ASSUME NEW t \in 0..MaxPages
        PROVE  /\ mem'[t] \in [Indices -> Int]
               /\ \A i \in Indices :
                    mem'[t][i] = IF t = page \/ (own /\ t = table /\ i = idx) THEN 0 ELSE mem[t][i]
    <3>1. mem[t] \in [Indices -> Int] /\ mem[table] \in [Indices -> Int]
      BY <2>1
    <3>2. CASE t = table
      BY <1>2, <2>3, <3>1, <3>2
    <3>3. CASE t = page
      BY <1>2, <2>3, <3>3
    <3>4. CASE t # table /\ t # page
      BY <2>3, <3>1, <3>4
    <3> QED
      BY <3>2, <3>3, <3>4
  <2> QED
    BY <2>4, <2>5
<1> QED
  BY <1>1, <1>2, <1>3, <1>4 DEF Collects

\* The entry and the page go together, and the next allocation is the oldest.
LEMMA FreeKeepsTables ==
  ASSUME ExitInv, Collecting, NEW own \in BOOLEAN, Free(own),
         \/ Oldest.table = 0 /\ own = PointsTo(Oldest)
         \/ Oldest.table \in freed /\ own = FALSE,
         UNCHANGED <<moduleVars, gpu>>
  PROVE  TableInv'
<1> USE DEF ExitInv
<1>0. PICK page \in 1..MaxPages, table \in 0..MaxPages, idx \in Indices :
        Collects(own, page, table, idx)
  BY FreeStores
<1>1. /\ Oldest = [page |-> page, table |-> table, idx |-> idx]
      /\ Oldest.page = page /\ Oldest.table = table /\ Oldest.idx = idx
      /\ 1 \in DOMAIN pd_allocs /\ pd_allocs[1] = [page |-> page, table |-> table, idx |-> idx]
  BY <1>0 DEF Collects
<1>2. page \notin freed /\ page # table
  BY <1>0 DEF Collects
<1>3. freed' = freed \cup {page} /\ UNCHANGED leaked
  BY <1>0 DEF Collects
<1>4. /\ mem' \in [0..MaxPages -> [Indices -> Int]]
      /\ \A t \in 0..MaxPages, i \in Indices :
           mem'[t][i] = IF t = page \/ (own /\ t = table /\ i = idx) THEN 0 ELSE mem[t][i]
  BY <1>0 DEF Collects
<1>5. /\ pd_allocs' \in Seq(Allocations)
      /\ DOMAIN pd_allocs' = 1..(Len(pd_allocs) - 1) /\ DOMAIN pd_allocs = 1..Len(pd_allocs)
      /\ Len(pd_allocs) \in Nat \ {0}
      /\ \A k \in DOMAIN pd_allocs' : k + 1 \in DOMAIN pd_allocs /\ pd_allocs'[k] = pd_allocs[k + 1]
  BY CollectingFacts DEF Free
<1>6. \A k \in DOMAIN pd_allocs' : k \in Nat \ {0} /\ k + 1 # 1
  BY <1>5
<1>7. \A k \in DOMAIN pd_allocs : k = 1 \/ (k - 1 \in DOMAIN pd_allocs' /\ (k - 1) + 1 = k)
  BY <1>5
<1>8. \A j, k \in DOMAIN pd_allocs' : pd_allocs'[j].page = pd_allocs'[k].page => j = k
  <2>1. SUFFICES ASSUME NEW j \in DOMAIN pd_allocs', NEW k \in DOMAIN pd_allocs',
                        pd_allocs'[j].page = pd_allocs'[k].page
                 PROVE  j = k
    OBVIOUS
  <2>2. j + 1 = k + 1
    BY <1>5, <2>1 DEF TableInv
  <2> QED
    BY <1>6, <2>2
<1>9. \A k \in DOMAIN pd_allocs' : pd_allocs'[k].page \notin freed'
  <2>1. SUFFICES ASSUME NEW k \in DOMAIN pd_allocs'
                 PROVE  pd_allocs[k + 1].page \notin freed \cup {page}
    BY <1>3, <1>5
  <2>2. pd_allocs[k + 1].page # pd_allocs[1].page
    BY <1>1, <1>5, <1>6 DEF TableInv
  <2> QED
    BY <1>1, <1>5, <2>2 DEF TableInv
<1>10. ASSUME NEW k \in DOMAIN pd_allocs'
       PROVE  \/ pd_allocs'[k].table \in {0} \cup freed'
              \/ \E j \in 1..(k - 1) : pd_allocs'[j].page = pd_allocs'[k].table
  <2>1. CASE pd_allocs[k + 1].table \in {0} \cup freed
    BY <1>3, <1>5, <2>1
  <2>2. CASE \E j \in 1..((k + 1) - 1) : pd_allocs[j].page = pd_allocs[k + 1].table
    <3>1. PICK j \in 1..((k + 1) - 1) : pd_allocs[j].page = pd_allocs[k + 1].table
      BY <2>2
    <3>2. CASE j = 1
      BY <1>1, <1>3, <1>5, <3>1, <3>2
    <3>3. CASE j # 1
      <4>1. j - 1 \in 1..(k - 1) /\ j - 1 \in DOMAIN pd_allocs' /\ (j - 1) + 1 = j
        BY <1>5, <1>6, <3>3
      <4> QED
        BY <1>5, <3>1, <4>1
    <3> QED
      BY <3>2, <3>3
  <2> QED
    BY <1>5, <2>1, <2>2 DEF TableInv
<1>11. ASSUME NEW t \in 0..MaxPages, NEW i \in Indices, mem'[t][i] > 0
       PROVE  \E k \in DOMAIN pd_allocs' :
                pd_allocs'[k] = [page |-> mem'[t][i], table |-> t, idx |-> i]
  <2>1. mem'[t][i] = mem[t][i] /\ t # page /\ ~(own /\ t = table /\ i = idx)
    BY <1>4, <1>11
  <2>2. PICK k \in DOMAIN pd_allocs : pd_allocs[k] = [page |-> mem[t][i], table |-> t, idx |-> i]
    BY <1>11, <2>1 DEF TableInv
  <2>3. k # 1
    <3>1. SUFFICES ASSUME k = 1
                   PROVE  FALSE
      OBVIOUS
    <3>2. t = table /\ i = idx /\ mem[t][i] = page
      BY <1>1, <2>2, <3>1
    <3>3. PointsTo(Oldest)
      BY <1>1, <3>2 DEF PointsTo
    <3>4. t \notin freed
      BY <1>11, <2>1 DEF TableInv
    <3> QED
      BY <1>1, <2>1, <3>2, <3>3, <3>4
  <2> QED
    BY <1>5, <1>7, <2>1, <2>2, <2>3
<1>12. \A t \in freed', i \in Indices : mem'[t][i] = 0
  BY <1>3, <1>4 DEF TableInv
<1>13. Driver' = Driver
  BY DEF Driver
<1>14. ASSUME NEW i \in Indices
       PROVE  mem'[0][i] = Driver[i] \/ (mem'[0][i] > 0 /\ Driver[i] = 0)
  <2>1. 0 \in 0..MaxPages /\ page # 0
    BY PagesAssumption
  <2>2. CASE own /\ table = 0 /\ i = idx
    <3>1. mem[0][i] = page
      BY <1>1, <2>2 DEF PointsTo
    <3> QED
      BY <1>4, <2>1, <2>2, <3>1, DriverFacts DEF TableInv, CallInv
  <2>3. CASE ~(own /\ table = 0 /\ i = idx)
    BY <1>4, <2>1, <2>3 DEF TableInv
  <2> QED
    BY <2>2, <2>3
<1>15. FilesGone'
  BY CollectingFacts DEF FilesGone, moduleVars
<1>16. freed' \subseteq 1..MaxPages /\ leaked' \subseteq 1..MaxPages
  BY <1>3 DEF TableInv
<1> QED
  BY <1>4, <1>5, <1>8, <1>9, <1>10, <1>11, <1>12, <1>13, <1>14, <1>15, <1>16 DEF TableInv

LEMMA GcSeekExit == ExitInv /\ GcSeek => ExitInv'
<1> SUFFICES ASSUME ExitInv, GcSeek
             PROVE  ExitInv'
  OBVIOUS
<1>1. /\ Collecting /\ Oldest.table = 0 /\ walk' = [walk EXCEPT !["exit"] = At(0, 0, 0, "read")]
      /\ UNCHANGED <<tableVars, callVars, moduleVars, gpu>>
  BY DEF GcSeek, Goes, KeepRest
<1>2. PICK w \in Walks : w = At(0, 0, 0, "read") /\ w.at = "read"
  <2>1. At(0, 0, 0, "read") \in Walks /\ At(0, 0, 0, "read").at = "read"
    BY PagesAssumption DEF At, Walks
  <2> QED
    BY <2>1
<1>3. pd_allocs' # <<>> /\ Oldest'.table = 0
  BY <1>1, CollectingFacts DEF Oldest, tableVars
<1>4. TableInv'
  BY <1>1, TablesStay DEF ExitInv, FilesGone, tableVars, moduleVars
<1> QED
  BY <1>1, <1>2, <1>3, <1>4, ExitWalks

LEMMA GcFreeExit == ExitInv /\ GcFree => ExitInv'
<1> SUFFICES ASSUME ExitInv, GcFree
             PROVE  ExitInv'
  OBVIOUS
<1>1. /\ Collecting /\ walk' = [walk EXCEPT !["exit"] = NoWalk]
      /\ UNCHANGED <<callVars, moduleVars, gpu>>
  BY DEF GcFree, Goes, KeepRest
<1>2. PICK w \in Walks : w = NoWalk /\ w.at = "none"
  <2>1. NoWalk \in Walks /\ NoWalk.at = "none"
    BY PagesAssumption DEF NoWalk, At, Walks
  <2> QED
    BY <2>1
<1>3. CASE walk["exit"].at = "read" /\ Free(PointsTo(Oldest))
  <2>1. Oldest.table = 0 /\ PointsTo(Oldest) \in BOOLEAN
    BY <1>3 DEF ExitInv, WalkInv, PointsTo
  <2>2. TableInv'
    BY <1>1, <1>3, <2>1, FreeKeepsTables
  <2> QED
    BY <1>1, <1>2, <2>2, ExitWalks
<1>4. CASE Oldest.table \in freed /\ Free(FALSE)
  <2>1. TableInv'
    BY <1>1, <1>4, FreeKeepsTables
  <2> QED
    BY <1>1, <1>2, <2>1, ExitWalks
<1>5. CASE UNCHANGED tableVars
  <2>1. TableInv'
    BY <1>1, <1>5, TablesStay DEF ExitInv, FilesGone, tableVars, moduleVars
  <2> QED
    BY <1>1, <1>2, <2>1, ExitWalks
<1> QED
  BY <1>3, <1>4, <1>5 DEF GcFree

LEMMA GcEndsExit == ExitInv /\ GcEnds => ExitInv'
<1> SUFFICES ASSUME ExitInv, GcEnds
             PROVE  ExitInv'
  OBVIOUS
<1> USE DEF ExitInv
<1>1. /\ stage = "gc" /\ stage' = "irq" /\ seen \subseteq seen'
      /\ UNCHANGED <<tableVars, walk, device, regs, irq, files, gpu, call, made>>
      /\ device # Gpu \/ pd_allocs = <<>> \/ "gc failed" \in seen'
  BY DEF GcEnds, Stage, KeepMemory
<1>2. ModuleInv'
  BY <1>1 DEF ModuleInv
<1>3. CallInv'
  BY <1>1 DEF CallInv, InCall
<1>4. Driver' = Driver /\ Nodes' = Nodes /\ Oldest' = Oldest /\ FilesGone'
  BY <1>1 DEF Driver, Nodes, Pages, Oldest, FilesGone, tableVars
<1>5. WalkInv'
  BY <1>1, <1>4 DEF WalkInv, WalkOK, tableVars
<1>6. TableInv'
  BY <1>1, <1>4, TablesStay DEF tableVars
<1>7. CollectInv'
  BY <1>1 DEF CollectInv, Collected, tableVars
<1> QED
  BY <1>2, <1>3, <1>5, <1>6, <1>7

-----------------------------------------------------------------------------
(* The invariant and what it says. *)

\* Init and every step of Nvdebug establish ExitInv.
THEOREM ExitInvariant == Spec => []ExitInv
<1>1. ExitInv /\ [Next]_vars => ExitInv'
  <2> SUFFICES ASSUME ExitInv, [Next]_vars
               PROVE  ExitInv'
    OBVIOUS
  <2>1. CASE \E p \in Procs : CallStep(p) \/ ReadStep(p) \/ MapStep(p)
    BY <2>1, CallStepExit, StartWalkExit, WalkStepExit, WalkEndsExit DEF MapStep
  <2>2. CASE DriverMoves \/ ModuleStep
    BY <2>2, DriverMovesExit, ModuleStepExit
  <2>3. CASE GcSeek \/ GcFree \/ GcEnds
    BY <2>3, GcSeekExit, GcFreeExit, GcEndsExit
  <2>4. CASE UNCHANGED vars
    BY <2>4, QuietStep DEF vars, callVars, tableVars, moduleVars, ExitInv, CallInv, InCall
  <2> QED
    BY <2>1, <2>2, <2>3, <2>4 DEF Next, Stopped
<1> QED
  BY <1>1, ExitInit, PTL DEF Spec

\* After a complete exit no device has registers mapped, an interrupt tapped or
\* a file, and the driver's table is as it was found; no table that is in use
\* leads to a page that was given back, at any time.
THEOREM ExitLeavesNothing == Spec => []ExitSafe
<1>1. ExitInv => ExitSafe
  <2> SUFFICES ASSUME ExitInv
               PROVE  ExitSafe
    OBVIOUS
  <2> USE DEF ExitInv
  <2>1. irq \subseteq regs
    BY DEF ModuleInv
  <2>2. (\E p \in Procs : InCall(p)) => Gpu \in regs
    BY CallsBeforeExit
  <2>3. ASSUME NEW t \in {0} \cup Pages, NEW i \in Indices
        PROVE  mem[t][i] \notin freed
    <3>1. t \in 0..MaxPages
      <4>1. \A k \in DOMAIN pd_allocs : pd_allocs[k] \in Allocations
        BY DEF TableInv
      <4>2. Pages \subseteq 1..MaxPages
        BY <4>1 DEF Pages, Allocations
      <4> QED
        BY <4>2, PagesAssumption
    <3>2. SUFFICES ASSUME mem[t][i] \in freed
                   PROVE  FALSE
      OBVIOUS
    <3>3. mem[t][i] > 0
      <4>1. freed \subseteq 1..MaxPages
        BY DEF TableInv
      <4>2. \A e \in 1..MaxPages : e > 0
        BY PagesAssumption
      <4> QED
        BY <3>2, <4>1, <4>2
    <3>4. PICK k \in DOMAIN pd_allocs :
            pd_allocs[k] = [page |-> mem[t][i], table |-> t, idx |-> i]
      BY <3>1, <3>3 DEF TableInv
    <3> QED
      BY <3>2, <3>4 DEF TableInv
  <2>4. ASSUME stage = "unloaded"
        PROVE  /\ regs = {} /\ irq = {} /\ \A d \in Devices : files[d] = {}
               /\ "gc failed" \notin seen => pd_allocs = <<>> /\ mem[0] = DriversTable(gpu.taken)
    <3>1. regs = {} /\ irq = {} /\ \A d \in Devices : files[d] = {}
      BY <2>4 DEF ModuleInv
    <3>2. ASSUME "gc failed" \notin seen
          PROVE  pd_allocs = <<>> /\ mem[0] = Driver
      <4>1. pd_allocs = <<>>
        BY <2>4, <3>2 DEF CollectInv, Collected
      <4>2. 0 \in 0..MaxPages
        BY PagesAssumption
      <4>3. \A i \in Indices : ~(mem[0][i] > 0)
        BY <4>1, <4>2 DEF TableInv
      <4>4. \A i \in Indices : mem[0][i] = Driver[i]
        BY <4>3 DEF TableInv
      <4>5. mem[0] \in [Indices -> Int] /\ Driver \in [Indices -> Int]
        BY <4>2, DriverFacts DEF TableInv, CallInv
      <4> QED
        BY <4>1, <4>4, <4>5
    <3> QED
      BY <3>1, <3>2 DEF Driver
  <2> QED
    BY <2>1, <2>2, <2>3, <2>4 DEF ExitSafe
<1> QED
  BY <1>1, ExitInvariant, PTL

-----------------------------------------------------------------------------
(* What the blocks are made of. *)

LEMMA SeqFacts ==
  ASSUME NEW S
  PROVE  /\ \A s, t \in Seq(S) : s \o t \in Seq(S)
         /\ \A s \in Seq(S) : s # <<>> => /\ Head(s) = s[1] /\ Head(s) \in S
                                          /\ Tail(s) \in Seq(S) /\ Len(Tail(s)) = Len(s) - 1
                                          /\ \A i \in 1..(Len(s) - 1) : Tail(s)[i] = s[i + 1]
         /\ <<>> \in Seq(S)
         /\ \A a \in S : <<a>> \in Seq(S)
         /\ \A a, b \in S : <<a, b>> \in Seq(S)
         /\ \A a, b, c \in S : <<a, b, c>> \in Seq(S)
         /\ \A a, b, c, d \in S : <<a, b, c, d>> \in Seq(S)
OBVIOUS

LEMMA StepFacts ==
  /\ \A op \in {"clear_iter", "set_iter", "save", "restore", "set_mode", "set_timeout", "map_pages",
                "seq_start", "show", "shown", "next", "return", "return_error"} :
       Do(op) \in Plain({op}) /\ Do(op).op = op
  /\ \A k \in {"pd", "rl", "inst", "ctxsw"} : Use(k) \in Plain({"use"}) /\ Bypass(k) \in Plain({"bypass"})
BY DEF Do, Use, Bypass, Step, Plain, StepOf

LEMMA GetBar2Steps ==
  ASSUME NEW S, NEW fail, Plain({"use"}) \subseteq S, StepOf({"reg", "addr"}, {fail}) \subseteq S
  PROVE  get_bar2_pdb(fail) \in Seq(S)
<1>1. Use("pd") \in S
  BY StepFacts
<1>2. Reg(fail) \in S /\ Addr("pd", "bar2_instance", fail) \in S
  BY DEF Reg, Addr, Step, StepOf
<1> QED
  BY <1>1, <1>2, SeqFacts DEF get_bar2_pdb

LEMMA SearchSteps ==
  ASSUME NEW S, NEW c, NEW k \in {"rl", "inst"}, NEW missing,
         Plain({"use", "bypass"}) \subseteq S, StepOf({"addr"}, {missing}) \subseteq S,
         c.in_bar2 \/ Go(missing) \in S
  PROVE  SearchBar2(c, k, missing) \in Seq(S)
<1>1. Use("pd") \in S /\ Bypass(k) \in S
  BY DEF Use, Bypass, Step, Plain, StepOf
<1>2. Addr("pd", "bar2_directory", missing) \in S /\ Addr("pd", "bar2_table", missing) \in S
  BY DEF Addr, Step, StepOf
<1>3. (IF c.in_bar2 THEN Bypass(k) ELSE Go(missing)) \in S
  BY <1>1
<1>4. search_page_directory(c, k, missing) \in Seq(S)
  BY <1>1, <1>2, <1>3, SeqFacts DEF search_page_directory
<1>5. search_v1_page_directory(c, k, missing) \in Seq(S)
  BY <1>1, <1>2, <1>3 DEF search_v1_page_directory
<1> QED
  BY <1>4, <1>5 DEF SearchBar2

LEMMA TranslateSteps ==
  ASSUME NEW S, NEW c, NEW fail,
         Plain({"use"}) \subseteq S, StepOf({"addr"}, {fail}) \subseteq S, Garbage \subseteq S
  PROVE  TranslateAddress(c, fail) \in Seq(S)
<1>1. Use("pd") \in S
  BY StepFacts
<1>2. Addr("pd", "directory", fail) \in S /\ Addr("pd", "table", fail) \in S
  BY DEF Addr, Step, StepOf
<1>3. AddrOrGarbage("pd", "table") \in S
  BY DEF AddrOrGarbage, Step, StepOf, Garbage
<1>4. translate_page_directory(fail) \in Seq(S)
  BY <1>1, <1>2, SeqFacts DEF translate_page_directory
<1>5. translate_v1_page_directory(fail) \in Seq(S)
  BY <1>1, <1>2, <1>3, SeqFacts DEF translate_v1_page_directory
<1> QED
  BY <1>4, <1>5 DEF TranslateAddress

LEMMA CtxswSteps ==
  ASSUME NEW S, NEW c, NEW none, NEW fail,
         Plain({"use"}) \subseteq S, StepOf({"addr"}, {fail}) \subseteq S, Garbage \subseteq S,
         c.wfi \/ Go(none) \in S
  PROVE  get_ctxsw(c, none, fail) \in Seq(S)
<1>1. Use("inst") \in S /\ Use("ctxsw") \in S
  BY StepFacts
<1>2. AddrOrGarbage("ctxsw", "wfi") \in S /\ AddrOrGarbage("ctxsw", "ctxsw") \in S
  BY DEF AddrOrGarbage, Step, StepOf, Garbage
<1>3. TranslateAddress(c, fail) \in Seq(S)
  BY TranslateSteps
<1> DEFINE volta == <<Use("ctxsw"), Use("inst")>> \o TranslateAddress(c, fail) \o
                    <<AddrOrGarbage("ctxsw", "ctxsw")>>
           wfi == <<AddrOrGarbage("ctxsw", "wfi"), Use("inst")>>
<1>4. volta \in Seq(S) /\ wfi \in Seq(S) /\ <<>> \in Seq(S) /\ <<Use("inst")>> \in Seq(S)
  BY <1>1, <1>2, <1>3, SeqFacts
<1> DEFINE found == (IF c.virtual THEN TranslateAddress(c, fail) ELSE <<>>) \o wfi \o
                    IF c.chip < Volta THEN <<>> ELSE volta
<1> HIDE DEF volta, wfi
<1>5. found \in Seq(S)
  BY <1>3, <1>4, SeqFacts
<1>6. ~c.wfi => <<Go(none)>> \in Seq(S)
  BY SeqFacts
<1>7. get_ctxsw(c, none, fail) = <<Use("inst")>> \o IF ~c.wfi THEN <<Go(none)>> ELSE found
  BY DEF get_ctxsw, volta, wfi
<1> HIDE DEF found
<1> QED
  BY <1>4, <1>5, <1>6, <1>7, SeqFacts

LEMMA DerefSteps ==
  ASSUME NEW S, NEW c, NEW none,
         Plain({"use", "bypass"}) \subseteq S, StepOf({"reg", "addr"}, {"err", none}) \subseteq S,
         (c.bar2 /\ c.in_bar2) \/ Go(none) \in S
  PROVE  instance_deref(c, none) \in Seq(S)
<1>1. CASE c.bar2
  <2>1. get_bar2_pdb("err") \in Seq(S)
    BY GetBar2Steps DEF Plain, StepOf
  <2>2. SearchBar2(c, "inst", none) \in Seq(S)
    BY <1>1, SearchSteps DEF StepOf
  <2> QED
    BY <1>1, <2>1, <2>2, SeqFacts DEF instance_deref
<1>2. CASE ~c.bar2
  BY <1>2, SeqFacts DEF instance_deref
<1> QED
  BY <1>1, <1>2

\* The search for the runlist ends with the iterator's being set.
LEMMA IterSteps ==
  ASSUME NEW c
  PROVE  \E s \in Seq(Searching) : get_runlist_iter(c) = s \o <<Do("set_iter")>>
<1> DEFINE first == <<Do("clear_iter"), Reg("err")>>
           bar2 == get_bar2_pdb("runlist_pramin") \o SearchBar2(c, "rl", "runlist_pramin")
           second == IF c.bar2 THEN bar2 ELSE <<Go("runlist_pramin")>>
<1>1. /\ Do("clear_iter") \in Searching /\ Reg("err") \in Searching
      /\ Go("runlist_pramin") \in Searching
  BY DEF Searching, Do, Reg, Go, Step, Plain, Jumping, StepOf
<1>2. /\ Plain({"use", "bypass"}) \subseteq Searching
      /\ StepOf({"reg", "addr"}, {"runlist_pramin"}) \subseteq Searching
  BY DEF Searching, Plain, Jumping, StepOf
<1>3. get_bar2_pdb("runlist_pramin") \in Seq(Searching)
  BY <1>2, GetBar2Steps DEF Plain, StepOf
<1>4. SearchBar2(c, "rl", "runlist_pramin") \in Seq(Searching)
  BY <1>1, <1>2, SearchSteps DEF StepOf
<1>5. first \in Seq(Searching) /\ second \in Seq(Searching)
  BY <1>1, <1>3, <1>4, SeqFacts
<1>6. get_runlist_iter(c) = first \o second \o <<Do("set_iter")>>
  BY DEF get_runlist_iter
<1> HIDE DEF first, second
<1> QED
  BY <1>5, <1>6, SeqFacts

LEMMA EndsJoined ==
  ASSUME NEW S, NEW T, NEW s \in Seq(S), NEW tail \in Seq(T)
  PROVE  Ends(s \o tail, S, tail)
<1>1. /\ s \o tail \in Seq(S \cup T) /\ Len(s \o tail) = Len(s) + Len(tail)
      /\ \A i \in 1..Len(s) : (s \o tail)[i] = s[i]
      /\ \A i \in 1..Len(tail) : (s \o tail)[Len(s) + i] = tail[i]
  OBVIOUS
<1>2. Len(s) \in Nat /\ Len(tail) \in Nat /\ \A i \in 1..Len(s) : s[i] \in S
  OBVIOUS
<1> QED
  BY <1>1, <1>2 DEF Ends

LEMMA ClosedJoined ==
  ASSUME NEW c, NEW s \in Seq(StepsOf(c)), NEW tail \in Seq(StepsOf(c)), tail # <<>>,
         tail[Len(tail)].op \in Lasts
  PROVE  Closed(c, s \o tail)
<1> DEFINE S == StepsOf(c)
<1> HIDE DEF S
<1>1. s \in Seq(S) /\ tail \in Seq(S)
  BY DEF S
<1>2. /\ s \o tail \in Seq(S) /\ Len(s \o tail) = Len(s) + Len(tail)
      /\ \A i \in 1..Len(tail) : (s \o tail)[Len(s) + i] = tail[i]
  BY <1>1
<1>3. Len(tail) \in Nat \ {0} /\ Len(s) \in Nat
  BY <1>1
<1>4. (s \o tail)[Len(s \o tail)] = tail[Len(tail)] /\ s \o tail # <<>>
  BY <1>2, <1>3
<1> QED
  BY <1>2, <1>4 DEF Closed, S

\* What a call consists of.
LEMMA ReadOps ==
  /\ PlainOps("read") = {"clear_iter", "set_iter", "use", "bypass", "return_error", "save",
                         "restore", "seq_start", "show", "shown", "next"}
  /\ Labels("read") = {"begin", "runlist", "runlist_pramin", "show", "channel", "restore", "shown",
                       "next", "err"}
BY DEF PlainOps, Labels
LEMMA ModeOps ==
  /\ PlainOps("preempt_mode") = {"clear_iter", "set_iter", "use", "bypass", "return_error",
                                 "set_mode", "set_timeout", "return"}
  /\ Labels("preempt_mode") = {"begin", "runlist_pramin", "mode", "unset", "err"}
BY DEF PlainOps, Labels
LEMMA MapOps ==
  ASSUME NEW c \in Maps
  PROVE  /\ PlainOps(c) = {"clear_iter", "set_iter", "use", "bypass", "return_error", "set_mode",
                           "set_timeout", "map_pages"}
         /\ Labels("map_mem_ctxid") = {"begin", "runlist_pramin", "channel1", "channel2", "map", "err"}
         /\ Labels("map_mem_chid") = {"begin", "instance_pramin", "map", "err"}
BY DEF PlainOps, Labels, Maps

LEMMA PlainSteps ==
  ASSUME NEW c \in Files
  PROVE  /\ \A op \in PlainOps(c) : Do(op) \in StepsOf(c)
         /\ Do("return_error") \in StepsOf(c) /\ Do("set_iter") \in StepsOf(c)
         /\ \A to \in Labels(c) : Go(to) \in StepsOf(c) /\ Reg(to) \in StepsOf(c)
         /\ \A k \in {"pd", "rl", "inst", "ctxsw"} : Use(k) \in StepsOf(c) /\ Bypass(k) \in StepsOf(c)
         /\ Plain({"use", "bypass"}) \subseteq StepsOf(c)
         /\ \A to \in Labels(c) : StepOf({"reg", "addr"}, {to}) \subseteq StepsOf(c)
         /\ "err" \in Labels(c)
         /\ Garbage \subseteq StepsOf(c)
         /\ c # "map_mem_chid" => Searching \subseteq StepsOf(c)
<1>1. /\ {"clear_iter", "set_iter", "use", "bypass", "return_error"} \subseteq PlainOps(c)
      /\ "err" \in Labels(c) /\ (c # "map_mem_chid" => "runlist_pramin" \in Labels(c))
  BY ReadOps, ModeOps, MapOps DEF Files, Maps
<1>2. \A op \in PlainOps(c) : Do(op) \in StepsOf(c)
  BY DEF Do, Step, StepsOf, Plain, StepOf
<1>3. \A to \in Labels(c) : Go(to) \in StepsOf(c) /\ Reg(to) \in StepsOf(c)
  BY DEF Go, Reg, Step, StepsOf, Jumping, StepOf
<1>4. \A k \in {"pd", "rl", "inst", "ctxsw"} : Use(k) \in StepsOf(c) /\ Bypass(k) \in StepsOf(c)
  BY <1>1 DEF Use, Bypass, Step, StepsOf, Plain, StepOf
<1>5. Plain({"use", "bypass"}) \subseteq StepsOf(c)
  BY <1>1 DEF StepsOf, Plain, StepOf
<1>6. \A to \in Labels(c) : StepOf({"reg", "addr"}, {to}) \subseteq StepsOf(c)
  BY DEF StepsOf, Jumping, StepOf
<1>7. Garbage \subseteq StepsOf(c)
  BY DEF StepsOf
<1>8. ASSUME c # "map_mem_chid"
      PROVE  Searching \subseteq StepsOf(c)
  <2>1. Plain({"clear_iter", "use", "bypass"}) \subseteq Plain(PlainOps(c))
    BY <1>1 DEF Plain, StepOf
  <2>2. Jumping({"err", "runlist_pramin"}) \subseteq Jumping(Labels(c))
    BY <1>1, <1>8 DEF Jumping, StepOf
  <2> QED
    BY <2>1, <2>2 DEF Searching, StepsOf
<1> QED
  BY <1>1, <1>2, <1>3, <1>4, <1>5, <1>6, <1>7, <1>8

LEMMA OpFacts ==
  /\ \A op : Do(op).op = op
  /\ \A to : Go(to).op = "go" /\ Go(to).fail = to
BY DEF Do, Go, Step

LEMMA SeqWider ==
  ASSUME NEW S, NEW T, S \subseteq T, NEW s \in Seq(S)
  PROVE  s \in Seq(T)
OBVIOUS

\* The search for the runlist and where it leads.
LEMMA IterBlock ==
  ASSUME NEW g, NEW c \in Files, c # "map_mem_chid", NEW to \in Labels(c),
         NEW b, b \in {get_runlist_iter(g) \o <<Go(to)>>, RunlistInWindow \o <<Go(to)>>}
  PROVE  Closed(c, b) /\ Ends(b, Searching, <<Do("set_iter"), Go(to)>>)
<1> DEFINE tail == <<Do("set_iter"), Go(to)>>
<1>1. tail \in Seq(StepsOf(c)) /\ tail # <<>> /\ Len(tail) = 2 /\ tail[2] = Go(to)
  BY PlainSteps
<1>2. PICK s \in Seq(Searching) : b = s \o tail
  <2>1. CASE b = get_runlist_iter(g) \o <<Go(to)>>
    <3>1. PICK s \in Seq(Searching) : get_runlist_iter(g) = s \o <<Do("set_iter")>>
      BY IterSteps
    <3>2. /\ <<Do("set_iter")>> \in Seq(StepsOf(c)) /\ <<Go(to)>> \in Seq(StepsOf(c))
          /\ s \in Seq(StepsOf(c))
      BY PlainSteps, SeqWider
    <3>3. (s \o <<Do("set_iter")>>) \o <<Go(to)>> = s \o tail
      BY <3>2
    <3> QED
      BY <2>1, <3>1, <3>3
  <2>2. CASE b = RunlistInWindow \o <<Go(to)>>
    <3>1. AddrOrGarbage("rl", "runlist") \in Searching
      BY DEF AddrOrGarbage, Step, Searching, Garbage, StepOf
    <3>2. b = <<AddrOrGarbage("rl", "runlist")>> \o tail
      BY <2>2 DEF RunlistInWindow
    <3>3. <<AddrOrGarbage("rl", "runlist")>> \in Seq(Searching)
      BY <3>1, SeqFacts
    <3> QED
      BY <3>2, <3>3
  <2> QED
    BY <2>1, <2>2
<1> HIDE DEF tail
<1>3. Closed(c, b)
  <2>1. s \in Seq(StepsOf(c))
    BY PlainSteps, SeqWider
  <2>2. tail[Len(tail)].op \in Lasts
    BY <1>1, OpFacts DEF Lasts
  <2> QED
    BY <1>1, <1>2, <2>1, <2>2, ClosedJoined
<1>4. Ends(b, Searching, tail)
  BY <1>1, <1>2, EndsJoined
<1> QED
  BY <1>3, <1>4 DEF tail

LEMMA ClosedTuple ==
  ASSUME NEW c
  PROVE  /\ \A a \in StepsOf(c) : a.op \in Lasts => Closed(c, <<a>>)
         /\ \A a, b \in StepsOf(c) : b.op \in Lasts => Closed(c, <<a, b>>)
<1> DEFINE S == StepsOf(c)
<1> HIDE DEF S
<1>1. /\ \A a \in S : <<a>> \in Seq(S) /\ <<a>> # <<>> /\ <<a>>[Len(<<a>>)] = a
      /\ \A a, b \in S : <<a, b>> \in Seq(S) /\ <<a, b>> # <<>> /\ <<a, b>>[Len(<<a, b>>)] = b
  OBVIOUS
<1> QED
  BY <1>1 DEF Closed, S

\* The blocks of a reader.
LEMMA ReadBlocks ==
  ASSUME NEW g
  PROVE  /\ \A label \in Labels("read") : Closed("read", Block(g, "read", label))
         /\ Block(g, "read", "begin") = <<Do("seq_start")>>
         /\ \A label \in {"runlist", "runlist_pramin"} :
              Ends(Block(g, "read", label), Searching, <<Do("set_iter"), Go("show")>>)
         /\ Block(g, "read", "show") = <<Use("rl"), Do("show")>>
         /\ \A label \in {"channel", "restore", "shown"} :
              Ends(Block(g, "read", label), Printing, <<Do("shown")>>)
         /\ Block(g, "read", "next") = <<Do("next")>>
         /\ Block(g, "read", "err") = <<Do("return_error")>>
<1> DEFINE S == StepsOf("read")
           B(label) == Block(g, "read", label)
<1>1. "read" \in Files /\ "read" # "map_mem_chid"
  BY DEF Files
<1>2. /\ \A op \in {"seq_start", "show", "shown", "next", "return_error", "save", "restore"} :
           Do(op) \in S /\ Do(op).op = op
      /\ Use("rl") \in S
  BY <1>1, ReadOps, PlainSteps, OpFacts
<1> HIDE DEF S
<1>3. /\ B("begin") = <<Do("seq_start")>> /\ B("show") = <<Use("rl"), Do("show")>>
      /\ B("next") = <<Do("next")>> /\ B("err") = <<Do("return_error")>>
      /\ B("restore") = <<Do("restore"), Do("shown")>> /\ B("shown") = <<Do("shown")>>
      /\ B("runlist") = get_runlist_iter(g) \o <<Go("show")>>
      /\ B("runlist_pramin") = RunlistInWindow \o <<Go("show")>>
      /\ B("channel") = runlist_detail_seq_show(g)
  BY DEF Block, AfterIter
<1>4. /\ \A label \in {"begin", "show", "next", "err", "restore", "shown"} : Closed("read", B(label))
  BY <1>2, <1>3, ClosedTuple DEF Lasts, S
<1>5. /\ \A label \in {"runlist", "runlist_pramin"} :
           /\ Closed("read", B(label))
           /\ Ends(B(label), Searching, <<Do("set_iter"), Go("show")>>)
  BY <1>1, <1>3, IterBlock, ReadOps, ZenonT(60)
<1> DEFINE P == Printing
<1>6. /\ Do("restore") \in P /\ Do("save") \in P /\ Reg("shown") \in P
      /\ AddrOrGarbage("inst", "instance") \in P /\ Use("inst") \in P /\ Use("ctxsw") \in P
      /\ Go("restore") \in P /\ Plain({"use"}) \subseteq P /\ Garbage \subseteq P
      /\ StepOf({"addr"}, {"restore"}) \subseteq P
  BY DEF Printing, Do, Reg, AddrOrGarbage, Use, Go, Step, Plain, Garbage, Jumping, StepOf
<1>7. get_ctxsw(g, "restore", "restore") \in Seq(P)
  BY <1>6, CtxswSteps
<1> DEFINE first == <<Reg("shown"), Do("save"), AddrOrGarbage("inst", "instance"), Use("inst")>>
           pascal == IF g.chip < Pascal THEN <<>> ELSE <<Use("ctxsw"), Do("restore")>>
           maxwell == IF g.chip < Maxwell THEN <<>>
                      ELSE get_ctxsw(g, "restore", "restore") \o <<Use("ctxsw")>> \o pascal
<1> HIDE DEF P
<1>8. first \in Seq(P) /\ <<Use("ctxsw")>> \in Seq(P) /\ pascal \in Seq(P)
  BY <1>6, SeqFacts
<1>9. B("channel") = (first \o maxwell) \o <<Do("shown")>>
  BY <1>3 DEF runlist_detail_seq_show
<1> HIDE DEF first, pascal
<1>10. maxwell \in Seq(P)
  BY <1>7, <1>8, SeqFacts
<1> HIDE DEF maxwell
<1>11. first \o maxwell \in Seq(P)
  BY <1>8, <1>10, SeqFacts
<1>12. <<Do("shown")>> \in Seq(S) /\ <<Do("shown")>> # <<>> /\ <<Do("shown")>>[Len(<<Do("shown")>>)].op \in Lasts
  BY <1>2, SeqFacts DEF Lasts
<1>13. P \subseteq S
  BY <1>1, ReadOps, PlainSteps DEF P, S, Printing, StepsOf, Jumping, Plain, StepOf
<1>14. Closed("read", B("channel"))
  BY <1>9, <1>11, <1>12, <1>13, SeqWider, ClosedJoined DEF S
<1>15. \A label \in {"channel", "restore", "shown"} : Ends(B(label), Printing, <<Do("shown")>>)
  <2>1. Ends((first \o maxwell) \o <<Do("shown")>>, P, <<Do("shown")>>)
    BY <1>11, <1>12, EndsJoined
  <2>2. Ends(<<Do("restore")>> \o <<Do("shown")>>, P, <<Do("shown")>>)
    BY <1>6, <1>12, SeqFacts, EndsJoined
  <2>3. Ends(<<>> \o <<Do("shown")>>, P, <<Do("shown")>>)
    BY <1>12, SeqFacts, EndsJoined
  <2>4. /\ B("restore") = <<Do("restore")>> \o <<Do("shown")>>
        /\ B("shown") = <<>> \o <<Do("shown")>>
    BY <1>3, <1>12
  <2> QED
    BY <1>9, <2>1, <2>2, <2>3, <2>4 DEF P
<1> QED
  BY <1>3, <1>4, <1>5, <1>14, <1>15, ReadOps

LEMMA JoinFacts ==
  ASSUME NEW S
  PROVE  /\ \A s, t, u \in Seq(S) : (s \o t) \o u = s \o (t \o u)
         /\ \A s \in Seq(S) : s \o <<>> = s
         /\ \A a, b \in S : <<a>> \o <<b>> = <<a, b>>
         /\ \A a, b, c \in S : <<a>> \o <<b, c>> = <<a, b, c>>
         /\ \A a, b, c, d \in S : <<a, b, c>> \o <<d>> = <<a, b, c, d>>
<1>1. \A s, t, u \in Seq(S) : (s \o t) \o u = s \o (t \o u)
  BY ConcatAssociative
<1>2. \A s \in Seq(S) : s \o <<>> = s
  BY ConcatEmptySeq
<1>3. ASSUME NEW a \in S, NEW b \in S
      PROVE  <<a>> \o <<b>> = <<a, b>>
  <2> DEFINE j == <<a>> \o <<b>>
  <2>1. <<a>> \in Seq(S) /\ <<b>> \in Seq(S) /\ <<a, b>> \in Seq(S) /\ Len(<<a, b>>) = 2
    BY SeqFacts
  <2>2. j \in Seq(S) /\ Len(j) = 2 /\ j[1] = a /\ j[2] = b
    BY <2>1, ConcatProperties
  <2> HIDE DEF j
  <2>3. <<a, b>>[1] = a /\ <<a, b>>[2] = b
    OBVIOUS
  <2>4. \A i \in 1..2 : j[i] = <<a, b>>[i]
    BY <2>2, <2>3
  <2> QED
    BY <2>1, <2>2, <2>4, SeqEqual DEF j
<1>4. ASSUME NEW a \in S, NEW b \in S, NEW c \in S
      PROVE  <<a>> \o <<b, c>> = <<a, b, c>>
  <2> DEFINE j == <<a>> \o <<b, c>>
  <2>1. <<a>> \in Seq(S) /\ <<b, c>> \in Seq(S) /\ <<a, b, c>> \in Seq(S) /\ Len(<<a, b, c>>) = 3
    BY SeqFacts
  <2>2. j \in Seq(S) /\ Len(j) = 3 /\ j[1] = a /\ j[2] = b /\ j[3] = c
    BY <2>1, ConcatProperties
  <2> HIDE DEF j
  <2>3. <<a, b, c>>[1] = a /\ <<a, b, c>>[2] = b /\ <<a, b, c>>[3] = c
    OBVIOUS
  <2>4. \A i \in 1..3 : j[i] = <<a, b, c>>[i]
    BY <2>2, <2>3
  <2> QED
    BY <2>1, <2>2, <2>4, SeqEqual DEF j
<1>5. ASSUME NEW a \in S, NEW b \in S, NEW c \in S, NEW d \in S
      PROVE  <<a, b, c>> \o <<d>> = <<a, b, c, d>>
  <2> DEFINE j == <<a, b, c>> \o <<d>>
  <2>1. <<a, b, c>> \in Seq(S) /\ <<d>> \in Seq(S) /\ <<a, b, c, d>> \in Seq(S) /\ Len(<<a, b, c, d>>) = 4
    BY SeqFacts
  <2>2. j \in Seq(S) /\ Len(j) = 4 /\ j[1] = a /\ j[2] = b /\ j[3] = c /\ j[4] = d
    BY <2>1, ConcatProperties
  <2> HIDE DEF j
  <2>3. <<a, b, c, d>>[1] = a /\ <<a, b, c, d>>[2] = b /\ <<a, b, c, d>>[3] = c /\ <<a, b, c, d>>[4] = d
    OBVIOUS
  <2>4. \A i \in 1..4 : j[i] = <<a, b, c, d>>[i]
    BY <2>2, <2>3
  <2> QED
    BY <2>1, <2>2, <2>4, SeqEqual DEF j
<1> QED
  BY <1>1, <1>2, <1>3, <1>4, <1>5

LEMMA JoinFive ==
  ASSUME NEW S, NEW s \in Seq(S), NEW u \in Seq(S), NEW m \in Seq(S), NEW t \in Seq(S), NEW r \in Seq(S)
  PROVE  ((s \o (u \o m)) \o t) \o r = (s \o u) \o ((m \o t) \o r)
<1> DEFINE J(x, y) == x \o y
<1>1. \A x, y, z \in Seq(S) : J(J(x, y), z) = J(x, J(y, z))
  BY JoinFacts, Zenon
<1>2. J(s, u) \in Seq(S) /\ J(m, t) \in Seq(S)
  BY SeqFacts
<1> HIDE DEF J
<1>3. J(s, J(u, m)) = J(J(s, u), m)
  BY <1>1
<1>4. J(J(J(s, u), m), t) = J(J(s, u), J(m, t))
  BY <1>1, <1>2
<1>5. J(J(J(s, u), J(m, t)), r) = J(J(s, u), J(J(m, t), r))
  BY <1>1, <1>2
<1>6. J(J(J(s, J(u, m)), t), r) = J(J(s, u), J(J(m, t), r))
  BY <1>3, <1>4, <1>5
<1> QED
  BY <1>6, Zenon DEF J

\* The blocks of a call that sets a preemption mode.
LEMMA ModeBlocks ==
  ASSUME NEW g
  PROVE  /\ \A label \in Labels("preempt_mode") : Closed("preempt_mode", Block(g, "preempt_mode", label))
         /\ \A label \in {"begin", "runlist_pramin"} :
              \/ Block(g, "preempt_mode", label) = <<Go("mode")>>
              \/ Ends(Block(g, "preempt_mode", label), Searching, <<Do("set_iter"), Go("mode")>>)
         /\ \E tail \in SetMode : Ends(Block(g, "preempt_mode", "mode"), Finding(g), tail)
         /\ Block(g, "preempt_mode", "unset") = <<Do("return")>>
         /\ Block(g, "preempt_mode", "err") = <<Do("return_error")>>
<1> DEFINE S == StepsOf("preempt_mode")
           B(label) == Block(g, "preempt_mode", label)
<1>1. "preempt_mode" \in Files /\ "preempt_mode" # "map_mem_chid"
  BY DEF Files
<1>2. /\ \A op \in {"set_mode", "set_timeout", "return", "return_error"} :
           Do(op) \in S /\ Do(op).op = op
      /\ Use("ctxsw") \in S /\ Reg("err") \in S /\ Go("mode") \in S
  BY <1>1, ModeOps, PlainSteps, OpFacts
<1> HIDE DEF S
<1>3. /\ B("unset") = <<Do("return")>> /\ B("err") = <<Do("return_error")>>
      /\ B("begin") \in {<<Go("mode")>>, get_runlist_iter(g) \o <<Go("mode")>>}
      /\ B("runlist_pramin") = RunlistInWindow \o <<Go("mode")>>
      /\ B("mode") = set_channel_preemption_mode(g)
  BY DEF Block, AfterIter
<1>4. /\ \A label \in {"unset", "err"} : Closed("preempt_mode", B(label))
      /\ Closed("preempt_mode", <<Go("mode")>>)
  BY <1>2, <1>3, ClosedTuple, OpFacts DEF Lasts, S
<1>5. ASSUME NEW b, b \in {get_runlist_iter(g) \o <<Go("mode")>>, RunlistInWindow \o <<Go("mode")>>}
      PROVE  /\ Closed("preempt_mode", b)
             /\ Ends(b, Searching, <<Do("set_iter"), Go("mode")>>)
  <2>1. "mode" \in Labels("preempt_mode")
    BY ModeOps
  <2> QED
    BY <1>1, <1>5, <2>1, IterBlock
<1>6. \A label \in {"begin", "runlist_pramin"} :
        /\ Closed("preempt_mode", B(label))
        /\ B(label) = <<Go("mode")>> \/ Ends(B(label), Searching, <<Do("set_iter"), Go("mode")>>)
  BY <1>3, <1>4, <1>5
<1> DEFINE F == Finding(g)
<1>7. /\ Reg("err") \in F /\ Use("rl") \in F /\ Use("ctxsw") \in F
      /\ Plain({"use"}) \subseteq F /\ Plain({"use", "bypass"}) \subseteq F /\ Garbage \subseteq F
      /\ StepOf({"addr"}, {"err"}) \subseteq F /\ StepOf({"reg", "addr"}, {"err", "unset"}) \subseteq F
  BY DEF Finding, Reg, Use, Step, Plain, Garbage, StepOf
<1>8. NoWay(g) => Go("unset") \in F
  BY DEF Finding, Go, Step, StepOf
<1>9. F \subseteq S
  <2>1. StepOf({"go"}, {"unset"}) \subseteq Jumping(Labels("preempt_mode"))
    BY ModeOps DEF Jumping, StepOf
  <2>2. StepOf({"reg", "addr"}, {"err", "unset"}) \subseteq Jumping(Labels("preempt_mode"))
    BY ModeOps DEF Jumping, StepOf
  <2>3. Plain({"use", "bypass"}) \subseteq S
    BY <1>1, PlainSteps DEF S
  <2> QED
    BY <2>1, <2>2, <2>3 DEF Finding, StepsOf, S
<1> HIDE DEF F
<1>10. instance_deref(g, "unset") \in Seq(F)
  <2>1. (g.bar2 /\ g.in_bar2) \/ Go("unset") \in F
    BY <1>8 DEF NoWay
  <2> QED
    BY <1>7, <2>1, DerefSteps
<1>11. get_ctxsw(g, "unset", "err") \in Seq(F)
  <2>1. g.wfi \/ Go("unset") \in F
    BY <1>8 DEF NoWay
  <2> QED
    BY <1>7, <2>1, CtxswSteps
<1> DEFINE first == IF g.chip < Ampere THEN <<Reg("err")>> ELSE <<Use("rl")>>
           timeout == IF g.chip < Volta THEN <<>> ELSE <<Reg("err"), Do("set_timeout")>>
           finding == first \o instance_deref(g, "unset") \o get_ctxsw(g, "unset", "err")
           tail == <<Do("set_mode")>> \o timeout \o <<Do("return")>>
<1>12. first \in Seq(F) /\ <<Use("ctxsw")>> \in Seq(F)
  BY <1>7, SeqFacts
<1>13. timeout \in Seq(S) /\ <<Use("ctxsw"), Do("set_mode")>> \in Seq(S) /\ <<Do("return")>> \in Seq(S)
       /\ <<Do("set_mode")>> \in Seq(S) /\ <<Use("ctxsw")>> \in Seq(S)
  BY <1>2, SeqFacts
<1> HIDE DEF first
<1>14. finding \in Seq(F) /\ finding \o <<Use("ctxsw")>> \in Seq(F)
  BY <1>10, <1>11, <1>12, SeqFacts
<1>14a. timeout = <<>> \/ timeout = <<Reg("err"), Do("set_timeout")>>
  OBVIOUS
<1> HIDE DEF timeout, finding
<1> HIDE DEF tail
<1>15. tail \in SetMode
  <2> USE DEF tail
  <2>1. /\ \A x, y \in S : <<x>> \o <<y>> = <<x, y>>
        /\ \A x, y, z \in S : <<x>> \o <<y, z>> = <<x, y, z>>
        /\ \A x, y, z, w \in S : <<x, y, z>> \o <<w>> = <<x, y, z, w>>
        /\ \A s \in Seq(S) : s \o <<>> = s
    BY JoinFacts
  <2>2. CASE timeout = <<>>
    <3>1. tail = <<Do("set_mode"), Do("return")>>
      <4>1. <<Do("set_mode")>> \o timeout = <<Do("set_mode")>>
        BY <1>13, <2>1, <2>2
      <4>2. <<Do("set_mode")>> \o <<Do("return")>> = <<Do("set_mode"), Do("return")>>
        BY <1>2, <2>1
      <4> QED
        BY <4>1, <4>2, Zenon
    <3> QED
      BY <3>1 DEF SetMode
  <2>3. CASE timeout = <<Reg("err"), Do("set_timeout")>>
    <3>1. tail = <<Do("set_mode"), Reg("err"), Do("set_timeout"), Do("return")>>
      <4>1. <<Do("set_mode")>> \o timeout = <<Do("set_mode"), Reg("err"), Do("set_timeout")>>
        BY <1>2, <2>1, <2>3
      <4>2. <<Do("set_mode"), Reg("err"), Do("set_timeout")>> \o <<Do("return")>> =
              <<Do("set_mode"), Reg("err"), Do("set_timeout"), Do("return")>>
        BY <1>2, <2>1
      <4> QED
        BY <4>1, <4>2, Zenon
    <3> QED
      BY <3>1 DEF SetMode
  <2> QED
    BY <1>14a, <2>2, <2>3
<1>16. tail \in Seq(S) /\ tail # <<>> /\ tail[Len(tail)] = Do("return")
  <2>1. CASE tail = <<Do("set_mode"), Do("return")>>
    BY <1>2, <2>1
  <2>2. CASE tail = <<Do("set_mode"), Reg("err"), Do("set_timeout"), Do("return")>>
    BY <1>2, <2>2
  <2> QED
    BY <1>15, <2>1, <2>2 DEF SetMode
<1>17. B("mode") = (finding \o <<Use("ctxsw")>>) \o tail
  <2>1. B("mode") = finding \o <<Use("ctxsw"), Do("set_mode")>> \o timeout \o <<Do("return")>>
    BY <1>3 DEF set_channel_preemption_mode, first, finding, timeout
  <2>2. finding \in Seq(S)
    BY <1>9, <1>14, SeqWider
  <2>3. /\ <<Use("ctxsw")>> \o <<Do("set_mode")>> = <<Use("ctxsw"), Do("set_mode")>>
        /\ <<Use("ctxsw")>> \in Seq(S) /\ <<Do("set_mode")>> \in Seq(S) /\ timeout \in Seq(S)
        /\ <<Do("return")>> \in Seq(S)
    BY <1>2, <1>13, JoinFacts
  <2>4. ((finding \o (<<Use("ctxsw")>> \o <<Do("set_mode")>>)) \o timeout) \o <<Do("return")>> =
          (finding \o <<Use("ctxsw")>>) \o ((<<Do("set_mode")>> \o timeout) \o <<Do("return")>>)
    BY <2>2, <2>3, JoinFive, SMTT(30)
  <2> QED
    BY <2>1, <2>3, <2>4, Zenon DEF tail
<1>18. Closed("preempt_mode", B("mode"))
  <2>1. tail[Len(tail)].op \in Lasts
    BY <1>16, OpFacts DEF Lasts
  <2>2. finding \o <<Use("ctxsw")>> \in Seq(S)
    BY <1>9, <1>14, SeqWider
  <2> QED
    BY <1>16, <1>17, <2>1, <2>2, ClosedJoined DEF S
<1>19. Ends(B("mode"), Finding(g), tail)
  BY <1>14, <1>16, <1>17, EndsJoined DEF F
<1> QED
  BY <1>3, <1>4, <1>6, <1>15, <1>18, <1>19, ModeOps

\* The blocks of a call that maps memory.
LEMMA CtxidBlocks ==
  ASSUME NEW g, NEW none \in {"channel2", "err"}, NEW matches \in BOOLEAN
  PROVE  Closed("map_mem_ctxid", MapMemCtxid(g, none, matches))
<1> DEFINE c == "map_mem_ctxid"
           S == StepsOf(c)
<1>1. c \in Files /\ c \in Maps /\ {"err", "channel2", "map"} \subseteq Labels(c)
  BY MapOps DEF Files, Maps
<1>2. /\ Use("rl") \in S /\ Use("ctxsw") \in S /\ Reg("err") \in S
      /\ Do("set_mode") \in S /\ Do("set_timeout") \in S /\ Go("map") \in S /\ Go(none) \in S
      /\ Plain({"use", "bypass"}) \subseteq S /\ Garbage \subseteq S
      /\ StepOf({"reg", "addr"}, {"err"}) \subseteq S /\ StepOf({"reg", "addr"}, {none}) \subseteq S
  BY <1>1, MapOps, PlainSteps
<1> HIDE DEF S
<1>3. instance_deref(g, none) \in Seq(S) /\ get_ctxsw(g, none, "err") \in Seq(S)
  <2>1. StepOf({"reg", "addr"}, {"err", none}) \subseteq S /\ StepOf({"addr"}, {"err"}) \subseteq S
        /\ Plain({"use"}) \subseteq S
    BY <1>2 DEF StepOf, Plain
  <2> QED
    BY <1>2, <2>1, DerefSteps, CtxswSteps
<1> DEFINE first == IF g.chip < Ampere THEN <<Reg("err")>> ELSE <<>>
           tail == IF ~matches THEN <<Go(none)>>
                   ELSE <<Reg("err"), Do("set_timeout"), Use("ctxsw"), Do("set_mode"), Go("map")>>
           finding == <<Use("rl")>> \o first \o instance_deref(g, none) \o get_ctxsw(g, none, "err")
                      \o <<Use("ctxsw")>>
<1>4. first \in Seq(S) /\ <<Use("rl")>> \in Seq(S) /\ <<Use("ctxsw")>> \in Seq(S)
  BY <1>2, SeqFacts
<1>5. tail \in Seq(S) /\ tail # <<>> /\ tail[Len(tail)].op \in Lasts
  <2>1. CASE ~matches
    <3>1. <<Go(none)>> \in Seq(S) /\ <<Go(none)>>[Len(<<Go(none)>>)] = Go(none)
      BY <1>2, SeqFacts
    <3> QED
      BY <2>1, <3>1, OpFacts DEF Lasts
  <2>2. CASE matches
    <3>1. <<Reg("err"), Do("set_timeout"), Use("ctxsw"), Do("set_mode"), Go("map")>> \in Seq(S)
      BY <1>2
    <3> QED
      BY <2>2, <3>1, OpFacts DEF Lasts
  <2> QED
    BY <2>1, <2>2
<1>6. MapMemCtxid(g, none, matches) = finding \o tail
  BY DEF MapMemCtxid
<1> HIDE DEF first, tail
<1>7. finding \in Seq(S)
  BY <1>3, <1>4, SeqFacts
<1> HIDE DEF finding
<1> QED
  BY <1>5, <1>6, <1>7, ClosedJoined DEF S

LEMMA ChidBlock ==
  ASSUME NEW g
  PROVE  Closed("map_mem_chid", MapMemChid(g))
<1> DEFINE c == "map_mem_chid"
           S == StepsOf(c)
<1>1. c \in Files /\ c \in Maps /\ {"err", "instance_pramin", "map"} \subseteq Labels(c)
  BY MapOps DEF Files, Maps
<1>2. /\ Reg("err") \in S /\ Go("map") \in S /\ Go("err") \in S /\ Go("instance_pramin") \in S
      /\ Plain({"use", "bypass"}) \subseteq S
      /\ StepOf({"reg", "addr"}, {"err"}) \subseteq S
      /\ StepOf({"reg", "addr"}, {"instance_pramin"}) \subseteq S
  BY <1>1, PlainSteps
<1> HIDE DEF S
<1>3. get_bar2_pdb("err") \in Seq(S)
  BY <1>2, GetBar2Steps DEF Plain, StepOf
<1>4. SearchBar2(g, "inst", "instance_pramin") \in Seq(S)
  BY <1>2, SearchSteps DEF StepOf
<1>5. Closed(c, <<Go("err")>>)
  BY <1>2, OpFacts, ClosedTuple DEF Lasts, S
<1> DEFINE first == <<Reg("err")>>
           bar2 == get_bar2_pdb("err") \o SearchBar2(g, "inst", "instance_pramin")
<1>6. first \in Seq(S) /\ bar2 \in Seq(S) /\ <<Go("err")>> \in Seq(S) /\ <<Go("map")>> \in Seq(S)
      /\ <<Go("err")>>[Len(<<Go("err")>>)] = Go("err") /\ <<Go("map")>>[Len(<<Go("map")>>)] = Go("map")
      /\ <<Go("err")>> # <<>> /\ <<Go("map")>> # <<>>
  BY <1>2, <1>3, <1>4, SeqFacts
<1>7. Closed(c, first \o <<Go("err")>>)
  BY <1>6, OpFacts, ClosedJoined DEF S, Lasts
<1>8. Closed(c, bar2 \o <<Go("map")>>)
  BY <1>6, OpFacts, ClosedJoined DEF S, Lasts
<1>9. Closed(c, first \o (bar2 \o <<Go("map")>>))
  <2> DEFINE t == bar2 \o <<Go("map")>>
  <2>1. t \in Seq(StepsOf(c)) /\ t # <<>> /\ t[Len(t)].op \in Lasts
    BY <1>8 DEF Closed
  <2> HIDE DEF t
  <2>2. Closed(c, first \o t)
    BY <1>6, <2>1, ClosedJoined DEF S
  <2> QED
    BY <2>2 DEF t
<1>10. MapMemChid(g) = IF g.chip >= Ampere \/ g.chip < Pascal THEN <<Go("err")>>
                       ELSE first \o IF g.bar2 THEN bar2 \o <<Go("map")>> ELSE <<Go("err")>>
  BY DEF MapMemChid
<1> HIDE DEF first, bar2
<1> QED
  BY <1>5, <1>7, <1>9, <1>10

LEMMA MapBlocks ==
  ASSUME NEW g, NEW c \in Maps
  PROVE  \A label \in Labels(c) : Closed(c, Block(g, c, label))
<1> DEFINE S == StepsOf(c)
           B(label) == Block(g, c, label)
<1>1. c \in Files /\ {"err", "map"} \subseteq Labels(c)
  BY MapOps DEF Files, Maps
<1>2. /\ Reg("err") \in S /\ Use("inst") \in S /\ Go("err") \in S /\ Go("map") \in S
      /\ Do("map_pages") \in S /\ Do("return_error") \in S
      /\ Addr("inst", "instance", "err") \in S
  <2>1. "map_pages" \in PlainOps(c)
    BY MapOps
  <2>2. Addr("inst", "instance", "err") \in StepOf({"reg", "addr"}, {"err"})
    BY DEF Addr, Step, StepOf
  <2> QED
    BY <1>1, <2>1, <2>2, PlainSteps
<1> HIDE DEF S
<1>3. Closed(c, B("err"))
  BY <1>2, OpFacts, ClosedTuple DEF Block, Lasts, S
<1>4. Closed(c, B("map"))
  <2> DEFINE first == <<Reg("err"), Use("inst")>>
             tail == IF g.chip < Pascal THEN <<Go("err")>> ELSE <<Reg("err"), Do("map_pages")>>
  <2>1. first \in Seq(S) /\ tail \in Seq(S) /\ tail # <<>>
    BY <1>2, SeqFacts
  <2>2. tail[Len(tail)].op \in Lasts
    BY OpFacts DEF Lasts
  <2>3. B("map") = first \o tail
    BY DEF Block, map_mem_for_instance
  <2> HIDE DEF first, tail
  <2> QED
    BY <2>1, <2>2, <2>3, ClosedJoined DEF S
<1>5. CASE c = "map_mem_ctxid"
  <2>1. B("begin") = get_runlist_iter(g) \o <<Go("channel1")>>
        /\ B("runlist_pramin") = RunlistInWindow \o <<Go("channel1")>>
        /\ B("channel1") = MapMemCtxid(g, "channel2", FALSE)
        /\ B("channel2") = MapMemCtxid(g, "err", TRUE)
    BY <1>5 DEF Block, AfterIter
  <2>2. Closed(c, B("begin")) /\ Closed(c, B("runlist_pramin"))
    <3>1. "channel1" \in Labels(c)
      BY <1>5, MapOps
    <3> QED
      BY <1>1, <1>5, <2>1, <3>1, IterBlock
  <2>3. Closed(c, B("channel1")) /\ Closed(c, B("channel2"))
    BY <1>5, <2>1, CtxidBlocks
  <2> QED
    BY <1>3, <1>4, <1>5, <2>2, <2>3, MapOps
<1>6. CASE c = "map_mem_chid"
  <2>1. B("begin") = MapMemChid(g)
        /\ B("instance_pramin") = <<Addr("inst", "instance", "err"), Go("map")>>
    BY <1>6 DEF Block
  <2>2. Closed(c, B("instance_pramin"))
    BY <1>2, <2>1, OpFacts, ClosedTuple DEF Lasts, S
  <2> QED
    BY <1>3, <1>4, <1>6, <2>1, <2>2, ChidBlock, MapOps
<1> QED
  BY <1>5, <1>6 DEF Maps

\* Every block of a call is made of its steps.
LEMMA BlocksClosed ==
  ASSUME NEW g, NEW c \in Files, NEW label \in Labels(c)
  PROVE  Closed(c, Block(g, c, label))
BY ReadBlocks, ModeBlocks, MapBlocks DEF Files, Maps

-----------------------------------------------------------------------------
(* What a step does to the steps that are left. *)

LEMMA ClosedFacts ==
  ASSUME NEW c, NEW s, Closed(c, s)
  PROVE  /\ s \in Seq(StepsOf(c)) /\ s # <<>> /\ Head(s) = s[1] /\ Head(s) \in StepsOf(c)
         /\ Head(s).op \notin Lasts => Closed(c, Tail(s))
<1> DEFINE S == StepsOf(c)
<1>1. s \in Seq(S) /\ s # <<>> /\ s[Len(s)].op \in Lasts
  BY DEF Closed
<1> HIDE DEF S
<1>2. Head(s) = s[1] /\ Head(s) \in S
  BY <1>1
<1>3. ASSUME Head(s).op \notin Lasts
      PROVE  Tail(s) \in Seq(S) /\ Tail(s) # <<>> /\ Tail(s)[Len(Tail(s))] = s[Len(s)]
  <2>1. Len(s) # 1
    BY <1>1, <1>2, <1>3
  <2>2. /\ Tail(s) \in Seq(S) /\ Len(Tail(s)) = Len(s) - 1
        /\ \A i \in 1..(Len(s) - 1) : Tail(s)[i] = s[i + 1]
    BY <1>1, SeqFacts
  <2>3. Len(s) \in Nat /\ Len(s) # 0
    BY <1>1, LenProperties, EmptySeq
  <2>4. Len(s) > 1
    <3>1. \A n \in Nat : n # 0 /\ n # 1 => n > 1
      OBVIOUS
    <3> QED
      BY <2>1, <2>3, <3>1, Zenon
  <2>5. Tail(s) # <<>>
    <3> DEFINE t == Tail(s)
    <3>1. Len(t) = Len(s) - 1
      BY <2>2
    <3> HIDE DEF t
    <3>2. Len(t) # 0
      BY <2>3, <2>4, <3>1
    <3>3. t # <<>>
      BY <3>2, EmptySeq, Zenon
    <3> QED
      BY <3>3 DEF t
  <2>6. Tail(s)[Len(Tail(s))] = s[Len(s)]
    BY <2>2, <2>4
  <2> QED
    BY <2>2, <2>5, <2>6
<1> QED
  BY <1>1, <1>2, <1>3 DEF Closed, S

\* A step is one of the call's, and goes on in one of its blocks.
LEMMA StepFields ==
  ASSUME NEW c \in Files, NEW step \in StepsOf(c)
  PROVE  /\ step.op \in PlainOps(c) \cup {"reg", "addr", "go"}
         /\ step.op \in {"reg", "go"} => step.fail \in Labels(c)
         /\ step.op = "addr" => step.fail \in Labels(c) \/ step.fail = "garbage"
<1>1. ASSUME step \in Plain(PlainOps(c))
      PROVE  step.op \in PlainOps(c)
  BY <1>1 DEF Plain, StepOf
<1>2. PlainOps(c) \cap {"reg", "addr", "go"} = {}
  BY ReadOps, ModeOps, MapOps DEF Files, Maps
<1>3. ASSUME step \in Garbage
      PROVE  step.op = "addr" /\ step.fail = "garbage"
  BY <1>3 DEF Garbage, StepOf
<1>4. ASSUME step \in Jumping(Labels(c))
      PROVE  step.op \in {"reg", "addr", "go"} /\ step.fail \in Labels(c)
  BY <1>4 DEF Jumping, StepOf
<1> QED
  BY <1>1, <1>2, <1>3, <1>4 DEF StepsOf

\* Which calls have which steps.
LEMMA OpsOfCalls ==
  ASSUME NEW c \in Files, NEW op \in PlainOps(c) \cup {"reg", "addr", "go"}
  PROVE  /\ op \in {"seq_start", "show", "shown", "next", "save", "restore"} => c = "read"
         /\ op = "map_pages" => c \in Maps
         /\ op = "return" => c = "preempt_mode"
         /\ op \in {"set_mode", "set_timeout"} => c # "read"
BY ReadOps, ModeOps, MapOps DEF Files, Maps

LEMMA NoGarbageLabel ==
  ASSUME NEW c \in Files
  PROVE  "garbage" \notin Labels(c) /\ {"begin", "err"} \subseteq Labels(c)
BY ReadOps, ModeOps, MapOps DEF Files, Maps

\* Where a call is at a step of its own.
LEMMA AtStep ==
  ASSUME ExitInv, StepsInv, NEW p \in Procs, InCall(p)
  PROVE  /\ call[p] \in Files /\ Cur(p) = Left(p)[1] /\ Cur(p) \in StepsOf(call[p])
         /\ Cur(p).op \in PlainOps(call[p]) \cup {"reg", "addr", "go"}
         /\ Closed(call[p], Left(p)) /\ result[p] = <<"none", "none">>
         /\ Cur(p).op \notin Lasts => Closed(call[p], Tail(Left(p)))
<1>1. call[p] \in Files /\ Closed(call[p], Left(p)) /\ result[p] = <<"none", "none">>
  BY DEF ExitInv, CallInv, StepsInv, InCall
<1> QED
  BY <1>1, ClosedFacts, StepFields DEF Cur, Left

Pcs == [steps : Seq(AnyStep), move : BOOLEAN]

LEMMA ClosedTyped ==
  ASSUME NEW c \in Files, NEW s, Closed(c, s)
  PROVE  Steps(s) \in Pcs /\ Steps(s).steps = s
<1>1. StepsOf(c) \subseteq AnyStep
  BY DEF AnyStep, Files
<1>2. s \in Seq(AnyStep)
  BY <1>1, SeqWider DEF Closed
<1> QED
  BY <1>2 DEF Steps, Pcs

\* What a process does to its own call.
Waits(p) ==
  /\ UNCHANGED <<call, result, stored>>
  /\ pc' \in [Procs -> Pcs] /\ pc'[p].steps = Left(p) /\ \A q \in Procs \ {p} : pc'[q] = pc[q]
Passes(p) ==
  /\ InCall(p) /\ Cur(p).op \notin Lasts
  /\ UNCHANGED <<call, result>> /\ pc' = [pc EXCEPT ![p] = Steps(Tail(Left(p)))]
  /\ stored' = IF Cur(p).op = "set_mode" THEN stored \cup {p} ELSE stored
Jumps(p, label) ==
  /\ InCall(p) /\ label \in Labels(call[p])
  /\ \/ Cur(p).op \in {"reg", "addr"} /\ Cur(p).fail = label /\ faults' > 0
     \/ Cur(p).op = "go" /\ Cur(p).fail = label
     \/ call[p] = "read" /\ Cur(p).op \in {"seq_start", "show", "shown", "next"}
     \/ call[p] = "read" /\ "readers" \in seen
  /\ UNCHANGED <<call, result, stored>>
  /\ pc' = [pc EXCEPT ![p] = Steps(Block(gpu, call[p], label))]
Quits(p, r) ==
  /\ InCall(p) /\ r \in {"ok", "error", "cut"}
  /\ call' = [call EXCEPT ![p] = "none"] /\ result' = [result EXCEPT ![p] = <<call[p], r>>]
  /\ UNCHANGED stored /\ pc' = [pc EXCEPT ![p] = Steps(<<>>)]
  /\ walk'[p].at = "none"
  /\ call[p] = "preempt_mode" /\ r = "ok" => Cur(p).op = "return"

Moves(p) ==
  \/ StartCall(p)
  \/ Waits(p)
  \/ Passes(p)
  \/ \E label \in Labels(call[p]) : Jumps(p, label)
  \/ \E r \in {"ok", "error", "cut"} : Quits(p, r)

ProcFrame(p) ==
  /\ gpu' = gpu /\ faults' \in Nat /\ faults' >= faults
  /\ \A q \in Procs \ {p} : walk'[q] = walk[q]
  /\ walk'[p].at # "none" => call'[p] \in Maps

LEMMA FaultFacts ==
  ASSUME StepsInv
  PROVE  /\ NoFault => faults' \in Nat /\ faults' >= faults
         /\ Fault => faults' \in Nat /\ faults' >= faults /\ faults' > 0
BY DEF NoFault, Fault, StepsInv

LEMMA CallMoves ==
  ASSUME ExitInv, StepsInv, NEW p \in Procs, CallStep(p)
  PROVE  Moves(p) /\ ProcFrame(p)
<1> USE FaultFacts
<1>1. CASE StartCall(p)
  <2>1. UNCHANGED walk /\ walk[p].at = "none" /\ NoFault /\ gpu' = gpu
    BY <1>1 DEF StartCall, ExitInv, CallInv, InCall, KeepRest
  <2> QED
    BY <1>1, <2>1 DEF Moves, ProcFrame
<1>2. ASSUME UNCHANGED <<call, walk, gpu>>, NoFault \/ Fault
      PROVE  ProcFrame(p)
  BY <1>2 DEF ProcFrame, StepsInv
<1>3. CASE Return(p)
  <2>1. PICK r \in {"ok", "error"} : /\ Finish(p, r) /\ InCall(p)
                                     /\ r = "ok" => Cur(p).op = "return"
    BY <1>3 DEF Return, Doing
  <2>2. walk[p].at = "none" /\ UNCHANGED <<walk, gpu>> /\ NoFault
    BY <1>3 DEF Return, Doing, KeepMemory, KeepRest
  <2>3. Quits(p, r)
    BY <2>1, <2>2 DEF Quits, Finish
  <2>4. ProcFrame(p)
    BY <2>2, <2>1 DEF ProcFrame, StepsInv, Finish
  <2> QED
    BY <2>3, <2>4 DEF Moves
<1>4. ASSUME NEW op, Doing(p, op), op \notin Lasts, Onward(p), UNCHANGED <<call, result>>,
             stored' = IF op = "set_mode" THEN stored \cup {p} ELSE stored
      PROVE  Moves(p)
  <2>1. pc' = [pc EXCEPT ![p] = Steps(Tail(Left(p)))]
    BY <1>4 DEF Onward, Left
  <2> QED
    BY <1>4, <2>1 DEF Doing, Passes, Moves
<1>5. ASSUME NEW op, Doing(p, op), op \in {"reg", "addr", "go"}, Cur(p).fail # "garbage",
             op = "go" \/ Fault, Jump(p, Cur(p).fail), UNCHANGED <<call, result, stored>>
      PROVE  Moves(p)
  <2>1. InCall(p) /\ Cur(p).op = op
    BY <1>5 DEF Doing
  <2>2. Cur(p).fail \in Labels(call[p])
    BY <1>5, <2>1, AtStep, StepFields
  <2>3. Jumps(p, Cur(p).fail)
    BY <1>5, <2>1, <2>2 DEF Jump, Jumps
  <2> QED
    BY <2>2, <2>3 DEF Moves
<1>6. CASE ReadRegister(p)
  <2>1. Doing(p, "reg") /\ UNCHANGED <<call, result, stored, walk, gpu>> /\ (NoFault \/ Fault)
    BY <1>6 DEF ReadRegister, KeepMemory, KeepCall, KeepRest
  <2>2. (Onward(p) \/ (Fault /\ Jump(p, Cur(p).fail)))
    BY <1>6 DEF ReadRegister
  <2>3. Cur(p).fail # "garbage"
    BY <2>1, AtStep, StepFields, NoGarbageLabel DEF Doing
  <2> QED
    BY <1>2, <1>4, <1>5, <2>1, <2>2, <2>3 DEF Lasts
<1>7. CASE LookAtWindow(p)
  <2>1. Doing(p, "addr") /\ UNCHANGED <<call, result, stored, walk, gpu>> /\ (NoFault \/ Fault)
    BY <1>7 DEF LookAtWindow, KeepMemory, KeepCall, KeepRest
  <2>2. \/ Onward(p)
        \/ pc' = [pc EXCEPT ![p].move = TRUE]
        \/ Fault /\ Cur(p).fail # "garbage" /\ Jump(p, Cur(p).fail)
    BY <1>7 DEF LookAtWindow
  <2>3. ASSUME pc' = [pc EXCEPT ![p].move = TRUE]
        PROVE  Waits(p)
    BY <2>1, <2>3 DEF Waits, StepsInv, Pcs, Left
  <2> QED
    BY <1>2, <1>4, <1>5, <2>1, <2>2, <2>3 DEF Lasts, Moves
<1>8. CASE MoveWindow(p) \/ UsePointer(p)
  <2>1. /\ Doing(p, "addr") \/ Doing(p, "use")
        /\ UNCHANGED <<call, result, stored, walk, gpu>> /\ NoFault /\ Onward(p)
    BY <1>8 DEF MoveWindow, UsePointer, KeepMemory, KeepCall, KeepRest
  <2> QED
    BY <1>2, <1>4, <2>1 DEF Lasts
<1>9. CASE GoAstray(p)
  <2>1. UNCHANGED <<call, result, stored, walk, gpu, pc>> /\ NoFault
    BY <1>9 DEF GoAstray, KeepMemory, KeepCall, KeepRest
  <2>2. Waits(p)
    BY <2>1 DEF Waits, StepsInv, Pcs, Left
  <2> QED
    BY <1>2, <2>1, <2>2 DEF Moves
<1>10. CASE LocalStep(p)
  <2>1. UNCHANGED <<call, result, walk, gpu>> /\ NoFault
    BY <1>10 DEF LocalStep, KeepRest
  <2>2. CASE Doing(p, "go") /\ Jump(p, Cur(p).fail) /\ UNCHANGED stored
    <3>1. Cur(p).fail # "garbage"
      BY <2>2, AtStep, StepFields, NoGarbageLabel DEF Doing
    <3> QED
      BY <1>2, <1>5, <2>1, <2>2, <3>1
  <2>3. ASSUME NEW op \in {"bypass", "save", "restore", "set_timeout"}, Doing(p, op), Onward(p),
               UNCHANGED stored
        PROVE  Moves(p) /\ ProcFrame(p)
    BY <1>2, <1>4, <2>1, <2>3 DEF Lasts
  <2>4. CASE Doing(p, "set_mode") /\ Onward(p) /\ stored' = stored \cup {p}
    BY <1>2, <1>4, <2>1, <2>4 DEF Lasts
  <2> QED
    BY <1>10, <2>2, <2>3, <2>4 DEF LocalStep
<1> QED
  BY <1>1, <1>3, <1>6, <1>7, <1>8, <1>9, <1>10 DEF CallStep

LEMMA ReadMoves ==
  ASSUME ExitInv, StepsInv, NEW p \in Procs, ReadStep(p)
  PROVE  Moves(p) /\ ProcFrame(p)
<1> USE FaultFacts
<1>1. UNCHANGED <<walk, gpu, stored>> /\ NoFault /\ InCall(p) /\ walk[p].at = "none"
  <2>1. CASE Iterate(p)
    BY <2>1 DEF Iterate, Doing, KeepMemory, KeepRest, KeepCall
  <2>2. CASE SeqStart(p) \/ SeqEmpty(p)
    BY <2>2 DEF SeqStart, SeqEmpty, FoundEmpty, Finish, Doing, KeepMemory, KeepRest
  <2>3. CASE SeqShow(p) \/ Shown(p) \/ SeqAdvance(p)
    BY <2>3 DEF SeqShow, Shown, SeqAdvance, Doing, KeepMemory, KeepRest, KeepCall
  <2> QED
    BY <2>1, <2>2, <2>3 DEF ReadStep
<1>2. call'[p] \in {call[p], "none"} => ProcFrame(p)
  BY <1>1 DEF ProcFrame
<1>3. CASE Iterate(p)
  <2>1. UNCHANGED <<call, result>> /\ Onward(p) /\ Cur(p).op \in {"clear_iter", "set_iter"}
    BY <1>3 DEF Iterate, Doing, KeepCall
  <2>2. Passes(p)
    BY <1>1, <2>1 DEF Passes, Onward, Left, Lasts
  <2> QED
    BY <1>2, <2>1, <2>2 DEF Moves
<1>4. ASSUME NEW label \in {"runlist", "show", "shown", "channel", "next", "begin"},
             Jump(p, label), UNCHANGED <<call, result>>, call[p] = "read",
             Cur(p).op \in {"seq_start", "show", "shown", "next"} \/ "readers" \in seen
      PROVE  Moves(p) /\ ProcFrame(p)
  <2>1. label \in Labels(call[p])
    BY <1>4, ReadOps
  <2>2. Jumps(p, label)
    BY <1>1, <1>4, <2>1 DEF Jumps, Jump
  <2> QED
    BY <1>2, <1>4, <2>1, <2>2 DEF Moves
<1>5. ASSUME NEW r \in {"ok", "cut"}, Finish(p, r), call[p] = "read"
      PROVE  Moves(p) /\ ProcFrame(p)
  <2>1. Quits(p, r)
    BY <1>1, <1>5 DEF Quits, Finish
  <2>2. call'[p] = "none"
    BY <1>1, <1>5 DEF Finish, ExitInv, CallInv
  <2> QED
    BY <1>2, <2>1, <2>2 DEF Moves
<1>7. CASE SeqStart(p)
  <2>1. Cur(p).op = "seq_start" /\ call[p] = "read"
    <3>1. Cur(p).op = "seq_start"
      BY <1>7 DEF SeqStart, Doing
    <3> QED
      BY <1>1, <3>1, AtStep, OpsOfCalls
  <2> QED
    BY <1>4, <1>5, <1>7, <2>1 DEF SeqStart
<1>8. CASE SeqEmpty(p)
  <2>1. call[p] = "read"
    BY <1>8 DEF SeqEmpty, NoneToShow, FoundEmpty
  <2>2. Finish(p, "ok") \/ ("readers" \in seen /\ Jump(p, "show") /\ UNCHANGED <<call, result>>)
    BY <1>8 DEF SeqEmpty
  <2> QED
    BY <1>4, <1>5, <2>1, <2>2
<1>6. CASE SeqShow(p) \/ Shown(p) \/ SeqAdvance(p)
  <2>1. UNCHANGED <<call, result>> /\ Cur(p).op \in {"show", "shown", "next"}
    BY <1>6 DEF SeqShow, Shown, SeqAdvance, Doing, KeepCall
  <2>2. call[p] = "read"
    BY <1>1, <2>1, AtStep, OpsOfCalls
  <2>3. CASE UNCHANGED pc
    <3>1. Waits(p)
      BY <1>1, <2>1, <2>3 DEF Waits, StepsInv, Pcs, Left
    <3> QED
      BY <1>2, <2>1, <3>1 DEF Moves
  <2> QED
    BY <1>4, <1>6, <2>1, <2>2, <2>3 DEF SeqShow, Shown, SeqAdvance
<1> QED
  BY <1>3, <1>6, <1>7, <1>8 DEF ReadStep

LEMMA MapMoves ==
  ASSUME ExitInv, StepsInv, NEW p \in Procs, MapStep(p)
  PROVE  Moves(p) /\ ProcFrame(p)
<1> USE FaultFacts
<1>1. ASSUME UNCHANGED <<call, result, stored, pc, gpu>>, NoFault, call[p] \in Maps, NEW w,
             walk' = [walk EXCEPT ![p] = w]
      PROVE  Moves(p) /\ ProcFrame(p)
  <2>1. Waits(p)
    BY <1>1 DEF Waits, StepsInv, Pcs, Left
  <2> QED
    BY <1>1, <2>1 DEF Moves, ProcFrame
<1>2. CASE StartWalk(p)
  <2>1. InCall(p) /\ Cur(p).op = "map_pages"
    BY <1>2 DEF StartWalk, Doing
  <2>2. call[p] \in Maps
    BY <2>1, AtStep, OpsOfCalls
  <2> QED
    BY <1>1, <1>2, <2>2 DEF StartWalk, Goes, KeepCall, KeepRest
<1>3. CASE WalkStep(p)
  <2>1. /\ walk[p].at # "none" /\ \E w : walk' = [walk EXCEPT ![p] = w]
    BY <1>3 DEF WalkStep, DerefTable, MoveToTable, ReadEntry, WritePte, SkipMapping, Exists,
                Allocate, LinkPage, NextMapping, Goes
  <2>2. call[p] \in Maps
    BY <2>1 DEF StepsInv
  <2> QED
    BY <1>1, <1>3, <2>1, <2>2 DEF WalkStep, KeepCall, KeepRest
<1>4. CASE WalkEnds(p)
  <2>1. PICK r \in {"ok", "error"} : EndWalk(p, r)
    BY <1>4 DEF WalkEnds
  <2>2. walk[p].at # "none"
    BY <1>4 DEF WalkEnds, Exists, InUse, LosePage
  <2>3. call[p] \in Maps /\ InCall(p)
    BY <2>2 DEF StepsInv, ExitInv, CallInv
  <2>4. walk' = [walk EXCEPT ![p] = NoWalk] /\ NoWalk.at = "none" /\ walk'[p] = NoWalk
    BY <2>1, CasesAssumption DEF EndWalk, Goes, NoWalk, At, ExitInv, WalkInv
  <2>5. Quits(p, r)
    BY <2>1, <2>3, <2>4 DEF EndWalk, Finish, Quits, Maps
  <2>6. ProcFrame(p)
    BY <1>4, <2>4 DEF WalkEnds, ProcFrame, KeepRest
  <2> QED
    BY <2>5, <2>6 DEF Moves
<1> QED
  BY <1>2, <1>3, <1>4 DEF MapStep

\* What a step of one process does to another's call.
LEMMA OthersWait ==
  ASSUME ExitInv, StepsInv, NEW p \in Procs, Moves(p), NEW q \in Procs \ {p}
  PROVE  /\ call'[q] = call[q] /\ pc'[q] = pc[q] /\ result'[q] = result[q]
         /\ q \in stored' <=> q \in stored
<1>1. CASE StartCall(p)
  BY <1>1 DEF StartCall
<1>2. CASE Waits(p)
  BY <1>2 DEF Waits
<1>3. CASE Passes(p)
  BY <1>3 DEF Passes
<1>4. CASE \E label \in Labels(call[p]) : Jumps(p, label)
  BY <1>4 DEF Jumps
<1>5. CASE \E r \in {"ok", "error", "cut"} : Quits(p, r)
  BY <1>5 DEF Quits
<1> QED
  BY <1>1, <1>2, <1>3, <1>4, <1>5 DEF Moves

-----------------------------------------------------------------------------
(* Setting a preemption mode. *)

\* The steps of s before tail come first.
LEMMA EndsFirst ==
  ASSUME NEW pre, NEW T, NEW tail \in Seq(T), NEW S, NEW s \in Seq(S), s # <<>>, Ends(s, pre, tail)
  PROVE  s = tail \/ (s[1] \in pre /\ Ends(Tail(s), pre, tail))
<1>1. Len(s) \in Nat /\ Len(s) # 0 /\ Len(tail) \in Nat /\ Len(s) >= Len(tail)
  BY LenProperties, EmptySeq DEF Ends
<1>2. CASE Len(s) = Len(tail)
  <2>1. \A i \in 1..Len(s) : s[i] = tail[i]
    BY <1>1, <1>2 DEF Ends
  <2>2. s \in Seq(S \cup T) /\ tail \in Seq(S \cup T)
    BY SeqWider
  <2> QED
    BY <1>2, <2>1, <2>2, SeqEqual
<1>3. CASE Len(s) > Len(tail)
  <2>1. s[1] \in pre
    BY <1>1, <1>3 DEF Ends
  <2>2. /\ Len(Tail(s)) = Len(s) - 1
        /\ \A i \in 1..(Len(s) - 1) : Tail(s)[i] = s[i + 1]
    BY SeqFacts
  <2>3. ASSUME NEW i \in 1..((Len(s) - 1) - Len(tail))
        PROVE  Tail(s)[i] \in pre
    <3>1. i \in 1..(Len(s) - 1) /\ i + 1 \in 1..(Len(s) - Len(tail))
      BY <1>1, <1>3
    <3> QED
      BY <2>2, <3>1 DEF Ends
  <2>4. ASSUME NEW i \in 1..Len(tail)
        PROVE  Tail(s)[((Len(s) - 1) - Len(tail)) + i] = tail[i]
    <3>1. ((Len(s) - 1) - Len(tail)) + i \in 1..(Len(s) - 1)
          /\ (((Len(s) - 1) - Len(tail)) + i) + 1 = (Len(s) - Len(tail)) + i
      BY <1>1, <1>3
    <3> QED
      BY <2>2, <3>1 DEF Ends
  <2>5. Len(Tail(s)) >= Len(tail)
    BY <1>1, <1>3, <2>2
  <2> QED
    BY <2>1, <2>2, <2>3, <2>4, <2>5 DEF Ends
<1> QED
  BY <1>1, <1>2, <1>3

\* What the steps of a call that sets a mode are.
LEMMA SearchingStep ==
  ASSUME NEW step \in Searching
  PROVE  /\ step.op \in {"clear_iter", "use", "bypass", "reg", "addr", "go"}
         /\ step.op \in {"reg", "go"} => step.fail \in {"err", "runlist_pramin"}
         /\ step.op = "addr" => step.fail \in {"err", "runlist_pramin", "garbage"}
BY DEF Searching, Plain, Garbage, Jumping, StepOf

LEMMA PrintingStep ==
  ASSUME NEW step \in Printing
  PROVE  /\ step.op \in {"use", "bypass", "save", "restore", "reg", "addr", "go"}
         /\ step.op \in {"reg", "go"} => step.fail \in {"shown", "restore"}
         /\ step.op = "addr" => step.fail \in {"shown", "restore", "garbage"}
BY DEF Printing, Plain, Garbage, Jumping, StepOf

LEMMA FindingStep ==
  ASSUME NEW step \in Finding(gpu)
  PROVE  /\ step.op \in {"use", "bypass", "reg", "addr", "go"}
         /\ step.op = "reg" => step.fail \in {"err", "unset"}
         /\ step.op = "addr" => step.fail \in {"err", "unset", "garbage"}
         /\ step.op = "go" => step.fail = "unset" /\ NoWay(gpu)
BY DEF Finding, Plain, Garbage, StepOf

LEMMA SettingStep ==
  ASSUME NEW step \in Setting
  PROVE  /\ step.op \in {"set_timeout", "return", "reg"}
         /\ step.op = "reg" => step.fail = "err"
BY DEF Setting, Plain, StepOf

LEMMA SetModeFacts ==
  ASSUME NEW tail \in SetMode
  PROVE  /\ tail \in Seq(AnyStep) /\ tail # <<>> /\ tail[1] = Do("set_mode")
         /\ \A i \in 1..Len(Tail(tail)) : Tail(tail)[i] \in Setting
<1>1. "preempt_mode" \in Files
  BY DEF Files
<1>2. /\ Do("set_mode") \in AnyStep /\ Do("return") \in AnyStep
      /\ Reg("err") \in AnyStep /\ Do("set_timeout") \in AnyStep
  BY <1>1, ModeOps, PlainSteps DEF AnyStep
<1>3. Do("return") \in Setting /\ Reg("err") \in Setting /\ Do("set_timeout") \in Setting
  BY DEF Setting, Do, Reg, Step, Plain, StepOf
<1>4. CASE tail = <<Do("set_mode"), Do("return")>>
  <2>1. tail \in Seq(AnyStep) /\ Tail(tail) = <<Do("return")>> /\ tail[1] = Do("set_mode")
    BY <1>2, <1>4
  <2> QED
    BY <1>3, <1>4, <2>1
<1>5. CASE tail = <<Do("set_mode"), Reg("err"), Do("set_timeout"), Do("return")>>
  <2>1. /\ tail \in Seq(AnyStep) /\ tail[1] = Do("set_mode")
        /\ Tail(tail) = <<Reg("err"), Do("set_timeout"), Do("return")>>
    BY <1>2, <1>5
  <2> QED
    BY <1>3, <1>5, <2>1
<1> QED
  BY <1>4, <1>5 DEF SetMode

LEMMA ModeFields ==
  /\ \A op \in {"set_iter", "set_mode", "return", "return_error"} : Do(op).op = op
  /\ Go("mode").op = "go" /\ Go("mode").fail = "mode"
  /\ <<Do("set_iter"), Go("mode")>> \in Seq(AnyStep)
  /\ <<Do("set_iter"), Go("mode")>>[1] = Do("set_iter")
  /\ Tail(<<Do("set_iter"), Go("mode")>>) = <<Go("mode")>>
<1>1. "preempt_mode" \in Files
  BY DEF Files
<1>2. Do("set_iter") \in AnyStep /\ Go("mode") \in AnyStep
  BY <1>1, ModeOps, PlainSteps DEF AnyStep
<1> QED
  BY <1>2, OpFacts

LEMMA ModeStays ==
  ASSUME NEW p \in Procs, ModeAt(p), Left(p)' = Left(p), p \in stored => p \in stored',
         gpu' = gpu, faults \in Nat, faults' \in Nat, faults' >= faults
  PROVE  ModeAt(p)'
<1>1. CASE Left(p) \in {<<Go("mode")>>, <<Do("return_error")>>}
  BY <1>1 DEF ModeAt
<1>2. CASE Left(p) = <<Do("return")>> /\ (NoWay(gpu) \/ faults > 0)
  BY <1>2 DEF ModeAt
<1>3. CASE Ends(Left(p), Searching, <<Do("set_iter"), Go("mode")>>)
  BY <1>3 DEF ModeAt
<1>4. CASE \E tail \in SetMode : Ends(Left(p), Finding(gpu), tail)
  <2>1. \E tail \in SetMode : Ends(Left(p)', Finding(gpu'), tail)
    BY <1>4
  <2> QED
    BY <2>1 DEF ModeAt
<1>5. CASE p \in stored /\ \A i \in DOMAIN Left(p) : Left(p)[i] \in Setting
  BY <1>5 DEF ModeAt
<1> QED
  BY <1>1, <1>2, <1>3, <1>4, <1>5 DEF ModeAt

LEMMA ModeGoesOn ==
  ASSUME ExitInv, StepsInv, NEW p \in Procs, Moves(p), ProcFrame(p), call'[p] = "preempt_mode"
  PROVE  ModeAt(p)'
<1> DEFINE s == Left(p)
<1>1. gpu' = gpu /\ faults' >= faults /\ faults \in Nat /\ faults' \in Nat
  BY DEF ProcFrame, StepsInv
<1>2. ASSUME NEW label \in Labels("preempt_mode"), Left(p)' = Block(gpu, "preempt_mode", label),
             \/ label \in {"begin", "runlist_pramin", "mode", "err"}
             \/ label = "unset" /\ (NoWay(gpu) \/ faults' > 0)
      PROVE  ModeAt(p)'
  BY <1>1, <1>2, ModeBlocks DEF ModeAt
<1>3. CASE StartCall(p)
  <2> DEFINE c == gpu.calls[p][made[p] + 1]
  <2>1. call' = [call EXCEPT ![p] = c] /\ pc' = [pc EXCEPT ![p] = Steps(Block(gpu, c, "begin"))]
    BY <1>3 DEF StartCall
  <2>2. c = "preempt_mode"
    BY <2>1 DEF ExitInv, CallInv
  <2>3. Left(p)' = Block(gpu, "preempt_mode", "begin")
    BY <2>1, <2>2 DEF Left, Steps, StepsInv
  <2> QED
    BY <1>2, <2>3, ModeOps
<1>4. CASE Waits(p)
  <2>1. ModeAt(p) /\ Left(p)' = Left(p) /\ stored' = stored
    BY <1>4 DEF Waits, Left, StepsInv
  <2> QED
    BY <1>1, <2>1, ModeStays
<1>5. ASSUME InCall(p), call[p] = "preempt_mode"
      PROVE  /\ ModeAt(p) /\ Cur(p) = s[1] /\ s \in Seq(StepsOf(call[p])) /\ s # <<>>
             /\ Closed(call[p], s)
  BY <1>5, AtStep, ClosedFacts DEF StepsInv
<1>6. CASE Passes(p)
  <2>1. /\ InCall(p) /\ call[p] = "preempt_mode" /\ Cur(p).op \notin Lasts
        /\ pc' = [pc EXCEPT ![p] = Steps(Tail(s))]
        /\ stored' = IF Cur(p).op = "set_mode" THEN stored \cup {p} ELSE stored
    BY <1>6 DEF Passes
  <2>2. Left(p)' = Tail(s)
    BY <2>1 DEF Left, Steps, StepsInv
  <2>3. CASE s = <<Go("mode")>> \/ s \in {<<Do("return")>>, <<Do("return_error")>>}
    BY <1>5, <2>1, <2>3, ModeFields DEF Lasts
  <2>4. CASE Ends(s, Searching, <<Do("set_iter"), Go("mode")>>)
    <3>1. CASE s = <<Do("set_iter"), Go("mode")>>
      BY <2>2, <3>1, ModeFields DEF ModeAt
    <3>2. CASE Ends(Tail(s), Searching, <<Do("set_iter"), Go("mode")>>)
      BY <2>2, <3>2 DEF ModeAt
    <3> QED
      BY <1>5, <2>1, <2>4, <3>1, <3>2, ModeFields, EndsFirst
  <2>5. ASSUME NEW tail \in SetMode, Ends(s, Finding(gpu), tail)
        PROVE  ModeAt(p)'
    <3>1. CASE s = tail
      <4>1. Cur(p).op = "set_mode" /\ \A i \in 1..Len(Tail(s)) : Tail(s)[i] \in Setting
        BY <1>5, <2>1, <3>1, SetModeFacts, ModeFields
      <4>2. Tail(s) \in Seq(StepsOf(call[p]))
        BY <1>5, <2>1, SeqFacts
      <4> QED
        BY <2>1, <2>2, <4>1, <4>2, LenProperties DEF ModeAt
    <3>2. CASE Ends(Tail(s), Finding(gpu), tail)
      BY <1>1, <2>2, <3>2 DEF ModeAt
    <3> QED
      BY <1>5, <2>1, <2>5, <3>1, <3>2, SetModeFacts, EndsFirst
  <2>6. CASE p \in stored /\ \A i \in DOMAIN s : s[i] \in Setting
    <3>1. /\ Tail(s) \in Seq(StepsOf(call[p])) /\ Len(Tail(s)) = Len(s) - 1
          /\ \A i \in 1..(Len(s) - 1) : Tail(s)[i] = s[i + 1]
      BY <1>5, <2>1, SeqFacts
    <3>2. DOMAIN s = 1..Len(s) /\ Len(s) \in Nat /\ DOMAIN Tail(s) = 1..(Len(s) - 1)
      BY <1>5, <2>1, <3>1, LenProperties
    <3>3. \A i \in DOMAIN Tail(s) : Tail(s)[i] \in Setting
      BY <2>6, <3>1, <3>2
    <3> QED
      BY <2>1, <2>2, <2>6, <3>3 DEF ModeAt
  <2> QED
    BY <1>5, <2>1, <2>3, <2>4, <2>5, <2>6 DEF ModeAt
<1>7. ASSUME NEW label \in Labels(call[p]), Jumps(p, label)
      PROVE  ModeAt(p)'
  <2>1. /\ InCall(p) /\ call[p] = "preempt_mode" /\ label \in Labels("preempt_mode")
        /\ Cur(p).fail = label /\ Cur(p).op \in {"reg", "addr", "go"}
        /\ Cur(p).op \in {"reg", "addr"} => faults' > 0
        /\ pc' = [pc EXCEPT ![p] = Steps(Block(gpu, "preempt_mode", label))]
    BY <1>7 DEF Jumps
  <2>2. Left(p)' = Block(gpu, "preempt_mode", label)
    BY <2>1 DEF Left, Steps, StepsInv
  <2>3. label # "garbage"
    BY <2>1, NoGarbageLabel DEF Files
  <2>4. \/ label \in {"begin", "runlist_pramin", "mode", "err"}
        \/ label = "unset" /\ (NoWay(gpu) \/ faults' > 0)
    <3>1. CASE s = <<Go("mode")>> \/ s \in {<<Do("return")>>, <<Do("return_error")>>}
      BY <1>5, <2>1, <3>1, ModeFields
    <3>2. CASE Ends(s, Searching, <<Do("set_iter"), Go("mode")>>)
      <4>1. s[1] = Do("set_iter") \/ s[1] \in Searching
        BY <1>5, <2>1, <3>2, ModeFields, EndsFirst
      <4> QED
        BY <1>5, <2>1, <2>3, <4>1, ModeFields, SearchingStep
    <3>3. ASSUME NEW tail \in SetMode, Ends(s, Finding(gpu), tail)
          PROVE  label = "err" \/ (label = "unset" /\ (NoWay(gpu) \/ faults' > 0))
      <4>1. s[1] = Do("set_mode") \/ s[1] \in Finding(gpu)
        BY <1>5, <2>1, <3>3, SetModeFacts, EndsFirst
      <4> QED
        BY <1>5, <2>1, <2>3, <4>1, ModeFields, FindingStep
    <3>4. CASE \A i \in DOMAIN s : s[i] \in Setting
      <4>1. 1 \in DOMAIN s
        BY <1>5, <2>1, LenProperties, EmptySeq
      <4> QED
        BY <1>5, <2>1, <3>4, <4>1, SettingStep
    <3> QED
      BY <1>5, <2>1, <3>1, <3>2, <3>3, <3>4 DEF ModeAt
  <2> QED
    BY <1>2, <2>1, <2>2, <2>4
<1>8. ASSUME NEW r, Quits(p, r)
      PROVE  FALSE
  BY <1>8 DEF Quits, ExitInv, CallInv
<1> QED
  BY <1>3, <1>4, <1>6, <1>7, <1>8 DEF Moves

\* A call that returns has set the mode, or has a reason not to.
LEMMA ModeReturns ==
  ASSUME ExitInv, StepsInv, NEW p \in Procs, InCall(p), call[p] = "preempt_mode", Cur(p).op = "return"
  PROVE  p \in stored \/ NoWay(gpu) \/ faults > 0
<1> DEFINE s == Left(p)
<1>1. /\ ModeAt(p) /\ Cur(p) = s[1] /\ s \in Seq(StepsOf(call[p])) /\ s # <<>>
  BY AtStep, ClosedFacts DEF StepsInv
<1>2. CASE s \in {<<Go("mode")>>, <<Do("return_error")>>}
  BY <1>1, <1>2, ModeFields
<1>3. CASE Ends(s, Searching, <<Do("set_iter"), Go("mode")>>)
  <2>1. s[1] = Do("set_iter") \/ s[1] \in Searching
    BY <1>1, <1>3, ModeFields, EndsFirst
  <2> QED
    BY <1>1, <2>1, ModeFields, SearchingStep
<1>4. ASSUME NEW tail \in SetMode, Ends(s, Finding(gpu), tail)
      PROVE  FALSE
  <2>1. s[1] = Do("set_mode") \/ s[1] \in Finding(gpu)
    BY <1>1, <1>4, SetModeFacts, EndsFirst
  <2> QED
    BY <1>1, <2>1, ModeFields, FindingStep
<1> QED
  BY <1>1, <1>2, <1>3, <1>4 DEF ModeAt

-----------------------------------------------------------------------------
(* Every step keeps StepsInv. *)

LEMMA StepsInit == Init => StepsInv
<1> SUFFICES ASSUME Init
             PROVE  StepsInv
  OBVIOUS
<1>1. /\ pc = [p \in Procs |-> Steps(<<>>)] /\ result = [p \in Procs |-> <<"none", "none">>]
      /\ faults = 0 /\ stored = {} /\ \A p \in Procs : ~InCall(p) /\ call[p] = "none"
      /\ \A p \in Procs : walk[p].at = "none"
  BY DEF Init, InCall, NoWalk, At
<1>2. Steps(<<>>) \in Pcs
  BY DEF Steps, Pcs
<1> QED
  BY <1>1, <1>2 DEF StepsInv, Pcs, Maps

LEMMA ProcKeepsSteps ==
  ASSUME ExitInv, StepsInv, ExitInv', NEW p \in Procs, Moves(p), ProcFrame(p)
  PROVE  StepsInv'
<1>1. /\ call \in [Procs -> Files \cup {"none"}] /\ call' \in [Procs -> Files \cup {"none"}]
      /\ gpu' = gpu /\ faults' \in Nat /\ faults' >= faults /\ faults \in Nat
  BY DEF ExitInv, CallInv, ProcFrame, StepsInv
<1>2. \A q \in Procs \ {p} : /\ call'[q] = call[q] /\ pc'[q] = pc[q] /\ result'[q] = result[q]
                             /\ q \in stored' <=> q \in stored
                             /\ walk'[q] = walk[q]
  BY OthersWait DEF ProcFrame
<1> DEFINE Results == (Files \cup {"none"}) \X {"none", "ok", "error", "cut"}
           Good == /\ pc' \in [Procs -> Pcs] /\ result' \in [Procs -> Results]
                   /\ InCall(p)' => result'[p] = <<"none", "none">> /\ Closed(call'[p], Left(p)')
                   /\ result'[p] = <<"preempt_mode", "ok">> => p \in stored' \/ NoWay(gpu) \/ faults > 0
<1>3. ASSUME StartCall(p)
      PROVE  Good
  <2> DEFINE c == gpu.calls[p][made[p] + 1]
  <2>1. /\ call' = [call EXCEPT ![p] = c] /\ pc' = [pc EXCEPT ![p] = Steps(Block(gpu, c, "begin"))]
        /\ result' = [result EXCEPT ![p] = <<"none", "none">>]
    BY <1>3 DEF StartCall
  <2>2. c \in Files
    BY <1>3, CasesAssumption DEF StartCall, ExitInv, CallInv, Procs
  <2>3. Closed(c, Block(gpu, c, "begin"))
    BY <2>2, BlocksClosed, NoGarbageLabel
  <2>4. Steps(Block(gpu, c, "begin")) \in Pcs /\ Left(p)' = Block(gpu, c, "begin")
    BY <2>1, <2>2, <2>3, ClosedTyped DEF Left, StepsInv
  <2>5. result' \in [Procs -> Results] /\ result'[p] = <<"none", "none">>
    BY <2>1 DEF StepsInv
  <2> QED
    BY <1>1, <2>1, <2>3, <2>4, <2>5 DEF StepsInv, Pcs
<1>4. ASSUME Waits(p)
      PROVE  Good
  BY <1>1, <1>4 DEF Waits, StepsInv, Left, InCall
<1>5. ASSUME Passes(p)
      PROVE  Good
  <2>1. InCall(p) /\ UNCHANGED <<call, result>> /\ pc' = [pc EXCEPT ![p] = Steps(Tail(Left(p)))]
        /\ Cur(p).op \notin Lasts
    BY <1>5 DEF Passes
  <2>2. call[p] \in Files /\ Closed(call[p], Tail(Left(p))) /\ result[p] = <<"none", "none">>
    BY <2>1, AtStep
  <2>3. Steps(Tail(Left(p))) \in Pcs /\ Left(p)' = Tail(Left(p))
    BY <2>1, <2>2, ClosedTyped DEF Left, StepsInv
  <2> QED
    BY <1>1, <2>1, <2>2, <2>3 DEF StepsInv, Pcs
<1>6. ASSUME NEW label \in Labels(call[p]), Jumps(p, label)
      PROVE  Good
  <2> DEFINE b == Block(gpu, call[p], label)
  <2>1. InCall(p) /\ UNCHANGED <<call, result>> /\ pc' = [pc EXCEPT ![p] = Steps(b)]
    BY <1>6 DEF Jumps
  <2>2. call[p] \in Files /\ Closed(call[p], b) /\ result[p] = <<"none", "none">>
    BY <2>1, <1>6, AtStep, BlocksClosed
  <2>3. Steps(b) \in Pcs /\ Left(p)' = b
    BY <2>1, <2>2, ClosedTyped DEF Left, StepsInv
  <2> QED
    BY <1>1, <2>1, <2>2, <2>3 DEF StepsInv, Pcs
<1>7. ASSUME NEW r \in {"ok", "error", "cut"}, Quits(p, r)
      PROVE  Good
  <2>1. /\ InCall(p) /\ call' = [call EXCEPT ![p] = "none"]
        /\ result' = [result EXCEPT ![p] = <<call[p], r>>]
        /\ UNCHANGED stored /\ pc' = [pc EXCEPT ![p] = Steps(<<>>)]
    BY <1>7 DEF Quits
  <2>2. Steps(<<>>) \in Pcs /\ ~InCall(p)'
    BY <1>1, <2>1 DEF Steps, Pcs, InCall
  <2>3. result' \in [Procs -> Results] /\ result'[p] = <<call[p], r>>
    BY <1>1, <2>1 DEF StepsInv
  <2>4. result'[p] = <<"preempt_mode", "ok">> => p \in stored' \/ NoWay(gpu) \/ faults > 0
    <3>1. SUFFICES ASSUME call[p] = "preempt_mode", r = "ok"
                   PROVE  p \in stored \/ NoWay(gpu) \/ faults > 0
      BY <2>1, <2>3
    <3> QED
      BY <1>7, <2>1, <3>1, ModeReturns DEF Quits
  <2> QED
    BY <2>1, <2>2, <2>3, <2>4 DEF StepsInv, Pcs
<1>8. Good
  BY <1>3, <1>4, <1>5, <1>6, <1>7 DEF Moves
<1>9. \A q \in Procs : InCall(q)' => result'[q] = <<"none", "none">> /\ Closed(call'[q], Left(q)')
  BY <1>2, <1>8 DEF StepsInv, Left, InCall
<1>10. \A q \in Procs : walk'[q].at # "none" => call'[q] \in Maps
  BY <1>2 DEF StepsInv, ProcFrame
<1>11. ASSUME NEW q \in Procs, call'[q] = "preempt_mode"
       PROVE  ModeAt(q)'
  <2>1. CASE q = p
    BY <1>11, <2>1, ModeGoesOn
  <2>2. CASE q # p
    BY <1>1, <1>2, <1>11, <2>2, ModeStays DEF StepsInv, Left
  <2> QED
    BY <2>1, <2>2
<1>12. ASSUME NEW q \in Procs, result'[q] = <<"preempt_mode", "ok">>
       PROVE  q \in stored' \/ NoWay(gpu') \/ faults' > 0
  <2>1. faults > 0 => faults' > 0
    BY <1>1
  <2>2. CASE q = p
    BY <1>1, <1>8, <1>12, <2>1, <2>2
  <2>3. CASE q # p
    <3>1. q \in stored \/ NoWay(gpu) \/ faults > 0
      BY <1>2, <1>12, <2>3 DEF StepsInv
    <3> QED
      BY <1>1, <1>2, <2>1, <2>3, <3>1
  <2> QED
    BY <2>2, <2>3
<1> QED
  BY <1>1, <1>8, <1>9, <1>10, <1>11, <1>12 DEF StepsInv, Pcs

LEMMA ModuleKeepsSteps ==
  ASSUME StepsInv, UNCHANGED <<call, pc, result, stored, gpu>>,
         \A p \in Procs : walk'[p] = walk[p], NoFault \/ Fault \/ UNCHANGED faults
  PROVE  StepsInv'
<1>1. faults' \in Nat /\ faults' >= faults
  BY DEF NoFault, Fault, StepsInv
<1>2. \A p \in Procs : call'[p] = "preempt_mode" => ModeAt(p)'
  BY <1>1, ModeStays DEF StepsInv, Left
<1> QED
  BY <1>1, <1>2 DEF StepsInv, Left, InCall

\* The steps of others than the processes.
OtherStep == DriverMoves \/ ModuleStep \/ GcSeek \/ GcFree \/ GcEnds \/ UNCHANGED vars

LEMMA OtherFrame ==
  ASSUME ExitInv, OtherStep
  PROVE  /\ UNCHANGED <<call, pc, result, stored, gpu, fileVars>>
         /\ \A p \in Procs : walk'[p] = walk[p]
         /\ NoFault \/ Fault \/ UNCHANGED faults
<1>1. walk \in [Procs \cup {"exit"} -> Walks] /\ "exit" \notin Procs
  BY CasesAssumption DEF ExitInv, WalkInv, Procs
<1>2. CASE DriverMoves \/ ModuleStep
  BY <1>2 DEF DriverMoves, ModuleStep, callVars, KeepMemory
<1>3. CASE GcSeek \/ GcFree
  BY <1>1, <1>3 DEF GcSeek, GcFree, callVars, KeepRest, Goes
<1>4. CASE GcEnds
  BY <1>4 DEF GcEnds, KeepMemory
<1>5. CASE UNCHANGED vars
  BY <1>5 DEF vars, callVars
<1> QED
  BY <1>2, <1>3, <1>4, <1>5 DEF OtherStep

LEMMA NextSplit ==
  [Next]_vars => (\E p \in Procs : CallStep(p) \/ ReadStep(p) \/ MapStep(p)) \/ OtherStep
BY DEF Next, OtherStep, Stopped

LEMMA StepsStep == ExitInv /\ ExitInv' /\ StepsInv /\ [Next]_vars => StepsInv'
BY NextSplit, CallMoves, ReadMoves, MapMoves, ProcKeepsSteps, OtherFrame, ModuleKeepsSteps

-----------------------------------------------------------------------------
(* Counting the entries of a print. *)

LEMMA EntriesFinite ==
  ASSUME NEW s, NEW n \in Nat
  PROVE  IsFiniteSet({i \in 1..n : s[i] # Missing}) /\ Entries(s, n) \in Nat
<1>1. IsFiniteSet(1..n)
  BY FS_Interval
<1>2. IsFiniteSet({i \in 1..n : s[i] # Missing})
  BY <1>1, FS_Subset
<1> QED
  BY <1>2, FS_CardinalityType DEF Entries

LEMMA EntriesNone == \A s : Entries(s, 0) = 0
<1> SUFFICES ASSUME NEW s
             PROVE  Entries(s, 0) = 0
  OBVIOUS
<1>1. {i \in 1..0 : s[i] # Missing} = {}
  OBVIOUS
<1> QED
  BY <1>1, FS_EmptySet DEF Entries

LEMMA EntriesNext ==
  ASSUME NEW s, NEW n \in Nat
  PROVE  Entries(s, n + 1) = IF s[n + 1] = Missing THEN Entries(s, n) ELSE Entries(s, n) + 1
<1> DEFINE E(m) == {i \in 1..m : s[i] # Missing}
<1>1. IsFiniteSet(E(n)) /\ n + 1 \notin E(n)
  BY EntriesFinite
<1>2. CASE s[n + 1] = Missing
  <2>1. E(n + 1) = E(n)
    BY <1>2
  <2> QED
    BY <1>2, <2>1 DEF Entries
<1>3. CASE s[n + 1] # Missing
  <2>1. E(n + 1) = E(n) \cup {n + 1}
    BY <1>3
  <2>2. Cardinality(E(n) \cup {n + 1}) = Cardinality(E(n)) + 1
    BY <1>1, FS_AddElement
  <2> QED
    BY <1>3, <2>1, <2>2 DEF Entries
<1> QED
  BY <1>2, <1>3

\* Two prints with the same beginning have the same entries there.
LEMMA EntriesSame ==
  ASSUME NEW s, NEW t, NEW n \in Nat, \A i \in 1..n : s[i] = t[i]
  PROVE  Entries(s, n) = Entries(t, n)
<1>1. {i \in 1..n : s[i] # Missing} = {i \in 1..n : t[i] # Missing}
  OBVIOUS
<1> QED
  BY <1>1 DEF Entries

LEMMA RecordFacts ==
  /\ Missing \in Records
  /\ \A rl \in DOMAIN Runlists, n \in Nat : <<rl, n>> \in Records /\ <<rl, n>> # Missing
<1>1. ASSUME NEW rl \in DOMAIN Runlists, NEW n \in Nat
      PROVE  <<rl, n>> # Missing
  <2>1. Len(<<rl, n>>) = 2 /\ Len(Missing) = 1
    BY DEF Missing
  <2> QED
    BY <2>1
<1> QED
  BY <1>1 DEF Records

\* A record is appended.
LEMMA AppendFacts ==
  ASSUME NEW s \in Seq(Records), NEW r \in Records
  PROVE  /\ Append(s, r) \in Seq(Records) /\ Len(Append(s, r)) = Len(s) + 1 /\ Len(s) \in Nat
         /\ \A i \in 1..Len(s) : Append(s, r)[i] = s[i]
         /\ Append(s, r)[Len(s) + 1] = r
         /\ \A i \in 0..Len(s) : Entries(Append(s, r), i) = Entries(s, i)
         /\ Entries(Append(s, r), Len(s) + 1) =
              IF r = Missing THEN Entries(s, Len(s)) ELSE Entries(s, Len(s)) + 1
<1> DEFINE t == Append(s, r)
<1>1. /\ t \in Seq(Records) /\ Len(t) = Len(s) + 1 /\ Len(s) \in Nat
      /\ \A i \in 1..Len(s) : t[i] = s[i]
      /\ t[Len(s) + 1] = r
  BY AppendProperties, LenProperties
<1> HIDE DEF t
<1>2. ASSUME NEW i \in 0..Len(s)
      PROVE  Entries(t, i) = Entries(s, i)
  <2>1. i \in Nat /\ \A j \in 1..i : t[j] = s[j]
    BY <1>1
  <2> QED
    BY <2>1, EntriesSame
<1>3. Entries(t, Len(s) + 1) = IF r = Missing THEN Entries(s, Len(s)) ELSE Entries(s, Len(s)) + 1
  <2>1. Entries(t, Len(s)) = Entries(s, Len(s))
    BY <1>1, <1>2
  <2> QED
    BY <1>1, <2>1, EntriesNext
<1> QED
  BY <1>1, <1>2, <1>3 DEF t

\* Missing channels are reported.
LEMMA MissingFacts ==
  ASSUME NEW s \in Seq(Records), NEW k \in Nat
  PROVE  LET t == s \o [i \in 1..k |-> Missing] IN
           /\ t \in Seq(Records) /\ Len(t) = Len(s) + k /\ Len(s) \in Nat
           /\ \A i \in 1..Len(s) : t[i] = s[i]
           /\ \A i \in 1..k : t[Len(s) + i] = Missing
           /\ \A i \in 0..Len(s) : Entries(t, i) = Entries(s, i)
           /\ Entries(t, Len(t)) = Entries(s, Len(s))
<1> DEFINE m == [i \in 1..k |-> Missing]
           t == s \o m
<1>1. m \in Seq(Records) /\ Len(m) = k /\ \A i \in 1..k : m[i] = Missing
  BY RecordFacts, IsASeq
<1>2. Len(s) \in Nat
  BY LenProperties
<1> HIDE DEF m
<1>3. /\ t \in Seq(Records) /\ Len(t) = Len(s) + k
      /\ \A i \in 1..Len(s) : t[i] = s[i]
      /\ \A i \in 1..k : t[Len(s) + i] = Missing
  <2>1. t \in Seq(Records) /\ Len(t) = Len(s) + Len(m)
    BY <1>1, ConcatProperties
  <2>2. \A i \in 1..Len(s) + Len(m) : t[i] = IF i <= Len(s) THEN s[i] ELSE m[i - Len(s)]
    BY <1>1, ConcatProperties
  <2>3. ASSUME NEW i \in 1..Len(s)
        PROVE  t[i] = s[i]
    <3>1. i \in 1..Len(s) + Len(m) /\ i <= Len(s)
      BY <1>1, <1>2
    <3> QED
      BY <2>2, <3>1
  <2>4. ASSUME NEW i \in 1..k
        PROVE  t[Len(s) + i] = Missing
    <3>1. Len(s) + i \in 1..Len(s) + Len(m) /\ ~(Len(s) + i <= Len(s)) /\ (Len(s) + i) - Len(s) = i
      BY <1>1, <1>2
    <3>2. t[Len(s) + i] = m[(Len(s) + i) - Len(s)]
      BY <2>2, <3>1
    <3> QED
      BY <1>1, <3>1, <3>2
  <2> QED
    BY <1>1, <2>1, <2>3, <2>4
<1> HIDE DEF t
<1>4. ASSUME NEW i \in 0..Len(s)
      PROVE  Entries(t, i) = Entries(s, i)
  <2>1. i \in Nat /\ \A j \in 1..i : t[j] = s[j]
    BY <1>2, <1>3
  <2> QED
    BY <2>1, EntriesSame
<1>5. Entries(t, Len(t)) = Entries(s, Len(s))
  <2>1. {i \in 1..Len(t) : t[i] # Missing} = {i \in 1..Len(s) : t[i] # Missing}
    <3>1. ASSUME NEW i \in 1..Len(t), i \notin 1..Len(s)
          PROVE  t[i] = Missing
      <4>1. i - Len(s) \in 1..k /\ i = Len(s) + (i - Len(s))
        BY <1>2, <1>3, <3>1
      <4> QED
        BY <1>3, <4>1
    <3>2. 1..Len(s) \subseteq 1..Len(t)
      BY <1>2, <1>3
    <3> QED
      BY <3>1, <3>2
  <2>2. Entries(t, Len(s)) = Entries(s, Len(s))
    BY <1>2, <1>4
  <2> QED
    BY <2>1, <2>2 DEF Entries
<1> QED
  BY <1>2, <1>3, <1>4, <1>5 DEF t, m

-----------------------------------------------------------------------------
(* What a record does to a print. *)

LEMMA PrintsEmpty ==
  ASSUME NEW p, NEW again, NEW rl \in DOMAIN Runlists
  PROVE  Prints(p, rl, <<>>, 0, again)
<1>1. Runlists[rl] \in Seq(Nat)
  BY RunlistsAssumption
<1>2. 0 \in 0..Len(Runlists[rl])
  BY <1>1, LenProperties
<1> QED
  BY <1>2, EntriesNone DEF Prints

LEMMA PrintsAppend ==
  ASSUME NEW p, NEW again, NEW rl \in DOMAIN Runlists, NEW s, NEW n,
         Prints(p, rl, s, n, again), n < Len(Runlists[rl])
  PROVE  Prints(p, rl, Append(s, <<rl, n + 1>>), n + 1, again)
<1> DEFINE r == <<rl, n + 1>>
           t == Append(s, r)
<1>1. Runlists[rl] \in Seq(Nat) /\ Len(Runlists[rl]) \in Nat
  BY RunlistsAssumption, LenProperties
<1>2. /\ n \in 0..Len(Runlists[rl]) /\ s \in Seq(Records) /\ Entries(s, Len(s)) = n
      /\ \A i \in DOMAIN s : s[i] = <<rl, Entries(s, i)>> \/ (s[i] = Missing /\ p \in again)
  BY DEF Prints
<1>3. n + 1 \in 0..Len(Runlists[rl]) /\ n + 1 \in Nat
  BY <1>1, <1>2
<1>4. r \in Records /\ r # Missing
  BY <1>3, RecordFacts
<1> HIDE DEF r
<1>5. /\ t \in Seq(Records) /\ Len(t) = Len(s) + 1 /\ Len(s) \in Nat
      /\ \A i \in 1..Len(s) : t[i] = s[i]
      /\ t[Len(s) + 1] = r
      /\ \A i \in 0..Len(s) : Entries(t, i) = Entries(s, i)
      /\ Entries(t, Len(s) + 1) = n + 1
  BY <1>2, <1>4, AppendFacts
<1> HIDE DEF t
<1>6. DOMAIN s = 1..Len(s) /\ DOMAIN t = 1..Len(t)
  BY <1>2, <1>5, LenProperties
<1>7. ASSUME NEW i \in DOMAIN t
      PROVE  t[i] = <<rl, Entries(t, i)>> \/ (t[i] = Missing /\ p \in again)
  <2>1. CASE i = Len(s) + 1
    BY <1>5, <2>1 DEF r
  <2>2. CASE i # Len(s) + 1
    <3>1. i \in 1..Len(s) /\ i \in 0..Len(s)
      BY <1>5, <1>6, <2>2
    <3> QED
      BY <1>2, <1>5, <1>6, <3>1
  <2> QED
    BY <2>1, <2>2
<1>8. Entries(t, Len(t)) = n + 1
  BY <1>5
<1> QED
  BY <1>3, <1>5, <1>7, <1>8 DEF Prints, t, r

LEMMA PrintsMissing ==
  ASSUME NEW p, NEW again, NEW rl \in DOMAIN Runlists, NEW s, NEW n,
         Prints(p, rl, s, n, again), NEW k \in Nat, k = 0 \/ p \in again
  PROVE  Prints(p, rl, s \o [i \in 1..k |-> Missing], n, again)
<1> DEFINE t == s \o [i \in 1..k |-> Missing]
<1>1. /\ n \in 0..Len(Runlists[rl]) /\ s \in Seq(Records) /\ Entries(s, Len(s)) = n
      /\ \A i \in DOMAIN s : s[i] = <<rl, Entries(s, i)>> \/ (s[i] = Missing /\ p \in again)
  BY DEF Prints
<1>2. /\ t \in Seq(Records) /\ Len(t) = Len(s) + k /\ Len(s) \in Nat
      /\ \A i \in 1..Len(s) : t[i] = s[i]
      /\ \A i \in 1..k : t[Len(s) + i] = Missing
      /\ \A i \in 0..Len(s) : Entries(t, i) = Entries(s, i)
      /\ Entries(t, Len(t)) = Entries(s, Len(s))
  BY <1>1, MissingFacts
<1> HIDE DEF t
<1>3. DOMAIN s = 1..Len(s) /\ DOMAIN t = 1..Len(t)
  BY <1>1, <1>2, LenProperties
<1>4. ASSUME NEW i \in DOMAIN t
      PROVE  t[i] = <<rl, Entries(t, i)>> \/ (t[i] = Missing /\ p \in again)
  <2>1. CASE i \in 1..Len(s)
    <3>1. i \in 0..Len(s)
      BY <1>2, <2>1
    <3> QED
      BY <1>1, <1>2, <1>3, <2>1, <3>1
  <2>2. CASE i \notin 1..Len(s)
    <3>1. k # 0 /\ i - Len(s) \in 1..k /\ i = Len(s) + (i - Len(s))
      BY <1>2, <1>3, <2>2
    <3> QED
      BY <1>2, <3>1
  <2> QED
    BY <2>1, <2>2
<1> QED
  BY <1>1, <1>2, <1>4 DEF Prints, t

LEMMA PrintsMore ==
  ASSUME NEW p, NEW rl, NEW s, NEW n, NEW again, NEW more, p \in again => p \in more,
         Prints(p, rl, s, n, again)
  PROVE  Prints(p, rl, s, n, more)
BY DEF Prints

-----------------------------------------------------------------------------
(* What the steps do to the file that is read. *)

\* The iterator.
LEMMA IterStays ==
  ASSUME ReadersInv, UNCHANGED <<iter, pos>>
  PROVE  /\ pos' \in [Procs -> Nat]
         /\ iter' \in [rl : DOMAIN Runlists \cup {"none"}, at : Nat, left : Nat, len : Nat]
         /\ iter'.rl # "none" => iter'.at > 0
BY DEF ReadersInv

LEMMA IterTyped ==
  ASSUME ReadersInv, NEW p \in Procs, NEW rl \in DOMAIN Runlists,
         \/ UNCHANGED <<iter, pos>>
         \/ Open(p)
         \/ ClearIter /\ UNCHANGED pos
         \/ SetIter(rl) /\ UNCHANGED pos
         \/ InRange /\ ShowTsg(p)
         \/ SeqNext(p)
  PROVE  /\ pos' \in [Procs -> Nat]
         /\ iter' \in [rl : DOMAIN Runlists \cup {"none"}, at : Nat, left : Nat, len : Nat]
         /\ iter'.rl # "none" => iter'.at > 0
<1>1. /\ pos \in [Procs -> Nat]
      /\ iter.rl # "none" => iter.at > 0
      /\ iter \in [rl : DOMAIN Runlists \cup {"none"}, at : Nat, left : Nat, len : Nat]
  BY DEF ReadersInv
<1>2. CASE UNCHANGED <<iter, pos>>
  BY <1>1, <1>2
<1>3. CASE Open(p)
  BY <1>1, <1>3 DEF Open
<1>4. CASE ClearIter /\ UNCHANGED pos
  BY <1>1, <1>4 DEF ClearIter, NoIter
<1>5. CASE SetIter(rl) /\ UNCHANGED pos
  <2>1. Len(Runlists[rl]) \in Nat
    BY RunlistsAssumption, LenProperties
  <2> QED
    BY <1>1, <1>5, <2>1 DEF SetIter
<1>6. CASE InRange /\ ShowTsg(p)
  <2>1. iter.rl \in DOMAIN Runlists /\ iter.at \in 1..Len(Runlists[iter.rl])
    BY <1>1, <1>6 DEF InRange
  <2>2. Runlists[iter.rl] \in Seq(Nat)
    BY <2>1, RunlistsAssumption
  <2>3. TsgLength \in Nat
    BY <2>1, <2>2, ElementOfSeq DEF TsgLength
  <2> QED
    BY <1>1, <1>6, <2>3 DEF ShowTsg
<1>7. CASE SeqNext(p)
  <2>1. /\ iter' = [iter EXCEPT !.at = iter.at + 1, !.left = IF iter.left > 0 THEN iter.left - 1 ELSE 0]
        /\ pos' = [pos EXCEPT ![p] = pos[p] + 1]
    BY <1>7 DEF SeqNext
  <2>2. iter.at + 1 \in Nat /\ iter.at + 1 > 0 /\ (IF iter.left > 0 THEN iter.left - 1 ELSE 0) \in Nat
    BY <1>1
  <2>3. pos[p] + 1 \in Nat
    BY <1>1
  <2> QED
    BY <1>1, <2>1, <2>2, <2>3
<1> QED
  BY <1>2, <1>3, <1>4, <1>5, <1>6, <1>7

\* What a step leaves to the other processes.
FileFrame(p) ==
  /\ \A q \in Procs \ {p} :
       /\ printed'[q] = printed[q] /\ buffer'[q] = buffer[q] /\ pos'[q] = pos[q]
       /\ q \in reshown' <=> q \in reshown
  /\ DOMAIN printed' = DOMAIN printed /\ DOMAIN buffer' = DOMAIN buffer

LEMMA FrameOfFile ==
  ASSUME ReadersInv, NEW p \in Procs,
         \/ UNCHANGED <<pos, printed, buffer, reshown>>
         \/ Open(p) \/ ShowTsg(p) \/ ShowChannel(p) \/ Fits(p) \/ Overflows(p) \/ SeqNext(p)
  PROVE  FileFrame(p)
<1>1. CASE UNCHANGED <<pos, printed, buffer, reshown>>
  BY <1>1 DEF FileFrame
<1> USE DEF ReadersInv
<1>2. CASE Open(p)
  BY <1>2 DEF FileFrame, Open
<1>3. CASE ShowTsg(p) \/ ShowChannel(p)
  BY <1>3 DEF FileFrame, ShowTsg, ShowChannel
<1>4. CASE Fits(p) \/ Overflows(p)
  BY <1>4 DEF FileFrame, Fits, Overflows
<1>5. CASE SeqNext(p)
  BY <1>5 DEF FileFrame, SeqNext
<1> QED
  BY <1>1, <1>2, <1>3, <1>4, <1>5

LEMMA CallStepFile ==
  ASSUME ExitInv, StepsInv, NEW p \in Procs, CallStep(p), ~StartCall(p)
  PROVE  /\ UNCHANGED fileVars /\ gpu' = gpu /\ seen \subseteq seen'
         /\ InCall(p)
         /\ call[p] = "read" => Cur(p).op \notin {"clear_iter", "set_iter", "seq_start", "show", "shown", "next"}
         /\ call' = call \/ Return(p)
<1>1. CASE Return(p)
  <2>1. Cur(p).op \in {"return", "return_error"} /\ InCall(p)
    BY <1>1 DEF Return, Doing
  <2> QED
    BY <1>1, <2>1 DEF Return, Finish, KeepRest
<1>2. CASE ReadRegister(p) \/ LookAtWindow(p) \/ MoveWindow(p) \/ UsePointer(p)
  <2>1. Cur(p).op \in {"reg", "addr", "use"} /\ InCall(p)
    BY <1>2 DEF ReadRegister, LookAtWindow, MoveWindow, UsePointer, Doing
  <2>2. UNCHANGED <<fileVars, gpu, seen, call>>
    BY <1>2 DEF ReadRegister, LookAtWindow, MoveWindow, UsePointer, KeepCall, KeepRest
  <2> QED
    BY <2>1, <2>2
<1>3. CASE GoAstray(p)
  <2>1. UNCHANGED <<fileVars, gpu, seen, call>> /\ InCall(p)
    BY <1>3 DEF GoAstray, KeepCall, KeepRest
  <2>2. call[p] = "read" => walk[p].at = "none"
    BY DEF StepsInv, Maps
  <2>3. call[p] = "read" => Cur(p).op = "use"
    BY <1>3, <2>2 DEF GoAstray, Doing
  <2> QED
    BY <2>1, <2>3
<1>4. CASE LocalStep(p)
  <2>1. UNCHANGED <<fileVars, gpu, seen, call>>
    BY <1>4 DEF LocalStep, KeepRest
  <2>2. Cur(p).op \in {"bypass", "go", "save", "restore", "set_mode", "set_timeout"} /\ InCall(p)
    BY <1>4 DEF LocalStep, Doing
  <2> QED
    BY <2>1, <2>2
<1> QED
  BY <1>1, <1>2, <1>3, <1>4 DEF CallStep

LEMMA MapStepFile ==
  ASSUME ExitInv, StepsInv, NEW p \in Procs, MapStep(p)
  PROVE  UNCHANGED fileVars /\ gpu' = gpu /\ seen \subseteq seen' /\ call[p] \in Maps
<1>1. CASE StartWalk(p)
  <2>1. InCall(p) /\ Cur(p).op = "map_pages"
    BY <1>1 DEF StartWalk, Doing
  <2>2. call[p] \in Maps
    BY <2>1, AtStep, OpsOfCalls
  <2> QED
    BY <1>1, <2>2 DEF StartWalk, KeepCall, KeepRest
<1>2. CASE WalkStep(p)
  <2>1. walk[p].at # "none"
    BY <1>2 DEF WalkStep, DerefTable, MoveToTable, ReadEntry, WritePte, SkipMapping, Exists,
                Allocate, LinkPage
  <2> QED
    BY <1>2, <2>1 DEF WalkStep, KeepCall, KeepRest, StepsInv
<1>3. CASE WalkEnds(p)
  <2>1. walk[p].at # "none"
    BY <1>3 DEF WalkEnds, Exists, InUse, LosePage
  <2>2. UNCHANGED fileVars /\ gpu' = gpu
    BY <1>3 DEF WalkEnds, KeepRest
  <2>3. seen \subseteq seen'
    BY <1>3 DEF WalkEnds, EndWalk, Finish
  <2> QED
    BY <2>1, <2>2, <2>3 DEF StepsInv
<1> QED
  BY <1>1, <1>2, <1>3 DEF MapStep

FileTyped ==
  /\ pos \in [Procs -> Nat]
  /\ iter \in [rl : DOMAIN Runlists \cup {"none"}, at : Nat, left : Nat, len : Nat]
  /\ iter.rl # "none" => iter.at > 0

LEMMA RunlistOf ==
  ASSUME ExitInv, NEW p \in Procs
  PROVE  gpu.runlist[p] \in DOMAIN Runlists
BY CasesAssumption DEF ExitInv, CallInv, Procs

LEMMA ReadStepFile ==
  ASSUME ExitInv, StepsInv, ReadersInv, NEW p \in Procs, ReadStep(p)
  PROVE  /\ FileFrame(p) /\ FileTyped' /\ gpu' = gpu /\ seen \subseteq seen'
         /\ call[p] # "read" => UNCHANGED fileVars
         /\ call'[p] \in {call[p], "none"}
<1>1. call \in [Procs -> Files \cup {"none"}]
  BY DEF ExitInv, CallInv
<1>2. CASE Iterate(p)
  <2>1. UNCHANGED <<pos, printed, buffer, reshown, gpu, seen, call>>
    BY <1>2 DEF Iterate, KeepCall, KeepRest
  <2>2. \/ UNCHANGED iter
        \/ call[p] = "read" /\ (ClearIter \/ SetIter(gpu.runlist[p]))
    BY <1>2 DEF Iterate
  <2>3. FileFrame(p)
    BY <2>1, FrameOfFile
  <2>4. FileTyped'
    BY <2>1, <2>2, IterTyped, RunlistOf DEF FileTyped
  <2> QED
    BY <2>1, <2>2, <2>3, <2>4 DEF fileVars
<1>3. CASE SeqStart(p) \/ SeqEmpty(p)
  <2>1. UNCHANGED <<fileVars, gpu>> /\ seen \subseteq seen'
    BY <1>3 DEF SeqStart, SeqEmpty, Finish, KeepRest
  <2>2. call'[p] \in {call[p], "none"}
    BY <1>1, <1>3 DEF SeqStart, SeqEmpty, Finish
  <2>3. FileFrame(p) /\ FileTyped'
    BY <2>1, FrameOfFile, IterStays DEF FileTyped, fileVars
  <2> QED
    BY <2>1, <2>2, <2>3
<1>4. ASSUME SeqShow(p) \/ Shown(p) \/ SeqAdvance(p)
      PROVE  UNCHANGED <<gpu, seen, call>> /\ call[p] = "read"
  <2>1. InCall(p) /\ Cur(p).op \in {"show", "shown", "next"} /\ UNCHANGED <<gpu, seen, call>>
    BY <1>4 DEF SeqShow, Shown, SeqAdvance, Doing, KeepCall, KeepRest
  <2> QED
    BY <2>1, AtStep, OpsOfCalls
<1>5. CASE SeqShow(p)
  <2>1. \/ InRange /\ ShowTsg(p)
        \/ ShowChannel(p)
        \/ UNCHANGED fileVars
    BY <1>5 DEF SeqShow
  <2>2. ShowChannel(p) => UNCHANGED <<iter, pos>>
    BY DEF ShowChannel
  <2>3. FileTyped'
    BY <2>1, <2>2, IterTyped, RunlistOf DEF FileTyped, fileVars
  <2>4. FileFrame(p)
    BY <2>1, FrameOfFile DEF fileVars
  <2> QED
    BY <1>4, <1>5, <2>3, <2>4
<1>6. CASE Shown(p)
  <2>1. (Fits(p) \/ Overflows(p)) /\ UNCHANGED <<iter, pos>>
    BY <1>6 DEF Shown, Fits, Overflows
  <2>2. FileTyped'
    BY <2>1, IterStays DEF FileTyped
  <2>3. FileFrame(p)
    BY <2>1, FrameOfFile
  <2> QED
    BY <1>4, <1>6, <2>2, <2>3
<1>7. CASE SeqAdvance(p)
  <2>1. SeqNext(p)
    BY <1>7 DEF SeqAdvance
  <2>2. FileFrame(p) /\ FileTyped'
    BY <2>1, FrameOfFile, IterTyped, RunlistOf DEF FileTyped
  <2> QED
    BY <1>4, <1>7, <2>2
<1> QED
  BY <1>2, <1>3, <1>5, <1>6, <1>7 DEF ReadStep

LEMMA StartCallFile ==
  ASSUME ExitInv, StepsInv, ReadersInv, NEW p \in Procs, StartCall(p)
  PROVE  /\ FileFrame(p) /\ FileTyped' /\ gpu' = gpu /\ seen \subseteq seen'
         /\ call[p] = "none"
         /\ IF call'[p] = "read" THEN Open(p) /\ Left(p)' = <<Do("seq_start")>>
                                 ELSE UNCHANGED fileVars
         /\ result'[p] = <<"none", "none">>
         /\ call'[p] = "read" /\ (\E q \in Procs \ {p} : call[q] = "read") => "readers" \in seen'
<1> DEFINE c == gpu.calls[p][made[p] + 1]
           others == {call[q] : q \in Procs \ {p}}
<1>1. /\ call' = [call EXCEPT ![p] = c] /\ call[p] = "none" /\ gpu' = gpu
      /\ IF c = "read" THEN Open(p) ELSE UNCHANGED fileVars
      /\ pc' = [pc EXCEPT ![p] = Steps(Block(gpu, c, "begin"))]
      /\ result' = [result EXCEPT ![p] = <<"none", "none">>]
      /\ seen' = seen \cup (IF c = "read" /\ "read" \in others THEN {"readers"} ELSE {})
                      \cup (IF c \in Maps /\ Maps \cap others # {} THEN {"maps"} ELSE {})
  BY DEF StartCall, KeepRest, InCall
<1>2. call'[p] = c
  BY <1>1 DEF ExitInv, CallInv
<1>3. FileFrame(p) /\ FileTyped'
  BY <1>1, FrameOfFile, IterTyped, RunlistOf DEF FileTyped, fileVars
<1>4. c = "read" => Left(p)' = <<Do("seq_start")>>
  <2>1. Block(gpu, "read", "begin") = <<Do("seq_start")>>
    BY ReadBlocks
  <2> QED
    BY <1>1, <2>1 DEF Left, Steps, StepsInv
<1>5. result'[p] = <<"none", "none">>
  BY <1>1 DEF StepsInv
<1>6. seen \subseteq seen'
  BY <1>1
<1>7. c = "read" /\ (\E q \in Procs \ {p} : call[q] = "read") => "readers" \in seen'
  BY <1>1
<1> HIDE DEF c
<1> QED
  BY <1>1, <1>2, <1>3, <1>4, <1>5, <1>6, <1>7

-----------------------------------------------------------------------------
(* Where a reader is, by its next step. *)

ToShow == <<Do("set_iter"), Go("show")>>
ToShown == <<Do("shown")>>

LEMMA ReaderPlace ==
  ASSUME ExitInv, StepsInv, NEW p \in Procs, InCall(p), ReaderAt(p)
  PROVE  \/ Cur(p).op = "seq_start" /\ Resumes(p)
         \/ Opened(p) /\ Cur(p) \in Searching /\ Ends(Tail(Left(p)), Searching, ToShow)
         \/ Opened(p) /\ Cur(p).op = "set_iter" /\ Tail(Left(p)) = <<Go("show")>>
         \/ Reading(p) /\ Cur(p) = Go("show")
         \/ Reading(p) /\ Cur(p).op = "use" /\ Tail(Left(p)) = <<Do("show")>>
         \/ Reading(p) /\ Cur(p).op = "show"
         \/ Shows(p) /\ Cur(p) \in Printing /\ Ends(Tail(Left(p)), Printing, ToShown)
         \/ Shows(p) /\ Cur(p).op = "shown"
         \/ HasShown(p) /\ Cur(p).op = "next"
         \/ GivesUp(p) /\ Cur(p).op = "return_error"
<1>1. Cur(p) = Left(p)[1] /\ Left(p) \in Seq(StepsOf(call[p])) /\ Left(p) # <<>>
  BY AtStep DEF Closed
<1>2. /\ \A op : <<Do(op)>>[1].op = op
      /\ <<Go("show")>>[1] = Go("show")
      /\ <<Use("rl"), Do("show")>>[1].op = "use"
      /\ Tail(<<Use("rl"), Do("show")>>) = <<Do("show")>>
      /\ ToShow[1].op = "set_iter" /\ Tail(ToShow) = <<Go("show")>>
      /\ ToShown[1].op = "shown"
  <2>1. /\ \A a : <<a>>[1] = a
        /\ \A a, b : <<a, b>>[1] = a /\ Tail(<<a, b>>) = <<b>>
    OBVIOUS
  <2>2. Use("rl").op = "use" /\ \A op : Do(op).op = op
    BY DEF Use, Do, Step
  <2>3. \A op : <<Do(op)>>[1].op = op
    BY <2>1, <2>2
  <2>4. <<Use("rl"), Do("show")>>[1].op = "use" /\ Tail(<<Use("rl"), Do("show")>>) = <<Do("show")>>
    BY <2>1, <2>2
  <2> QED
    BY <2>1, <2>2, <2>3, <2>4 DEF ToShow, ToShown
<1>3. ToShow \in Seq({Do("set_iter"), Go("show")}) /\ ToShown \in Seq({Do("shown")})
  BY DEF ToShow, ToShown
<1>4. CASE Ends(Left(p), Searching, ToShow) /\ Opened(p)
  <2>1. Left(p) = ToShow \/ (Left(p)[1] \in Searching /\ Ends(Tail(Left(p)), Searching, ToShow))
    BY <1>1, <1>3, <1>4, EndsFirst
  <2> QED
    BY <1>1, <1>2, <1>4, <2>1
<1>5. CASE Ends(Left(p), Printing, ToShown) /\ Shows(p)
  <2>1. Left(p) = ToShown \/ (Left(p)[1] \in Printing /\ Ends(Tail(Left(p)), Printing, ToShown))
    BY <1>1, <1>3, <1>5, EndsFirst
  <2> QED
    BY <1>1, <1>2, <1>5, <2>1
<1>6. CASE Left(p) \in {<<Go("show")>>, <<Use("rl"), Do("show")>>, <<Do("show")>>} /\ Reading(p)
  <2>1. CASE Left(p) = <<Go("show")>>
    BY <1>1, <1>2, <1>6, <2>1
  <2>2. CASE Left(p) = <<Use("rl"), Do("show")>>
    BY <1>1, <1>2, <1>6, <2>2
  <2>3. CASE Left(p) = <<Do("show")>>
    BY <1>1, <1>2, <1>6, <2>3
  <2> QED
    BY <1>6, <2>1, <2>2, <2>3
<1>7. \/ Left(p) = <<Do("seq_start")>> /\ Resumes(p)
      \/ Ends(Left(p), Searching, ToShow) /\ Opened(p)
      \/ Left(p) \in {<<Go("show")>>, <<Use("rl"), Do("show")>>, <<Do("show")>>} /\ Reading(p)
      \/ Ends(Left(p), Printing, ToShown) /\ Shows(p)
      \/ Left(p) = <<Do("next")>> /\ HasShown(p)
      \/ Left(p) = <<Do("return_error")>> /\ GivesUp(p)
  BY DEF ReaderAt, ToShow, ToShown
<1> QED
  BY <1>1, <1>2, <1>4, <1>5, <1>6, <1>7

\* What a process has printed and where it is stay what they are.
LEMMA DataStays ==
  ASSUME NEW p \in Procs, UNCHANGED <<fileVars, gpu>>
  PROVE  /\ Resumes(p)' <=> Resumes(p)
         /\ Opened(p)' <=> Opened(p)
         /\ Reading(p)' <=> Reading(p)
         /\ Shows(p)' <=> Shows(p)
         /\ HasShown(p)' <=> HasShown(p)
         /\ GivesUp(p)' <=> GivesUp(p)
<1>3. Resumes(p)' <=> Resumes(p)
  BY DEF fileVars, Resumes, Kept, Reads, Follows
<1>4. Opened(p)' <=> Opened(p)
  BY DEF fileVars, Opened, Kept, Reads
<1>5. Reading(p)' <=> Reading(p)
  BY DEF fileVars, Reading, Kept, Reads, Follows
<1>6. Shows(p)' <=> Shows(p)
  BY DEF fileVars, Shows, Reads, Follows, AtTsg, TsgLength
<1>7. HasShown(p)' <=> HasShown(p)
  BY DEF fileVars, HasShown, Kept, Reads, Follows
<1>8. GivesUp(p)' <=> GivesUp(p)
  BY DEF fileVars, GivesUp, Kept, Reads, Length
<1> QED
  BY <1>3, <1>4, <1>5, <1>6, <1>7, <1>8

LEMMA ReaderStays ==
  ASSUME NEW p \in Procs, UNCHANGED <<fileVars, gpu>>, Left(p)' = Left(p), ReaderAt(p)
  PROVE  ReaderAt(p)'
<1>1. \/ Left(p)' = <<Do("seq_start")>> /\ Resumes(p)'
      \/ Ends(Left(p)', Searching, ToShow) /\ Opened(p)'
      \/ Left(p)' \in {<<Go("show")>>, <<Use("rl"), Do("show")>>, <<Do("show")>>} /\ Reading(p)'
      \/ Ends(Left(p)', Printing, ToShown) /\ Shows(p)'
      \/ Left(p)' = <<Do("next")>> /\ HasShown(p)'
      \/ Left(p)' = <<Do("return_error")>> /\ GivesUp(p)'
  BY DataStays DEF ReaderAt, ToShow, ToShown
<1> QED
  BY <1>1 DEF ReaderAt, ToShow, ToShown

LEMMA ReadStays ==
  ASSUME NEW p \in Procs, FileFrame(p) \/ UNCHANGED fileVars, gpu' = gpu, NEW q \in Procs \ {p}, 
         result'[q] = result[q], HasRead(q)
  PROVE  HasRead(q)'
<1>1. printed'[q] = printed[q] /\ (q \in reshown' <=> q \in reshown)
  BY DEF FileFrame, fileVars
<1>2. PICK n \in 0..Length(q) : Reads(q, printed[q], n) /\ (result[q] = <<"read", "ok">> => n = Length(q))
  BY DEF HasRead
<1>3. Prints(q, gpu.runlist[q], printed[q], n, reshown')
  BY <1>1, <1>2, PrintsMore DEF Reads
<1>4. n \in 0..Length(q)' /\ (result'[q] = <<"read", "ok">> => n = Length(q)')
  BY <1>2 DEF Length
<1>5. Prints(q, gpu'.runlist[q], printed'[q], n, reshown')
  BY <1>1, <1>3
<1> QED
  BY <1>4, <1>5 DEF HasRead, Reads

LEMMA ReadStaysToo ==
  ASSUME NEW q \in Procs, UNCHANGED <<fileVars, gpu>>, result'[q] \in {result[q], <<"none", "none">>}
                                                       \/ result'[q][1] # "read", HasRead(q)
  PROVE  HasRead(q)'
<1>1. PICK n \in 0..Length(q) : Reads(q, printed[q], n) /\ (result[q] = <<"read", "ok">> => n = Length(q))
  BY DEF HasRead
<1>2. result'[q] = <<"read", "ok">> => result[q] = <<"read", "ok">>
  BY <1>1
<1>3. n \in 0..Length(q)' /\ (result'[q] = <<"read", "ok">> => n = Length(q)')
  BY <1>1, <1>2 DEF Length
<1>4. Prints(q, gpu'.runlist[q], printed'[q], n, reshown')
  BY <1>1 DEF Reads, fileVars
<1> QED
  BY <1>3, <1>4 DEF HasRead, Reads

-----------------------------------------------------------------------------
(* A reader takes a step. *)

ReaderGoes(p) == IF call'[p] = "read" THEN ReaderAt(p)' ELSE HasRead(p)'

LEMMA LeftAfter ==
  ASSUME StepsInv, NEW p \in Procs, NEW s, pc' = [pc EXCEPT ![p] = Steps(s)]
  PROVE  Left(p)' = s
BY DEF StepsInv, Left, Steps

LEMMA ReaderFacts ==
  ASSUME ExitInv, StepsInv, NEW p \in Procs, call[p] = "read"
  PROVE  /\ InCall(p) /\ "read" \in Files /\ gpu.runlist[p] \in DOMAIN Runlists
         /\ Runlists[gpu.runlist[p]] \in Seq(Nat) /\ Length(p) \in Nat
BY RunlistOf, RunlistsAssumption, LenProperties DEF InCall, Files, Length

LEMMA ReaderCalls ==
  ASSUME ExitInv, StepsInv, "readers" \notin seen, NEW p \in Procs, call[p] = "read", ReaderAt(p), CallStep(p)
  PROVE  ReaderGoes(p)
<1> USE ReaderFacts
<1>1. InCall(p) /\ ~StartCall(p)
  BY DEF StartCall, InCall
<1>2. /\ UNCHANGED <<fileVars, gpu>>
      /\ Cur(p).op \notin {"clear_iter", "set_iter", "seq_start", "show", "shown", "next"}
      /\ call' = call \/ Return(p)
  BY <1>1, CallStepFile
<1>3. \/ Opened(p) /\ Cur(p) \in Searching /\ Ends(Tail(Left(p)), Searching, ToShow)
      \/ Reading(p) /\ Cur(p) = Go("show")
      \/ Reading(p) /\ Cur(p).op = "use" /\ Tail(Left(p)) = <<Do("show")>>
      \/ Shows(p) /\ Cur(p) \in Printing /\ Ends(Tail(Left(p)), Printing, ToShown)
      \/ GivesUp(p) /\ Cur(p).op = "return_error"
  BY <1>1, <1>2, ReaderPlace
<1>4. Go("show").op = "go" /\ Go("show").fail = "show"
  BY OpFacts
<1>5. CASE Return(p)
  <2>1. Cur(p).op # "return"
    BY AtStep, OpsOfCalls, <1>1
  <2>2. Finish(p, "error") /\ Cur(p).op = "return_error"
    BY <1>5, <2>1 DEF Return, Doing
  <2>3. GivesUp(p)
    BY <1>3, <1>4, <2>2, SearchingStep, PrintingStep
  <2>4. call'[p] = "none" /\ result'[p] = <<"read", "error">>
    BY <2>2 DEF Finish, ExitInv, CallInv, StepsInv
  <2>5. PICK n \in 0..Length(p) : Kept(p, n)
    BY <2>3 DEF GivesUp
  <2>6. Prints(p, gpu'.runlist[p], printed'[p], n, reshown') /\ n \in 0..Length(p)'
    BY <1>2, <2>5 DEF fileVars, Kept, Reads, Length
  <2>7. HasRead(p)'
    BY <2>4, <2>6 DEF HasRead, Reads
  <2> QED
    BY <2>4, <2>7 DEF ReaderGoes
<1>6. CASE call' = call
  <2>1. SUFFICES ReaderAt(p)'
    BY <1>6 DEF ReaderGoes
  <2>2. /\ Resumes(p) => Resumes(p)'
        /\ Opened(p) => Opened(p)'
        /\ Reading(p) => Reading(p)'
        /\ Shows(p) => Shows(p)'
        /\ GivesUp(p) => GivesUp(p)'
    BY <1>2, DataStays
  <2>3. ASSUME Waits(p)
        PROVE  ReaderAt(p)'
    <3>1. Left(p)' = Left(p)
      BY <2>3 DEF Waits, Left
    <3> QED
      BY <1>2, <3>1, ReaderStays
  <2>4. ASSUME Passes(p)
        PROVE  ReaderAt(p)'
    <3>1. Left(p)' = Tail(Left(p)) /\ Cur(p).op \notin Lasts
      BY <2>4, LeftAfter DEF Passes
    <3>2. Cur(p).op \notin {"go", "return_error"}
      BY <3>1 DEF Lasts
    <3>3. \/ Opened(p)' /\ Ends(Left(p)', Searching, ToShow)
          \/ Reading(p)' /\ Left(p)' = <<Do("show")>>
          \/ Shows(p)' /\ Ends(Left(p)', Printing, ToShown)
      BY <1>3, <1>4, <2>2, <3>1, <3>2
    <3> QED
      BY <3>3 DEF ReaderAt, ToShow, ToShown
  <2>5. ASSUME NEW label \in Labels(call[p]), Jumps(p, label)
        PROVE  ReaderAt(p)'
    <3>1. Left(p)' = Block(gpu, "read", label)
      BY <2>5, LeftAfter DEF Jumps
    <3>2. Cur(p).op \in {"reg", "addr", "go"} /\ Cur(p).fail = label
      BY <1>2, <2>5 DEF Jumps
    <3>3. label # "garbage"
      BY NoGarbageLabel
    <3>4. CASE Opened(p) /\ Cur(p) \in Searching
      <4>1. label \in {"err", "runlist_pramin"}
        BY <3>2, <3>3, <3>4, SearchingStep
      <4>2. CASE label = "err"
        <5>1. Left(p)' = <<Do("return_error")>>
          BY <3>1, <4>2, ReadBlocks
        <5>2. GivesUp(p)
          BY <3>4 DEF Opened, GivesUp
        <5> QED
          BY <2>2, <5>1, <5>2 DEF ReaderAt
      <4>3. CASE label = "runlist_pramin"
        <5>1. Ends(Left(p)', Searching, ToShow)
          BY <3>1, <4>3, ReadBlocks DEF ToShow
        <5> QED
          BY <2>2, <3>4, <5>1 DEF ReaderAt, ToShow
      <4> QED
        BY <4>1, <4>2, <4>3
    <3>5. CASE Reading(p) /\ Cur(p) = Go("show")
      <4>1. Left(p)' = <<Use("rl"), Do("show")>>
        BY <1>4, <3>1, <3>2, <3>5, ReadBlocks
      <4> QED
        BY <2>2, <3>5, <4>1 DEF ReaderAt
    <3>6. CASE Shows(p) /\ Cur(p) \in Printing
      <4>1. label \in {"shown", "restore"}
        BY <3>2, <3>3, <3>6, PrintingStep
      <4>2. Ends(Left(p)', Printing, ToShown)
        BY <3>1, <4>1, ReadBlocks DEF ToShown
      <4> QED
        BY <2>2, <3>6, <4>2 DEF ReaderAt, ToShown
    <3> QED
      BY <1>3, <3>2, <3>4, <3>5, <3>6
  <2>6. \A r \in {"ok", "error", "cut"} : ~Quits(p, r)
    <3>1. call[p] # "none" /\ call \in [Procs -> Files \cup {"none"}]
      BY DEF ExitInv, CallInv
    <3> QED
      BY <1>6, <3>1 DEF Quits
  <2>7. Moves(p)
    BY CallMoves
  <2> QED
    BY <1>1, <2>3, <2>4, <2>5, <2>6, <2>7 DEF Moves
<1> QED
  BY <1>2, <1>5, <1>6

LEMMA ReaderIterates ==
  ASSUME ExitInv, StepsInv, ReadersInv, NEW p \in Procs, call[p] = "read", ReaderAt(p), Iterate(p)
  PROVE  ReaderGoes(p)
<1> USE ReaderFacts
<1>1. /\ Cur(p).op \in {"clear_iter", "set_iter"} /\ call'[p] = "read"
      /\ UNCHANGED <<pos, printed, buffer, reshown, gpu>>
      /\ pc' = [pc EXCEPT ![p] = Steps(Tail(Left(p)))]
      /\ Cur(p).op = "set_iter" => SetIter(gpu.runlist[p])
  BY DEF Iterate, Doing, Onward, Left, KeepCall, KeepRest
<1>2. Left(p)' = Tail(Left(p))
  BY <1>1, LeftAfter
<1>3. \/ Opened(p) /\ Ends(Tail(Left(p)), Searching, ToShow)
      \/ Opened(p) /\ Cur(p).op = "set_iter" /\ Tail(Left(p)) = <<Go("show")>>
  BY <1>1, ReaderPlace, OpFacts, PrintingStep
<1>4. Opened(p)'
  BY <1>1, <1>3 DEF Opened, Kept, Reads
<1>5. CASE Ends(Tail(Left(p)), Searching, ToShow)
  BY <1>1, <1>2, <1>4, <1>5 DEF ReaderGoes, ReaderAt, ToShow
<1>6. CASE Cur(p).op = "set_iter" /\ Tail(Left(p)) = <<Go("show")>>
  <2>1. iter' = [rl |-> gpu.runlist[p], at |-> 1, left |-> 0, len |-> Length(p)]
    BY <1>1, <1>6 DEF SetIter, Length
  <2>2. IteratesAt(p, iter', gpu'.runlist[p], pos'[p], pos'[p], reshown')
    BY <1>1, <1>4, <2>1 DEF IteratesAt, Due, Opened, Length
  <2>3. Reading(p)'
    BY <1>4, <2>2 DEF Reading, Opened, Follows
  <2> QED
    BY <1>1, <1>2, <1>6, <2>3 DEF ReaderGoes, ReaderAt
<1> QED
  BY <1>3, <1>5, <1>6

\* The read comes to its end.
LEMMA ReaderEnds ==
  ASSUME ExitInv, StepsInv, NEW p \in Procs, call[p] = "read", UNCHANGED <<fileVars, gpu>>, NEW r,
         Finish(p, r), pos[p] \in Nat, Kept(p, pos[p]),
         r # "ok" \/ (pos[p] >= iter.len /\ Follows(p, pos[p]))
  PROVE  ReaderGoes(p)
<1>1. call'[p] = "none" /\ result'[p] = <<"read", r>>
  BY DEF Finish, ExitInv, CallInv, StepsInv
<1>2. Prints(p, gpu.runlist[p], printed[p], pos[p], reshown)
  BY DEF Kept, Reads
<1>3. pos[p] \in 0..Length(p)
  BY <1>2 DEF Prints, Length
<1>4. ASSUME r = "ok"
      PROVE  pos[p] = Length(p)
  <2>1. iter.len = Length(p) /\ pos[p] >= iter.len
    BY <1>4 DEF Follows, IteratesAt, Length
  <2> QED
    BY <1>3, <2>1, ReaderFacts
<1>5. Prints(p, gpu'.runlist[p], printed'[p], pos[p], reshown')
  BY <1>2 DEF fileVars
<1>6. Length(p)' = Length(p) /\ (result'[p] = <<"read", "ok">> => r = "ok")
  BY <1>1 DEF Length
<1>7. pos[p] \in 0..Length(p)' /\ (result'[p] = <<"read", "ok">> => pos[p] = Length(p)')
  BY <1>3, <1>4, <1>6
<1>8. ASSUME NEW m, m \in 0..Length(p)', result'[p] = <<"read", "ok">> => m = Length(p)',
             Prints(p, gpu'.runlist[p], printed'[p], m, reshown')
      PROVE  HasRead(p)'
  BY <1>8 DEF HasRead, Reads
<1> QED
  BY <1>1, <1>5, <1>7, <1>8 DEF ReaderGoes

\* There is nothing to read.
LEMMA ReaderFinds ==
  ASSUME ExitInv, StepsInv, NEW p \in Procs, call[p] = "read", UNCHANGED <<fileVars, gpu>>,
         Finish(p, "ok"), pos[p] \in Nat, Kept(p, pos[p]), Length(p) = 0
  PROVE  ReaderGoes(p)
<1>1. call'[p] = "none" /\ DOMAIN result = Procs
  BY DEF Finish, ExitInv, CallInv, StepsInv
<1>2. pos[p] = 0 /\ Prints(p, gpu.runlist[p], printed[p], 0, reshown)
  BY DEF Kept, Reads, Prints, Length
<1>3. Prints(p, gpu'.runlist[p], printed'[p], 0, reshown') /\ Length(p)' = 0
  BY <1>2 DEF fileVars, Length
<1>4. HasRead(p)'
  BY <1>3 DEF HasRead, Reads
<1> QED
  BY <1>1, <1>4 DEF ReaderGoes

LEMMA ReaderStarts ==
  ASSUME ExitInv, StepsInv, ReadersInv, NEW p \in Procs, call[p] = "read", ReaderAt(p), SeqStart(p)
  PROVE  ReaderGoes(p)
<1> USE ReaderFacts
<1>1. Cur(p).op = "seq_start" /\ UNCHANGED <<fileVars, gpu>> /\ pos[p] \in Nat
  BY DEF SeqStart, Doing, KeepRest, ReadersInv
<1>2. Resumes(p)
  BY <1>1, ReaderPlace, OpFacts, SearchingStep, PrintingStep
<1>3. CASE pos[p] = 0 /\ Jump(p, "runlist") /\ call' = call
  <2>1. Ends(Left(p)', Searching, ToShow)
    BY <1>3, LeftAfter, ReadBlocks DEF Jump, ToShow
  <2>2. Opened(p)
    BY <1>2, <1>3 DEF Resumes, Opened
  <2>3. Opened(p)'
    BY <1>1, <2>2, DataStays
  <2> QED
    BY <1>3, <2>1, <2>3 DEF ReaderGoes, ReaderAt, ToShow
<1>4. CASE pos[p] > 0 /\ Jump(p, "show") /\ call' = call
  <2>1. Left(p)' = <<Use("rl"), Do("show")>>
    BY <1>4, LeftAfter, ReadBlocks DEF Jump
  <2>2. Reading(p)
    BY <1>2, <1>4 DEF Resumes, Reading
  <2>3. Reading(p)'
    BY <1>1, <2>2, DataStays
  <2> QED
    BY <1>4, <2>1, <2>3 DEF ReaderGoes, ReaderAt
<1>5. ASSUME NEW r, Finish(p, r), r = "cut" \/ (r = "ok" /\ pos[p] > 0 /\ pos[p] >= iter.len)
      PROVE  ReaderGoes(p)
  <2>1. Kept(p, pos[p]) /\ (r = "ok" => Follows(p, pos[p]))
    BY <1>2, <1>5 DEF Resumes
  <2> QED
    BY <1>1, <1>5, <2>1, ReaderEnds
<1> QED
  BY <1>3, <1>4, <1>5 DEF SeqStart

LEMMA ReaderSkips ==
  ASSUME ExitInv, StepsInv, ReadersInv, "readers" \notin seen, NEW p \in Procs, call[p] = "read", ReaderAt(p), SeqEmpty(p)
  PROVE  ReaderGoes(p)
<1> USE ReaderFacts
<1>1. iter.len = 0 /\ Finish(p, "ok") /\ UNCHANGED <<fileVars, gpu>> /\ pos[p] \in Nat
  BY DEF SeqEmpty, NoneToShow, KeepRest, ReadersInv
<1>2. CASE Cur(p).op = "go" /\ Cur(p).fail = "show"
  <2>1. Reading(p)
    BY <1>2, ReaderPlace, OpFacts, SearchingStep, PrintingStep
  <2>2. Kept(p, pos[p]) /\ Length(p) = 0
    BY <1>1, <2>1 DEF Reading, Follows, IteratesAt, Length
  <2> QED
    BY <1>1, <2>2, ReaderFinds
<1>3. CASE Cur(p).op = "reg" /\ Cur(p).fail = "err" /\ Runlists[gpu.runlist[p]] = <<>>
  <2>1. Opened(p) \/ Shows(p)
    BY <1>3, ReaderPlace, OpFacts, SearchingStep, PrintingStep
  <2>2. Cur(p) \notin Printing
    BY <1>3, PrintingStep
  <2>3. Opened(p)
    BY <1>3, <2>2, ReaderPlace, OpFacts
  <2>4. Kept(p, pos[p]) /\ Length(p) = 0
    BY <1>3, <2>3 DEF Opened, Length
  <2> QED
    BY <1>1, <2>4, ReaderFinds
<1> QED
  BY <1>2, <1>3 DEF SeqEmpty, NoneToShow, FoundEmpty, Doing

LEMMA ReaderAdvances ==
  ASSUME ExitInv, StepsInv, ReadersInv, NEW p \in Procs, call[p] = "read", ReaderAt(p), SeqAdvance(p)
  PROVE  ReaderGoes(p)
<1> USE ReaderFacts
<1>1. /\ Cur(p).op = "next" /\ gpu' = gpu /\ call' = call /\ SeqNext(p)
      /\ Jump(p, "show") \/ Jump(p, "begin")
  BY DEF SeqAdvance, Doing, KeepRest, KeepCall
<1>2. HasShown(p)
  BY <1>1, ReaderPlace, OpFacts, SearchingStep, PrintingStep
<1>3. /\ pos[p] \in Nat /\ pos'[p] = pos[p] + 1 /\ UNCHANGED <<printed, buffer, reshown>>
      /\ iter'.rl = iter.rl /\ iter'.len = iter.len /\ iter'.at = iter.at + 1
      /\ iter'.left = IF iter.left > 0 THEN iter.left - 1 ELSE 0
  BY <1>1 DEF SeqNext, ReadersInv
<1>4. Kept(p, pos[p] + 1) /\ IteratesAt(p, iter, gpu.runlist[p], pos[p], pos[p] + 1, reshown)
  BY <1>2 DEF HasShown, Follows
<1>5. IteratesAt(p, iter', gpu.runlist[p], pos[p] + 1, pos[p] + 1, reshown)
  <2>1. /\ iter.rl = gpu.runlist[p] /\ iter.at = pos[p] + 1 /\ iter.len = Len(Runlists[gpu.runlist[p]])
        /\ iter.left \in Nat /\ Due(p, iter, pos[p] + 1, reshown)
    BY <1>4 DEF IteratesAt
  <2>2. iter'.left \in Nat
    BY <1>3, <2>1
  <2>3. Due(p, iter', pos[p] + 1, reshown)
    <3>1. CASE p \in reshown
      BY <3>1 DEF Due
    <3>2. CASE iter.left = 0
      BY <1>3, <3>2 DEF Due
    <3>3. ASSUME iter.left # 0, NEW i \in 1..(pos[p] + 1),
                 iter.left = i + Runlists[iter.rl][i] + 1 - iter.at
          PROVE  Due(p, iter', pos[p] + 1, reshown)
      <4>1. pos[p] + 1 <= Len(Runlists[gpu.runlist[p]])
        BY <1>3, <1>4 DEF Kept, Reads, Prints
      <4>2. Runlists[iter.rl][i] \in Nat
        <5>1. i \in 1..Len(Runlists[gpu.runlist[p]])
          BY <1>3, <3>3, <4>1 DEF Length
        <5> QED
          BY <2>1, <5>1, ElementOfSeq
      <4>3. iter'.left = i + Runlists[iter.rl][i] + 1 - (iter.at + 1)
        <5>1. iter'.left = iter.left - 1
          BY <1>3, <2>1, <3>3
        <5>2. \A l, j, r, a \in Int : l = j + r + 1 - a => l - 1 = j + r + 1 - (a + 1)
          OBVIOUS
        <5>3. i \in Int /\ iter.left \in Int /\ iter.at \in Int
          BY <1>3, <2>1
        <5> QED
          BY <3>3, <4>2, <5>1, <5>2, <5>3, SMTT(30)
      <4> QED
        BY <1>3, <3>3, <4>3 DEF Due
    <3> QED
      BY <2>1, <3>1, <3>2, <3>3 DEF Due
  <2> QED
    BY <1>3, <2>1, <2>2, <2>3 DEF IteratesAt
<1>6. Reading(p)' /\ Resumes(p)'
  BY <1>1, <1>3, <1>4, <1>5 DEF Reading, Resumes, Follows, Kept, Reads
<1>7. Left(p)' \in {<<Use("rl"), Do("show")>>, <<Do("seq_start")>>}
  BY <1>1, LeftAfter, ReadBlocks DEF Jump
<1> QED
  BY <1>1, <1>6, <1>7 DEF ReaderGoes, ReaderAt

\* The reader's iterator is at the entry it will show.
LEMMA ReaderInRange ==
  ASSUME ExitInv, StepsInv, NEW p \in Procs, call[p] = "read", NEW n,
         IteratesAt(p, iter, gpu.runlist[p], pos[p], n, reshown)
  PROVE  /\ iter.rl \in DOMAIN Runlists /\ iter.rl # "none"
         /\ InRange <=> pos[p] + 1 <= Length(p)
         /\ TsgLength = Runlists[gpu.runlist[p]][pos[p] + 1]
BY ReaderFacts, RunlistsAssumption DEF IteratesAt, InRange, Length, TsgLength

LEMMA ReaderShows ==
  ASSUME ExitInv, StepsInv, ReadersInv, NEW p \in Procs, call[p] = "read", ReaderAt(p), SeqShow(p)
  PROVE  ReaderGoes(p)
<1> USE ReaderFacts
<1> DEFINE rl == gpu.runlist[p]
<1>1. Cur(p).op = "show" /\ gpu' = gpu /\ call' = call /\ pos[p] \in Nat
  BY DEF SeqShow, Doing, KeepRest, KeepCall, ReadersInv
<1>2. Reading(p)
  BY <1>1, ReaderPlace, OpFacts, SearchingStep, PrintingStep
<1>3. /\ buffer[p] = printed[p] /\ Prints(p, rl, printed[p], pos[p], reshown)
      /\ IteratesAt(p, iter, rl, pos[p], pos[p], reshown)
  BY <1>2 DEF Reading, Kept, Reads, Follows
<1>4. CASE UNCHANGED <<pc, fileVars>>
  <2>1. ReaderAt(p)'
    BY <1>1, <1>4, ReaderStays DEF Left
  <2> QED
    BY <1>1, <2>1 DEF ReaderGoes
<1>5. ASSUME InRange, (AtTsg /\ ShowTsg(p) /\ Jump(p, "shown")) \/ (~AtTsg /\ ShowChannel(p) /\ Jump(p, "channel"))
      PROVE  ReaderGoes(p)
  <2>1. /\ iter.rl = rl /\ iter.at = pos[p] + 1 /\ iter.len = Len(Runlists[rl]) /\ iter.left \in Nat
        /\ Due(p, iter, pos[p], reshown)
    BY <1>3 DEF IteratesAt
  <2>2. pos[p] < Len(Runlists[rl]) /\ pos[p] + 1 \in 1..Len(Runlists[rl])
    BY <1>1, <1>3, <1>5, ReaderInRange DEF Length
  <2>3. TsgLength = Runlists[rl][pos[p] + 1] /\ TsgLength \in Nat
    <3>1. TsgLength = Runlists[rl][pos[p] + 1]
      BY <1>3, ReaderInRange
    <3> QED
      BY <2>2, <3>1, ElementOfSeq
  <2>4. /\ UNCHANGED <<pos, printed, reshown>>
        /\ iter'.rl = iter.rl /\ iter'.at = iter.at /\ iter'.len = iter.len
        /\ iter'.left = IF AtTsg THEN TsgLength + 1 ELSE iter.left
        /\ buffer'[p] = IF AtTsg
                        THEN Append(printed[p] \o [i \in 1..iter.left |-> Missing], <<iter.rl, iter.at>>)
                        ELSE Append(printed[p], <<iter.rl, iter.at>>)
    BY <1>3, <1>5 DEF ShowTsg, ShowChannel, ReadersInv
  <2>5. AtTsg => iter.left = 0 \/ p \in reshown
    <3>1. SUFFICES ASSUME AtTsg, NEW i \in 1..pos[p],
                          iter.left = i + Runlists[iter.rl][i] + 1 - iter.at
                   PROVE  iter.left = 0
      BY <2>1 DEF Due
    <3>2. i \in DOMAIN Runlists[rl] /\ pos[p] + 1 \in DOMAIN Runlists[rl] /\ i < pos[p] + 1
      BY <1>1, <2>2, LenProperties
    <3>3. Runlists[rl][i] \in Nat
      BY <3>2
    <3>4. ~(pos[p] + 1 <= i + Runlists[rl][i])
      <4>1. Runlists[rl][pos[p] + 1] # 0
        BY <2>3, <3>1 DEF AtTsg
      <4> QED
        BY <3>2, <4>1, RunlistsAssumption
    <3>5. iter.left = i + Runlists[rl][i] + 1 - (pos[p] + 1)
      BY <2>1, <3>1
    <3>6. \A l, r \in Nat : l = i + r + 1 - (pos[p] + 1) /\ ~(pos[p] + 1 <= i + r) => l = 0
      BY <1>1
    <3> QED
      BY <2>1, <3>3, <3>4, <3>5, <3>6
  <2>6. Prints(p, rl, buffer'[p], pos[p] + 1, reshown)
    <3>1. CASE AtTsg
      <4>1. Prints(p, rl, printed[p] \o [i \in 1..iter.left |-> Missing], pos[p], reshown)
        BY <1>3, <2>1, <2>5, <3>1, PrintsMissing
      <4> QED
        BY <2>1, <2>2, <2>4, <3>1, <4>1, PrintsAppend
    <3>2. CASE ~AtTsg
      BY <1>3, <2>1, <2>2, <2>4, <3>2, PrintsAppend
    <3> QED
      BY <3>1, <3>2
  <2>7. AtTsg' <=> AtTsg
    BY <2>4 DEF AtTsg, TsgLength
  <2>8. IteratesAt(p, iter', rl, pos[p], IF AtTsg THEN pos[p] + 1 ELSE pos[p], reshown)
    <3>1. CASE AtTsg
      <4>1. iter'.left = (pos[p] + 1) + Runlists[iter'.rl][pos[p] + 1] + 1 - iter'.at
        <5>1. iter'.left = Runlists[rl][pos[p] + 1] + 1 /\ Runlists[rl][pos[p] + 1] \in Nat
          BY <2>3, <2>4, <3>1
        <5>2. iter'.rl = rl /\ iter'.at = pos[p] + 1
          BY <2>1, <2>4
        <5> HIDE DEF rl
        <5>3. \A n, l \in Nat : l + 1 = (n + 1) + l + 1 - (n + 1)
          OBVIOUS
        <5> QED
          BY <1>1, <5>1, <5>2, <5>3
      <4>2. Due(p, iter', pos[p] + 1, reshown)
        BY <1>1, <4>1 DEF Due
      <4>3. iter'.left \in Nat
        BY <2>3, <2>4, <3>1, SMTT(60)
      <4>4. iter'.rl = rl /\ iter'.at = pos[p] + 1 /\ iter'.len = Len(Runlists[rl])
        BY <2>1, <2>4
      <4>5. IteratesAt(p, iter', rl, pos[p], pos[p] + 1, reshown)
        BY <4>2, <4>3, <4>4 DEF IteratesAt
      <4> QED
        BY <3>1, <4>5
    <3>2. CASE ~AtTsg
      <4>1. Due(p, iter', pos[p], reshown)
        BY <2>1, <2>4, <3>2 DEF Due
      <4> QED
        BY <2>1, <2>4, <3>2, <4>1 DEF IteratesAt
    <3> QED
      BY <3>1, <3>2
  <2>9. Shows(p)'
    BY <1>1, <1>3, <2>4, <2>6, <2>7, <2>8 DEF Shows, Reads, Follows
  <2>10. Ends(Left(p)', Printing, ToShown)
    <3>1. PICK label \in {"shown", "channel"} : Jump(p, label)
      BY <1>5
    <3>2. Left(p)' = Block(gpu, "read", label)
      BY <3>1, LeftAfter DEF Jump
    <3> QED
      BY <3>2, ReadBlocks DEF ToShown
  <2> QED
    BY <1>1, <2>9, <2>10 DEF ReaderGoes, ReaderAt, ToShown
<1> QED
  BY <1>4, <1>5 DEF SeqShow

LEMMA ReaderHasShown ==
  ASSUME ExitInv, StepsInv, ReadersInv, NEW p \in Procs, call[p] = "read", ReaderAt(p), Shown(p)
  PROVE  ReaderGoes(p)
<1> USE ReaderFacts
<1> DEFINE rl == gpu.runlist[p]
           m == IF AtTsg THEN pos[p] + 1 ELSE pos[p]
<1>1. Cur(p).op = "shown" /\ gpu' = gpu /\ call' = call /\ pos[p] \in Nat
  BY DEF Shown, Doing, KeepRest, KeepCall, ReadersInv
<1>2. Shows(p)
  BY <1>1, ReaderPlace, OpFacts, SearchingStep, PrintingStep
<1>3. /\ Prints(p, rl, printed[p], pos[p], reshown) /\ Prints(p, rl, buffer[p], pos[p] + 1, reshown)
      /\ IteratesAt(p, iter, rl, pos[p], m, reshown)
  BY <1>2 DEF Shows, Reads, Follows
<1>4. InRange
  <2>1. pos[p] + 1 <= Length(p)
    BY <1>1, <1>3 DEF Prints, Length
  <2> QED
    BY <1>3, <2>1, ReaderInRange
<1>5. CASE Fits(p) /\ Jump(p, "next")
  <2>1. UNCHANGED <<iter, pos, buffer, reshown>> /\ printed'[p] = buffer[p]
    BY <1>5 DEF Fits, ReadersInv
  <2>2. IteratesAt(p, iter, rl, pos[p], pos[p] + 1, reshown)
    BY <1>1, <1>3 DEF IteratesAt, Due
  <2>3. HasShown(p)'
    BY <1>1, <1>3, <2>1, <2>2 DEF HasShown, Kept, Reads, Follows
  <2>4. Left(p)' = <<Do("next")>>
    BY <1>5, LeftAfter, ReadBlocks DEF Jump
  <2> QED
    BY <1>1, <2>3, <2>4 DEF ReaderGoes, ReaderAt
<1>6. CASE Overflows(p) /\ Jump(p, "begin")
  <2>1. /\ UNCHANGED <<iter, pos, printed>> /\ buffer'[p] = printed[p] /\ reshown \subseteq reshown'
        /\ AtTsg => p \in reshown'
    BY <1>4, <1>6 DEF Overflows, ReadersInv
  <2>2. Prints(p, rl, printed[p], pos[p], reshown')
    BY <1>3, <2>1, PrintsMore
  <2>3. IteratesAt(p, iter, rl, pos[p], pos[p], reshown')
    BY <1>3, <2>1 DEF IteratesAt, Due
  <2>4. Resumes(p)'
    BY <1>1, <2>1, <2>2, <2>3 DEF Resumes, Kept, Reads, Follows
  <2>5. Left(p)' = <<Do("seq_start")>>
    BY <1>6, LeftAfter, ReadBlocks DEF Jump
  <2> QED
    BY <1>1, <2>4, <2>5 DEF ReaderGoes, ReaderAt
<1> QED
  BY <1>5, <1>6 DEF Shown

LEMMA ReaderReads ==
  ASSUME ExitInv, StepsInv, ReadersInv, "readers" \notin seen, NEW p \in Procs, call[p] = "read", ReaderAt(p), ReadStep(p)
  PROVE  ReaderGoes(p)
BY ReaderIterates, ReaderStarts, ReaderSkips, ReaderShows, ReaderHasShown, ReaderAdvances DEF ReadStep

-----------------------------------------------------------------------------
(* Every step keeps ReadersInv. *)

LEMMA ReadersInit == ExitInv /\ Init => ReadersInv
<1> SUFFICES ASSUME ExitInv, Init
             PROVE  ReadersInv
  OBVIOUS
<1>1. /\ iter = [rl |-> "none", at |-> 0, left |-> 0, len |-> 0] /\ pos = [p \in Procs |-> 0]
      /\ printed = [p \in Procs |-> <<>>] /\ buffer = [p \in Procs |-> <<>>] /\ reshown = {}
      /\ \A p \in Procs : call[p] = "none" /\ result[p] = <<"none", "none">>
  BY DEF Init, FileInit, NoIter, Procs
<1>2. ASSUME NEW p \in Procs
      PROVE  HasRead(p)
  <2>1. gpu.runlist[p] \in DOMAIN Runlists
    BY RunlistOf
  <2>2. Prints(p, gpu.runlist[p], printed[p], 0, reshown)
    BY <1>1, <2>1, PrintsEmpty
  <2>3. 0 \in 0..Length(p) /\ result[p] # <<"read", "ok">>
    BY <1>1, <2>2 DEF Prints, Length
  <2> QED
    BY <2>2, <2>3 DEF HasRead, Reads
<1> QED
  BY <1>1, <1>2 DEF ReadersInv

\* A process that does not read takes a step.
LEMMA NonReaderGoes ==
  ASSUME ExitInv, StepsInv, ReadersInv, NEW p \in Procs, call[p] # "read", HasRead(p),
         CallStep(p) \/ ReadStep(p) \/ MapStep(p)
  PROVE  /\ ReaderGoes(p)
         /\ call'[p] = "read" \/ UNCHANGED fileVars
<1>1. CASE StartCall(p)
  <2>1. gpu' = gpu /\ result'[p] = <<"none", "none">>
        /\ IF call'[p] = "read" THEN Open(p) /\ Left(p)' = <<Do("seq_start")>> ELSE UNCHANGED fileVars
    BY <1>1, StartCallFile
  <2>2. CASE call'[p] = "read"
    <3>1. pos'[p] = 0 /\ printed'[p] = <<>> /\ buffer'[p] = <<>>
      BY <2>1, <2>2 DEF Open, ReadersInv
    <3>2. Prints(p, gpu.runlist[p], <<>>, 0, reshown')
      BY RunlistOf, PrintsEmpty
    <3>3. Resumes(p)'
      BY <2>1, <3>1, <3>2 DEF Resumes, Kept, Reads
    <3> QED
      BY <2>1, <2>2, <3>3 DEF ReaderGoes, ReaderAt
  <2>3. CASE call'[p] # "read"
    <3>1. HasRead(p)'
      BY <2>1, <2>3, ReadStaysToo
    <3> QED
      BY <2>1, <2>3, <3>1 DEF ReaderGoes
  <2> QED
    BY <2>2, <2>3
<1>2. CASE ~StartCall(p)
  <2>1. UNCHANGED <<fileVars, gpu>>
    BY <1>2, CallStepFile, ReadStepFile, MapStepFile
  <2>2. Moves(p)
    BY CallMoves, ReadMoves, MapMoves
  <2>3. call \in [Procs -> Files \cup {"none"}] /\ DOMAIN result = Procs
    BY DEF ExitInv, CallInv, StepsInv
  <2>4. call'[p] # "read" /\ (result'[p] = result[p] \/ result'[p][1] # "read")
    <3>1. CASE Waits(p) \/ Passes(p) \/ \E label \in Labels(call[p]) : Jumps(p, label)
      BY <3>1 DEF Waits, Passes, Jumps
    <3>2. CASE \E r \in {"ok", "error", "cut"} : Quits(p, r)
      <4>1. PICK r \in {"ok", "error", "cut"} : Quits(p, r)
        BY <3>2
      <4>2. call'[p] = "none" /\ result'[p] = <<call[p], r>>
        BY <2>3, <4>1 DEF Quits
      <4> QED
        BY <4>2
    <3> QED
      BY <1>2, <2>2, <3>1, <3>2 DEF Moves
  <2>5. HasRead(p)'
    BY <2>1, <2>4, ReadStaysToo
  <2> QED
    BY <2>1, <2>4, <2>5 DEF ReaderGoes
<1> QED
  BY <1>1, <1>2

LEMMA ProcKeepsReaders ==
  ASSUME ExitInv, ExitInv', StepsInv, ReadersInv, NEW p \in Procs,
         CallStep(p) \/ ReadStep(p) \/ MapStep(p)
  PROVE  ReadersInv'
<1>1. FileFrame(p) /\ FileTyped' /\ gpu' = gpu /\ seen \subseteq seen'
  <2>1. CASE StartCall(p)
    BY <2>1, StartCallFile
  <2>2. CASE ReadStep(p)
    BY <2>2, ReadStepFile
  <2>3. CASE MapStep(p) \/ (CallStep(p) /\ ~StartCall(p))
    <3>1. UNCHANGED fileVars /\ gpu' = gpu /\ seen \subseteq seen'
      BY <2>3, CallStepFile, MapStepFile
    <3> QED
      BY <3>1, FrameOfFile, IterStays DEF FileTyped, fileVars
  <2> QED
    BY <2>1, <2>2, <2>3
<1>2. DOMAIN printed' = Procs /\ DOMAIN buffer' = Procs
  BY <1>1 DEF FileFrame, ReadersInv
<1>3. ASSUME "readers" \notin seen'
      PROVE  /\ \A q, r \in Procs : call'[q] = "read" /\ call'[r] = "read" => q = r
             /\ \A q \in Procs : IF call'[q] = "read" THEN ReaderAt(q)' ELSE HasRead(q)'
  <2>1. /\ \A q, r \in Procs : call[q] = "read" /\ call[r] = "read" => q = r
        /\ \A q \in Procs : IF call[q] = "read" THEN ReaderAt(q) ELSE HasRead(q)
    BY <1>1, <1>3 DEF ReadersInv
  <2>2. Moves(p) /\ ProcFrame(p)
    BY CallMoves, ReadMoves, MapMoves
  <2>3. \A q \in Procs \ {p} : call'[q] = call[q] /\ pc'[q] = pc[q] /\ result'[q] = result[q]
    BY <2>2, OthersWait
  <2>4. ReaderGoes(p)
    <3>1. CASE call[p] = "read"
      <4>1. ~MapStep(p)
        BY <3>1, MapStepFile DEF Maps
      <4> QED
        BY <1>1, <1>3, <2>1, <3>1, <4>1, ReaderCalls, ReaderReads
    <3>2. CASE call[p] # "read"
      BY <2>1, <3>2, NonReaderGoes
    <3> QED
      BY <3>1, <3>2
  <2>5. ASSUME call[p] # "read", call'[p] = "read"
        PROVE  \A q \in Procs \ {p} : call[q] # "read"
    <3>1. StartCall(p)
      <4>1. call'[p] \in {call[p], "none"} \/ StartCall(p)
        BY <2>2 DEF Moves, Waits, Passes, Jumps, Quits, ExitInv, CallInv
      <4> QED
        BY <2>5, <4>1
    <3> QED
      BY <1>3, <2>5, <3>1, StartCallFile
  <2>6. \A q, r \in Procs : call'[q] = "read" /\ call'[r] = "read" => q = r
    BY <2>1, <2>3, <2>5
  <2>7. ASSUME NEW q \in Procs \ {p}
        PROVE  IF call'[q] = "read" THEN ReaderAt(q)' ELSE HasRead(q)'
    <3>1. CASE call[q] = "read"
      <4>1. call[p] # "read" /\ call'[p] # "read"
        BY <2>1, <2>5, <3>1
      <4>2. UNCHANGED fileVars
        BY <2>1, <4>1, NonReaderGoes
      <4>3. Left(q)' = Left(q)
        BY <2>3 DEF Left
      <4>4. ReaderAt(q)'
        BY <1>1, <2>1, <3>1, <4>2, <4>3, ReaderStays
      <4> QED
        BY <2>3, <3>1, <4>4
    <3>2. CASE call[q] # "read"
      <4>1. HasRead(q)'
        BY <1>1, <2>1, <2>3, <3>2, ReadStays
      <4> QED
        BY <2>3, <3>2, <4>1
    <3> QED
      BY <3>1, <3>2
  <2> QED
    BY <2>4, <2>6, <2>7 DEF ReaderGoes
<1> QED
  BY <1>1, <1>2, <1>3 DEF ReadersInv, FileTyped

LEMMA OtherSeen ==
  ASSUME OtherStep
  PROVE  seen \subseteq seen'
<1>1. CASE DriverMoves \/ ModuleStep \/ GcSeek \/ GcFree
  BY <1>1 DEF DriverMoves, ModuleStep, GcSeek, GcFree, callVars
<1>2. CASE GcEnds
  BY <1>2 DEF GcEnds
<1>3. CASE UNCHANGED vars
  BY <1>3 DEF vars, callVars
<1> QED
  BY <1>1, <1>2, <1>3 DEF OtherStep

LEMMA OtherKeepsReaders ==
  ASSUME ExitInv, ReadersInv, OtherStep
  PROVE  ReadersInv'
<1>1. UNCHANGED <<call, pc, result, gpu, fileVars>> /\ seen \subseteq seen'
  BY OtherFrame, OtherSeen
<1>2. FileTyped' /\ DOMAIN printed' = Procs /\ DOMAIN buffer' = Procs
  BY <1>1, IterStays DEF FileTyped, fileVars, ReadersInv
<1>3. ASSUME "readers" \notin seen'
      PROVE  /\ \A q, r \in Procs : call'[q] = "read" /\ call'[r] = "read" => q = r
             /\ \A q \in Procs : IF call'[q] = "read" THEN ReaderAt(q)' ELSE HasRead(q)'
  <2>1. /\ \A q, r \in Procs : call[q] = "read" /\ call[r] = "read" => q = r
        /\ \A q \in Procs : IF call[q] = "read" THEN ReaderAt(q) ELSE HasRead(q)
    BY <1>1, <1>3 DEF ReadersInv
  <2>2. ASSUME NEW q \in Procs
        PROVE  IF call'[q] = "read" THEN ReaderAt(q)' ELSE HasRead(q)'
    <3>1. Left(q)' = Left(q)
      BY <1>1 DEF Left
    <3>2. call[q] = "read" => ReaderAt(q)'
      BY <1>1, <2>1, <3>1, ReaderStays
    <3>3. call[q] # "read" => HasRead(q)'
      BY <1>1, <2>1, ReadStaysToo
    <3> QED
      BY <1>1, <3>2, <3>3
  <2> QED
    BY <1>1, <2>1, <2>2
<1> QED
  BY <1>2, <1>3 DEF ReadersInv, FileTyped

LEMMA ReadersStep == ExitInv /\ ExitInv' /\ StepsInv /\ ReadersInv /\ [Next]_vars => ReadersInv'
BY NextSplit, ProcKeepsReaders, OtherKeepsReaders

LEMMA ReadersExact ==
  ASSUME ExitInv, StepsInv, ReadersInv
  PROVE  ReadExact
<1>1. SUFFICES ASSUME "readers" \notin seen, NEW p \in Procs
               PROVE  LET rl == gpu.runlist[p]
                          entries(n) == Cardinality({i \in 1..n : printed[p][i] # Missing})
                      IN  /\ \A i \in DOMAIN printed[p] :
                               \/ printed[p][i] = <<rl, entries(i)>>
                               \/ printed[p][i] = Missing /\ p \in reshown
                          /\ result[p] = <<"read", "ok">> => entries(Len(printed[p])) = Len(Runlists[rl])
  BY DEF ReadExact
<1>2. \E n : Reads(p, printed[p], n) /\ (result[p] = <<"read", "ok">> => n = Length(p))
  <2>1. CASE call[p] = "read"
    <3>1. result[p] = <<"none", "none">>
      BY <2>1 DEF StepsInv, InCall
    <3>2. ReaderAt(p)
      BY <1>1, <2>1 DEF ReadersInv
    <3>3. \E n : Reads(p, printed[p], n)
      BY <3>2 DEF ReaderAt, Resumes, Opened, Reading, Shows, HasShown, GivesUp, Kept
    <3> QED
      BY <3>1, <3>3
  <2>2. CASE call[p] # "read"
    <3>1. HasRead(p)
      BY <1>1, <2>2 DEF ReadersInv
    <3> QED
      BY <3>1 DEF HasRead
  <2> QED
    BY <2>1, <2>2
<1>3. PICK n : Reads(p, printed[p], n) /\ (result[p] = <<"read", "ok">> => n = Length(p))
  BY <1>2
<1> QED
  BY <1>3 DEF Reads, Prints, Entries, Length

\* However often a record did not fit and the kernel starts over at a position
\* (runlist_file_seq_start, _next, _show), a reader that is alone with its file
\* gets every entry of its runlist once and in order; lines about missing
\* channels come only from a TSG that is shown again.
THEOREM EntriesRead == Spec => []ReadExact
<1>1. Init => ExitInv /\ StepsInv /\ ReadersInv
  BY ExitInit, StepsInit, ReadersInit
<1>2. ExitInv /\ ExitInv' /\ StepsInv /\ ReadersInv /\ [Next]_vars => StepsInv' /\ ReadersInv'
  BY StepsStep, ReadersStep
<1>3. ExitInv /\ StepsInv /\ ReadersInv => ReadExact
  BY ReadersExact
<1>4. Spec => []ExitInv
  BY ExitInvariant
<1> QED
  BY <1>1, <1>2, <1>3, <1>4, PTL DEF Spec

-----------------------------------------------------------------------------
(* Tables that lead to mappings. *)

LEMMA MappingIndex ==
  ASSUME NEW n \in 1..4
  PROVE  /\ Len(Mappings[n]) = IF n <= 2 THEN 2 ELSE 3
         /\ Mappings[n][1] = IF n <= 2 THEN 1 ELSE 2
         /\ Mappings[n][2] = IF n <= 2 THEN n ELSE 1
         /\ n > 2 => Mappings[n][3] = n - 2
         /\ Huge(n) <=> n <= 2
<1>1. CASE n = 1
  BY <1>1 DEF Mappings, Huge
<1>2. CASE n = 2
  BY <1>2 DEF Mappings, Huge
<1>3. CASE n = 3
  BY <1>3 DEF Mappings, Huge
<1>4. CASE n = 4
  BY <1>4 DEF Mappings, Huge
<1> QED
  BY <1>1, <1>2, <1>3, <1>4

LEMMA TranslateFinds ==
  ASSUME NEW n \in 1..4
  PROVE  Translate(n) = Found(mem, n)
<1>1. CASE n = 1
  BY <1>1 DEF Translate, Mappings, Found
<1>2. CASE n = 2
  BY <1>2 DEF Translate, Mappings, Found
<1>3. CASE n = 3
  BY <1>3 DEF Translate, Mappings, Found, Upper
<1>4. CASE n = 4
  BY <1>4 DEF Translate, Mappings, Found, Upper
<1> QED
  BY <1>1, <1>2, <1>3, <1>4

\* No two entries lead to the same page.
Tree(m) ==
  /\ m \in [0..MaxPages -> [Indices -> Int]]
  /\ \A t \in 0..MaxPages, i \in Indices : m[t][i] > 0 =>
       /\ m[t][i] \in 1..MaxPages
       /\ \A u \in 0..MaxPages, j \in Indices : m[u][j] = m[t][i] => u = t /\ j = i

LEMMA TablesAreTree ==
  ASSUME TableInv
  PROVE  Tree(mem)
<1>1. mem \in [0..MaxPages -> [Indices -> Int]]
  BY DEF TableInv
<1>2. ASSUME NEW t \in 0..MaxPages, NEW i \in Indices, mem[t][i] > 0,
             NEW u \in 0..MaxPages, NEW j \in Indices, mem[u][j] = mem[t][i]
      PROVE  u = t /\ j = i
  <2>1. PICK k \in DOMAIN pd_allocs : pd_allocs[k] = [page |-> mem[t][i], table |-> t, idx |-> i]
    BY <1>2 DEF TableInv
  <2>2. PICK l \in DOMAIN pd_allocs : pd_allocs[l] = [page |-> mem[u][j], table |-> u, idx |-> j]
    BY <1>2 DEF TableInv
  <2>3. pd_allocs[k].page = mem[t][i] /\ pd_allocs[l].page = mem[t][i]
    BY <1>2, <2>1, <2>2
  <2>4. k = l
    BY <2>3 DEF TableInv
  <2>5. pd_allocs[k].table = t /\ pd_allocs[k].idx = i /\ pd_allocs[l].table = u /\ pd_allocs[l].idx = j
    BY <2>1, <2>2
  <2> QED
    BY <2>4, <2>5
<1>3. \A t \in 0..MaxPages, i \in Indices : mem[t][i] > 0 => mem[t][i] \in 1..MaxPages
  BY LeadsToPage
<1> QED
  BY <1>1, <1>2, <1>3 DEF Tree

\* A walk that is in a table of the tree.
InTree(m, w) ==
  /\ w.n \in 1..4 /\ w.level \in 1..Len(Mappings[w.n]) /\ w.table \in 0..MaxPages
  /\ w.table = 0 <=> w.level = 1
  /\ OnPath(m, w)

\* The place of a walk, case by case.
LEMMA WalkPlaces ==
  ASSUME NEW m, Tree(m), NEW w, InTree(m, w)
  PROVE  \/ w.level = 1 /\ w.table = 0 /\ EntryIn(m, w) = m[0][IF w.n <= 2 THEN 1 ELSE 2]
         \/ w.level = 2 /\ w.n <= 2 /\ w.table = m[0][1] /\ m[0][1] > 0 /\ EntryIn(m, w) = m[m[0][1]][w.n]
         \/ w.level = 2 /\ w.n > 2 /\ w.table = m[0][2] /\ m[0][2] > 0 /\ EntryIn(m, w) = m[m[0][2]][1]
         \/ /\ w.level = 3 /\ w.n > 2 /\ m[0][2] > 0 /\ w.table = m[m[0][2]][1] /\ m[m[0][2]][1] > 0
            /\ EntryIn(m, w) = m[m[m[0][2]][1]][w.n - 2]
<1>1. /\ w.n \in 1..4 /\ w.level \in 1..Len(Mappings[w.n]) /\ w.table \in 0..MaxPages
      /\ w.table = 0 <=> w.level = 1
      /\ w.level = 2 => w.table = m[0][Mappings[w.n][1]]
      /\ w.level = 3 => m[0][Mappings[w.n][1]] > 0
                        /\ w.table = m[m[0][Mappings[w.n][1]]][Mappings[w.n][2]]
      /\ EntryIn(m, w) = m[w.table][Mappings[w.n][w.level]]
  BY DEF InTree, OnPath, EntryIn
<1>2. w.level # 1 => w.table > 0
  BY <1>1, PagesAssumption
<1>3. CASE w.level = 1
  BY <1>1, <1>3, MappingIndex
<1>4. CASE w.level = 2
  BY <1>1, <1>2, <1>4, MappingIndex, SMTT(30)
<1>5. CASE w.level = 3
  <2>1. w.n > 2
    BY <1>1, <1>5, MappingIndex
  <2>2. Mappings[w.n][1] = 2 /\ Mappings[w.n][2] = 1 /\ Mappings[w.n][3] = w.n - 2
    BY <1>1, <2>1, MappingIndex
  <2>3. m[0][2] > 0 /\ w.table = m[m[0][2]][1]
    BY <1>1, <1>5, <2>2
  <2>4. EntryIn(m, w) = m[w.table][w.n - 2]
    BY <1>1, <1>5, <2>2
  <2> QED
    BY <1>2, <1>5, <2>1, <2>3, <2>4
<1>6. w.level \in {1, 2, 3}
  BY <1>1, MappingIndex
<1> QED
  BY <1>3, <1>4, <1>5, <1>6

\* What the last entry says is what is found.
LEMMA EntryIsFound ==
  ASSUME NEW m, Tree(m), NEW w, InTree(m, w), ~(EntryIn(m, w) > 0) \/ w.level = Len(Mappings[w.n])
  PROVE  Found(m, w.n) = EntryIn(m, w)
<1>1. w.n \in 1..4 /\ Len(Mappings[w.n]) = IF w.n <= 2 THEN 2 ELSE 3
  BY MappingIndex DEF InTree
<1>2. CASE w.n <= 2
  BY <1>1, <1>2, WalkPlaces DEF Found
<1>3. CASE w.n > 2
  BY <1>1, <1>3, WalkPlaces DEF Found, Upper
<1> QED
  BY <1>1, <1>2, <1>3

\* An entry is stored.
Put(m, t, i, e) == [m EXCEPT ![t][i] = e]

LEMMA PutFacts ==
  ASSUME NEW m, Tree(m), NEW t \in 0..MaxPages, NEW i \in Indices, NEW e \in Int
  PROVE  /\ Put(m, t, i, e) \in [0..MaxPages -> [Indices -> Int]]
         /\ \A u \in 0..MaxPages, j \in Indices :
              Put(m, t, i, e)[u][j] = IF u = t /\ j = i THEN e ELSE m[u][j]
BY DEF Put, Tree

\* Which entries a mapping is found by.
LEMMA FoundSame ==
  ASSUME NEW m, Tree(m), NEW t \in 0..MaxPages, NEW i \in Indices, NEW e \in Int, NEW n \in 1..4,
         n <= 2 => /\ ~(t = 0 /\ i = 1)
                   /\ m[0][1] > 0 => ~(t = m[0][1] /\ i = n),
         n > 2 => /\ ~(t = 0 /\ i = 2)
                  /\ m[0][2] > 0 => ~(t = m[0][2] /\ i = 1)
                  /\ Upper(m) > 0 => ~(t = Upper(m) /\ i = n - 2)
  PROVE  Found(Put(m, t, i, e), n) = Found(m, n)
<1> DEFINE o == Put(m, t, i, e)
<1>1. /\ 0 \in 0..MaxPages /\ 1 \in Indices /\ 2 \in Indices
      /\ \A u \in 0..MaxPages, j \in Indices : o[u][j] = IF u = t /\ j = i THEN e ELSE m[u][j]
  BY PutFacts, PagesAssumption, SMTT(30) DEF Indices
<1>2. \A u \in 0..MaxPages, j \in Indices : m[u][j] > 0 => m[u][j] \in 0..MaxPages
  BY DEF Tree
<1> HIDE DEF o
<1>3. CASE n <= 2
  <2>1. n \in Indices
    BY <1>3 DEF Indices
  <2>2. o[0][1] = m[0][1]
    BY <1>1, <1>3
  <2>3. m[0][1] > 0 => o[m[0][1]][n] = m[m[0][1]][n]
    BY <1>1, <1>2, <1>3, <2>1
  <2> QED
    BY <1>3, <2>2, <2>3 DEF Found, o
<1>4. CASE n > 2
  <2>1. n - 2 \in Indices
    BY <1>4 DEF Indices
  <2>2. o[0][2] = m[0][2]
    BY <1>1, <1>4
  <2>3. m[0][2] > 0 => o[m[0][2]][1] = m[m[0][2]][1]
    BY <1>1, <1>2, <1>4
  <2>4. Upper(o) = Upper(m)
    BY <2>2, <2>3 DEF Upper
  <2>5. Upper(m) > 0 => Upper(m) \in 0..MaxPages
    BY <1>1, <1>2 DEF Upper
  <2>6. Upper(m) > 0 => o[Upper(m)][n - 2] = m[Upper(m)][n - 2]
    BY <1>1, <1>4, <2>1, <2>5
  <2> QED
    BY <1>4, <2>4, <2>6 DEF Found, o
<1> QED
  BY <1>3, <1>4

\* A new page is linked.
LEMMA PageLinked ==
  ASSUME NEW m, Tree(m), NEW w, InTree(m, w), w.level < Len(Mappings[w.n]), EntryIn(m, w) = 0,
         NEW page \in 1..MaxPages, \A i \in Indices : m[page][i] = 0,
         Consistent(m, w.n), \A n \in 1..4 : n < w.n => Made(m, n),
         NEW o, o = Put(m, w.table, Mappings[w.n][w.level], page)
  PROVE  /\ OnPath(o, At(w.n, w.level + 1, page, "deref"))
         /\ Consistent(o, w.n) /\ \A n \in 1..4 : n < w.n => Made(o, n)
<1> DEFINE ix == Mappings[w.n][w.level]
<1>1. /\ w.n \in 1..4 /\ w.level \in 1..Len(Mappings[w.n]) /\ w.table \in 0..MaxPages
      /\ Len(Mappings[w.n]) = IF w.n <= 2 THEN 2 ELSE 3
  BY MappingIndex DEF InTree
<1>2. ix \in Indices /\ page \in Int /\ page > 0 /\ 0 \in 0..MaxPages /\ {1, 2} = Indices
  BY <1>1, MappingOf, PagesAssumption DEF Indices
<1>3. \A u \in 0..MaxPages, j \in Indices : o[u][j] = IF u = w.table /\ j = ix THEN page ELSE m[u][j]
  <2>1. o = Put(m, w.table, ix, page)
    OBVIOUS
  <2>2. w.table \in 0..MaxPages /\ ix \in Indices /\ page \in Int
    BY <1>1, <1>2
  <2> HIDE DEF ix
  <2>3. m \in [0..MaxPages -> [Indices -> Int]]
    BY DEF Tree
  <2> QED
    BY <2>1, <2>2, <2>3 DEF Put
<1>4. Found(m, w.n) = 0
  BY EntryIsFound
<1>5. ~AllMade(m)
  BY <1>1, <1>4 DEF AllMade, Made
<1>6. \A n \in 1..2 : n >= w.n => ~Made(m, n)
  BY <1>5 DEF Consistent
<1>7. w.n \in {1, 3}
  <2>1. w.n # 2
    <3>1. SUFFICES ASSUME w.n = 2
                   PROVE  FALSE
      OBVIOUS
    <3>2. w.level = 1
      BY <1>1, <3>1
    <3>3. m[0][1] = 0
      BY <3>1, <3>2, WalkPlaces
    <3>4. Found(m, 1) = 0
      BY <3>3 DEF Found
    <3> QED
      BY <3>1, <3>4 DEF Made
  <2>2. w.n # 4
    <3>1. SUFFICES ASSUME w.n = 4
                   PROVE  FALSE
      OBVIOUS
    <3>2. w.level \in {1, 2}
      BY <1>1, <3>1
    <3>3. Upper(m) = 0
      BY <3>1, <3>2, WalkPlaces DEF Upper
    <3>4. Found(m, 3) = 0
      BY <3>3 DEF Found
    <3> QED
      BY <3>1, <3>4 DEF Made
  <2> QED
    BY <1>1, <2>1, <2>2
<1>8. At(w.n, w.level + 1, page, "deref").n = w.n /\ At(w.n, w.level + 1, page, "deref").level = w.level + 1
      /\ At(w.n, w.level + 1, page, "deref").table = page
  BY DEF At
<1>9. CASE w.n = 1
  <2>1. w.level = 1 /\ w.table = 0 /\ ix = 1
    BY <1>1, <1>9, MappingIndex, WalkPlaces
  <2>2. o[0][1] = page
    BY <1>2, <1>3, <2>1
  <2>3. \A n \in 1..2 : o[page][n] = 0
    BY <1>2, <1>3, <2>1
  <2>4. \A n \in 1..2 : Found(o, n) = 0
    BY <1>2, <2>2, <2>3 DEF Found
  <2>5. OnPath(o, At(w.n, w.level + 1, page, "deref"))
    BY <1>8, <1>9, <2>1, <2>2, MappingIndex DEF OnPath
  <2>6. Consistent(o, w.n)
    BY <2>4 DEF Consistent, Made
  <2> QED
    BY <1>9, <2>5, <2>6
<1>10. CASE w.n = 3
  <2>1. Mappings[w.n][1] = 2 /\ Mappings[w.n][2] = 1 /\ w.level \in {1, 2}
    BY <1>1, <1>10, MappingIndex
  <2>2. \/ w.level = 1 /\ w.table = 0 /\ ix = 2
        \/ w.level = 2 /\ w.table = m[0][2] /\ m[0][2] > 0 /\ ix = 1
    BY <1>10, <2>1, WalkPlaces
  <2>3. \A n \in 1..2 : Found(o, n) = Found(m, n)
    <3>1. ~(w.table = 0 /\ ix = 1)
      BY <1>2, <2>2
    <3>2. m[0][1] > 0 => w.table # m[0][1]
      <4>1. m[0][1] > 0 => m[0][1] # 0 /\ m[0][2] # m[0][1]
        BY <1>2 DEF Tree
      <4> QED
        BY <2>2, <4>1
    <3> QED
      BY <1>1, <1>2, <3>1, <3>2, FoundSame
  <2>4. \A n \in 1..2 : Made(o, n)
    BY <1>10, <2>3 DEF Made
  <2>5. OnPath(o, At(w.n, w.level + 1, page, "deref"))
    <3>1. CASE w.level = 1
      <4>1. o[0][2] = page
        BY <1>2, <1>3, <2>2, <3>1
      <4> QED
        BY <1>8, <2>1, <3>1, <4>1, SMTT(30) DEF OnPath
    <3>2. CASE w.level = 2
      <4>1. o[0][2] = m[0][2] /\ m[0][2] > 0 /\ m[0][2] \in 0..MaxPages
        BY <1>1, <1>2, <1>3, <2>2, <3>2
      <4>2. o[o[0][2]][1] = page
        BY <1>2, <1>3, <2>2, <3>2, <4>1
      <4> QED
        BY <1>8, <2>1, <3>2, <4>1, <4>2, SMTT(30) DEF OnPath
    <3> QED
      BY <2>1, <3>1, <3>2
  <2> QED
    BY <1>10, <2>4, <2>5 DEF Consistent
<1> QED
  BY <1>7, <1>9, <1>10

\* A mapping is made.
LEMMA MappingMade ==
  ASSUME NEW m, Tree(m), NEW w, InTree(m, w), w.level = Len(Mappings[w.n]), EntryIn(m, w) = 0,
         Consistent(m, w.n), \A n \in 1..4 : n < w.n => Made(m, n),
         NEW o, o = Put(m, w.table, Mappings[w.n][w.level], -w.n)
  PROVE  Consistent(o, w.n + 1) /\ \A n \in 1..4 : n <= w.n => Made(o, n)
<1> DEFINE ix == Mappings[w.n][w.level]
<1>1. /\ w.n \in 1..4 /\ w.level \in 1..Len(Mappings[w.n]) /\ w.table \in 0..MaxPages
      /\ Len(Mappings[w.n]) = IF w.n <= 2 THEN 2 ELSE 3
  BY MappingIndex DEF InTree
<1>2. ix \in Indices /\ -w.n \in Int /\ 0 \in 0..MaxPages /\ {1, 2} = Indices
  BY <1>1, MappingOf, PagesAssumption DEF Indices
<1>3. \A u \in 0..MaxPages, j \in Indices : o[u][j] = IF u = w.table /\ j = ix THEN -w.n ELSE m[u][j]
  <2>1. o = Put(m, w.table, ix, -w.n)
    OBVIOUS
  <2>2. w.table \in 0..MaxPages /\ ix \in Indices /\ -w.n \in Int
    BY <1>1, <1>2
  <2> HIDE DEF ix
  <2>3. m \in [0..MaxPages -> [Indices -> Int]]
    BY DEF Tree
  <2> QED
    BY <2>1, <2>2, <2>3 DEF Put
<1>4. Found(m, w.n) = 0
  BY EntryIsFound
<1>5. \A n \in 1..2 : n >= w.n => ~Made(m, n)
  BY <1>1, <1>4 DEF Consistent, AllMade, Made
<1>6. \A t, u \in 0..MaxPages, i, j \in Indices : m[t][i] > 0 /\ m[u][j] = m[t][i] => u = t /\ j = i
  BY DEF Tree
<1>7. CASE w.n <= 2
  <2>1. w.table = m[0][1] /\ m[0][1] > 0 /\ ix = w.n
    <3>1. w.level = 2
      BY <1>1, <1>7
    <3>2. w.table = m[0][1] /\ m[0][1] > 0
      BY <1>1, <1>7, <3>1, WalkPlaces
    <3> QED
      BY <1>1, <1>7, <3>1, <3>2, MappingIndex
  <2>2. o[0][1] = m[0][1] /\ o[m[0][1]][w.n] = -w.n
    BY <1>1, <1>2, <1>3, <2>1
  <2>3. Made(o, w.n)
    BY <1>1, <1>7, <2>1, <2>2 DEF Made, Found
  <2>4. \A n \in 1..2 : n # w.n => Found(o, n) = Found(m, n)
    BY <1>1, <1>2, <2>1, FoundSame
  <2>5. \A n \in 1..4 : n <= w.n => Made(o, n)
    BY <1>1, <1>7, <2>3, <2>4 DEF Made
  <2>6. \A n \in 1..2 : n >= w.n + 1 => ~Made(o, n)
    BY <1>1, <1>5, <2>4 DEF Made
  <2> QED
    BY <2>5, <2>6 DEF Consistent
<1>8. CASE w.n > 2
  <2>1. /\ m[0][2] > 0 /\ m[0][2] \in 0..MaxPages /\ Upper(m) = m[m[0][2]][1] /\ w.table = Upper(m)
        /\ Upper(m) > 0 /\ ix = w.n - 2
    <3>1. w.level = 3
      BY <1>1, <1>8
    <3>2. m[0][2] > 0 /\ w.table = m[m[0][2]][1] /\ m[m[0][2]][1] > 0
      BY <1>8, <3>1, WalkPlaces
    <3>3. m[0][2] \in 0..MaxPages
      BY <1>2, <3>2 DEF Tree
    <3> QED
      BY <1>1, <1>8, <3>1, <3>2, <3>3, MappingIndex DEF Upper
  <2>2. m[0][1] > 0 => w.table # m[0][1]
    BY <1>2, <1>6, <2>1
  <2>3. w.table # m[0][2] /\ w.table # 0
    <3>1. m[0][2] # 0
      BY <2>1
    <3> QED
      BY <1>2, <1>6, <2>1, <3>1
  <2>4. \A n \in 1..2 : Found(o, n) = Found(m, n)
    BY <1>1, <1>2, <2>2, <2>3, FoundSame
  <2>5. \A n \in 3..4 : n # w.n => Found(o, n) = Found(m, n)
    BY <1>1, <1>2, <2>1, <2>3, FoundSame, SMTT(30)
  <2>6. Upper(o) = Upper(m)
    BY <1>2, <1>3, <2>1, <2>3, SMTT(30) DEF Upper
  <2>7. Made(o, w.n)
    <3>1. o[w.table][ix] = -w.n
      BY <1>1, <1>2, <1>3
    <3>2. o[Upper(o)][w.n - 2] = -w.n /\ Upper(o) > 0
      BY <2>1, <2>6, <3>1
    <3>3. w.n > 2 /\ w.n \in 1..4
      BY <1>1, <1>8
    <3> QED
      BY <3>2, <3>3 DEF Made, Found
  <2>8. ASSUME NEW n \in 1..4, n <= w.n
        PROVE  Made(o, n)
    <3>1. n = w.n \/ n < w.n
      BY <1>1, <2>8
    <3>2. n < w.n => Found(o, n) = Found(m, n)
      <4>1. n \in 1..2 \/ n \in 3..4
        OBVIOUS
      <4> QED
        BY <1>1, <2>4, <2>5, <4>1
    <3> QED
      BY <2>7, <3>1, <3>2 DEF Made
  <2>9. \A n \in 1..2 : ~(n >= w.n + 1)
    BY <1>1, <1>8
  <2> QED
    BY <2>8, <2>9 DEF Consistent
<1> QED
  BY <1>1, <1>7, <1>8

-----------------------------------------------------------------------------
(* A walk goes on. *)

Spare == \A t \in 1..MaxPages \ Pages, i \in Indices : mem[t][i] = 0
Walking == {"deref", "move", "read", "pte", "alloc", "pde"}
WalkGoesOn(p) ==
  /\ walk'[p].at # "none" => WalkAt(mem', walk'[p])
  /\ AllMade(mem) => mem' = mem

\* A page that is not recorded is not written to.
LEMMA WalkKeepsSpare ==
  ASSUME ExitInv, Spare, NEW p \in Procs, WalkStep(p)
  PROVE  Spare' /\ walk'[p].at # "none"
<1> DEFINE w == walk[p]
<1>1. ASSUME UNCHANGED tableVars
      PROVE  Spare'
  BY <1>1 DEF Spare, Pages, tableVars
<1>2. ASSUME Allocate(p)
      PROVE  Spare'
  <2> DEFINE a == [page |-> NextPage, table |-> w.table, idx |-> Mappings[w.n][w.level]]
  <2>1. pd_allocs' = Append(pd_allocs, a) /\ mem' = mem
    BY <1>2 DEF Allocate
  <2>2. pd_allocs \in Seq(Allocations)
    BY DEF ExitInv, TableInv
  <2> HIDE DEF a
  <2>3. \A k \in DOMAIN pd_allocs : k \in DOMAIN pd_allocs' /\ pd_allocs'[k] = pd_allocs[k]
    BY <2>1, <2>2
  <2>4. Pages \subseteq Pages'
    BY <2>3 DEF Pages
  <2> QED
    BY <2>1, <2>4 DEF Spare
<1>3. ASSUME WritePte(p) \/ LinkPage(p)
      PROVE  Spare'
  <2>1. PICK e : w.at \in Walking /\ Store(w, e) /\ UNCHANGED pd_allocs
    BY <1>3 DEF WritePte, LinkPage, Walking
  <2>2. w.table \notin 1..MaxPages \ Pages
    BY <2>1, WalkFacts DEF Walking, Nodes
  <2>3. \A t \in 1..MaxPages : t \in 0..MaxPages
    BY PagesAssumption
  <2> QED
    BY <2>1, <2>2, <2>3 DEF Spare, Pages, Store, ExitInv, TableInv
<1>4. Spare'
  BY <1>1, <1>2, <1>3 DEF WalkStep, DerefTable, MoveToTable, ReadEntry, SkipMapping
<1>5. walk'[p].at # "none"
  <2>1. walk[p] \in Walks /\ p \in DOMAIN walk
    BY DEF ExitInv, WalkInv
  <2>2. CASE DerefTable(p) \/ MoveToTable(p)
    BY <2>1, <2>2 DEF DerefTable, MoveToTable, Goes, Walks
  <2>3. CASE ReadEntry(p)
    BY <2>1, <2>3 DEF ReadEntry, Goes, Walks, At
  <2>4. CASE WritePte(p) \/ SkipMapping(p)
    BY <2>1, <2>4 DEF WritePte, SkipMapping, NextMapping, Goes, At
  <2>5. CASE Allocate(p)
    <3>1. walk' = [walk EXCEPT ![p] = [walk[p] EXCEPT !.at = "pde", !.page = NextPage]]
      BY <2>5 DEF Allocate, Goes
    <3> QED
      BY <2>1, <3>1 DEF Walks
  <2>6. CASE LinkPage(p)
    BY <2>1, <2>6 DEF LinkPage, Goes, At
  <2> QED
    BY <2>2, <2>3, <2>4, <2>5, <2>6 DEF WalkStep
<1> QED
  BY <1>4, <1>5

LEMMA WalkInTree ==
  ASSUME ExitInv, NEW p \in Procs, walk[p].at \in Walking, WalkAt(mem, walk[p])
  PROVE  /\ Tree(mem) /\ InTree(mem, walk[p]) /\ Entry(walk[p]) = EntryIn(mem, walk[p])
         /\ Consistent(mem, walk[p].n) /\ \A n \in 1..4 : n < walk[p].n => Made(mem, n)
         /\ Entry(walk[p]) = 0 => ~AllMade(mem)
         /\ walk[p] \in Walks /\ DOMAIN walk = Procs \cup {"exit"}
         /\ walk[p].n \in 1..4 /\ walk[p].level \in 1..3
<1>1. /\ OnPath(mem, walk[p]) /\ Consistent(mem, walk[p].n)
      /\ \A n \in 1..4 : n < walk[p].n => Made(mem, n)
  BY DEF WalkAt, Walking
<1>2. /\ walk[p].n \in 1..4 /\ walk[p].level \in 1..Len(Mappings[walk[p].n])
      /\ walk[p].table \in 0..MaxPages /\ walk[p].level \in 1..3
      /\ walk[p].table = 0 <=> walk[p].level = 1
      /\ walk[p] \in Walks /\ DOMAIN walk = Procs \cup {"exit"}
  BY WalkFacts DEF Walking, ExitInv, WalkInv
<1>3. Tree(mem) /\ InTree(mem, walk[p])
  BY <1>1, <1>2, TablesAreTree DEF InTree, ExitInv
<1>4. Entry(walk[p]) = EntryIn(mem, walk[p])
  BY DEF Entry, EntryIn
<1>5. Entry(walk[p]) = 0 => ~AllMade(mem)
  <2>1. SUFFICES ASSUME EntryIn(mem, walk[p]) = 0
                 PROVE  ~AllMade(mem)
    BY <1>4
  <2>2. Found(mem, walk[p].n) = 0
    BY <1>3, <2>1, EntryIsFound
  <2> QED
    BY <1>2, <2>2 DEF AllMade, Made
<1> QED
  BY <1>1, <1>2, <1>3, <1>4, <1>5

\* Only the phase of the walk changes.
LEMMA PhaseChanges ==
  ASSUME ExitInv, NEW p \in Procs, walk[p].at \in Walking, WalkAt(mem, walk[p]),
         UNCHANGED tableVars, NEW at \in Walking,
         walk' = [walk EXCEPT ![p] = [walk[p] EXCEPT !.at = at]],
         at \in {"pte", "alloc"} => Entry(walk[p]) = 0, at # "pde"
  PROVE  WalkGoesOn(p)
<1> DEFINE w == walk[p]
           v == [walk[p] EXCEPT !.at = at]
<1>1. v.n = w.n /\ v.level = w.level /\ v.table = w.table /\ v.at = at /\ walk'[p] = v /\ mem' = mem
  BY WalkInTree DEF Walks, tableVars
<1>2. OnPath(mem, w) /\ EntryIn(mem, w) = Entry(w)
  BY WalkInTree DEF InTree
<1> HIDE DEF v
<1>3. OnPath(mem, v) /\ EntryIn(mem, v) = EntryIn(mem, w)
  BY <1>1, <1>2 DEF OnPath, EntryIn
<1>4. WalkAt(mem, v)
  BY <1>1, <1>2, <1>3, WalkInTree DEF WalkAt, Walking
<1> QED
  BY <1>1, <1>4 DEF WalkGoesOn

\* The next mapping's turn comes, or the last is made.
LEMMA NextComes ==
  ASSUME ExitInv, NEW p \in Procs, walk[p].n \in 1..4, NextMapping(p),
         Consistent(mem', walk[p].n + 1), \A n \in 1..4 : n <= walk[p].n => Made(mem', n)
  PROVE  WalkAt(mem', walk'[p])
<1>1. p \in DOMAIN walk
  BY DEF ExitInv, WalkInv
<1>2. CASE walk[p].n = 4
  <2>1. walk'[p].at = "mapped"
    BY <1>1, <1>2, MappingFacts DEF NextMapping, Goes, At
  <2> QED
    BY <1>2, <2>1 DEF WalkAt, AllMade
<1>3. CASE walk[p].n # 4
  <2>1. walk'[p] = At(walk[p].n + 1, 1, 0, "deref")
    BY <1>1, <1>3, MappingFacts DEF NextMapping, Goes
  <2>2. /\ walk'[p].n = walk[p].n + 1 /\ walk'[p].level = 1 /\ walk'[p].at = "deref"
    BY <2>1 DEF At
  <2>3. \A n \in 1..4 : n < walk'[p].n => Made(mem', n)
    BY <2>2
  <2> QED
    BY <2>2, <2>3 DEF WalkAt, OnPath
<1> QED
  BY <1>2, <1>3

LEMMA WalkStepMaps ==
  ASSUME ExitInv, Spare, NEW p \in Procs, WalkAt(mem, walk[p]), WalkStep(p)
  PROVE  WalkGoesOn(p)
<1> DEFINE w == walk[p]
<1>1. CASE DerefTable(p) \/ MoveToTable(p)
  <2>1. w.at \in Walking /\ UNCHANGED tableVars
    BY <1>1 DEF DerefTable, MoveToTable, Walking
  <2>2. PICK at \in {"read", "move"} : walk' = [walk EXCEPT ![p] = [walk[p] EXCEPT !.at = at]]
    BY <1>1 DEF DerefTable, MoveToTable, Goes
  <2>3. at \in Walking
    BY DEF Walking
  <2> QED
    BY <2>1, <2>2, <2>3, PhaseChanges
<1>2. CASE ReadEntry(p)
  <2>1. w.at \in Walking /\ UNCHANGED tableVars
    BY <1>2 DEF ReadEntry, Walking
  <2>2. CASE Entry(w) = 0 /\ Goes(p, [w EXCEPT !.at = IF LastLevel(w) THEN "pte" ELSE "alloc"])
    <3>1. PICK at \in {"pte", "alloc"} : walk' = [walk EXCEPT ![p] = [walk[p] EXCEPT !.at = at]]
      BY <2>2 DEF Goes
    <3>2. at \in Walking
      BY DEF Walking
    <3> QED
      BY <2>1, <2>2, <3>1, <3>2, PhaseChanges
  <2>3. CASE Entry(w) > 0 /\ ~LastLevel(w) /\ Goes(p, At(w.n, w.level + 1, Entry(w), "deref"))
    <3>1. /\ walk'[p] = At(w.n, w.level + 1, Entry(w), "deref") /\ mem' = mem
      BY <2>1, <2>3, WalkInTree DEF Goes, tableVars
    <3>2. /\ walk'[p].n = w.n /\ walk'[p].level = w.level + 1 /\ walk'[p].table = Entry(w)
          /\ walk'[p].at = "deref"
      BY <3>1 DEF At
    <3>3. /\ InTree(mem, w) /\ Entry(w) = EntryIn(mem, w) /\ Consistent(mem, w.n)
          /\ (\A n \in 1..4 : n < w.n => Made(mem, n)) /\ Tree(mem)
          /\ w.n \in 1..4 /\ w.level \in 1..3
      BY <2>1, WalkInTree
    <3>4. OnPath(mem, walk'[p])
      <4>1. CASE w.level = 1
        <5>1. w.table = 0
          BY <3>3, <4>1 DEF InTree
        <5> QED
          BY <3>2, <3>3, <4>1, <5>1 DEF OnPath, EntryIn
      <4>2. CASE w.level = 2
        <5>1. w.table = mem[0][Mappings[w.n][1]] /\ w.table \in 0..MaxPages /\ w.table # 0
          BY <3>3, <4>2 DEF InTree, OnPath
        <5> QED
          BY <3>2, <3>3, <4>2, <5>1, PagesAssumption, SMTT(30) DEF OnPath, EntryIn
      <4>3. CASE w.level = 3
        BY <3>2, <4>3 DEF OnPath
      <4> QED
        BY <3>3, <4>1, <4>2, <4>3
    <3>5. WalkAt(mem, walk'[p])
      BY <3>2, <3>3, <3>4 DEF WalkAt
    <3> QED
      BY <3>1, <3>5 DEF WalkGoesOn
  <2> QED
    BY <1>2, <2>2, <2>3 DEF ReadEntry
<1>3. CASE SkipMapping(p)
  <2>1. /\ w.at \in Walking /\ Entry(w) = -w.n /\ ~Huge(w.n) /\ NextMapping(p) /\ UNCHANGED tableVars
    BY <1>3 DEF SkipMapping, Exists, Walking
  <2>2. /\ Tree(mem) /\ InTree(mem, w) /\ EntryIn(mem, w) = -w.n /\ w.n \in 1..4 /\ w.n > 2
        /\ \A n \in 1..4 : n < w.n => Made(mem, n)
    BY <2>1, WalkInTree, MappingIndex
  <2>3. Made(mem, w.n)
    <3>1. ~(-w.n > 0)
      BY <2>2
    <3> QED
      BY <2>2, <3>1, EntryIsFound DEF Made
  <2>4. mem' = mem
    BY <2>1 DEF tableVars
  <2>5. Consistent(mem', w.n + 1) /\ \A n \in 1..4 : n <= w.n => Made(mem', n)
    <3>1. \A n \in 1..2 : ~(n >= w.n + 1)
      BY <2>2
    <3>2. \A n \in 1..4 : n <= w.n => n < w.n \/ n = w.n
      BY <2>2
    <3> QED
      BY <2>2, <2>3, <2>4, <3>1, <3>2 DEF Consistent
  <2> QED
    BY <2>1, <2>2, <2>4, <2>5, NextComes DEF WalkGoesOn
<1>4. CASE Allocate(p)
  <2>1. /\ w.at \in Walking /\ w.at = "alloc" /\ mem' = mem
        /\ walk' = [walk EXCEPT ![p] = [walk[p] EXCEPT !.at = "pde", !.page = NextPage]]
        /\ NextPage \in 1..MaxPages /\ NextPage \notin Pages
    BY <1>4, NextPageUnused DEF Allocate, Goes, Walking
  <2>2. \A i \in Indices : mem[NextPage][i] = 0
    BY <2>1 DEF Spare
  <2>4. /\ walk'[p].n = w.n /\ walk'[p].level = w.level /\ walk'[p].table = w.table
        /\ walk'[p].at = "pde" /\ walk'[p].page = NextPage
    BY <2>1, WalkInTree DEF Walks
  <2>5. OnPath(mem, w) /\ EntryIn(mem, w) = 0
    BY <2>1 DEF WalkAt
  <2>6. OnPath(mem, walk'[p]) /\ EntryIn(mem, walk'[p]) = 0
    BY <2>4, <2>5 DEF OnPath, EntryIn
  <2>7. Consistent(mem, w.n) /\ \A n \in 1..4 : n < w.n => Made(mem, n)
    BY <2>1, WalkInTree
  <2>8. WalkAt(mem, walk'[p])
    BY <2>1, <2>2, <2>4, <2>6, <2>7 DEF WalkAt
  <2> QED
    BY <2>1, <2>8 DEF WalkGoesOn
<1>5. ASSUME NEW e, Store(w, e)
      PROVE  mem' = Put(mem, w.table, Mappings[w.n][w.level], e)
  BY <1>5 DEF Store, Put
<1>6. CASE WritePte(p)
  <2>1. w.at \in Walking /\ w.at = "pte" /\ Store(w, -w.n) /\ NextMapping(p) /\ UNCHANGED pd_allocs
    BY <1>6 DEF WritePte, Walking
  <2>2. /\ Tree(mem) /\ InTree(mem, w) /\ EntryIn(mem, w) = 0 /\ w.n \in 1..4
        /\ Consistent(mem, w.n) /\ (\A n \in 1..4 : n < w.n => Made(mem, n)) /\ ~AllMade(mem)
    BY <2>1, WalkInTree DEF WalkAt
  <2>3. w.level = Len(Mappings[w.n])
    BY <2>1, WalkFacts DEF WalkOK, LastLevel
  <2>4. mem' = Put(mem, w.table, Mappings[w.n][w.level], -w.n)
    BY <1>5, <2>1
  <2>5. Consistent(mem', w.n + 1) /\ \A n \in 1..4 : n <= w.n => Made(mem', n)
    BY <2>2, <2>3, <2>4, MappingMade
  <2> QED
    BY <2>1, <2>2, <2>4, <2>5, NextComes DEF WalkGoesOn
<1>7. CASE LinkPage(p)
  <2>1. /\ w.at \in Walking /\ w.at = "pde" /\ Store(w, w.page) /\ UNCHANGED pd_allocs
        /\ Goes(p, At(w.n, w.level + 1, w.page, "deref"))
    BY <1>7 DEF LinkPage, Walking
  <2>2. /\ Tree(mem) /\ InTree(mem, w) /\ EntryIn(mem, w) = 0 /\ w.n \in 1..4 /\ ~AllMade(mem)
        /\ Consistent(mem, w.n) /\ (\A n \in 1..4 : n < w.n => Made(mem, n))
        /\ w.page \in 1..MaxPages /\ \A i \in Indices : mem[w.page][i] = 0
    BY <2>1, WalkInTree DEF WalkAt
  <2>3. w.level < Len(Mappings[w.n])
    <3>1. ~LastLevel(w) /\ w.level \in 1..Len(Mappings[w.n]) /\ Len(Mappings[w.n]) \in 2..3
      BY <2>1, <2>2, WalkFacts, MappingFacts DEF WalkOK
    <3> QED
      BY <3>1 DEF LastLevel
  <2>4. mem' = Put(mem, w.table, Mappings[w.n][w.level], w.page)
    BY <1>5, <2>1
  <2> DEFINE v == At(w.n, w.level + 1, w.page, "deref")
  <2>5. walk'[p] = v /\ v.n = w.n /\ v.at = "deref"
    BY <2>1, WalkInTree DEF Goes, At
  <2>6. OnPath(mem', v) /\ Consistent(mem', w.n) /\ \A n \in 1..4 : n < w.n => Made(mem', n)
    BY <2>2, <2>3, <2>4, PageLinked
  <2> HIDE DEF v
  <2>7. WalkAt(mem', walk'[p])
    BY <2>5, <2>6 DEF WalkAt
  <2> QED
    BY <2>2, <2>4, <2>7 DEF WalkGoesOn
<1> QED
  BY <1>1, <1>2, <1>3, <1>4, <1>6, <1>7 DEF WalkStep

-----------------------------------------------------------------------------
(* The mappings are kept. *)

LEMMA MapsInit == ExitInv /\ Init => MapsInv
<1> SUFFICES ASSUME ExitInv, Init
             PROVE  MapsInv
  OBVIOUS
<1>1. /\ mem = [t \in 0..MaxPages |-> IF t = 0 THEN DriversTable(gpu.taken) ELSE [i \in Indices |-> 0]]
      /\ \A p \in Procs : call[p] = "none" /\ walk[p].at = "none" /\ result[p] = <<"none", "none">>
  BY DEF Init, TablesInit, NoWalk, At
<1>2. Spare
  BY <1>1, PagesAssumption DEF Spare
<1>3. mem[0][1] = 0
  BY <1>1, PagesAssumption DEF DriversTable, Indices
<1>4. Found(mem, 1) = 0 /\ Found(mem, 2) = 0
  BY <1>3 DEF Found
<1>5. Consistent(mem, 1)
  BY <1>4 DEF Consistent, Made
<1> QED
  BY <1>1, <1>2, <1>5 DEF MapsInv, Spare, Maps

\* Nothing happens to the tables.
LEMMA MapsStay ==
  ASSUME MapsInv, UNCHANGED <<mem, pd_allocs>>, \A p \in Procs : walk'[p] = walk[p],
         Undisturbed' =>
           /\ Undisturbed
           /\ \A p, q \in Procs : call'[p] \in Maps /\ call'[q] \in Maps => p = q
           /\ \A p \in Procs : result'[p] \in Maps \X {"ok"} => result[p] = result'[p]
  PROVE  MapsInv'
<1>1. Pages' = Pages
  BY DEF Pages
<1>2. \A t \in 1..MaxPages \ Pages', i \in Indices : mem'[t][i] = 0
  BY <1>1 DEF MapsInv
<1>3. ASSUME Undisturbed'
      PROVE  /\ \A p, q \in Procs : call'[p] \in Maps /\ call'[q] \in Maps => p = q
             /\ \A p \in Procs : walk'[p].at # "none" => WalkAt(mem', walk'[p])
             /\ (\A p \in Procs : walk'[p].at = "none") => Consistent(mem', 1)
             /\ \A p \in Procs : result'[p] \in Maps \X {"ok"} => AllMade(mem')
  BY <1>3 DEF MapsInv
<1> QED
  BY <1>2, <1>3 DEF MapsInv

LEMMA CallKeepsTables ==
  ASSUME NEW p \in Procs, CallStep(p) \/ ReadStep(p)
  PROVE  UNCHANGED <<tableVars, walk, moduleVars>> /\ seen \subseteq seen'
<1>1. CASE StartCall(p)
  BY <1>1 DEF StartCall, KeepRest
<1>2. CASE Return(p) \/ SeqStart(p) \/ SeqEmpty(p)
  BY <1>2 DEF Return, SeqStart, SeqEmpty, Finish, KeepMemory, KeepRest
<1>3. CASE ReadRegister(p) \/ LookAtWindow(p) \/ MoveWindow(p) \/ UsePointer(p) \/ GoAstray(p)
  BY <1>3
  DEF ReadRegister, LookAtWindow, MoveWindow, UsePointer, GoAstray, KeepMemory, KeepCall, KeepRest
<1>4. CASE LocalStep(p)
  BY <1>4 DEF LocalStep, KeepRest
<1>5. CASE Iterate(p) \/ SeqShow(p) \/ Shown(p) \/ SeqAdvance(p)
  BY <1>5 DEF Iterate, SeqShow, Shown, SeqAdvance, KeepMemory, KeepCall, KeepRest
<1> QED
  BY <1>1, <1>2, <1>3, <1>4, <1>5 DEF CallStep, ReadStep

\* Only a walk that ends makes a map call a success.
LEMMA CallResults ==
  ASSUME ExitInv, StepsInv, NEW p \in Procs, CallStep(p) \/ ReadStep(p), ~StartCall(p)
  PROVE  /\ \A q \in Procs : call'[q] \in {call[q], "none"}
         /\ \A q \in Procs : result'[q] \in Maps \X {"ok"} => result[q] = result'[q]
<1>1. call \in [Procs -> Files \cup {"none"}] /\ DOMAIN result = Procs
  BY DEF ExitInv, CallInv, StepsInv
<1>2. CASE UNCHANGED <<call, result>>
  BY <1>2
<1>3. ASSUME NEW r, Finish(p, r), call[p] \in Maps => r # "ok"
      PROVE  /\ \A q \in Procs : call'[q] \in {call[q], "none"}
             /\ \A q \in Procs : result'[q] \in Maps \X {"ok"} => result[q] = result'[q]
  <2>1. /\ call' = [call EXCEPT ![p] = "none"] /\ result' = [result EXCEPT ![p] = <<call[p], r>>]
    BY <1>3 DEF Finish
  <2>2. <<call[p], r>> \notin Maps \X {"ok"}
    BY <1>3
  <2> QED
    BY <1>1, <2>1, <2>2
<1>4. CASE Return(p)
  <2>1. CASE Doing(p, "return") /\ Finish(p, "ok")
    <3>1. InCall(p) /\ Cur(p).op = "return"
      BY <2>1 DEF Doing
    <3>2. call[p] = "preempt_mode"
      BY <3>1, AtStep, OpsOfCalls
    <3> QED
      BY <1>3, <2>1, <3>2 DEF Maps
  <2>2. CASE Finish(p, "error")
    BY <1>3, <2>2
  <2> QED
    BY <1>4, <2>1, <2>2 DEF Return
<1>5. CASE SeqStart(p)
  <2>1. InCall(p) /\ Cur(p).op = "seq_start"
    BY <1>5 DEF SeqStart, Doing
  <2>2. call[p] = "read"
    BY <2>1, AtStep, OpsOfCalls
  <2> QED
    BY <1>2, <1>3, <1>5, <2>2 DEF SeqStart, Maps
<1>9. CASE SeqEmpty(p)
  <2>1. call[p] = "read" /\ (Finish(p, "ok") \/ UNCHANGED <<call, result>>)
    BY <1>9 DEF SeqEmpty, NoneToShow, FoundEmpty
  <2> QED
    BY <1>2, <1>3, <2>1 DEF Maps
<1>6. CASE ReadRegister(p) \/ LookAtWindow(p) \/ MoveWindow(p) \/ UsePointer(p) \/ GoAstray(p)
  BY <1>2, <1>6
  DEF ReadRegister, LookAtWindow, MoveWindow, UsePointer, GoAstray, KeepCall
<1>7. CASE LocalStep(p)
  <2>1. UNCHANGED <<call, result>>
    BY <1>7 DEF LocalStep
  <2> QED
    BY <1>2, <2>1
<1>8. CASE Iterate(p) \/ SeqShow(p) \/ Shown(p) \/ SeqAdvance(p)
  BY <1>2, <1>8 DEF Iterate, SeqShow, Shown, SeqAdvance, KeepCall
<1> QED
  BY <1>4, <1>5, <1>6, <1>7, <1>8, <1>9 DEF CallStep, ReadStep

LEMMA CallKeepsMaps ==
  ASSUME ExitInv, StepsInv, MapsInv, NEW p \in Procs, CallStep(p) \/ ReadStep(p)
  PROVE  MapsInv'
<1>1. UNCHANGED <<tableVars, walk, moduleVars>> /\ seen \subseteq seen'
  BY CallKeepsTables
<1>2. Undisturbed' => Undisturbed
  BY <1>1 DEF Undisturbed, moduleVars
<1>3. CASE StartCall(p)
  <2> DEFINE c == gpu.calls[p][made[p] + 1]
  <2>1. /\ call' = [call EXCEPT ![p] = c]
        /\ result' = [result EXCEPT ![p] = <<"none", "none">>]
        /\ c \in Maps /\ (\E q \in Procs \ {p} : call[q] \in Maps) => "maps" \in seen'
    BY <1>3 DEF StartCall
  <2> HIDE DEF c
  <2>2. DOMAIN call = Procs /\ DOMAIN result = Procs
    BY DEF ExitInv, CallInv, StepsInv
  <2>3. Undisturbed' => \A q, r \in Procs : call'[q] \in Maps /\ call'[r] \in Maps => q = r
    <3>1. SUFFICES ASSUME Undisturbed', NEW q \in Procs, NEW r \in Procs,
                          call'[q] \in Maps, call'[r] \in Maps, q # r
                   PROVE  FALSE
      OBVIOUS
    <3>2. "maps" \notin seen'
      BY <3>1 DEF Undisturbed
    <3>3. call[q] \in Maps /\ call[r] \in Maps
      BY <2>1, <2>2, <3>1, <3>2
    <3> QED
      BY <1>2, <3>1, <3>3 DEF MapsInv
  <2>4. \A q \in Procs : result'[q] \in Maps \X {"ok"} => result[q] = result'[q]
    BY <2>1, <2>2
  <2> QED
    BY <1>1, <1>2, <2>3, <2>4, MapsStay DEF tableVars
<1>4. CASE ~StartCall(p)
  <2>1. /\ \A q \in Procs : call'[q] \in {call[q], "none"}
        /\ \A q \in Procs : result'[q] \in Maps \X {"ok"} => result[q] = result'[q]
    BY <1>4, CallResults
  <2>2. "none" \notin Maps
    BY DEF Maps
  <2>3. Undisturbed' => \A q, r \in Procs : call'[q] \in Maps /\ call'[r] \in Maps => q = r
    BY <1>2, <2>1, <2>2 DEF MapsInv
  <2> QED
    BY <1>1, <1>2, <2>1, <2>3, MapsStay DEF tableVars
<1> QED
  BY <1>3, <1>4

LEMMA StartKeepsMaps ==
  ASSUME ExitInv, StepsInv, MapsInv, NEW p \in Procs, StartWalk(p)
  PROVE  MapsInv'
<1>1. /\ walk[p].at = "none" /\ call[p] \in Maps
      /\ walk' = [walk EXCEPT ![p] = At(1, 1, 0, "deref")]
      /\ UNCHANGED <<mem, pd_allocs, call, result, seen, stage>>
  <2>1. MapStep(p)
    BY DEF MapStep
  <2> QED
    BY <2>1, MapStepFile DEF StartWalk, Doing, Goes, KeepCall, KeepRest, tableVars, moduleVars
<1>2. (Undisturbed' <=> Undisturbed) /\ Pages' = Pages
  BY <1>1 DEF Undisturbed, Pages
<1>3. /\ walk'[p] = At(1, 1, 0, "deref") /\ \A q \in Procs \ {p} : walk'[q] = walk[q]
  BY <1>1 DEF ExitInv, WalkInv
<1>4. ASSUME Undisturbed
      PROVE  \A q \in Procs \ {p} : walk[q].at = "none"
  BY <1>1, <1>4 DEF MapsInv, StepsInv
<1>5. ASSUME Undisturbed
      PROVE  WalkAt(mem, At(1, 1, 0, "deref")) /\ walk'[p].at # "none"
  <2>1. Consistent(mem, 1)
    BY <1>1, <1>4, <1>5 DEF MapsInv
  <2> QED
    BY <1>3, <2>1 DEF WalkAt, OnPath, At
<1> QED
  BY <1>1, <1>2, <1>3, <1>4, <1>5 DEF MapsInv

LEMMA WalkKeepsMaps ==
  ASSUME ExitInv, StepsInv, MapsInv, NEW p \in Procs, WalkStep(p)
  PROVE  MapsInv'
<1>1. UNCHANGED <<call, result, seen, stage>>
  BY DEF WalkStep, KeepCall, KeepRest, moduleVars
<1>2. MapStep(p)
  BY DEF MapStep
<1>3. /\ call[p] \in Maps /\ walk[p].at # "none" /\ \A q \in Procs \ {p} : walk'[q] = walk[q]
  BY <1>2, MapStepFile, MapMoves
  DEF ProcFrame, WalkStep, DerefTable, MoveToTable, ReadEntry, WritePte, SkipMapping, Exists,
      Allocate, LinkPage
<1>4. Undisturbed' <=> Undisturbed
  BY <1>1 DEF Undisturbed
<1>5. Spare
  BY DEF MapsInv, Spare
<1>6. Spare' /\ walk'[p].at # "none"
  BY <1>5, WalkKeepsSpare
<1>7. ASSUME Undisturbed
      PROVE  WalkGoesOn(p) /\ \A q \in Procs \ {p} : walk'[q].at = "none"
  <2>1. WalkAt(mem, walk[p])
    BY <1>3, <1>7 DEF MapsInv
  <2>2. \A q \in Procs \ {p} : walk[q].at = "none"
    BY <1>3, <1>7 DEF MapsInv, StepsInv
  <2> QED
    BY <1>3, <1>5, <2>1, <2>2, WalkStepMaps
<1>8. ASSUME Undisturbed'
      PROVE  /\ \A q, r \in Procs : call'[q] \in Maps /\ call'[r] \in Maps => q = r
             /\ \A q \in Procs : walk'[q].at # "none" => WalkAt(mem', walk'[q])
             /\ (\A q \in Procs : walk'[q].at = "none") => Consistent(mem', 1)
             /\ \A q \in Procs : result'[q] \in Maps \X {"ok"} => AllMade(mem')
  <2>1. \A q, r \in Procs : call'[q] \in Maps /\ call'[r] \in Maps => q = r
    BY <1>1, <1>4, <1>8 DEF MapsInv
  <2>2. \A q \in Procs : walk'[q].at # "none" => WalkAt(mem', walk'[q])
    BY <1>4, <1>7, <1>8 DEF WalkGoesOn
  <2>3. \A q \in Procs : result'[q] \in Maps \X {"ok"} => AllMade(mem')
    <3>1. AllMade(mem) => AllMade(mem')
      BY <1>4, <1>7, <1>8 DEF WalkGoesOn
    <3> QED
      BY <1>1, <1>4, <1>8, <3>1 DEF MapsInv
  <2> QED
    BY <1>6, <2>1, <2>2, <2>3
<1>9. \A t \in 1..MaxPages \ Pages', i \in Indices : mem'[t][i] = 0
  BY <1>6 DEF Spare
<1> QED
  BY <1>8, <1>9 DEF MapsInv

\* A walk that ends well has made every mapping, or found the first.
LEMMA EndKeepsMaps ==
  ASSUME ExitInv, StepsInv, MapsInv, NEW p \in Procs, WalkEnds(p)
  PROVE  MapsInv'
<1>1. PICK r : /\ EndWalk(p, r)
               /\ r = "error" \/ (r = "ok" /\ (walk[p].at = "mapped" \/ (Exists(p) /\ Huge(walk[p].n))))
  BY DEF WalkEnds
<1>2. /\ walk' = [walk EXCEPT ![p] = NoWalk] /\ call' = [call EXCEPT ![p] = "none"]
      /\ result' = [result EXCEPT ![p] = <<call[p], r>>]
      /\ seen' = IF r = "error" /\ call[p] \in Maps THEN seen \cup {"map failed"} ELSE seen
      /\ UNCHANGED <<mem, pd_allocs, stage>>
  BY <1>1 DEF WalkEnds, EndWalk, Goes, Finish, KeepRest, tableVars, moduleVars
<1>3. call[p] \in Maps /\ MapStep(p) /\ walk[p].at # "none"
  <2>1. MapStep(p)
    BY DEF MapStep
  <2>2. walk[p].at # "none"
    BY DEF WalkEnds, Exists, InUse, LosePage
  <2> QED
    BY <2>1, <2>2, MapStepFile
<1>4. Undisturbed' => Undisturbed /\ r = "ok"
  BY <1>1, <1>2, <1>3 DEF Undisturbed
<1>5. ASSUME Undisturbed'
      PROVE  AllMade(mem)
  <2>1. WalkAt(mem, walk[p])
    BY <1>3, <1>4, <1>5 DEF MapsInv
  <2>2. CASE walk[p].at = "mapped"
    BY <2>1, <2>2 DEF WalkAt
  <2>3. CASE Exists(p) /\ Huge(walk[p].n)
    <3>1. walk[p].at \in Walking /\ Entry(walk[p]) = -walk[p].n
      BY <2>3 DEF Exists, Walking
    <3>2. /\ Tree(mem) /\ InTree(mem, walk[p]) /\ EntryIn(mem, walk[p]) = -walk[p].n
          /\ Consistent(mem, walk[p].n) /\ walk[p].n \in 1..4
      BY <2>1, <3>1, WalkInTree
    <3>3. walk[p].n <= 2 /\ ~(-walk[p].n > 0)
      BY <2>3, <3>2, MappingIndex
    <3>4. Made(mem, walk[p].n)
      BY <3>2, <3>3, EntryIsFound DEF Made
    <3>5. walk[p].n \in 1..2 /\ walk[p].n >= walk[p].n
      BY <3>2, <3>3
    <3> QED
      BY <3>2, <3>4, <3>5 DEF Consistent
  <2> QED
    BY <1>1, <1>4, <1>5, <2>2, <2>3
<1>6. call \in [Procs -> Files \cup {"none"}] /\ DOMAIN walk = Procs \cup {"exit"}
  BY DEF ExitInv, CallInv, WalkInv
<1>7. ASSUME Undisturbed'
      PROVE  /\ \A q, s \in Procs : call'[q] \in Maps /\ call'[s] \in Maps => q = s
             /\ \A q \in Procs : walk'[q].at # "none" => WalkAt(mem', walk'[q])
  <2>1. "none" \notin Maps /\ NoWalk.at = "none"
    BY DEF Maps, NoWalk, At
  <2>2. \A q \in Procs : call'[q] \in Maps => call[q] \in Maps
    BY <1>2, <1>6, <2>1
  <2>3. \A q \in Procs : walk'[q].at # "none" => walk'[q] = walk[q]
    BY <1>2, <1>6, <2>1
  <2>4. \A q \in Procs : walk[q].at # "none" => WalkAt(mem, walk[q])
    BY <1>4, <1>7 DEF MapsInv
  <2>5. \A q \in Procs : walk'[q].at # "none" => WalkAt(mem', walk'[q])
    BY <1>2, <2>3, <2>4
  <2>6. \A q, s \in Procs : call'[q] \in Maps /\ call'[s] \in Maps => q = s
    BY <1>4, <1>7, <2>2 DEF MapsInv
  <2> QED
    BY <2>5, <2>6
<1>8. Pages' = Pages
  BY <1>2 DEF Pages
<1>9. \A t \in 1..MaxPages \ Pages', i \in Indices : mem'[t][i] = 0
  BY <1>2, <1>8 DEF MapsInv
<1>10. ASSUME Undisturbed'
       PROVE  AllMade(mem') /\ Consistent(mem', 1)
  BY <1>2, <1>5, <1>10 DEF Consistent
<1> QED
  BY <1>7, <1>9, <1>10 DEF MapsInv

LEMMA OtherKeepsMaps ==
  ASSUME ExitInv, MapsInv, OtherStep
  PROVE  MapsInv'
<1>1. /\ UNCHANGED <<call, result>> /\ \A p \in Procs : walk'[p] = walk[p]
      /\ seen \subseteq seen'
  BY OtherFrame, OtherSeen
<1>2. ASSUME UNCHANGED <<mem, pd_allocs>>, Undisturbed' => Undisturbed
      PROVE  MapsInv'
  <2>1. Undisturbed' => \A p, q \in Procs : call'[p] \in Maps /\ call'[q] \in Maps => p = q
    BY <1>1, <1>2 DEF MapsInv
  <2>2. \A p \in Procs : result[p] = result'[p]
    BY <1>1
  <2> QED
    BY <1>1, <1>2, <2>1, <2>2, MapsStay
<1>3. CASE DriverMoves \/ UNCHANGED vars
  BY <1>2, <1>3 DEF DriverMoves, vars, tableVars, moduleVars, callVars, Undisturbed
<1>4. CASE ModuleStep
  <2>1. UNCHANGED <<mem, pd_allocs, seen>>
    BY <1>4 DEF ModuleStep, KeepMemory, tableVars, callVars
  <2>2. stage' \in {"probe", "files", "loaded"} => stage \in {"probe", "files", "loaded"}
    BY <1>4 DEF ModuleStep, Probe, CreateFiles, Undo, Rmmod, RemoveFiles, FreeIrq, Unmap,
                ProbeFails, CreateBogus, CreateFails, Stage
  <2> QED
    BY <1>2, <2>1, <2>2 DEF Undisturbed
<1>5. CASE GcSeek
  BY <1>2, <1>5 DEF GcSeek, tableVars, callVars, KeepRest, moduleVars, Undisturbed
<1>6. CASE GcEnds
  <2>1. UNCHANGED <<mem, pd_allocs>> /\ stage' = "irq"
    BY <1>6 DEF GcEnds, KeepMemory, tableVars, Stage
  <2> QED
    BY <1>2, <2>1 DEF Undisturbed
<1>7. CASE GcFree
  <2>1. Collecting /\ ~Undisturbed'
    BY <1>7 DEF GcFree, Collecting, KeepRest, moduleVars, Undisturbed
  <2>2. CASE UNCHANGED tableVars
    BY <1>2, <2>1, <2>2 DEF tableVars
  <2>3. ASSUME NEW own \in BOOLEAN, Free(own), Oldest.table = 0 \/ Oldest.table \in freed
        PROVE  MapsInv'
    <3>1. PICK page \in 1..MaxPages, table \in 0..MaxPages, idx \in Indices :
            Collects(own, page, table, idx)
      BY <2>1, <2>3, FreeStores
    <3>2. /\ pd_allocs \in Seq(Allocations) /\ pd_allocs # <<>> /\ pd_allocs' = Tail(pd_allocs)
      BY <2>1, <2>3, CollectingFacts DEF Free
    <3>3. \A k \in DOMAIN pd_allocs : k # 1 => k - 1 \in DOMAIN pd_allocs' /\ pd_allocs'[k - 1] = pd_allocs[k]
      BY <3>2
    <3>4. Pages \subseteq Pages' \cup {page}
      BY <3>1, <3>3 DEF Pages, Collects
    <3>5. ASSUME NEW t \in 1..MaxPages \ Pages', NEW i \in Indices
          PROVE  mem'[t][i] = 0
      <4>1. t \in 0..MaxPages
        BY PagesAssumption
      <4>2. t = page \/ mem[t][i] = 0
        BY <3>4 DEF MapsInv
      <4> QED
        BY <3>1, <4>1, <4>2 DEF Collects
    <3> QED
      BY <2>1, <3>5 DEF MapsInv
  <2>4. PointsTo(Oldest) \in BOOLEAN /\ (walk["exit"].at = "read" => Oldest.table = 0)
    BY DEF PointsTo, ExitInv, WalkInv
  <2> QED
    BY <1>7, <2>2, <2>3, <2>4 DEF GcFree
<1> QED
  BY <1>1, <1>3, <1>4, <1>5, <1>6, <1>7 DEF OtherStep

LEMMA MapsStep == ExitInv /\ StepsInv /\ MapsInv /\ [Next]_vars => MapsInv'
BY NextSplit, CallKeepsMaps, StartKeepsMaps, WalkKeepsMaps, EndKeepsMaps, OtherKeepsMaps DEF MapStep

\* A map call has made all mappings, and a mode is set unless there was no way.
LEMMA ReportsFollow ==
  ASSUME StepsInv, MapsInv
  PROVE  ReportsHonest
<1>1. ASSUME NEW p \in Procs, result[p] \in Maps \X {"ok"}, seen \cap {"maps", "map failed"} = {},
             stage \in {"files", "loaded"}
      PROVE  \A n \in DOMAIN Mappings : Translate(n) = -n
  <2>1. AllMade(mem)
    BY <1>1 DEF MapsInv, Undisturbed
  <2>2. DOMAIN Mappings = 1..4
    BY DEF Mappings
  <2> QED
    BY <2>1, <2>2, TranslateFinds DEF AllMade, Made
<1>2. ASSUME NEW p \in Procs, result[p] = <<"preempt_mode", "ok">>
      PROVE  p \in stored \/ ~gpu.wfi \/ ~(gpu.bar2 /\ gpu.in_bar2) \/ faults > 0
  BY <1>2 DEF StepsInv, NoWay
<1> QED
  BY <1>1, <1>2 DEF ReportsHonest

\* A map call that returns success has made every mapping (map_mem_for_instance,
\* map_page_directory), unless another one ran at the same time or failed; a
\* preemption mode is set (set_channel_preemption_mode), unless no way led to
\* the context, or a read failed.
THEOREM CallsReportHonestly == Spec => []ReportsHonest
<1>1. Init => ExitInv /\ StepsInv /\ MapsInv
  BY ExitInit, StepsInit, MapsInit
<1>2. ExitInv /\ ExitInv' /\ StepsInv /\ MapsInv /\ [Next]_vars => StepsInv' /\ MapsInv'
  BY StepsStep, MapsStep
<1>3. StepsInv /\ MapsInv => ReportsHonest
  BY ReportsFollow
<1>4. Spec => []ExitInv
  BY ExitInvariant
<1> QED
  BY <1>1, <1>2, <1>3, <1>4, PTL DEF Spec

-----------------------------------------------------------------------------
(* Pointers through the steps of a block.
   Carries: with the pointers G good at first, and those of D past the window,
   every step of s finds what it needs, and G2 and D2 are so at the end. *)

\* Anything that has the fields of a step.
Ops == {"reg", "addr", "use", "bypass", "go", "clear_iter", "set_iter", "save", "restore", "set_mode",
        "set_timeout", "map_pages", "seq_start", "show", "shown", "next", "return", "return_error"}
Objects == {"bar2_instance", "bar2_directory", "bar2_table", "runlist", "instance", "directory",
            "table", "wfi", "ctxsw"}
Places == {"begin", "runlist", "runlist_pramin", "channel1", "channel2", "instance_pramin", "map",
           "mode", "show", "channel", "restore", "shown", "next", "unset", "err"}
Formed == StepOf(Ops, Places \cup {"", "garbage"})
\* The steps s can be done with the pointers G good and those of D past the
\* window, and leave, unless they jump, those of G2 good and those of D2 past it.
Carries(c, cl, s, G, D, G2, D2) ==
  /\ s \in Seq(Formed) /\ \A i \in 1..Len(s) : Proper(s[i])
  /\ Sound(c, cl, s, G, D)
  /\ \A k \in G2 : Leads(s, Len(s), k, G, D)
  /\ \A k \in D2 : JumpIn(s, Len(s)) \/ StillPast(s, Len(s), k, D)

LEMMA JoinPast ==
  ASSUME NEW S, NEW s \in Seq(S), NEW t \in Seq(S), NEW k, NEW n \in 0..Len(t), NEW D, NEW D1,
         JumpIn(t, n) \/ StillPast(t, n, k, D1),
         k \in D1 => JumpIn(s, Len(s)) \/ StillPast(s, Len(s), k, D)
  PROVE  JumpIn(s \o t, Len(s) + n) \/ StillPast(s \o t, Len(s) + n, k, D)
<1> DEFINE u == s \o t
           m == Len(s)
<1>1. /\ m \in Nat /\ Len(t) \in Nat /\ n \in Nat /\ n <= Len(t)
      /\ \A i \in 1..m : u[i] = s[i]
      /\ \A i \in 1..n : u[m + i] = t[i]
  BY ConcatProperties, LenProperties
<1>2. \A i \in (m + 1)..(m + n) : i - m \in 1..n /\ u[i] = t[i - m]
  <2>1. ASSUME NEW i \in (m + 1)..(m + n)
        PROVE  i - m \in 1..n /\ m + (i - m) = i
    BY <1>1
  <2> QED
    BY <1>1, <2>1
<1> HIDE DEF u, m
<1>3. \A i \in 1..m : i \in 1..(m + n)
  BY <1>1
<1>4. \A i \in 1..n : m + i \in 1..(m + n)
  BY <1>1
<1>5. \A i \in 1..(m + n) : i \in 1..m \/ i \in (m + 1)..(m + n)
  BY <1>1
<1>6. CASE JumpIn(t, n) \/ JumpIn(s, m)
  <2>1. JumpIn(u, m + n)
    BY <1>1, <1>3, <1>4, <1>6 DEF JumpIn
  <2> QED
    BY <2>1 DEF u, m
<1>7. ASSUME NEW j \in 1..n, t[j].op = "bypass", t[j].k = k, \A i \in (j + 1)..n : ~Asked(t, i, k)
      PROVE  StillPast(u, m + n, k, D)
  <2>1. m + j \in 1..(m + n) /\ u[m + j] = t[j]
    BY <1>1, <1>4
  <2>2. ASSUME NEW i \in ((m + j) + 1)..(m + n)
        PROVE  ~Asked(u, i, k)
    <3>1. i \in (m + 1)..(m + n) /\ i - m \in (j + 1)..n
      BY <1>1
    <3> QED
      BY <1>2, <1>7, <3>1 DEF Asked
  <2> QED
    BY <1>7, <2>1, <2>2 DEF StillPast
<1>8. ASSUME StillPast(s, m, k, D), \A i \in 1..n : ~Asked(t, i, k)
      PROVE  StillPast(u, m + n, k, D)
  <2>1. \A i \in (m + 1)..(m + n) : ~Asked(u, i, k)
    BY <1>2, <1>8 DEF Asked
  <2>2. ASSUME NEW j \in 1..m, s[j].op = "bypass", s[j].k = k, \A i \in (j + 1)..m : ~Asked(s, i, k)
        PROVE  StillPast(u, m + n, k, D)
    <3>1. ASSUME NEW i \in (j + 1)..(m + n)
          PROVE  ~Asked(u, i, k)
      <4>1. (i \in (j + 1)..m /\ i \in 1..m) \/ i \in (m + 1)..(m + n)
        BY <1>1
      <4> QED
        BY <1>1, <2>1, <2>2, <4>1 DEF Asked
    <3> QED
      BY <1>1, <1>3, <2>2, <3>1 DEF StillPast
  <2>3. CASE k \in D /\ \A i \in 1..m : ~Asked(s, i, k)
    <3>1. \A i \in 1..(m + n) : ~Asked(u, i, k)
      BY <1>1, <1>5, <2>1, <2>3 DEF Asked
    <3> QED
      BY <2>3, <3>1 DEF StillPast
  <2> QED
    BY <1>8, <2>2, <2>3 DEF StillPast
<1>9. JumpIn(u, m + n) \/ StillPast(u, m + n, k, D)
  <2>1. CASE \E j \in 1..n : t[j].op = "bypass" /\ t[j].k = k /\ \A i \in (j + 1)..n : ~Asked(t, i, k)
    BY <1>7, <2>1
  <2>2. CASE k \in D1 /\ \A i \in 1..n : ~Asked(t, i, k)
    BY <1>6, <1>8, <2>2 DEF u, m
  <2>3. CASE JumpIn(t, n)
    BY <1>6, <2>3 DEF u, m
  <2> QED
    BY <2>1, <2>2, <2>3 DEF StillPast
<1> QED
  BY <1>9 DEF u, m

LEMMA JoinLeads ==
  ASSUME NEW S, NEW s \in Seq(S), NEW t \in Seq(S), NEW k, NEW n \in 0..Len(t),
         NEW G, NEW D, NEW G1, NEW D1, Leads(t, n, k, G1, D1),
         k \in G1 => Leads(s, Len(s), k, G, D),
         k \in D1 => JumpIn(s, Len(s)) \/ StillPast(s, Len(s), k, D)
  PROVE  Leads(s \o t, Len(s) + n, k, G, D)
<1> DEFINE u == s \o t
           m == Len(s)
<1>1. /\ m \in Nat /\ Len(t) \in Nat /\ n \in Nat /\ n <= Len(t)
      /\ \A i \in 1..m : u[i] = s[i]
      /\ \A i \in 1..n : u[m + i] = t[i]
  BY ConcatProperties, LenProperties
<1>2. \A i \in (m + 1)..(m + n) : i - m \in 1..n /\ u[i] = t[i - m]
  <2>1. ASSUME NEW i \in (m + 1)..(m + n)
        PROVE  i - m \in 1..n /\ m + (i - m) = i
    BY <1>1
  <2> QED
    BY <1>1, <2>1
<1> HIDE DEF u, m
<1>3. \A i \in 1..m : i \in 1..(m + n)
  BY <1>1
<1>4. \A i \in 1..n : m + i \in 1..(m + n)
  BY <1>1
<1>5. \A i \in 1..(m + n) : i \in 1..m \/ i \in (m + 1)..(m + n)
  BY <1>1
<1>6. ASSUME NEW j \in 1..n, Asked(t, j, k), \A i \in (j + 1)..n : t[i].op \notin Moving
      PROVE  Leads(u, m + n, k, G, D)
  <2>1. m + j \in 1..(m + n) /\ Asked(u, m + j, k)
    BY <1>1, <1>4, <1>6 DEF Asked
  <2>2. ASSUME NEW i \in ((m + j) + 1)..(m + n)
        PROVE  u[i].op \notin Moving
    <3>1. i \in (m + 1)..(m + n) /\ i - m \in (j + 1)..n
      BY <1>1
    <3> QED
      BY <1>2, <1>6, <3>1
  <2> QED
    BY <2>1, <2>2 DEF Leads, StillGood
<1>7. ASSUME StillGood(s, m, k, G), \A i \in 1..n : t[i].op \notin Moving
       PROVE  Leads(u, m + n, k, G, D)
  <2>1. \A i \in (m + 1)..(m + n) : u[i].op \notin Moving
    BY <1>2, <1>7
  <2>2. ASSUME NEW j \in 1..m, Asked(s, j, k), \A i \in (j + 1)..m : s[i].op \notin Moving
        PROVE  Leads(u, m + n, k, G, D)
    <3>1. ASSUME NEW i \in (j + 1)..(m + n)
          PROVE  u[i].op \notin Moving
      <4>1. (i \in (j + 1)..m /\ i \in 1..m) \/ i \in (m + 1)..(m + n)
        BY <1>1
      <4> QED
        BY <1>1, <2>1, <2>2, <4>1
    <3>2. Asked(u, j, k)
      BY <1>1, <2>2 DEF Asked
    <3> QED
      BY <1>3, <3>1, <3>2 DEF Leads, StillGood
  <2>3. CASE k \in G /\ \A i \in 1..m : s[i].op \notin Moving
    <3>1. \A i \in 1..(m + n) : u[i].op \notin Moving
      BY <1>1, <1>5, <2>1, <2>3
    <3> QED
      BY <2>3, <3>1 DEF Leads, StillGood
  <2> QED
    BY <1>7, <2>2, <2>3 DEF StillGood
<1>8. CASE JumpIn(t, n) \/ StillPast(t, n, k, D1)
  <2>1. JumpIn(u, m + n) \/ StillPast(u, m + n, k, D)
    BY <1>8, JoinPast DEF u, m
  <2> QED
    BY <2>1 DEF Leads, u, m
<1>9. CASE k \in G1 /\ \A i \in 1..n : t[i].op \notin Moving
  <2>1. StillPast(t, n, k, {k})
    BY <1>9 DEF StillPast, Moving, Asked
  <2>2. ASSUME JumpIn(s, m) \/ StillPast(s, m, k, D)
        PROVE  Leads(u, m + n, k, G, D)
    <3>1. k \in {k} => JumpIn(s, Len(s)) \/ StillPast(s, Len(s), k, D)
      BY <2>2 DEF m
    <3>2. JumpIn(u, m + n) \/ StillPast(u, m + n, k, D)
      BY <2>1, <3>1, JoinPast DEF u, m
    <3> QED
      BY <3>2 DEF Leads
  <2> QED
    BY <1>7, <1>9, <2>2 DEF Leads, u, m
<1>10. Leads(u, m + n, k, G, D)
  BY <1>6, <1>8, <1>9 DEF Leads, StillGood, u, m
<1> QED
  BY <1>10 DEF u, m

LEMMA StaysLed ==
  ASSUME NEW S, NEW s \in Seq(S), NEW t \in Seq(S), NEW n \in 0..Len(s), NEW k, NEW G, NEW D
  PROVE  /\ Leads(s \o t, n, k, G, D) <=> Leads(s, n, k, G, D)
         /\ JumpIn(s \o t, n) <=> JumpIn(s, n)
         /\ StillPast(s \o t, n, k, D) <=> StillPast(s, n, k, D)
<1> DEFINE u == s \o t
<1>1. \A i \in 1..n : u[i] = s[i]
  BY ConcatProperties, LenProperties
<1>2. \A j \in 1..n : \A i \in (j + 1)..n : u[i] = s[i]
  BY <1>1, LenProperties
<1> HIDE DEF u
<1>3. JumpIn(u, n) <=> JumpIn(s, n)
  BY <1>1 DEF JumpIn
<1>4. StillPast(u, n, k, D) <=> StillPast(s, n, k, D)
  BY <1>1, <1>2, SMTT(30) DEF StillPast, Asked
<1>5. StillGood(u, n, k, G) <=> StillGood(s, n, k, G)
  BY <1>1, <1>2 DEF StillGood, Asked
<1> QED
  BY <1>3, <1>4, <1>5 DEF Leads, u

\* One after the other.
LEMMA CarriesJoin ==
  ASSUME NEW c, NEW cl, NEW s, NEW t, NEW G, NEW D, NEW G1, NEW D1, NEW G2, NEW D2,
         Carries(c, cl, s, G, D, G1, D1), Carries(c, cl, t, G1, D1, G2, D2)
  PROVE  Carries(c, cl, s \o t, G, D, G2, D2)
<1> DEFINE u == s \o t
           S == Formed
<1> HIDE DEF S
<1>1. s \in Seq(S) /\ t \in Seq(S) /\ u \in Seq(S) /\ Len(s) \in Nat /\ Len(t) \in Nat
  BY ConcatProperties, LenProperties DEF Carries, S
<1>2. /\ Len(u) = Len(s) + Len(t)
      /\ \A i \in 1..Len(s) : u[i] = s[i]
      /\ \A i \in 1..Len(t) : u[Len(s) + i] = t[i]
  BY <1>1, ConcatProperties
<1>3. \A i \in 1..Len(u) : \/ i \in 1..Len(s)
                           \/ /\ i - Len(s) \in 1..Len(t) /\ i = Len(s) + (i - Len(s))
                              /\ i - 1 = Len(s) + ((i - Len(s)) - 1)
                              /\ (i - Len(s)) - 1 \in 0..Len(t)
  BY <1>1, <1>2
<1>4. /\ \A k \in G1 : Leads(s, Len(s), k, G, D)
      /\ \A k \in D1 : JumpIn(s, Len(s)) \/ StillPast(s, Len(s), k, D)
  BY DEF Carries
<1>5. ASSUME NEW k, NEW n \in 0..Len(t), Leads(t, n, k, G1, D1)
      PROVE  Leads(u, Len(s) + n, k, G, D)
  BY <1>1, <1>4, <1>5, JoinLeads
<1>6. \A i \in 1..Len(u) : Proper(u[i])
  BY <1>2, <1>3 DEF Carries
<1>7. ASSUME NEW i \in 1..Len(u), NEW k \in Needs(c, cl, u[i])
      PROVE  Leads(u, i - 1, k, G, D)
  <2>1. CASE i \in 1..Len(s)
    <3>1. i - 1 \in 0..Len(s) /\ Leads(s, i - 1, k, G, D)
      BY <1>1, <1>2, <1>7, <2>1 DEF Carries, Sound
    <3> QED
      BY <1>1, <3>1, StaysLed
  <2>2. CASE i \notin 1..Len(s)
    <3>1. /\ i - Len(s) \in 1..Len(t) /\ u[i] = t[i - Len(s)]
          /\ i - 1 = Len(s) + ((i - Len(s)) - 1) /\ (i - Len(s)) - 1 \in 0..Len(t)
      BY <1>2, <1>3, <2>2
    <3>2. Leads(t, (i - Len(s)) - 1, k, G1, D1)
      BY <1>7, <3>1 DEF Carries, Sound
    <3>3. Leads(u, Len(s) + ((i - Len(s)) - 1), k, G, D)
      BY <1>5, <3>1, <3>2
    <3> QED
      BY <3>1, <3>3
  <2> QED
    BY <2>1, <2>2
<1>8. ASSUME NEW k \in G2
      PROVE  Leads(u, Len(u), k, G, D)
  BY <1>1, <1>2, <1>5, <1>8 DEF Carries
<1>9. ASSUME NEW k \in D2
      PROVE  JumpIn(u, Len(u)) \/ StillPast(u, Len(u), k, D)
  <2>1. JumpIn(t, Len(t)) \/ StillPast(t, Len(t), k, D1)
    BY <1>9 DEF Carries
  <2>2. k \in D1 => JumpIn(s, Len(s)) \/ StillPast(s, Len(s), k, D)
    BY <1>4
  <2>3. Len(t) \in 0..Len(t)
    BY <1>1
  <2>4. JumpIn(u, Len(s) + Len(t)) \/ StillPast(u, Len(s) + Len(t), k, D)
    BY <1>1, <2>1, <2>2, <2>3, JoinPast
  <2> QED
    BY <1>2, <2>4
<1> QED
  BY <1>1, <1>6, <1>7, <1>8, <1>9 DEF Carries, Sound, S

-----------------------------------------------------------------------------
(* What each kind of step does to the pointers. *)

LEMMA StepForms ==
  /\ \A fail \in Places :
       /\ Reg(fail) \in Formed /\ Reg(fail).op = "reg" /\ Reg(fail).fail = fail
       /\ Go(fail) \in Formed /\ Go(fail).op = "go" /\ Go(fail).fail = fail
  /\ \A k \in Names, obj \in Objects, fail \in Places \cup {"garbage"} :
       /\ Addr(k, obj, fail) \in Formed /\ Addr(k, obj, fail).op = "addr"
       /\ Addr(k, obj, fail).k = k /\ Addr(k, obj, fail).obj = obj /\ Addr(k, obj, fail).fail = fail
  /\ \A k, obj : AddrOrGarbage(k, obj) = Addr(k, obj, "garbage")
  /\ \A k \in Names : /\ Use(k) \in Formed /\ Use(k).op = "use" /\ Use(k).k = k
                      /\ Bypass(k) \in Formed /\ Bypass(k).op = "bypass" /\ Bypass(k).k = k
  /\ \A what \in Ops : Do(what) \in Formed /\ Do(what).op = what
<1>1. ASSUME NEW fail \in Places
      PROVE  /\ Reg(fail) \in Formed /\ Reg(fail).op = "reg" /\ Reg(fail).fail = fail
             /\ Go(fail) \in Formed /\ Go(fail).op = "go" /\ Go(fail).fail = fail
  BY DEF Reg, Go, Step, Formed, StepOf, Ops
<1>2. ASSUME NEW k \in Names, NEW obj \in Objects, NEW fail \in Places \cup {"garbage"}
      PROVE  /\ Addr(k, obj, fail) \in Formed /\ Addr(k, obj, fail).op = "addr"
             /\ Addr(k, obj, fail).k = k /\ Addr(k, obj, fail).obj = obj
             /\ Addr(k, obj, fail).fail = fail
  BY DEF Addr, Step, Formed, StepOf, Ops, Names, Objects
<1>3. \A k, obj : AddrOrGarbage(k, obj) = Addr(k, obj, "garbage")
  BY DEF Addr, AddrOrGarbage
<1>4. ASSUME NEW k \in Names
      PROVE  /\ Use(k) \in Formed /\ Use(k).op = "use" /\ Use(k).k = k
             /\ Bypass(k) \in Formed /\ Bypass(k).op = "bypass" /\ Bypass(k).k = k
  BY DEF Use, Bypass, Step, Formed, StepOf, Names, Ops
<1>5. ASSUME NEW what \in Ops
      PROVE  Do(what) \in Formed /\ Do(what).op = what
  BY DEF Do, Step, Formed, StepOf
<1> QED
  BY <1>1, <1>2, <1>3, <1>4, <1>5

\* A single step.
LEMMA CarriesOne ==
  ASSUME NEW c, NEW cl, NEW step \in Formed, Proper(step), NEW G, NEW D, NEW G2, NEW D2,
         Needs(c, cl, step) \subseteq G \cup D,
         \A k \in G2 : \/ step.op \in Diverts \/ (step.op \in {"addr", "bypass"} /\ k = step.k)
                       \/ (step.op \notin Moving /\ k \in G)
                       \/ k \in D /\ ~(step.op = "addr" /\ k = step.k),
         \A k \in D2 : \/ step.op \in Diverts \/ (step.op = "bypass" /\ k = step.k)
                       \/ k \in D /\ ~(step.op = "addr" /\ k = step.k)
  PROVE  Carries(c, cl, <<step>>, G, D, G2, D2)
<1> DEFINE s == <<step>>
<1>1. s \in Seq(Formed) /\ Len(s) = 1 /\ s[1] = step
  OBVIOUS
<1> HIDE DEF s
<1>2. \A i \in 1..Len(s) : i = 1
  BY <1>1
<1>3. 1 \in 1..1 /\ 1..0 = {} /\ (1 + 1)..1 = {} /\ 1 - 1 = 0
  OBVIOUS
<1>4. \A k \in G \cup D : Leads(s, 0, k, G, D)
  BY <1>3 DEF Leads, StillGood, StillPast
<1>5. Sound(c, cl, s, G, D)
  BY <1>1, <1>2, <1>3, <1>4 DEF Sound
<1>6. \A k \in D2 : JumpIn(s, 1) \/ StillPast(s, 1, k, D)
  BY <1>1, <1>3, <1>2 DEF JumpIn, StillPast, Asked
<1>7. \A k \in G2 : Leads(s, 1, k, G, D)
  BY <1>1, <1>3, <1>2 DEF Leads, JumpIn, StillGood, StillPast, Asked
<1> QED
  BY <1>1, <1>2, <1>5, <1>6, <1>7 DEF Carries, s

\* Of steps that are carried, more may be asked before and less after.
LEMMA CarriesWeaker ==
  ASSUME NEW c, NEW cl, NEW s, NEW G, NEW D, NEW G1, NEW D1, NEW G2, NEW D2,
         Carries(c, cl, s, G, D, G1, D1), G2 \subseteq G1, D2 \subseteq D1
  PROVE  Carries(c, cl, s, G, D, G2, D2)
BY DEF Carries

LEMMA CarriesNothing ==
  ASSUME NEW c, NEW cl, NEW G, NEW D
  PROVE  Carries(c, cl, <<>>, G, D, G \cup D, D)
<1>1. <<>> \in Seq(Formed) /\ Len(<<>>) = 0 /\ 1..0 = {}
  OBVIOUS
<1> QED
  BY <1>1, Zenon DEF Carries, Sound, Leads, StillGood, StillPast

\* Only three blocks rely on a pointer when they begin.
LEMMA EntryFacts ==
  ASSUME NEW c, NEW cl
  PROVE  /\ \A label : label \notin {"show", "mode", "map"} => AtEntry(c, cl, label) = {}
         /\ AtEntry(c, cl, "garbage") = {}
         /\ AtEntry(c, cl, "show") = {"rl"} \ Excused(c, cl)
         /\ AtEntry(c, cl, "map") = {"inst"} \ Excused(c, cl)
         /\ AtEntry(c, cl, "mode") = IF c.chip < Ampere THEN {} ELSE {"rl"} \ Excused(c, cl)
BY DEF AtEntry

LEMMA RegCarries ==
  ASSUME NEW c, NEW cl, NEW fail \in Places, NEW G, NEW D, AtEntry(c, cl, fail) \subseteq G
  PROVE  Carries(c, cl, <<Reg(fail)>>, G, D, G, D)
<1> DEFINE step == Reg(fail)
<1>1. step \in Formed /\ step.op = "reg" /\ step.fail = fail
  BY StepForms
<1> HIDE DEF step
<1>2. Needs(c, cl, step) = AtEntry(c, cl, fail)
  BY <1>1 DEF Needs
<1>3. Carries(c, cl, <<step>>, G, D, G, D)
  BY <1>1, <1>2, CarriesOne DEF Proper, Moving
<1> QED
  BY <1>3 DEF step

LEMMA AddrCarries ==
  ASSUME NEW c, NEW cl, NEW k \in Names, NEW obj \in Objects, NEW fail \in Places \cup {"garbage"},
         NEW G, NEW D, AtEntry(c, cl, fail) \subseteq G, k \notin D
  PROVE  Carries(c, cl, <<Addr(k, obj, fail)>>, G, D, D \cup {k}, D)
<1> DEFINE step == Addr(k, obj, fail)
<1>1. step \in Formed /\ step.op = "addr" /\ step.fail = fail /\ step.k = k /\ step.obj = obj
  BY StepForms
<1>2. k # "" /\ obj # ""
  BY DEF Names, Objects
<1> HIDE DEF step
<1>3. Needs(c, cl, step) = AtEntry(c, cl, fail)
  BY <1>1 DEF Needs
<1>4. Carries(c, cl, <<step>>, G, D, D \cup {k}, D)
  BY <1>1, <1>2, <1>3, CarriesOne DEF Proper, Moving
<1> QED
  BY <1>4 DEF step

LEMMA UseCarries ==
  ASSUME NEW c, NEW cl, NEW k \in Names, NEW G, NEW D, k \in G \cup Excused(c, cl)
  PROVE  Carries(c, cl, <<Use(k)>>, G, D, G, D)
<1> DEFINE step == Use(k)
<1>1. step \in Formed /\ step.op = "use" /\ step.k = k
  BY StepForms
<1> HIDE DEF step
<1>2. Needs(c, cl, step) = {k} \ Excused(c, cl)
  BY <1>1 DEF Needs
<1>3. Carries(c, cl, <<step>>, G, D, G, D)
  BY <1>1, <1>2, CarriesOne DEF Proper, Moving
<1> QED
  BY <1>3 DEF step

LEMMA BypassCarries ==
  ASSUME NEW c, NEW cl, NEW k \in Names, NEW G, NEW D
  PROVE  Carries(c, cl, <<Bypass(k)>>, G, D, G \cup {k}, D \cup {k})
<1> DEFINE step == Bypass(k)
<1>1. step \in Formed /\ step.op = "bypass" /\ step.k = k /\ k # ""
  BY StepForms DEF Names
<1> HIDE DEF step
<1>2. Needs(c, cl, step) = {}
  BY <1>1 DEF Needs
<1>3. Carries(c, cl, <<step>>, G, D, G \cup {k}, D \cup {k})
  BY <1>1, <1>2, CarriesOne DEF Proper, Moving
<1> QED
  BY <1>3 DEF step

\* What follows a jump does not matter.
LEMMA GoCarries ==
  ASSUME NEW c, NEW cl, NEW to \in Places, NEW G, NEW D, NEW G2, NEW D2,
         AtEntry(c, cl, to) \subseteq G
  PROVE  Carries(c, cl, <<Go(to)>>, G, D, G2, D2)
<1> DEFINE step == Go(to)
<1>1. step \in Formed /\ step.op = "go" /\ step.fail = to
  BY StepForms
<1> HIDE DEF step
<1>2. Needs(c, cl, step) = AtEntry(c, cl, to)
  BY <1>1 DEF Needs
<1>3. Carries(c, cl, <<step>>, G, D, G2, D2)
  BY <1>1, <1>2, CarriesOne DEF Proper, Moving, Diverts
<1> QED
  BY <1>3 DEF step

LEMMA DoCarries ==
  ASSUME NEW c, NEW cl, NEW what \in Ops \ {"reg", "addr", "use", "bypass", "go"}, NEW G, NEW D
  PROVE  Carries(c, cl, <<Do(what)>>, G, D, IF what = "restore" THEN D ELSE G, D)
<1> DEFINE step == Do(what)
<1>1. step \in Formed /\ step.op = what
  BY StepForms
<1> HIDE DEF step
<1>2. Needs(c, cl, step) = {}
  BY <1>1 DEF Needs
<1>3. Carries(c, cl, <<step>>, G, D, IF what = "restore" THEN D ELSE G, D)
  BY <1>1, <1>2, CarriesOne DEF Proper, Moving
<1> QED
  BY <1>3 DEF step

\* Tuples, step by step.
LEMMA TupleFirst ==
  ASSUME NEW S, NEW a \in S, NEW t \in Seq(S), NEW u \in Seq(S), Len(u) = Len(t) + 1, u[1] = a,
         \A i \in 1..Len(t) : u[i + 1] = t[i]
  PROVE  u = <<a>> \o t
<1> DEFINE j == <<a>> \o t
<1>1. <<a>> \in Seq(S) /\ Len(<<a>>) = 1 /\ <<a>>[1] = a
  OBVIOUS
<1>2. /\ j \in Seq(S) /\ Len(j) = 1 + Len(t) /\ Len(t) \in Nat
      /\ j[1] = a /\ \A i \in 1..Len(t) : j[1 + i] = t[i]
  BY <1>1, ConcatProperties, LenProperties
<1> HIDE DEF j
<1>3. ASSUME NEW i \in 1..Len(u)
      PROVE  u[i] = j[i]
  <2>1. CASE i = 1
    BY <1>2, <2>1
  <2>2. CASE i # 1
    <3>1. i - 1 \in 1..Len(t) /\ (i - 1) + 1 = i /\ 1 + (i - 1) = i
      BY <1>2, <2>2
    <3> QED
      BY <1>2, <3>1
  <2> QED
    BY <2>1, <2>2
<1>4. u = j
  BY <1>2, <1>3, SeqEqual
<1> QED
  BY <1>4 DEF j

LEMMA CarriesTwo ==
  ASSUME NEW c, NEW cl, NEW a \in Formed, NEW b \in Formed,
         NEW G, NEW D, NEW G1, NEW D1, NEW G2, NEW D2,
         Carries(c, cl, <<a>>, G, D, G1, D1), Carries(c, cl, <<b>>, G1, D1, G2, D2)
  PROVE  Carries(c, cl, <<a, b>>, G, D, G2, D2)
<1> DEFINE u == <<a, b>>
           t == <<b>>
<1>1. u \in Seq(Formed) /\ t \in Seq(Formed) /\ Len(t) = 1 /\ Len(u) = Len(t) + 1 /\ u[1] = a
  OBVIOUS
<1>2. u[2] = t[1]
  OBVIOUS
<1>3. Carries(c, cl, t, G1, D1, G2, D2)
  OBVIOUS
<1> HIDE DEF u, t
<1>4. \A i \in 1..1 : i = 1
  OBVIOUS
<1>5. \A i \in 1..Len(t) : u[i + 1] = t[i]
  BY <1>1, <1>2, <1>4
<1>6. u = <<a>> \o t
  BY <1>1, <1>5, TupleFirst
<1>7. Carries(c, cl, u, G, D, G2, D2)
  BY <1>3, <1>6, CarriesJoin
<1> QED
  BY <1>7 DEF u

LEMMA CarriesThree ==
  ASSUME NEW c, NEW cl, NEW a \in Formed, NEW b \in Formed, NEW e \in Formed,
         NEW G, NEW D, NEW G1, NEW D1, NEW G2, NEW D2,
         Carries(c, cl, <<a>>, G, D, G1, D1), Carries(c, cl, <<b, e>>, G1, D1, G2, D2)
  PROVE  Carries(c, cl, <<a, b, e>>, G, D, G2, D2)
<1> DEFINE u == <<a, b, e>>
           t == <<b, e>>
<1>1. u \in Seq(Formed) /\ t \in Seq(Formed) /\ Len(t) = 2 /\ Len(u) = Len(t) + 1 /\ u[1] = a
  OBVIOUS
<1>2. u[2] = t[1] /\ u[3] = t[2]
  OBVIOUS
<1>3. Carries(c, cl, t, G1, D1, G2, D2)
  OBVIOUS
<1> HIDE DEF u, t
<1>4. \A i \in 1..2 : i = 1 \/ i = 2
  OBVIOUS
<1>5. \A i \in 1..Len(t) : u[i + 1] = t[i]
  BY <1>1, <1>2, <1>4
<1>6. u = <<a>> \o t
  BY <1>1, <1>5, TupleFirst
<1>7. Carries(c, cl, u, G, D, G2, D2)
  BY <1>3, <1>6, CarriesJoin
<1> QED
  BY <1>7 DEF u

LEMMA CarriesFour ==
  ASSUME NEW c, NEW cl, NEW a \in Formed, NEW b \in Formed, NEW e \in Formed, NEW f \in Formed,
         NEW G, NEW D, NEW G1, NEW D1, NEW G2, NEW D2,
         Carries(c, cl, <<a>>, G, D, G1, D1), Carries(c, cl, <<b, e, f>>, G1, D1, G2, D2)
  PROVE  Carries(c, cl, <<a, b, e, f>>, G, D, G2, D2)
<1> DEFINE u == <<a, b, e, f>>
           t == <<b, e, f>>
<1>1. u \in Seq(Formed) /\ t \in Seq(Formed) /\ Len(t) = 3 /\ Len(u) = Len(t) + 1 /\ u[1] = a
  OBVIOUS
<1>2. u[2] = t[1] /\ u[3] = t[2] /\ u[4] = t[3]
  OBVIOUS
<1>3. Carries(c, cl, t, G1, D1, G2, D2)
  OBVIOUS
<1> HIDE DEF u, t
<1>4. \A i \in 1..3 : i = 1 \/ i = 2 \/ i = 3
  OBVIOUS
<1>5. \A i \in 1..Len(t) : u[i + 1] = t[i]
  BY <1>1, <1>2, <1>4
<1>6. u = <<a>> \o t
  BY <1>1, <1>5, TupleFirst
<1>7. Carries(c, cl, u, G, D, G2, D2)
  BY <1>3, <1>6, CarriesJoin
<1> QED
  BY <1>7 DEF u

LEMMA CarriesFive ==
  ASSUME NEW c, NEW cl, NEW a \in Formed, NEW b \in Formed, NEW e \in Formed, NEW f \in Formed, NEW g \in Formed,
         NEW G, NEW D, NEW G1, NEW D1, NEW G2, NEW D2,
         Carries(c, cl, <<a>>, G, D, G1, D1), Carries(c, cl, <<b, e, f, g>>, G1, D1, G2, D2)
  PROVE  Carries(c, cl, <<a, b, e, f, g>>, G, D, G2, D2)
<1> DEFINE u == <<a, b, e, f, g>>
           t == <<b, e, f, g>>
<1>1. u \in Seq(Formed) /\ t \in Seq(Formed) /\ Len(t) = 4 /\ Len(u) = Len(t) + 1 /\ u[1] = a
  OBVIOUS
<1>2. u[2] = t[1] /\ u[3] = t[2] /\ u[4] = t[3] /\ u[5] = t[4]
  OBVIOUS
<1>3. Carries(c, cl, t, G1, D1, G2, D2)
  OBVIOUS
<1> HIDE DEF u, t
<1>4. \A i \in 1..4 : i = 1 \/ i = 2 \/ i = 3 \/ i = 4
  OBVIOUS
<1>5. \A i \in 1..Len(t) : u[i + 1] = t[i]
  BY <1>1, <1>2, <1>4
<1>6. u = <<a>> \o t
  BY <1>1, <1>5, TupleFirst
<1>7. Carries(c, cl, u, G, D, G2, D2)
  BY <1>3, <1>6, CarriesJoin
<1> QED
  BY <1>7 DEF u

-----------------------------------------------------------------------------
(* The blocks find the pointers good that they use. *)

\* What the blocks are made of.
LEMMA GetBar2Carries ==
  ASSUME NEW c, NEW cl, NEW fail \in Places, AtEntry(c, cl, fail) = {}, NEW G, NEW D, "pd" \notin D
  PROVE  Carries(c, cl, get_bar2_pdb(fail), G, D, D, D)
<1> DEFINE r == Reg(fail)
           a == Addr("pd", "bar2_instance", fail)
           u == Use("pd")
<1>1. "pd" \in Names /\ "bar2_instance" \in Objects /\ fail \in Places \cup {"garbage"}
  BY DEF Names, Objects
<1>2. r \in Formed /\ a \in Formed /\ u \in Formed
  BY <1>1, StepForms
<1>3. Carries(c, cl, <<r>>, G, D, G, D)
  BY RegCarries
<1>4. Carries(c, cl, <<a>>, G, D, D \cup {"pd"}, D)
  BY <1>1, AddrCarries
<1>5. Carries(c, cl, <<u>>, D \cup {"pd"}, D, D \cup {"pd"}, D)
  BY <1>1, UseCarries
<1>6. get_bar2_pdb(fail) = <<r, a, u>>
  BY DEF get_bar2_pdb
<1> HIDE DEF r, a, u
<1>7. Carries(c, cl, <<u>>, D \cup {"pd"}, D, D, D)
  BY <1>5, CarriesWeaker
<1>8. Carries(c, cl, <<a, u>>, G, D, D, D)
  BY <1>2, <1>4, <1>7, CarriesTwo
<1> QED
  BY <1>2, <1>3, <1>6, <1>8, CarriesThree

\* The pointer that is found does not go through the window.
LEMMA SearchCarries ==
  ASSUME NEW c, NEW cl, NEW k \in {"rl", "inst"}, NEW missing \in Places,
         AtEntry(c, cl, missing) = {}, NEW G, NEW D, "pd" \notin D
  PROVE  Carries(c, cl, SearchBar2(c, k, missing), G, D, D \cup {k}, D \cup {k})
<1> DEFINE a == Addr("pd", "bar2_directory", missing)
           b == Addr("pd", "bar2_table", missing)
           u == Use("pd")
           last == IF c.in_bar2 THEN Bypass(k) ELSE Go(missing)
           E == D \cup {"pd"}
           K == D \cup {k}
<1>1. /\ "pd" \in Names /\ k \in Names /\ missing \in Places \cup {"garbage"}
      /\ "bar2_directory" \in Objects /\ "bar2_table" \in Objects
  BY DEF Names, Objects
<1>2. a \in Formed /\ b \in Formed /\ u \in Formed /\ last \in Formed
  BY <1>1, StepForms
<1>3. Carries(c, cl, <<a>>, G, D, E, D) /\ Carries(c, cl, <<b>>, E, D, E, D)
  BY <1>1, AddrCarries
<1>4. Carries(c, cl, <<u>>, E, D, E, D)
  BY <1>1, UseCarries
<1>5. Carries(c, cl, <<last>>, E, D, K, K)
  <2>1. CASE c.in_bar2
    <3>1. Carries(c, cl, <<Bypass(k)>>, E, D, E \cup {k}, D \cup {k})
      BY <1>1, BypassCarries
    <3> QED
      BY <2>1, <3>1, CarriesWeaker
  <2>2. CASE ~c.in_bar2
    <3>1. Carries(c, cl, <<Go(missing)>>, E, D, K, K)
      BY GoCarries
    <3> QED
      BY <2>2, <3>1
  <2> QED
    BY <2>1, <2>2
<1>6. SearchBar2(c, k, missing) \in {<<a, u, last>>, <<a, u, b, u, last>>}
  BY DEF SearchBar2, search_page_directory, search_v1_page_directory
<1> HIDE DEF a, b, u, last, E, K
<1>7. Carries(c, cl, <<u, last>>, E, D, K, K)
  BY <1>2, <1>4, <1>5, CarriesTwo
<1>8. Carries(c, cl, <<b, u, last>>, E, D, K, K)
  BY <1>2, <1>3, <1>7, CarriesThree
<1>9. Carries(c, cl, <<u, b, u, last>>, E, D, K, K)
  BY <1>2, <1>4, <1>8, CarriesFour
<1>10. Carries(c, cl, <<a, u, last>>, G, D, K, K)
  BY <1>2, <1>3, <1>7, CarriesThree
<1>11. Carries(c, cl, <<a, u, b, u, last>>, G, D, K, K)
  BY <1>2, <1>3, <1>9, CarriesFive
<1>12. Carries(c, cl, SearchBar2(c, k, missing), G, D, K, K)
  BY <1>6, <1>10, <1>11
<1> QED
  BY <1>12 DEF K

LEMMA TranslateCarries ==
  ASSUME NEW c, NEW cl, NEW fail \in Places, AtEntry(c, cl, fail) = {}, NEW G, NEW D, "pd" \notin D
  PROVE  Carries(c, cl, TranslateAddress(c, fail), G, D, D, D)
<1> DEFINE a == Addr("pd", "directory", fail)
           b == Addr("pd", "table", fail)
           g == AddrOrGarbage("pd", "table")
           u == Use("pd")
           E == D \cup {"pd"}
<1>1. /\ "pd" \in Names /\ "directory" \in Objects /\ "table" \in Objects
      /\ fail \in Places \cup {"garbage"} /\ "garbage" \in Places \cup {"garbage"}
  BY DEF Names, Objects
<1>12. AtEntry(c, cl, "garbage") = {} /\ g = Addr("pd", "table", "garbage")
  BY EntryFacts, StepForms
<1>2. a \in Formed /\ b \in Formed /\ g \in Formed /\ u \in Formed
  BY <1>1, <1>12, StepForms
<1>3. Carries(c, cl, <<a>>, G, D, E, D) /\ Carries(c, cl, <<b>>, E, D, E, D)
  BY <1>1, AddrCarries
<1>4. Carries(c, cl, <<g>>, E, D, E, D)
  BY <1>1, <1>12, AddrCarries
<1>5. Carries(c, cl, <<u>>, E, D, E, D)
  BY <1>1, UseCarries
<1>6. TranslateAddress(c, fail) \in {<<a, u, b, u>>, <<a, u, g, u>>}
  BY DEF TranslateAddress, translate_page_directory, translate_v1_page_directory
<1>7. D \subseteq E
  OBVIOUS
<1> HIDE DEF a, b, g, u, E
<1>8. Carries(c, cl, <<u>>, E, D, D, D)
  BY <1>5, <1>7, CarriesWeaker
<1>9. Carries(c, cl, <<b, u>>, E, D, D, D) /\ Carries(c, cl, <<g, u>>, E, D, D, D)
  BY <1>2, <1>3, <1>4, <1>8, CarriesTwo
<1>10. Carries(c, cl, <<u, b, u>>, E, D, D, D) /\ Carries(c, cl, <<u, g, u>>, E, D, D, D)
  BY <1>2, <1>5, <1>9, CarriesThree
<1>11. Carries(c, cl, <<a, u, b, u>>, G, D, D, D) /\ Carries(c, cl, <<a, u, g, u>>, G, D, D, D)
  BY <1>2, <1>3, <1>10, CarriesFour
<1> QED
  BY <1>6, <1>11

LEMMA DerefCarries ==
  ASSUME NEW c, NEW cl, NEW none \in Places, AtEntry(c, cl, none) = {}, NEW G, NEW D, "pd" \notin D
  PROVE  Carries(c, cl, instance_deref(c, none), G, D, D \cup {"inst"}, D \cup {"inst"})
<1>1. "err" \in Places /\ AtEntry(c, cl, "err") = {}
  BY EntryFacts DEF Places
<1>2. Carries(c, cl, get_bar2_pdb("err"), G, D, D, D)
  BY <1>1, GetBar2Carries
<1>3. Carries(c, cl, SearchBar2(c, "inst", none), D, D, D \cup {"inst"}, D \cup {"inst"})
  BY SearchCarries
<1>4. Carries(c, cl, get_bar2_pdb("err") \o SearchBar2(c, "inst", none), G, D, D \cup {"inst"}, D \cup {"inst"})
  BY <1>2, <1>3, CarriesJoin
<1>5. Carries(c, cl, <<Go(none)>>, G, D, D \cup {"inst"}, D \cup {"inst"})
  BY GoCarries
<1> QED
  BY <1>4, <1>5 DEF instance_deref

LEMMA CtxswCarries ==
  ASSUME NEW c, NEW cl, NEW none \in Places, NEW fail \in Places,
         AtEntry(c, cl, none) = {}, AtEntry(c, cl, fail) = {},
         NEW D, "pd" \notin D, "ctxsw" \notin D, "inst" \in D \cup Excused(c, cl)
  PROVE  Carries(c, cl, get_ctxsw(c, none, fail), D, D, D \cup {"ctxsw"}, D)
<1> DEFINE u == Use("inst")
           x == Use("ctxsw")
           w == AddrOrGarbage("ctxsw", "wfi")
           y == AddrOrGarbage("ctxsw", "ctxsw")
           T == TranslateAddress(c, fail)
           first == IF c.virtual THEN T ELSE <<>>
           second == IF c.chip < Volta THEN <<>> ELSE <<x, u>> \o T \o <<y>>
           E == D \cup {"ctxsw"}
<1>1. /\ "inst" \in Names /\ "ctxsw" \in Names /\ "wfi" \in Objects /\ "ctxsw" \in Objects
      /\ "garbage" \in Places \cup {"garbage"}
  BY DEF Names, Objects
<1>2. /\ AtEntry(c, cl, "garbage") = {} /\ w = Addr("ctxsw", "wfi", "garbage")
      /\ y = Addr("ctxsw", "ctxsw", "garbage")
  BY EntryFacts, StepForms
<1>3. u \in Formed /\ x \in Formed /\ w \in Formed /\ y \in Formed
  BY <1>1, <1>2, StepForms
<1>4. Carries(c, cl, <<u>>, D, D, D, D) /\ Carries(c, cl, <<u>>, E, D, E, D)
  BY <1>1, UseCarries
<1>5. Carries(c, cl, <<x>>, E, D, E, D)
  BY <1>1, UseCarries
<1>6. Carries(c, cl, <<w>>, D, D, E, D) /\ Carries(c, cl, <<y>>, D, D, E, D)
  BY <1>1, <1>2, AddrCarries
<1>7. Carries(c, cl, T, D, D, D, D) /\ Carries(c, cl, T, E, D, D, D)
  BY TranslateCarries
<1>8. D \cup D = D
  OBVIOUS
<1> HIDE DEF u, x, w, y, T, E
<1>9. Carries(c, cl, first, D, D, D, D)
  BY <1>7, <1>8, CarriesNothing
<1>10. Carries(c, cl, <<w, u>>, D, D, E, D)
  BY <1>3, <1>4, <1>6, CarriesTwo
<1>11. Carries(c, cl, <<x, u>>, E, D, E, D)
  BY <1>3, <1>4, <1>5, CarriesTwo
<1>12. Carries(c, cl, <<x, u>> \o T, E, D, D, D)
  BY <1>7, <1>11, CarriesJoin
<1>13. Carries(c, cl, (<<x, u>> \o T) \o <<y>>, E, D, E, D)
  BY <1>6, <1>12, CarriesJoin
<1>14. Carries(c, cl, second, E, D, E, D)
  <2>1. E \cup D = E
    BY DEF E
  <2> QED
    BY <1>13, <2>1, CarriesNothing
<1>15. get_ctxsw(c, none, fail) =
         <<u>> \o (IF ~c.wfi THEN <<Go(none)>> ELSE (first \o <<w, u>>) \o second)
  BY DEF get_ctxsw, u, x, w, y, T
<1> HIDE DEF first, second
<1>16. Carries(c, cl, first \o <<w, u>>, D, D, E, D)
  BY <1>9, <1>10, CarriesJoin
<1>17. Carries(c, cl, (first \o <<w, u>>) \o second, D, D, E, D)
  BY <1>14, <1>16, CarriesJoin
<1>18. Carries(c, cl, <<Go(none)>>, D, D, E, D)
  BY GoCarries
<1>19. Carries(c, cl, IF ~c.wfi THEN <<Go(none)>> ELSE (first \o <<w, u>>) \o second, D, D, E, D)
  BY <1>17, <1>18
<1>20. Carries(c, cl, get_ctxsw(c, none, fail), D, D, E, D)
  BY <1>4, <1>15, <1>19, CarriesJoin
<1> QED
  BY <1>20 DEF E

LEMMA IterCarries ==
  ASSUME NEW c, NEW cl
  PROVE  /\ Carries(c, cl, get_runlist_iter(c), {}, {}, {"rl"}, {"rl"})
         /\ Carries(c, cl, RunlistInWindow, {}, {}, {"rl"}, {})
<1> DEFINE clear == Do("clear_iter")
           set == Do("set_iter")
           r == Reg("err")
           a == AddrOrGarbage("rl", "runlist")
           s == get_bar2_pdb("runlist_pramin") \o SearchBar2(c, "rl", "runlist_pramin")
           found == IF c.bar2 THEN s ELSE <<Go("runlist_pramin")>>
           R == {"rl"}
<1>1. /\ "rl" \in Names /\ "runlist" \in Objects /\ "garbage" \in Places \cup {"garbage"}
      /\ "err" \in Places /\ "runlist_pramin" \in Places
      /\ "clear_iter" \in Ops \ {"reg", "addr", "use", "bypass", "go"}
      /\ "set_iter" \in Ops \ {"reg", "addr", "use", "bypass", "go"}
  BY DEF Names, Objects, Places, Ops
<1>2. /\ AtEntry(c, cl, "err") = {} /\ AtEntry(c, cl, "runlist_pramin") = {}
      /\ AtEntry(c, cl, "garbage") = {} /\ a = Addr("rl", "runlist", "garbage")
  BY EntryFacts, StepForms
<1>3. clear \in Formed /\ set \in Formed /\ r \in Formed /\ a \in Formed
  BY <1>1, <1>2, StepForms
<1>4. /\ Carries(c, cl, <<clear>>, {}, {}, {}, {})
      /\ Carries(c, cl, <<set>>, {"rl"}, {"rl"}, {"rl"}, {"rl"})
      /\ Carries(c, cl, <<set>>, {"rl"}, {}, {"rl"}, {})
  BY <1>1, DoCarries
<1>5. Carries(c, cl, <<r>>, {}, {}, {}, {})
  BY <1>1, <1>2, RegCarries
<1>6. Carries(c, cl, <<a>>, {}, {}, {"rl"}, {})
  <2>1. Carries(c, cl, <<a>>, {}, {}, {} \cup {"rl"}, {})
    BY <1>1, <1>2, AddrCarries
  <2> QED
    BY <2>1, CarriesWeaker
<1>7. Carries(c, cl, s, {}, {}, {"rl"}, {"rl"})
  <2>1. Carries(c, cl, get_bar2_pdb("runlist_pramin"), {}, {}, {}, {})
    BY <1>1, <1>2, GetBar2Carries
  <2>2. Carries(c, cl, SearchBar2(c, "rl", "runlist_pramin"), {}, {}, {} \cup {"rl"}, {} \cup {"rl"})
    BY <1>1, <1>2, SearchCarries
  <2>3. Carries(c, cl, SearchBar2(c, "rl", "runlist_pramin"), {}, {}, {"rl"}, {"rl"})
    BY <2>2, CarriesWeaker
  <2> QED
    BY <2>1, <2>3, CarriesJoin
<1>8. Carries(c, cl, <<Go("runlist_pramin")>>, {}, {}, {"rl"}, {"rl"})
  BY <1>1, <1>2, GoCarries
<1>9. get_runlist_iter(c) = (<<clear, r>> \o found) \o <<set>> /\ RunlistInWindow = <<a, set>>
  BY DEF get_runlist_iter, RunlistInWindow
<1> HIDE DEF clear, set, r, a, s
<1>10. Carries(c, cl, found, {}, {}, {"rl"}, {"rl"})
  BY <1>7, <1>8
<1> HIDE DEF found
<1>11. Carries(c, cl, <<clear, r>>, {}, {}, {}, {})
  BY <1>3, <1>4, <1>5, CarriesTwo
<1>12. Carries(c, cl, <<clear, r>> \o found, {}, {}, {"rl"}, {"rl"})
  BY <1>10, <1>11, CarriesJoin
<1>13. Carries(c, cl, (<<clear, r>> \o found) \o <<set>>, {}, {}, {"rl"}, {"rl"})
  BY <1>4, <1>12, CarriesJoin
<1>14. Carries(c, cl, <<a, set>>, {}, {}, {"rl"}, {})
  BY <1>3, <1>4, <1>6, CarriesTwo
<1> QED
  BY <1>9, <1>13, <1>14

LEMMA ExcusedFacts ==
  ASSUME NEW c
  PROVE  /\ "inst" \in Excused(c, "read")
         /\ Excused(c, "map_mem_ctxid") = {"rl"}
         /\ Excused(c, "preempt_mode") = {} /\ Excused(c, "map_mem_chid") = {}
BY DEF Excused

\* The steps of a block find the pointers good that they need, if the block
\* finds those good that it relies on.
Supports(c, cl, s, G) == Carries(c, cl, s, G, {}, {}, {})

LEMMA LooksForRunlist ==
  ASSUME NEW c, NEW cl, NEW to \in Places, AtEntry(c, cl, to) \subseteq {"rl"},
         NEW b, b \in {get_runlist_iter(c) \o <<Go(to)>>, RunlistInWindow \o <<Go(to)>>}
  PROVE  Supports(c, cl, b, {})
<1>1. /\ Carries(c, cl, <<Go(to)>>, {"rl"}, {"rl"}, {}, {})
      /\ Carries(c, cl, <<Go(to)>>, {"rl"}, {}, {}, {})
  BY GoCarries
<1>2. /\ Carries(c, cl, get_runlist_iter(c), {}, {}, {"rl"}, {"rl"})
      /\ Carries(c, cl, RunlistInWindow, {}, {}, {"rl"}, {})
  BY IterCarries
<1>3. Carries(c, cl, get_runlist_iter(c) \o <<Go(to)>>, {}, {}, {}, {})
  BY <1>1, <1>2, CarriesJoin
<1>4. Carries(c, cl, RunlistInWindow \o <<Go(to)>>, {}, {}, {}, {})
  BY <1>1, <1>2, CarriesJoin
<1> QED
  BY <1>3, <1>4 DEF Supports

LEMMA ChannelSupported ==
  ASSUME NEW c
  PROVE  Supports(c, "read", runlist_detail_seq_show(c), {})
<1> DEFINE r == Reg("shown")
           save == Do("save")
           restore == Do("restore")
           shown == Do("shown")
           a == AddrOrGarbage("inst", "instance")
           u == Use("inst")
           x == Use("ctxsw")
           X == get_ctxsw(c, "restore", "restore")
           late == IF c.chip < Pascal THEN <<>> ELSE <<x, restore>>
           rest == IF c.chip < Maxwell THEN <<>> ELSE (X \o <<x>>) \o late
           C(s, G, G2) == Carries(c, "read", s, G, {}, G2, {})
<1>1. /\ "inst" \in Names /\ "ctxsw" \in Names /\ "instance" \in Objects
      /\ "garbage" \in Places \cup {"garbage"} /\ "shown" \in Places /\ "restore" \in Places
      /\ "restore" \in Ops \ {"reg", "addr", "use", "bypass", "go"}
      /\ "save" \in Ops \ {"reg", "addr", "use", "bypass", "go"}
      /\ "shown" \in Ops \ {"reg", "addr", "use", "bypass", "go"}
  BY DEF Names, Objects, Places, Ops
<1>2. /\ AtEntry(c, "read", "shown") = {} /\ AtEntry(c, "read", "restore") = {}
      /\ AtEntry(c, "read", "garbage") = {} /\ a = Addr("inst", "instance", "garbage")
  BY EntryFacts, StepForms
<1>3. /\ r \in Formed /\ save \in Formed /\ restore \in Formed /\ shown \in Formed
      /\ a \in Formed /\ u \in Formed /\ x \in Formed
  BY <1>1, <1>2, StepForms
<1>4. C(<<r>>, {}, {})
  BY <1>1, <1>2, RegCarries
<1>5. C(<<save>>, {}, {}) /\ C(<<shown>>, {}, {}) /\ C(<<restore>>, {}, {})
  BY <1>1, DoCarries
<1>6. C(<<a>>, {}, {})
  <2>1. C(<<a>>, {}, {} \cup {"inst"})
    BY <1>1, <1>2, AddrCarries
  <2> QED
    BY <2>1, CarriesWeaker
<1>7. C(<<u>>, {}, {})
  BY <1>1, ExcusedFacts, UseCarries
<1>8. C(<<x>>, {"ctxsw"}, {"ctxsw"}) /\ C(<<restore>>, {"ctxsw"}, {})
  <2>1. C(<<restore>>, {"ctxsw"}, IF "restore" = "restore" THEN {} ELSE {"ctxsw"})
    BY <1>1, DoCarries
  <2> QED
    BY <1>1, <2>1, UseCarries
<1>9. C(X, {}, {"ctxsw"})
  <2>1. C(X, {}, {} \cup {"ctxsw"})
    BY <1>1, <1>2, ExcusedFacts, CtxswCarries
  <2> QED
    BY <2>1, CarriesWeaker
<1>10. runlist_detail_seq_show(c) = (<<r, save, a, u>> \o rest) \o <<shown>>
  BY DEF runlist_detail_seq_show
<1> HIDE DEF r, save, restore, shown, a, u, x, X
<1>11. C(<<>>, {"ctxsw"}, {}) /\ C(<<>>, {}, {})
  <2>1. C(<<>>, {"ctxsw"}, {"ctxsw"} \cup {}) /\ C(<<>>, {}, {} \cup {})
    BY CarriesNothing
  <2> QED
    BY <2>1, CarriesWeaker
<1>12. C(<<x, restore>>, {"ctxsw"}, {})
  BY <1>3, <1>8, CarriesTwo
<1>13. C(late, {"ctxsw"}, {})
  BY <1>11, <1>12
<1> HIDE DEF late
<1>14. C(X \o <<x>>, {}, {"ctxsw"})
  BY <1>8, <1>9, CarriesJoin
<1>15. C((X \o <<x>>) \o late, {}, {})
  BY <1>13, <1>14, CarriesJoin
<1>16. C(rest, {}, {})
  BY <1>11, <1>15
<1> HIDE DEF rest
<1>17. C(<<a, u>>, {}, {})
  BY <1>3, <1>6, <1>7, CarriesTwo
<1>18. C(<<save, a, u>>, {}, {})
  BY <1>3, <1>5, <1>17, CarriesThree
<1>19. C(<<r, save, a, u>>, {}, {})
  BY <1>3, <1>4, <1>18, CarriesFour
<1>20. C(<<r, save, a, u>> \o rest, {}, {})
  BY <1>16, <1>19, CarriesJoin
<1> QED
  BY <1>5, <1>10, <1>20, CarriesJoin DEF Supports

LEMMA CtxidSupported ==
  ASSUME NEW c, NEW none \in {"channel2", "err"}, NEW matches \in BOOLEAN
  PROVE  Supports(c, "map_mem_ctxid", MapMemCtxid(c, none, matches), {})
<1> DEFINE l == Use("rl")
           r == Reg("err")
           x == Use("ctxsw")
           timeout == Do("set_timeout")
           mode == Do("set_mode")
           map == Go("map")
           old == IF c.chip < Ampere THEN <<r>> ELSE <<>>
           I == instance_deref(c, none)
           X == get_ctxsw(c, none, "err")
           end == IF ~matches THEN <<Go(none)>> ELSE <<r, timeout, x, mode, map>>
           D == {"inst"}
           E == {"inst", "ctxsw"}
           C(s, G0, D0, G2, D2) == Carries(c, "map_mem_ctxid", s, G0, D0, G2, D2)
<1>1. /\ "rl" \in Names /\ "ctxsw" \in Names /\ "err" \in Places /\ "map" \in Places /\ none \in Places
      /\ "set_timeout" \in Ops \ {"reg", "addr", "use", "bypass", "go"}
      /\ "set_mode" \in Ops \ {"reg", "addr", "use", "bypass", "go"}
  BY DEF Names, Places, Ops
<1>2. AtEntry(c, "map_mem_ctxid", "err") = {} /\ AtEntry(c, "map_mem_ctxid", none) = {}
  BY EntryFacts
<1>21. AtEntry(c, "map_mem_ctxid", "map") \subseteq {"inst"}
  BY EntryFacts
<1>3. /\ l \in Formed /\ r \in Formed /\ x \in Formed /\ timeout \in Formed /\ mode \in Formed
      /\ map \in Formed
  BY <1>1, StepForms
<1>4. C(<<l>>, {}, {}, {}, {})
  BY <1>1, ExcusedFacts, UseCarries
<1>5. C(<<r>>, {}, {}, {}, {}) /\ C(<<r>>, E, D, E, D)
  BY <1>1, <1>2, RegCarries
<1>6. C(<<x>>, E, D, E, D)
  BY <1>1, UseCarries
<1>7. C(<<timeout>>, E, D, E, D) /\ C(<<mode>>, E, D, E, D)
  BY <1>1, DoCarries
<1>8. C(<<map>>, E, D, {}, {}) /\ C(<<Go(none)>>, E, D, {}, {})
  BY <1>1, <1>2, <1>21, GoCarries
<1>9. C(I, {}, {}, D, D)
  <2>1. C(I, {}, {}, {} \cup {"inst"}, {} \cup {"inst"})
    BY <1>1, <1>2, DerefCarries
  <2> QED
    BY <2>1, CarriesWeaker
<1>10. C(X, D, D, E, D)
  <2>1. C(X, D, D, D \cup {"ctxsw"}, D)
    BY <1>1, <1>2, CtxswCarries
  <2> QED
    BY <2>1, CarriesWeaker
<1>11. MapMemCtxid(c, none, matches) = (((<<l>> \o old) \o I) \o X) \o <<x>> \o end
  BY DEF MapMemCtxid
<1> HIDE DEF l, r, x, timeout, mode, map, I, X, D, E
<1>12. C(old, {}, {}, {}, {})
  <2>1. C(<<>>, {}, {}, {} \cup {}, {})
    BY CarriesNothing
  <2> QED
    BY <1>5, <2>1, CarriesWeaker
<1>13. C(end, E, D, {}, {})
  <2>1. C(<<mode, map>>, E, D, {}, {})
    BY <1>3, <1>7, <1>8, CarriesTwo
  <2>2. C(<<x, mode, map>>, E, D, {}, {})
    BY <1>3, <1>6, <2>1, CarriesThree
  <2>3. C(<<timeout, x, mode, map>>, E, D, {}, {})
    BY <1>3, <1>7, <2>2, CarriesFour
  <2>4. C(<<r, timeout, x, mode, map>>, E, D, {}, {})
    BY <1>3, <1>5, <2>3, CarriesFive
  <2> QED
    BY <1>8, <2>4
<1> HIDE DEF old, end
<1>14. C(<<l>> \o old, {}, {}, {}, {})
  BY <1>4, <1>12, CarriesJoin
<1>15. C((<<l>> \o old) \o I, {}, {}, D, D)
  BY <1>9, <1>14, CarriesJoin
<1>16. C(((<<l>> \o old) \o I) \o X, {}, {}, E, D)
  BY <1>10, <1>15, CarriesJoin
<1>17. C((((<<l>> \o old) \o I) \o X) \o <<x>>, {}, {}, E, D)
  BY <1>6, <1>16, CarriesJoin
<1>18. C(((((<<l>> \o old) \o I) \o X) \o <<x>>) \o end, {}, {}, {}, {})
  BY <1>13, <1>17, CarriesJoin
<1> QED
  BY <1>11, <1>18 DEF Supports

LEMMA ModeSupported ==
  ASSUME NEW c
  PROVE  Supports(c, "preempt_mode", set_channel_preemption_mode(c), AtEntry(c, "preempt_mode", "mode"))
<1> DEFINE l == Use("rl")
           r == Reg("err")
           x == Use("ctxsw")
           timeout == Do("set_timeout")
           mode == Do("set_mode")
           return == Do("return")
           first == IF c.chip < Ampere THEN <<r>> ELSE <<l>>
           I == instance_deref(c, "unset")
           X == get_ctxsw(c, "unset", "err")
           late == IF c.chip < Volta THEN <<>> ELSE <<r, timeout>>
           A == AtEntry(c, "preempt_mode", "mode")
           D == {"inst"}
           E == {"inst", "ctxsw"}
           C(s, G0, D0, G2, D2) == Carries(c, "preempt_mode", s, G0, D0, G2, D2)
<1>1. /\ "rl" \in Names /\ "ctxsw" \in Names /\ "err" \in Places /\ "unset" \in Places
      /\ "set_timeout" \in Ops \ {"reg", "addr", "use", "bypass", "go"}
      /\ "set_mode" \in Ops \ {"reg", "addr", "use", "bypass", "go"}
      /\ "return" \in Ops \ {"reg", "addr", "use", "bypass", "go"}
  BY DEF Names, Places, Ops
<1>2. AtEntry(c, "preempt_mode", "err") = {} /\ AtEntry(c, "preempt_mode", "unset") = {}
  BY EntryFacts
<1>3. /\ l \in Formed /\ r \in Formed /\ x \in Formed /\ timeout \in Formed /\ mode \in Formed
      /\ return \in Formed
  BY <1>1, StepForms
<1>4. ~(c.chip < Ampere) => C(<<l>>, A, {}, A, {})
  <2>1. ASSUME ~(c.chip < Ampere)
        PROVE  "rl" \in A
    BY <2>1, EntryFacts, ExcusedFacts
  <2> QED
    BY <1>1, <2>1, UseCarries
<1>5. C(<<r>>, A, {}, A, {}) /\ C(<<r>>, E, D, E, D)
  BY <1>1, <1>2, RegCarries
<1>6. C(<<x>>, E, D, E, D)
  BY <1>1, UseCarries
<1>7. C(<<timeout>>, E, D, E, D) /\ C(<<mode>>, E, D, E, D)
  BY <1>1, DoCarries
<1>8. C(<<return>>, E, D, {}, {})
  <2>1. C(<<return>>, E, D, E, D)
    BY <1>1, DoCarries
  <2> QED
    BY <2>1, CarriesWeaker
<1>9. C(I, A, {}, D, D)
  <2>1. C(I, A, {}, {} \cup {"inst"}, {} \cup {"inst"})
    BY <1>1, <1>2, DerefCarries
  <2> QED
    BY <2>1, CarriesWeaker
<1>10. C(X, D, D, E, D)
  <2>1. C(X, D, D, D \cup {"ctxsw"}, D)
    BY <1>1, <1>2, CtxswCarries
  <2> QED
    BY <2>1, CarriesWeaker
<1>11. set_channel_preemption_mode(c) =
         ((((first \o I) \o X) \o <<x, mode>>) \o late) \o <<return>>
  BY DEF set_channel_preemption_mode
<1> HIDE DEF l, r, x, timeout, mode, return, I, X, A, D, E
<1>12. C(first, A, {}, A, {})
  BY <1>4, <1>5
<1>13. C(<<x, mode>>, E, D, E, D)
  BY <1>3, <1>6, <1>7, CarriesTwo
<1>14. C(late, E, D, E, D)
  <2>1. C(<<r, timeout>>, E, D, E, D)
    BY <1>3, <1>5, <1>7, CarriesTwo
  <2>2. C(<<>>, E, D, E \cup D, D)
    BY CarriesNothing
  <2>3. C(<<>>, E, D, E, D)
    BY <2>2, CarriesWeaker
  <2> QED
    BY <2>1, <2>3
<1> HIDE DEF first, late
<1>15. C(first \o I, A, {}, D, D)
  BY <1>9, <1>12, CarriesJoin
<1>16. C((first \o I) \o X, A, {}, E, D)
  BY <1>10, <1>15, CarriesJoin
<1>17. C(((first \o I) \o X) \o <<x, mode>>, A, {}, E, D)
  BY <1>13, <1>16, CarriesJoin
<1>18. C((((first \o I) \o X) \o <<x, mode>>) \o late, A, {}, E, D)
  BY <1>14, <1>17, CarriesJoin
<1>19. C(((((first \o I) \o X) \o <<x, mode>>) \o late) \o <<return>>, A, {}, {}, {})
  BY <1>8, <1>18, CarriesJoin
<1> QED
  BY <1>11, <1>19 DEF Supports, A

LEMMA ChidSupported ==
  ASSUME NEW c
  PROVE  /\ Supports(c, "map_mem_chid", MapMemChid(c), {})
         /\ Supports(c, "map_mem_chid", <<Addr("inst", "instance", "err"), Go("map")>>, {})
<1> DEFINE r == Reg("err")
           a == Addr("inst", "instance", "err")
           map == Go("map")
           err == Go("err")
           s == get_bar2_pdb("err") \o SearchBar2(c, "inst", "instance_pramin")
           D == {"inst"}
           C(t, G0, D0, G2, D2) == Carries(c, "map_mem_chid", t, G0, D0, G2, D2)
<1>1. /\ "inst" \in Names /\ "instance" \in Objects /\ "err" \in Places \cup {"garbage"}
      /\ "err" \in Places /\ "map" \in Places /\ "instance_pramin" \in Places
  BY DEF Names, Objects, Places
<1>2. /\ AtEntry(c, "map_mem_chid", "err") = {} /\ AtEntry(c, "map_mem_chid", "instance_pramin") = {}
      /\ AtEntry(c, "map_mem_chid", "map") \subseteq {"inst"}
  BY EntryFacts
<1>3. r \in Formed /\ a \in Formed /\ map \in Formed /\ err \in Formed
  BY <1>1, StepForms
<1>4. C(<<r>>, {}, {}, {}, {})
  BY <1>1, <1>2, RegCarries
<1>5. C(<<map>>, {"inst"}, {"inst"}, {}, {}) /\ C(<<map>>, {"inst"}, {}, {}, {})
  BY <1>1, <1>2, GoCarries
<1>6. C(<<err>>, {}, {}, {}, {})
  BY <1>1, <1>2, GoCarries
<1>7. C(<<a>>, {}, {}, {"inst"}, {})
  <2>1. C(<<a>>, {}, {}, {} \cup {"inst"}, {})
    BY <1>1, <1>2, AddrCarries
  <2> QED
    BY <2>1, CarriesWeaker
<1>8. C(s, {}, {}, {"inst"}, {"inst"})
  <2>1. C(get_bar2_pdb("err"), {}, {}, {}, {})
    BY <1>1, <1>2, GetBar2Carries
  <2>2. C(SearchBar2(c, "inst", "instance_pramin"), {}, {}, {} \cup {"inst"}, {} \cup {"inst"})
    BY <1>1, <1>2, SearchCarries
  <2>3. C(SearchBar2(c, "inst", "instance_pramin"), {}, {}, {"inst"}, {"inst"})
    BY <2>2, CarriesWeaker
  <2> QED
    BY <2>1, <2>3, CarriesJoin
<1>9. MapMemChid(c) \in {<<err>>, <<r>> \o (s \o <<map>>), <<r>> \o <<err>>}
  BY DEF MapMemChid
<1> HIDE DEF r, a, map, err, s
<1>10. C(s \o <<map>>, {}, {}, {}, {})
  BY <1>5, <1>8, CarriesJoin
<1>11. C(<<r>> \o (s \o <<map>>), {}, {}, {}, {}) /\ C(<<r>> \o <<err>>, {}, {}, {}, {})
  BY <1>4, <1>6, <1>10, CarriesJoin
<1>12. C(<<a, map>>, {}, {}, {}, {})
  BY <1>3, <1>5, <1>7, CarriesTwo
<1>13. C(MapMemChid(c), {}, {}, {}, {})
  BY <1>6, <1>9, <1>11
<1> QED
  BY <1>12, <1>13 DEF Supports, a, map

LEMMA MapSupported ==
  ASSUME NEW c, NEW cl
  PROVE  Supports(c, cl, map_mem_for_instance(c), AtEntry(c, cl, "map"))
<1> DEFINE r == Reg("err")
           u == Use("inst")
           err == Go("err")
           pages == Do("map_pages")
           A == AtEntry(c, cl, "map")
           C(t, G0, G2) == Carries(c, cl, t, G0, {}, G2, {})
<1>1. /\ "inst" \in Names /\ "err" \in Places
      /\ "map_pages" \in Ops \ {"reg", "addr", "use", "bypass", "go"}
  BY DEF Names, Places, Ops
<1>2. AtEntry(c, cl, "err") = {} /\ "inst" \in A \cup Excused(c, cl)
  BY EntryFacts
<1>3. r \in Formed /\ u \in Formed /\ err \in Formed /\ pages \in Formed
  BY <1>1, StepForms
<1>4. C(<<r>>, A, A)
  BY <1>1, <1>2, RegCarries
<1>5. C(<<u>>, A, A)
  BY <1>1, <1>2, UseCarries
<1>6. C(<<err>>, A, {})
  BY <1>1, <1>2, GoCarries
<1>7. C(<<pages>>, A, {})
  <2>1. C(<<pages>>, A, A)
    BY <1>1, DoCarries
  <2> QED
    BY <2>1, CarriesWeaker
<1>8. map_mem_for_instance(c) \in {<<r, u>> \o <<err>>, <<r, u>> \o <<r, pages>>}
  BY DEF map_mem_for_instance
<1> HIDE DEF r, u, err, pages, A
<1>9. C(<<r, u>>, A, A) /\ C(<<r, pages>>, A, {})
  BY <1>3, <1>4, <1>5, <1>7, CarriesTwo
<1>10. C(<<r, u>> \o <<err>>, A, {}) /\ C(<<r, u>> \o <<r, pages>>, A, {})
  BY <1>6, <1>9, CarriesJoin
<1>11. C(map_mem_for_instance(c), A, {})
  BY <1>8, <1>10
<1> QED
  BY <1>11 DEF Supports, A

\* A block that asks for nothing and relies on nothing.
LEMMA DoSupported ==
  ASSUME NEW c, NEW cl, NEW what \in Ops \ {"reg", "addr", "use", "bypass", "go"}
  PROVE  Supports(c, cl, <<Do(what)>>, {})
<1>1. Carries(c, cl, <<Do(what)>>, {}, {}, IF what = "restore" THEN {} ELSE {}, {})
  BY DoCarries
<1> QED
  BY <1>1 DEF Supports

LEMMA ReadSupported ==
  ASSUME NEW c, NEW label \in Labels("read")
  PROVE  Supports(c, "read", Block(c, "read", label), AtEntry(c, "read", label))
<1> DEFINE A == AtEntry(c, "read", label)
<1>1. label # "show" => A = {}
  BY EntryFacts, ReadOps
<1>2. CASE label \in {"runlist", "runlist_pramin"}
  <2>1. Block(c, "read", label) \in {get_runlist_iter(c) \o <<Go("show")>>, RunlistInWindow \o <<Go("show")>>}
    BY <1>2 DEF Block, AfterIter
  <2>2. AtEntry(c, "read", "show") \subseteq {"rl"} /\ "show" \in Places
    BY EntryFacts DEF Places
  <2>3. Supports(c, "read", Block(c, "read", label), {})
    BY <2>1, <2>2, LooksForRunlist
  <2> QED
    BY <1>1, <1>2, <2>3
<1>3. CASE label = "channel"
  BY <1>1, <1>3, ChannelSupported DEF Block
<1>4. CASE label = "show"
  <2> DEFINE u == Use("rl")
             d == Do("show")
  <2>1. "rl" \in Names /\ "rl" \in A \cup Excused(c, "read")
        /\ "show" \in Ops \ {"reg", "addr", "use", "bypass", "go"}
    BY <1>4, EntryFacts DEF Names, Ops
  <2>2. u \in Formed /\ d \in Formed
    BY <2>1, StepForms
  <2>3. Carries(c, "read", <<u>>, A, {}, A, {})
    BY <2>1, UseCarries
  <2>4. Carries(c, "read", <<d>>, A, {}, A, {})
    BY <2>1, DoCarries
  <2>5. Block(c, "read", label) = <<u, d>>
    BY <1>4 DEF Block
  <2> HIDE DEF u, d
  <2>6. Carries(c, "read", <<d>>, A, {}, {}, {})
    BY <2>4, CarriesWeaker
  <2> QED
    BY <2>2, <2>3, <2>5, <2>6, CarriesTwo DEF Supports
<1>5. CASE label = "restore"
  <2> DEFINE u == Do("restore")
             d == Do("shown")
  <2>1. /\ "restore" \in Ops \ {"reg", "addr", "use", "bypass", "go"}
        /\ "shown" \in Ops \ {"reg", "addr", "use", "bypass", "go"}
    BY DEF Ops
  <2>2. u \in Formed /\ d \in Formed
    BY <2>1, StepForms
  <2>3. Carries(c, "read", <<u>>, {}, {}, {}, {}) /\ Carries(c, "read", <<d>>, {}, {}, {}, {})
    BY <2>1, DoSupported DEF Supports
  <2>4. Block(c, "read", label) = <<u, d>>
    BY <1>5 DEF Block
  <2> HIDE DEF u, d
  <2> QED
    BY <1>1, <1>5, <2>2, <2>3, <2>4, CarriesTwo DEF Supports
<1>6. CASE label \in {"begin", "shown", "next", "err"}
  <2>1. \E what \in {"seq_start", "shown", "next", "return_error"} : Block(c, "read", label) = <<Do(what)>>
    BY <1>6, ReadBlocks, ReadOps DEF Block
  <2>2. {"seq_start", "shown", "next", "return_error"} \subseteq Ops \ {"reg", "addr", "use", "bypass", "go"}
    BY DEF Ops
  <2>3. Supports(c, "read", Block(c, "read", label), {})
    BY <2>1, <2>2, DoSupported
  <2> QED
    BY <1>1, <1>6, <2>3
<1> QED
  BY <1>2, <1>3, <1>4, <1>5, <1>6, ReadOps

LEMMA PreemptSupported ==
  ASSUME NEW c, NEW label \in Labels("preempt_mode")
  PROVE  Supports(c, "preempt_mode", Block(c, "preempt_mode", label), AtEntry(c, "preempt_mode", label))
<1> DEFINE A == AtEntry(c, "preempt_mode", label)
<1>1. label # "mode" => A = {}
  BY EntryFacts, ModeOps
<1>2. AtEntry(c, "preempt_mode", "mode") \subseteq {"rl"} /\ "mode" \in Places
  BY EntryFacts DEF Places
<1>3. CASE label \in {"begin", "runlist_pramin"}
  <2>1. CASE Block(c, "preempt_mode", label) \in
               {get_runlist_iter(c) \o <<Go("mode")>>, RunlistInWindow \o <<Go("mode")>>}
    <3>1. Supports(c, "preempt_mode", Block(c, "preempt_mode", label), {})
      BY <1>2, <2>1, LooksForRunlist
    <3> QED
      BY <1>1, <1>3, <3>1
  <2>2. CASE label = "begin" /\ c.chip < Ampere
    <3>1. Block(c, "preempt_mode", label) = <<Go("mode")>>
      BY <2>2 DEF Block
    <3>2. AtEntry(c, "preempt_mode", "mode") \subseteq {}
      BY <2>2, EntryFacts
    <3>3. Carries(c, "preempt_mode", <<Go("mode")>>, {}, {}, {}, {})
      BY <1>2, <3>2, GoCarries
    <3> QED
      BY <1>1, <2>2, <3>1, <3>3 DEF Supports
  <2>3. ~(label = "begin" /\ c.chip < Ampere) =>
          Block(c, "preempt_mode", label) \in
            {get_runlist_iter(c) \o <<Go("mode")>>, RunlistInWindow \o <<Go("mode")>>}
    BY <1>3 DEF Block, AfterIter
  <2> QED
    BY <2>1, <2>2, <2>3
<1>4. CASE label = "mode"
  BY <1>4, ModeSupported DEF Block
<1>5. CASE label \in {"unset", "err"}
  <2>1. \E what \in {"return", "return_error"} : Block(c, "preempt_mode", label) = <<Do(what)>>
    BY <1>5 DEF Block
  <2>2. {"return", "return_error"} \subseteq Ops \ {"reg", "addr", "use", "bypass", "go"}
    BY DEF Ops
  <2>3. Supports(c, "preempt_mode", Block(c, "preempt_mode", label), {})
    BY <2>1, <2>2, DoSupported
  <2> QED
    BY <1>1, <1>5, <2>3
<1> QED
  BY <1>3, <1>4, <1>5, ModeOps

LEMMA MapsSupported ==
  ASSUME NEW c, NEW cl \in Maps, NEW label \in Labels(cl)
  PROVE  Supports(c, cl, Block(c, cl, label), AtEntry(c, cl, label))
<1>1. CASE label = "map"
  BY <1>1, MapSupported DEF Block
<1>2. CASE label = "err"
  <2>1. "return_error" \in Ops \ {"reg", "addr", "use", "bypass", "go"} /\ AtEntry(c, cl, "err") = {}
    BY EntryFacts DEF Ops
  <2> QED
    BY <1>2, <2>1, DoSupported DEF Block
<1>3. CASE cl = "map_mem_ctxid" /\ label \in {"begin", "runlist_pramin"}
  <2>1. Block(c, cl, label) \in {get_runlist_iter(c) \o <<Go("channel1")>>, RunlistInWindow \o <<Go("channel1")>>}
    BY <1>3 DEF Block, AfterIter
  <2>2. AtEntry(c, cl, "channel1") \subseteq {"rl"} /\ "channel1" \in Places /\ AtEntry(c, cl, label) = {}
    BY <1>3, EntryFacts DEF Places
  <2> QED
    BY <2>1, <2>2, LooksForRunlist
<1>4. CASE cl = "map_mem_ctxid" /\ label \in {"channel1", "channel2"}
  <2>1. Block(c, cl, label) \in {MapMemCtxid(c, "channel2", FALSE), MapMemCtxid(c, "err", TRUE)}
    BY <1>4 DEF Block
  <2>2. AtEntry(c, cl, label) = {}
    BY <1>4, EntryFacts
  <2>3. Supports(c, cl, MapMemCtxid(c, "channel2", FALSE), {})
    BY <1>4, CtxidSupported
  <2>4. Supports(c, cl, MapMemCtxid(c, "err", TRUE), {})
    BY <1>4, CtxidSupported
  <2> QED
    BY <2>1, <2>2, <2>3, <2>4
<1>5. CASE cl = "map_mem_chid" /\ label \in {"begin", "instance_pramin"}
  <2>1. Block(c, cl, label) \in {MapMemChid(c), <<Addr("inst", "instance", "err"), Go("map")>>}
    BY <1>5 DEF Block
  <2>2. AtEntry(c, cl, label) = {}
    BY <1>5, EntryFacts
  <2> QED
    BY <1>5, <2>1, <2>2, ChidSupported
<1> QED
  BY <1>1, <1>2, <1>3, <1>4, <1>5, MapOps DEF Maps

LEMMA BlocksSupported ==
  ASSUME NEW c, NEW cl \in Files, NEW label \in Labels(cl)
  PROVE  /\ Sound(c, cl, Block(c, cl, label), AtEntry(c, cl, label), {})
         /\ \A i \in 1..Len(Block(c, cl, label)) : Proper(Block(c, cl, label)[i])
<1>1. Supports(c, cl, Block(c, cl, label), AtEntry(c, cl, label))
  BY ReadSupported, PreemptSupported, MapsSupported DEF Files, Maps
<1> QED
  BY <1>1 DEF Supports, Carries

-----------------------------------------------------------------------------
(* What is left of a block. *)

\* What the steps that are left need after the first of them.
LEMMA SoundHead ==
  ASSUME NEW c, NEW cl, NEW S, NEW s \in Seq(S), s # <<>>, NEW G, NEW D, Sound(c, cl, s, G, D)
  PROVE  Needs(c, cl, s[1]) \subseteq G \cup D
<1>1. 1 \in 1..Len(s) /\ 1 - 1 = 0 /\ 1..0 = {}
  BY LenProperties, EmptySeq
<1>2. \A k \in Needs(c, cl, s[1]) : Leads(s, 0, k, G, D)
  BY <1>1 DEF Sound
<1> QED
  BY <1>1, <1>2 DEF Leads, JumpIn, StillPast, StillGood

LEMMA SoundTail ==
  ASSUME NEW c, NEW cl, NEW S, NEW s \in Seq(S), s # <<>>, NEW G, NEW D, Sound(c, cl, s, G, D),
         s[1].op \notin Diverts, NEW G2, NEW D2,
         \A k \in D : Asked(s, 1, k) \/ k \in D2,
         s[1].op = "bypass" => s[1].k \in D2,
         s[1].op = "addr" => s[1].k \in G2,
         s[1].op \notin Moving => G \subseteq G2
  PROVE  Sound(c, cl, Tail(s), G2, D2)
<1> DEFINE t == Tail(s)
           m == Len(s) - 1
<1>1. /\ Len(s) \in Nat /\ Len(s) # 0 /\ Len(t) = m /\ m \in Nat
      /\ \A i \in 1..m : t[i] = s[i + 1]
  BY LenProperties, EmptySeq, SeqFacts
<1> HIDE DEF t, m
<1>2. ASSUME NEW n \in Nat, n <= m, NEW k, Leads(s, n + 1, k, G, D)
      PROVE  Leads(t, n, k, G2, D2)
  <2>1. \A i \in 2..(n + 1) : i - 1 \in 1..n /\ t[i - 1] = s[i]
    <3>1. ASSUME NEW i \in 2..(n + 1)
          PROVE  i - 1 \in 1..n /\ i - 1 \in 1..m /\ (i - 1) + 1 = i
      BY <1>1, <1>2
    <3> QED
      BY <1>1, <3>1
  <2>2. \A i \in 1..n : i + 1 \in 1..(n + 1) /\ i + 1 \in 2..(n + 1) /\ t[i] = s[i + 1]
    BY <1>1, <1>2
  <2>3. \A j \in 1..(n + 1) : j = 1 \/ j \in 2..(n + 1)
    BY <1>2
  <2>4. \A j \in 2..(n + 1) : \A i \in ((j - 1) + 1)..n : i + 1 \in (j + 1)..(n + 1) /\ t[i] = s[i + 1]
    BY <1>1, <1>2
  <2>5. \A i \in 1..n : i + 1 \in (1 + 1)..(n + 1)
    BY <1>2
  <2>6. 1 \in 1..(n + 1)
    BY <1>2
  <2>7. CASE JumpIn(s, n + 1)
    <3>1. PICK j \in 1..(n + 1) : s[j].op \in Diverts
      BY <2>7 DEF JumpIn
    <3>2. j \in 2..(n + 1)
      BY <2>3, <3>1
    <3>3. JumpIn(t, n)
      BY <2>1, <3>1, <3>2 DEF JumpIn
    <3> QED
      BY <3>3 DEF Leads
  <2>8. CASE StillPast(s, n + 1, k, D)
    <3>1. ASSUME NEW j \in 1..(n + 1), s[j].op = "bypass", s[j].k = k,
                 \A i \in (j + 1)..(n + 1) : ~Asked(s, i, k)
          PROVE  StillPast(t, n, k, D2)
      <4>1. CASE j = 1
        <5>1. k \in D2 /\ \A i \in 1..n : ~Asked(t, i, k)
          BY <2>2, <2>5, <3>1, <4>1 DEF Asked
        <5> QED
          BY <5>1 DEF StillPast
      <4>2. CASE j \in 2..(n + 1)
        <5>1. /\ j - 1 \in 1..n /\ t[j - 1] = s[j]
              /\ \A i \in ((j - 1) + 1)..n : ~Asked(t, i, k)
          BY <2>1, <2>4, <3>1, <4>2 DEF Asked
        <5> QED
          BY <3>1, <5>1 DEF StillPast
      <4> QED
        BY <2>3, <4>1, <4>2
    <3>2. ASSUME k \in D, \A i \in 1..(n + 1) : ~Asked(s, i, k)
          PROVE  StillPast(t, n, k, D2)
      <4>1. k \in D2
        BY <2>6, <3>2
      <4>2. \A i \in 1..n : ~Asked(t, i, k)
        BY <2>2, <3>2 DEF Asked
      <4> QED
        BY <4>1, <4>2 DEF StillPast
    <3> QED
      BY <2>8, <3>1, <3>2 DEF StillPast, Leads
  <2>9. CASE StillGood(s, n + 1, k, G)
    <3>1. ASSUME NEW j \in 1..(n + 1), Asked(s, j, k), \A i \in (j + 1)..(n + 1) : s[i].op \notin Moving
          PROVE  StillGood(t, n, k, G2)
      <4>1. CASE j = 1
        <5>1. k \in G2 /\ \A i \in 1..n : t[i].op \notin Moving
          BY <2>2, <2>5, <3>1, <4>1 DEF Asked
        <5> QED
          BY <5>1 DEF StillGood
      <4>2. CASE j \in 2..(n + 1)
        <5>1. /\ j - 1 \in 1..n /\ t[j - 1] = s[j]
              /\ \A i \in ((j - 1) + 1)..n : t[i].op \notin Moving
          BY <2>1, <2>4, <3>1, <4>2
        <5>2. Asked(t, j - 1, k)
          BY <3>1, <5>1 DEF Asked
        <5> QED
          BY <5>1, <5>2 DEF StillGood
      <4> QED
        BY <2>3, <4>1, <4>2
    <3>2. ASSUME k \in G, \A i \in 1..(n + 1) : s[i].op \notin Moving
          PROVE  StillGood(t, n, k, G2)
      <4>1. k \in G2
        BY <2>6, <3>2
      <4>2. \A i \in 1..n : t[i].op \notin Moving
        BY <2>2, <3>2
      <4> QED
        BY <4>1, <4>2 DEF StillGood
    <3> QED
      BY <2>9, <3>1, <3>2 DEF StillGood, Leads
  <2> QED
    BY <1>2, <2>7, <2>8, <2>9 DEF Leads
<1>3. ASSUME NEW i \in 1..Len(t), NEW k \in Needs(c, cl, t[i])
      PROVE  Leads(t, i - 1, k, G2, D2)
  <2>1. /\ i - 1 \in Nat /\ i - 1 <= m /\ (i - 1) + 1 = i
        /\ i + 1 \in 1..Len(s) /\ (i + 1) - 1 = i /\ t[i] = s[i + 1]
    BY <1>1 DEF m
  <2>2. Leads(s, i, k, G, D)
    BY <1>3, <2>1 DEF Sound
  <2> QED
    BY <1>2, <2>1, <2>2
<1>4. Sound(c, cl, t, G2, D2)
  BY <1>3 DEF Sound
<1> QED
  BY <1>4 DEF t

\* More good pointers do no harm.
LEMMA SoundMore ==
  ASSUME NEW c, NEW cl, NEW s, NEW G, NEW D, Sound(c, cl, s, G, D), NEW G2, NEW D2,
         G \subseteq G2, D \subseteq D2
  PROVE  Sound(c, cl, s, G2, D2)
BY DEF Sound, Leads, StillPast, StillGood

\* While the tables are walked, nothing is needed.
LEMMA SoundWalk ==
  ASSUME NEW c, NEW cl, NEW S, NEW s \in Seq(S), s[1].op = "map_pages", NEW G, NEW D
  PROVE  Sound(c, cl, s, G, D)
<1>1. ASSUME NEW i \in 1..Len(s), NEW k \in Needs(c, cl, s[i])
      PROVE  Leads(s, i - 1, k, G, D)
  <2>1. i # 1
    BY <1>1 DEF Needs
  <2>2. 1 \in 1..(i - 1)
    BY <2>1, LenProperties
  <2>3. JumpIn(s, i - 1)
    BY <2>2 DEF JumpIn, Diverts
  <2> QED
    BY <2>3 DEF Leads
<1> QED
  BY <1>1 DEF Sound

-----------------------------------------------------------------------------
(* A call takes a step. *)

\* What a step does to the window and to the pointer it names.
Held == UNCHANGED <<window, ptr, saved>>
Effect(p) ==
  \/ Cur(p).op \notin {"addr", "bypass", "save", "restore"} /\ Held
  \/ /\ Cur(p).op = "addr" /\ UNCHANGED saved
     /\ \E v \in {window', Bad} : Point(Owner(p), Cur(p).k, v)
  \/ Cur(p).op = "bypass" /\ UNCHANGED <<window, saved>> /\ Point(Owner(p), Cur(p).k, Direct)
  \/ Cur(p).op = "save" /\ UNCHANGED <<window, ptr>> /\ saved' = [saved EXCEPT ![p] = window]
  \/ Cur(p).op = "restore" /\ UNCHANGED <<ptr, saved>> /\ window' = saved[p]
Forward(p) == Cur(p).op \notin Lasts /\ Left(p)' = Tail(Left(p)) /\ Effect(p)

\* Where a step leads that does not let the next one follow.
GoesTo(p, label) ==
  \/ Cur(p).op \in {"reg", "addr", "go"} /\ Cur(p).fail = label
  \/ /\ call[p] = "read"
     /\ \/ Cur(p).op = "seq_start" /\ (label = "runlist" \/ (label = "show" /\ pos[p] > 0))
        \/ Cur(p).op = "show" /\ label \in {"shown", "channel"}
        \/ Cur(p).op = "shown" /\ label \in {"next", "begin"}
        \/ Cur(p).op = "next" /\ label \in {"show", "begin"}
Leap(p, label) == GoesTo(p, label) /\ Left(p)' = Block(gpu, call[p], label) /\ Held

PtrsTyped ==
  /\ layout = gpu.layout /\ window \in Nat /\ saved \in [Procs -> Nat]
  /\ ptr \in [Procs \cup {"iter", "exit"} -> [Names -> Int]]
  /\ moved \subseteq Actors /\ stored \subseteq Procs

LEMMA CallPoints ==
  ASSUME ExitInv, StepsInv, NEW p \in Procs, CallStep(p), ~StartCall(p), ~Return(p), Running'
  PROVE  /\ InCall(p) /\ UNCHANGED <<call, pos>> /\ walk' = walk /\ walk[p].at = "none"
         /\ \/ Forward(p)
            \/ \E label \in Labels(call[p]) : Leap(p, label)
            \/ Left(p)' = Left(p) /\ Held
<1>1. ASSUME NEW op, Doing(p, op), op \notin Lasts, Onward(p), Effect(p)
      PROVE  Forward(p)
  <2>1. Left(p)' = Tail(Left(p))
    BY <1>1, LeftAfter DEF Onward, Left
  <2> QED
    BY <1>1, <2>1 DEF Doing, Forward
<1>2. ASSUME NEW op, Doing(p, op), op \in {"reg", "addr", "go"}, Cur(p).fail # "garbage",
             Jump(p, Cur(p).fail), Held
      PROVE  \E label \in Labels(call[p]) : Leap(p, label)
  <2>1. InCall(p) /\ Cur(p).op = op
    BY <1>2 DEF Doing
  <2>2. Cur(p).fail \in Labels(call[p])
    BY <1>2, <2>1, AtStep, StepFields
  <2>3. Left(p)' = Block(gpu, call[p], Cur(p).fail)
    BY <1>2, LeftAfter DEF Jump
  <2> QED
    BY <1>2, <2>1, <2>2, <2>3 DEF Leap, GoesTo
<1>3. ASSUME NEW op \in {"reg", "go"}, Doing(p, op)
      PROVE  Cur(p).fail # "garbage"
  BY <1>3, AtStep, StepFields, NoGarbageLabel DEF Doing
<1>4. ASSUME NEW op, Doing(p, op)
      PROVE  InCall(p) /\ walk[p].at = "none" /\ Cur(p).op = op
  BY <1>4 DEF Doing
<1>5. CASE ReadRegister(p)
  <2>1. /\ Doing(p, "reg") /\ Held /\ UNCHANGED <<call, pos, walk>>
        /\ Onward(p) \/ Jump(p, Cur(p).fail)
    BY <1>5 DEF ReadRegister, KeepMemory, KeepCall, windowVars, fileVars, Held
  <2>2. Cur(p).op = "reg" /\ Effect(p)
    BY <1>4, <2>1 DEF Effect
  <2> QED
    BY <1>1, <1>2, <1>3, <1>4, <2>1, <2>2 DEF Lasts
<1>6. CASE LookAtWindow(p)
  <2>1. Doing(p, "addr") /\ UNCHANGED <<call, saved, pos, walk>>
    BY <1>6 DEF LookAtWindow, KeepCall, fileVars
  <2>2. CASE InWindow(Owner(p), Cur(p).k, Cur(p).obj) /\ Onward(p)
    <3>1. Effect(p)
      BY <1>4, <2>1, <2>2 DEF InWindow, Effect
    <3> QED
      BY <1>1, <1>4, <2>1, <2>2, <3>1 DEF Lasts
  <2>3. CASE pc' = [pc EXCEPT ![p].move = TRUE] /\ UNCHANGED windowVars
    <3>1. Left(p)' = Left(p)
      BY <2>3 DEF StepsInv, Left
    <3> QED
      BY <1>4, <2>1, <2>3, <3>1 DEF Held, windowVars
  <2>4. CASE Cur(p).fail = "garbage" /\ Onward(p) /\ Point(Owner(p), Cur(p).k, Bad)
    <3>1. Effect(p)
      BY <1>4, <2>1, <2>4 DEF Effect
    <3> QED
      BY <1>1, <1>4, <2>1, <2>4, <3>1 DEF Lasts
  <2>5. CASE Cur(p).fail # "garbage" /\ Jump(p, Cur(p).fail) /\ UNCHANGED <<ptr, window>>
    BY <1>2, <1>4, <2>1, <2>5 DEF Held
  <2> QED
    BY <1>6, <2>2, <2>3, <2>4, <2>5 DEF LookAtWindow
<1>7. CASE MoveWindow(p)
  <2>1. /\ Doing(p, "addr") /\ Onward(p) /\ UNCHANGED <<call, saved, pos, walk>>
        /\ Point(Owner(p), Cur(p).k, window')
    BY <1>7 DEF MoveWindow, KeepCall, fileVars, Relocate, Point
  <2>2. Effect(p)
    BY <1>4, <2>1 DEF Effect
  <2> QED
    BY <1>1, <1>4, <2>1, <2>2 DEF Lasts
<1>8. CASE UsePointer(p)
  <2>1. /\ Doing(p, "use") /\ Held /\ UNCHANGED <<call, pos, walk>> /\ Onward(p)
    BY <1>8 DEF UsePointer, KeepMemory, KeepCall, windowVars, fileVars, Held
  <2>2. Effect(p)
    BY <1>4, <2>1 DEF Effect
  <2> QED
    BY <1>1, <1>4, <2>1, <2>2 DEF Lasts
<1>9. ~GoAstray(p)
  BY DEF GoAstray, Running, NoAccess, InCall
<1>10. CASE LocalStep(p)
  <2>1. UNCHANGED <<call, pos, walk>>
    BY <1>10 DEF LocalStep, fileVars
  <2>2. CASE Doing(p, "bypass") /\ Onward(p) /\ Point(Owner(p), Cur(p).k, Direct)
             /\ UNCHANGED <<window, saved>>
    <3>1. Effect(p)
      BY <1>4, <2>2 DEF Effect
    <3> QED
      BY <1>1, <1>4, <2>1, <2>2, <3>1 DEF Lasts
  <2>3. CASE Doing(p, "go") /\ Jump(p, Cur(p).fail) /\ Held
    BY <1>2, <1>3, <1>4, <2>1, <2>3
  <2>4. CASE Doing(p, "save") /\ Onward(p) /\ saved' = [saved EXCEPT ![p] = window]
             /\ UNCHANGED <<window, ptr>>
    <3>1. Effect(p)
      BY <1>4, <2>4 DEF Effect
    <3> QED
      BY <1>1, <1>4, <2>1, <2>4, <3>1 DEF Lasts
  <2>5. CASE Doing(p, "restore") /\ Onward(p) /\ window' = saved[p] /\ UNCHANGED <<ptr, saved>>
    <3>1. Effect(p)
      BY <1>4, <2>5 DEF Effect
    <3> QED
      BY <1>1, <1>4, <2>1, <2>5, <3>1 DEF Lasts
  <2>6. ASSUME NEW op \in {"set_mode", "set_timeout"}, Doing(p, op), Onward(p), Held
        PROVE  Forward(p)
    <3>1. Effect(p)
      BY <1>4, <2>6 DEF Effect
    <3> QED
      BY <1>1, <2>6, <3>1 DEF Lasts
  <2> QED
    BY <1>4, <1>10, <2>1, <2>2, <2>3, <2>4, <2>5, <2>6 DEF LocalStep, windowVars, Held
<1> QED
  BY <1>5, <1>6, <1>7, <1>8, <1>9, <1>10 DEF CallStep

LEMMA ReadPoints ==
  ASSUME ExitInv, StepsInv, "readers" \notin seen, NEW p \in Procs, ReadStep(p), Running', InCall(p)'
  PROVE  /\ InCall(p) /\ call' = call /\ walk' = walk /\ walk[p].at = "none"
         /\ \/ Forward(p)
            \/ \E label \in Labels(call[p]) : Leap(p, label)
<1>1. ASSUME NEW r, Finish(p, r)
      PROVE  FALSE
  BY <1>1 DEF Finish, InCall, ExitInv, CallInv
<1>2. UNCHANGED <<walk, window, ptr>> /\ InCall(p) /\ walk[p].at = "none"
  <2>1. CASE Iterate(p)
    BY <2>1 DEF Iterate, Doing, KeepMemory, windowVars
  <2>2. CASE SeqStart(p) \/ SeqEmpty(p)
    BY <2>2 DEF SeqStart, SeqEmpty, FoundEmpty, Doing, KeepMemory, windowVars
  <2>3. CASE SeqShow(p) \/ Shown(p) \/ SeqAdvance(p)
    BY <2>3 DEF SeqShow, Shown, SeqAdvance, Doing, KeepMemory, windowVars
  <2> QED
    BY <2>1, <2>2, <2>3 DEF ReadStep
<1>3. CASE Iterate(p)
  <2>1. /\ UNCHANGED <<call, saved>> /\ Onward(p) /\ Cur(p).op \in {"clear_iter", "set_iter"}
    BY <1>3 DEF Iterate, Doing, KeepCall
  <2>2. Left(p)' = Tail(Left(p))
    BY <2>1, LeftAfter DEF Onward, Left
  <2>3. Effect(p)
    BY <1>2, <2>1 DEF Effect, Held
  <2> QED
    BY <1>2, <2>1, <2>2, <2>3 DEF Forward, Lasts
<1>4. ASSUME NEW label \in {"runlist", "show", "shown", "channel", "next", "begin"},
             Jump(p, label), UNCHANGED <<call, saved>>, call[p] = "read", GoesTo(p, label)
      PROVE  call' = call /\ \E l \in Labels(call[p]) : Leap(p, l)
  <2>1. label \in Labels(call[p])
    BY <1>4, ReadOps
  <2>2. Left(p)' = Block(gpu, call[p], label)
    BY <1>4, LeftAfter DEF Jump
  <2> QED
    BY <1>2, <1>4, <2>1, <2>2 DEF Leap, Held
<1>5. CASE SeqStart(p) \/ SeqShow(p) \/ Shown(p) \/ SeqAdvance(p)
  <2>1. Cur(p).op \in {"seq_start", "show", "shown", "next"}
    BY <1>5 DEF SeqStart, SeqShow, Shown, SeqAdvance, Doing
  <2>2. call[p] = "read"
    BY <1>2, <2>1, AtStep, OpsOfCalls
  <2>3. CASE SeqStart(p)
    <3>1. /\ Cur(p).op = "seq_start"
          /\ \E label \in {"runlist", "show"} :
               Jump(p, label) /\ UNCHANGED <<call, saved>> /\ (label = "show" => pos[p] > 0)
      BY <1>1, <2>3 DEF SeqStart, Doing
    <3> QED
      BY <1>2, <1>4, <2>2, <3>1 DEF GoesTo
  <2>4. CASE SeqShow(p)
    <3>1. /\ Cur(p).op = "show" /\ UNCHANGED <<call, saved>>
          /\ Jump(p, "shown") \/ Jump(p, "channel")
      BY <2>4 DEF SeqShow, Doing, KeepCall, Running, NoAccess
    <3> QED
      BY <1>2, <1>4, <2>2, <3>1 DEF GoesTo
  <2>5. CASE Shown(p)
    <3>1. /\ Cur(p).op = "shown" /\ UNCHANGED <<call, saved>>
          /\ Jump(p, "next") \/ Jump(p, "begin")
      BY <2>5 DEF Shown, Doing, KeepCall
    <3> QED
      BY <1>2, <1>4, <2>2, <3>1 DEF GoesTo
  <2>6. CASE SeqAdvance(p)
    <3>1. /\ Cur(p).op = "next" /\ UNCHANGED <<call, saved>>
          /\ Jump(p, "show") \/ Jump(p, "begin")
      BY <2>6 DEF SeqAdvance, Doing, KeepCall
    <3> QED
      BY <1>2, <1>4, <2>2, <3>1 DEF GoesTo
  <2> QED
    BY <1>2, <1>5, <2>3, <2>4, <2>5, <2>6
<1>6. ~SeqEmpty(p)
  BY <1>1 DEF SeqEmpty
<1> QED
  BY <1>2, <1>3, <1>5, <1>6 DEF ReadStep

\* The step a call is at names a pointer that is there.
LEMMA NamedPointer ==
  ASSUME ExitInv, StepsInv, NEW p \in Procs, InCall(p), Proper(Cur(p)),
         Cur(p).op \in {"addr", "bypass"}
  PROVE  Cur(p).k \in Names
<1>1. Cur(p) \in StepsOf(call[p])
  BY AtStep
<1>2. Cur(p).k \in Names \cup {""}
  BY <1>1 DEF StepsOf, Plain, Garbage, Jumping, StepOf, Names
<1> QED
  BY <1>2 DEF Proper

LEMMA PtrAfter ==
  ASSUME PtrsTyped, NEW p \in Procs, call' = call, NEW k \in Names, k = Cur(p).k, NEW v,
         Point(Owner(p), Cur(p).k, v)
  PROVE  Ptr(p, k)' = v /\ \A j \in Names \ {k} : Ptr(p, j)' = Ptr(p, j)
<1>1. Owner(p) = IF k = "rl" /\ call[p] = "read" THEN "iter" ELSE p
  BY DEF Owner
<1> DEFINE o == IF k = "rl" /\ call[p] = "read" THEN "iter" ELSE p
<1>2. ptr' = [ptr EXCEPT ![o][k] = v] /\ o \in DOMAIN ptr
  BY <1>1 DEF Point, PtrsTyped
<1>3. ptr'[o][k] = v /\ \A r \in DOMAIN ptr : \A j \in Names : r # o \/ j # k => ptr'[r][j] = ptr[r][j]
  BY <1>2 DEF PtrsTyped
<1>4. Ptr(p, k)' = v
  BY <1>3 DEF Ptr
<1>5. ASSUME NEW j \in Names \ {k}
      PROVE  Ptr(p, j)' = Ptr(p, j)
  <2>1. (IF j = "rl" /\ call[p] = "read" THEN "iter" ELSE p) \in DOMAIN ptr
    BY DEF PtrsTyped
  <2> HIDE DEF o
  <2> QED
    BY <1>3, <2>1 DEF Ptr
<1> QED
  BY <1>4, <1>5

LEMMA PtrsHeld ==
  ASSUME NEW p \in Procs, call' = call, UNCHANGED ptr
  PROVE  /\ \A k \in Names : Ptr(p, k)' = Ptr(p, k)
         /\ PastPtrs(p)' = PastPtrs(p)
         /\ window' = window => GoodPtrs(p)' = GoodPtrs(p)
BY DEF Ptr, GoodPtrs, PastPtrs

LEMMA PastIsGood ==
  ASSUME NEW p \in Procs
  PROVE  PastPtrs(p) \subseteq GoodPtrs(p)
BY DEF PastPtrs, GoodPtrs

\* The pointers after a step that is followed by the next.
LEMMA ForwardPtrs ==
  ASSUME ExitInv, StepsInv, PtrsTyped, NEW p \in Procs, InCall(p), call' = call, Proper(Cur(p)), Effect(p)
  PROVE  /\ \A k \in PastPtrs(p) : (Cur(p).op = "addr" /\ Cur(p).k = k) \/ k \in PastPtrs(p)'
         /\ Cur(p).op = "bypass" => Cur(p).k \in PastPtrs(p)'
         /\ Cur(p).op = "addr" => Cur(p).k \in GoodPtrs(p)'
         /\ Cur(p).op \notin Moving => GoodPtrs(p) \subseteq GoodPtrs(p)'
<1> DEFINE n == Cur(p).k
           G2 == GoodPtrs(p)'
           D2 == PastPtrs(p)'
<1>1. /\ D2 = {k \in Names : Ptr(p, k)' = Direct}
      /\ G2 = {k \in Names : Ptr(p, k)' \in {Direct, Bad, window'}}
  BY DEF PastPtrs, GoodPtrs, Direct, Bad
<1>2. CASE Cur(p).op \notin {"addr", "bypass"}
  <2>1. UNCHANGED ptr /\ (Cur(p).op \notin Moving => window' = window)
    BY <1>2 DEF Effect, Moving, Held
  <2> QED
    BY <1>2, <2>1, PtrsHeld
<1>3. CASE Cur(p).op = "addr"
  <2>1. PICK v \in {window', Bad} : Point(Owner(p), n, v)
    BY <1>3 DEF Effect
  <2>2. PICK k \in Names : k = n
    BY <1>3, NamedPointer
  <2>3. Ptr(p, k)' = v /\ \A j \in Names \ {k} : Ptr(p, j)' = Ptr(p, j)
    BY <2>1, <2>2, PtrAfter
  <2>4. \A j \in PastPtrs(p) : n = j \/ j \in D2
    BY <1>1, <2>2, <2>3 DEF PastPtrs
  <2>5. n \in G2
    BY <1>1, <2>1, <2>2, <2>3
  <2> QED
    BY <1>3, <2>4, <2>5 DEF Moving
<1>4. CASE Cur(p).op = "bypass"
  <2>1. Point(Owner(p), n, Direct) /\ window' = window
    BY <1>4 DEF Effect
  <2>2. PICK k \in Names : k = n
    BY <1>4, NamedPointer
  <2>3. Ptr(p, k)' = Direct /\ \A j \in Names \ {k} : Ptr(p, j)' = Ptr(p, j)
    BY <2>1, <2>2, PtrAfter
  <2>4. n \in D2 /\ PastPtrs(p) \subseteq D2
    BY <1>1, <2>2, <2>3 DEF PastPtrs
  <2>5. GoodPtrs(p) \subseteq G2
    BY <1>1, <2>1, <2>2, <2>3 DEF GoodPtrs
  <2> QED
    BY <1>4, <2>4, <2>5
<1> QED
  BY <1>2, <1>3, <1>4

LEMMA ForwardSound ==
  ASSUME ExitInv, StepsInv, PtrsTyped, NEW p \in Procs, InCall(p), call' = call, Proper(Cur(p)),
         Forward(p), Sound(gpu, call[p], Left(p), GoodPtrs(p), PastPtrs(p))
  PROVE  Sound(gpu, call[p], Tail(Left(p)), GoodPtrs(p)', PastPtrs(p)')
<1> DEFINE s == Left(p)
           G2 == GoodPtrs(p)'
           D2 == PastPtrs(p)'
<1>1. Cur(p) = s[1] /\ s \in Seq(StepsOf(call[p])) /\ s # <<>> /\ s[1].op \notin Diverts
  BY AtStep DEF Closed, Forward, Lasts, Diverts
<1>2. /\ \A k \in PastPtrs(p) : Asked(s, 1, k) \/ k \in D2
      /\ s[1].op = "bypass" => s[1].k \in D2
      /\ s[1].op = "addr" => s[1].k \in G2
      /\ s[1].op \notin Moving => GoodPtrs(p) \subseteq G2
  BY <1>1, ForwardPtrs DEF Asked, Forward
<1> HIDE DEF s, G2, D2
<1>3. Sound(gpu, call[p], Tail(s), G2, D2)
  <2>1. Sound(gpu, call[p], s, GoodPtrs(p), PastPtrs(p))
    BY DEF s
  <2> QED
    BY <1>1, <1>2, <2>1, SoundTail
<1> QED
  BY <1>3 DEF s, G2, D2

\* The runlist's pointer is good when a reader comes to show it.
LEMMA LeapSound ==
  ASSUME ExitInv, StepsInv, NEW p \in Procs, InCall(p), call' = call,
         NEW label \in Labels(call[p]), Leap(p, label),
         Sound(gpu, call[p], Left(p), GoodPtrs(p), PastPtrs(p)),
         call[p] = "read" /\ ~(gpu.chip < Pascal) /\ (Cur(p).op = "next" \/ (Cur(p).op = "seq_start" /\ pos[p] > 0))
           => "rl" \in GoodPtrs(p)
  PROVE  Sound(gpu, call[p], Block(gpu, call[p], label), GoodPtrs(p)', PastPtrs(p)')
<1> DEFINE s == Left(p)
           c == call[p]
<1>1. c \in Files /\ Cur(p) = s[1] /\ s \in Seq(StepsOf(c)) /\ s # <<>>
  BY AtStep DEF Closed
<1>2. GoodPtrs(p)' = GoodPtrs(p) /\ PastPtrs(p)' = PastPtrs(p) /\ PastPtrs(p) \subseteq GoodPtrs(p)
  BY PtrsHeld, PastIsGood DEF Leap, Held
<1>3. AtEntry(gpu, c, label) \subseteq GoodPtrs(p)
  <2>1. CASE Cur(p).op \in {"reg", "addr", "go"} /\ Cur(p).fail = label
    <3>1. Needs(gpu, c, s[1]) = AtEntry(gpu, c, label)
      BY <1>1, <2>1 DEF Needs
    <3>2. Needs(gpu, c, s[1]) \subseteq GoodPtrs(p) \cup PastPtrs(p)
      BY <1>1, SoundHead
    <3> QED
      BY <1>2, <3>1, <3>2
  <2>2. CASE c = "read" /\ label \in {"runlist", "shown", "channel", "next", "begin"}
    BY <2>2, EntryFacts
  <2>3. CASE c = "read" /\ label = "show" /\ Cur(p).op \in {"seq_start", "next"}
    <3>1. CASE gpu.chip < Pascal
      BY <2>3, <3>1, EntryFacts DEF Excused
    <3>2. CASE ~(gpu.chip < Pascal)
      BY <2>3, <3>2, EntryFacts DEF Leap, GoesTo
    <3> QED
      BY <3>1, <3>2
  <2> QED
    BY <2>1, <2>2, <2>3 DEF Leap, GoesTo
<1>4. Sound(gpu, c, Block(gpu, c, label), AtEntry(gpu, c, label), {})
  BY <1>1, BlocksSupported
<1>5. Sound(gpu, c, Block(gpu, c, label), GoodPtrs(p), PastPtrs(p))
  BY <1>3, <1>4, SoundMore
<1> QED
  BY <1>2, <1>5

-----------------------------------------------------------------------------
(* The pointer of a reader to the runlist. *)

\* Looking at a channel between the window's being saved and put back.
LEMMA AfterSaveSteps ==
  /\ Use("pd") \in AfterSave /\ Use("inst") \in AfterSave /\ Use("ctxsw") \in AfterSave
  /\ Go("restore") \in AfterSave
  /\ \A k \in Names \ {"rl"}, obj \in Objects :
       Addr(k, obj, "restore") \in AfterSave /\ AddrOrGarbage(k, obj) \in AfterSave
<1>1. ASSUME NEW k \in {"pd", "inst", "ctxsw"}
      PROVE  Use(k) \in AfterSave
  BY <1>1 DEF AfterSave, Use, Step, Plain, StepOf
<1>2. Go("restore") \in Jumping({"restore"}) /\ Go("restore").k = ""
  BY DEF Go, Step, Jumping, StepOf
<1>3. ASSUME NEW k \in Names \ {"rl"}, NEW obj \in Objects
      PROVE  Addr(k, obj, "restore") \in AfterSave /\ AddrOrGarbage(k, obj) \in AfterSave
  <2>1. Addr(k, obj, "restore") \in Jumping({"restore"}) /\ Addr(k, obj, "restore").k # "rl"
    BY DEF Addr, Step, Jumping, StepOf, Names, Objects
  <2>2. AddrOrGarbage(k, obj) \in Garbage /\ AddrOrGarbage(k, obj).k # "rl"
    BY DEF AddrOrGarbage, Step, Garbage, StepOf, Names, Objects
  <2> QED
    BY <2>1, <2>2 DEF AfterSave
<1> QED
  BY <1>1, <1>2, <1>3 DEF AfterSave

LEMMA CtxswAfterSave ==
  ASSUME NEW c
  PROVE  get_ctxsw(c, "restore", "restore") \in Seq(AfterSave)
<1> DEFINE S == AfterSave
           T == TranslateAddress(c, "restore")
           second == <<Use("ctxsw"), Use("inst")>> \o T \o <<AddrOrGarbage("ctxsw", "ctxsw")>>
           found == (IF c.virtual THEN T ELSE <<>>) \o <<AddrOrGarbage("ctxsw", "wfi"), Use("inst")>>
           all == found \o IF c.chip < Volta THEN <<>> ELSE second
<1>1. /\ Use("pd") \in S /\ Use("inst") \in S /\ Use("ctxsw") \in S /\ Go("restore") \in S
      /\ Addr("pd", "directory", "restore") \in S /\ Addr("pd", "table", "restore") \in S
      /\ AddrOrGarbage("pd", "table") \in S /\ AddrOrGarbage("ctxsw", "wfi") \in S
      /\ AddrOrGarbage("ctxsw", "ctxsw") \in S
  BY AfterSaveSteps DEF Names, Objects
<1> HIDE DEF S
<1>2. T \in Seq(S)
  <2>1. translate_page_directory("restore") \in Seq(S)
    BY <1>1, SeqFacts DEF translate_page_directory
  <2>2. translate_v1_page_directory("restore") \in Seq(S)
    BY <1>1, SeqFacts DEF translate_v1_page_directory
  <2> QED
    BY <2>1, <2>2 DEF TranslateAddress
<1> HIDE DEF T
<1>3. second \in Seq(S)
  BY <1>1, <1>2, SeqFacts
<1>4. found \in Seq(S)
  BY <1>1, <1>2, SeqFacts
<1> HIDE DEF second, found
<1>5. all \in Seq(S)
  BY <1>3, <1>4, SeqFacts
<1>6. get_ctxsw(c, "restore", "restore") = <<Use("inst")>> \o IF ~c.wfi THEN <<Go("restore")>> ELSE all
  BY DEF get_ctxsw, all, found, second, T
<1> HIDE DEF all
<1>7. get_ctxsw(c, "restore", "restore") \in Seq(S)
  <2>1. (IF ~c.wfi THEN <<Go("restore")>> ELSE all) \in Seq(S) /\ <<Use("inst")>> \in Seq(S)
    BY <1>1, <1>5, SeqFacts
  <2> QED
    BY <1>6, <2>1, SeqFacts, SMTT(30)
<1> QED
  BY <1>7 DEF S

LEMMA TailJoined ==
  ASSUME NEW S, NEW a \in S, NEW t \in Seq(S)
  PROVE  /\ <<a>> \o t \in Seq(S) /\ <<a>> \o t # <<>> /\ (<<a>> \o t)[1] = a
         /\ Tail(<<a>> \o t) = t
<1> DEFINE u == <<a>> \o t
<1>1. <<a>> \in Seq(S) /\ Len(<<a>>) = 1 /\ <<a>>[1] = a
  OBVIOUS
<1>2. /\ u \in Seq(S) /\ Len(u) = 1 + Len(t) /\ Len(t) \in Nat
      /\ u[1] = a /\ \A i \in 1..Len(t) : u[1 + i] = t[i]
  BY <1>1, ConcatProperties, LenProperties
<1> HIDE DEF u
<1>3. u # <<>>
  BY <1>2, EmptySeq
<1>4. Tail(u) \in Seq(S) /\ Len(Tail(u)) = Len(u) - 1 /\ \A i \in 1..(Len(u) - 1) : Tail(u)[i] = u[i + 1]
  BY <1>2, <1>3, SeqFacts
<1>5. Len(Tail(u)) = Len(t) /\ \A i \in 1..Len(t) : Tail(u)[i] = t[i]
  BY <1>2, <1>4
<1>6. Tail(u) = t
  BY <1>4, <1>5, SeqEqual
<1> QED
  BY <1>2, <1>3, <1>6 DEF u

ToRestore == <<Do("restore"), Do("shown")>>

\* Where the window is put back, all that comes between is of AfterSave.
LEMMA ChannelBlock ==
  ASSUME NEW c, c.chip \in Nat, ~(c.chip < Pascal)
  PROVE  LET b == Block(c, "read", "channel") IN
         /\ b[1] = Reg("shown") /\ Tail(b)[1] = Do("save")
         /\ Ends(Tail(Tail(b)), AfterSave, ToRestore)
<1> DEFINE S == AfterSave \cup {Reg("shown"), Do("save"), Do("restore"), Do("shown")}
           a == Reg("shown")
           v == Do("save")
           e == AddrOrGarbage("inst", "instance")
           f == Use("inst")
           x == Use("ctxsw")
           r == Do("restore")
           h == Do("shown")
           X == get_ctxsw(c, "restore", "restore")
           Y == X \o <<x>>
           body == <<e, f>> \o (Y \o <<x>>)
           b == Block(c, "read", "channel")
<1>1. e \in AfterSave /\ f \in AfterSave /\ x \in AfterSave
  BY AfterSaveSteps DEF Names, Objects
<1>2. X \in Seq(AfterSave)
  BY CtxswAfterSave
<1>3. ~(c.chip < Maxwell)
  BY DEF Maxwell, Pascal
<1>4. b = (<<a, v, e, f>> \o (Y \o <<x, r>>)) \o <<h>>
  BY <1>3 DEF Block, runlist_detail_seq_show
<1>5. ToRestore = <<r, h>>
  BY DEF ToRestore
<1>6. a \in S /\ v \in S /\ r \in S /\ h \in S /\ e \in S /\ f \in S /\ x \in S /\ AfterSave \subseteq S
  BY <1>1
<1> HIDE DEF S, a, v, e, f, x, r, h, X, b
<1>7. <<x>> \in Seq(AfterSave) /\ <<e, f>> \in Seq(AfterSave)
  BY <1>1, SeqFacts
<1>8. Y \in Seq(AfterSave)
  BY <1>2, <1>7, SeqFacts
<1> HIDE DEF Y
<1>9. body \in Seq(AfterSave)
  BY <1>7, <1>8, SeqFacts
<1>10. /\ X \in Seq(S) /\ Y \in Seq(S) /\ body \in Seq(S) /\ <<x>> \in Seq(S) /\ <<e, f>> \in Seq(S)
       /\ <<a>> \in Seq(S) /\ <<v>> \in Seq(S) /\ <<r>> \in Seq(S) /\ <<h>> \in Seq(S)
       /\ <<x, r>> \in Seq(S) /\ <<r, h>> \in Seq(S) /\ <<a, v, e, f>> \in Seq(S)
  BY <1>2, <1>6, <1>7, <1>8, <1>9, SeqWider, SeqFacts
<1>11. (Y \o <<x, r>>) \o <<h>> = (Y \o <<x>>) \o <<r, h>>
  <2>1. <<x, r>> = <<x>> \o <<r>> /\ <<r, h>> = <<r>> \o <<h>>
    BY <1>6, JoinFacts, ZenonT(60)
  <2>2. Y \o (<<x>> \o <<r>>) = (Y \o <<x>>) \o <<r>>
    BY <1>10, JoinFacts
  <2>3. Y \o <<x>> \in Seq(S)
    BY <1>10, SeqFacts
  <2>4. ((Y \o <<x>>) \o <<r>>) \o <<h>> = (Y \o <<x>>) \o (<<r>> \o <<h>>)
    BY <1>10, <2>3, JoinFacts
  <2> QED
    BY <2>1, <2>2, <2>4
<1>12. <<a, v, e, f>> = <<a>> \o (<<v>> \o <<e, f>>)
  <2>1. <<v>> \o <<e, f>> = <<v, e, f>> /\ <<v, e, f>> \in Seq(S)
    <3>1. <<v>> \o <<e, f>> = <<v, e, f>>
      BY <1>6, JoinFacts, SMTT(30)
    <3>2. <<v, e, f>> \in Seq(S)
      BY <1>6, SeqFacts
    <3> QED
      BY <3>1, <3>2
  <2>2. Len(<<a, v, e, f>>) = Len(<<v, e, f>>) + 1 /\ <<a, v, e, f>>[1] = a
    OBVIOUS
  <2>3. \A i \in 1..Len(<<v, e, f>>) : <<a, v, e, f>>[i + 1] = <<v, e, f>>[i]
    OBVIOUS
  <2>4. <<a, v, e, f>> = <<a>> \o <<v, e, f>>
    BY <1>6, <1>10, <2>1, <2>2, <2>3, TupleFirst
  <2> QED
    BY <2>1, <2>4
<1> DEFINE rest == body \o <<r, h>>
<1>13. rest \in Seq(S)
  BY <1>10, SeqFacts
<1>14. b = <<a>> \o (<<v>> \o rest)
  <2> DEFINE z == Y \o <<x>>
             w == <<v>> \o <<e, f>>
  <2>1. Y \o <<x, r>> \in Seq(S) /\ z \in Seq(S) /\ w \in Seq(S)
    BY <1>10, SeqFacts
  <2>2. b = <<a, v, e, f>> \o ((Y \o <<x, r>>) \o <<h>>)
    BY <1>4, <1>10, <2>1, JoinFacts
  <2>3. b = (<<a>> \o w) \o (z \o <<r, h>>)
    BY <1>11, <1>12, <2>2
  <2>4. rest = <<e, f>> \o (z \o <<r, h>>)
    BY <1>10, <2>1, JoinFacts
  <2> HIDE DEF z
  <2>5. z \o <<r, h>> \in Seq(S)
    BY <1>10, <2>1, SeqFacts
  <2>6. b = <<a>> \o (w \o (z \o <<r, h>>))
    BY <1>10, <2>1, <2>3, <2>5, JoinFacts, SMTT(30)
  <2>7. w \o (z \o <<r, h>>) = <<v>> \o (<<e, f>> \o (z \o <<r, h>>))
    BY <1>10, <2>5, JoinFacts, SMTT(30)
  <2> QED
    BY <2>4, <2>6, <2>7
<1>15. Ends(rest, AfterSave, <<r, h>>)
  BY <1>9, <1>10, EndsJoined
<1> HIDE DEF rest
<1>16. <<v>> \o rest \in Seq(S) /\ (<<v>> \o rest)[1] = v /\ Tail(<<v>> \o rest) = rest
  BY <1>6, <1>13, TailJoined
<1>17. b[1] = a /\ Tail(b) = <<v>> \o rest
  BY <1>6, <1>14, <1>16, TailJoined
<1> QED
  BY <1>5, <1>15, <1>16, <1>17 DEF a, v, b

\* Where a reader is whose pointer to the runlist stays good, by its next step.
Printed(s) == Ends(s, AfterSave, ToRestore)
RlPlace(p) ==
  \/ Cur(p).op = "seq_start" /\ (pos[p] > 0 => "rl" \in GoodPtrs(p))
  \/ Cur(p) \in Searching /\ Ends(Tail(Left(p)), Searching, ToShow)
  \/ Cur(p).op = "set_iter" /\ Tail(Left(p)) = <<Go("show")>>
  \/ /\ "rl" \in GoodPtrs(p)
     /\ \/ Cur(p) = Go("show")
        \/ Cur(p).op = "use" /\ Tail(Left(p)) = <<Do("show")>>
        \/ Cur(p).op \in {"show", "shown", "next"}
        \/ Cur(p) = Reg("shown") /\ Tail(Left(p)) = Tail(Block(gpu, "read", "channel"))
        \/ Cur(p).op = "save" /\ Printed(Tail(Left(p)))
  \/ /\ RlSaved(p)
     /\ \/ Cur(p) \in AfterSave /\ Printed(Tail(Left(p)))
        \/ Cur(p).op = "restore" /\ Tail(Left(p)) = <<Do("shown")>>
  \/ Cur(p).op = "return_error"

LEMMA RlPlaces ==
  ASSUME ExitInv, StepsInv, NEW p \in Procs, InCall(p), gpu.chip \in Nat, ~(gpu.chip < Pascal), RlAt(p)
  PROVE  RlPlace(p)
<1>1. Cur(p) = Left(p)[1] /\ Left(p) \in Seq(StepsOf(call[p])) /\ Left(p) # <<>>
  BY AtStep DEF Closed
<1>2. /\ \A a : <<a>>[1] = a
      /\ \A a, b : <<a, b>>[1] = a /\ Tail(<<a, b>>) = <<b>>
  OBVIOUS
<1>3. Use("rl").op = "use" /\ \A op : Do(op).op = op
  BY DEF Use, Do, Step
<1>4. /\ ToShow \in Seq({Do("set_iter"), Go("show")})
      /\ ToRestore \in Seq({Do("restore"), Do("shown")})
  BY DEF ToShow, ToRestore
<1>5. CASE Ends(Left(p), Searching, ToShow)
  <2>1. Left(p) = ToShow \/ (Left(p)[1] \in Searching /\ Ends(Tail(Left(p)), Searching, ToShow))
    BY <1>1, <1>4, <1>5, EndsFirst
  <2>2. ToShow[1].op = "set_iter" /\ Tail(ToShow) = <<Go("show")>>
    BY <1>2, <1>3 DEF ToShow
  <2> QED
    BY <1>1, <2>1, <2>2 DEF RlPlace
<1>6. CASE Ends(Left(p), AfterSave, ToRestore) /\ RlSaved(p)
  <2>1. Left(p) = ToRestore \/ (Left(p)[1] \in AfterSave /\ Ends(Tail(Left(p)), AfterSave, ToRestore))
    BY <1>1, <1>4, <1>6, EndsFirst
  <2>2. ToRestore[1].op = "restore" /\ Tail(ToRestore) = <<Do("shown")>>
    BY <1>2, <1>3 DEF ToRestore
  <2> QED
    BY <1>1, <1>6, <2>1, <2>2 DEF RlPlace, Printed
<1>7. CASE "rl" \in GoodPtrs(p) /\ Left(p) \in RlKept
  <2>1. CASE Left(p) \in ToPrint
    <3>1. CASE Left(p) = <<Go("show")>>
      BY <1>1, <1>2, <1>7, <3>1 DEF RlPlace
    <3>2. CASE Left(p) = <<Use("rl"), Do("show")>>
      BY <1>1, <1>2, <1>3, <1>7, <3>2 DEF RlPlace
    <3>3. CASE Left(p) = <<Do("show")>>
      BY <1>1, <1>2, <1>3, <1>7, <3>3 DEF RlPlace
    <3> QED
      BY <2>1, <3>1, <3>2, <3>3 DEF ToPrint
  <2>2. CASE Left(p) = <<Do("shown")>>
    BY <1>1, <1>2, <1>3, <1>7, <2>2 DEF RlPlace
  <2>3. CASE Left(p) = <<Do("next")>>
    BY <1>1, <1>2, <1>3, <1>7, <2>3 DEF RlPlace
  <2>4. CASE Left(p) = Block(gpu, "read", "channel")
    BY <1>1, <1>7, <2>4, ChannelBlock DEF RlPlace
  <2>5. CASE Left(p) = Tail(Block(gpu, "read", "channel"))
    BY <1>1, <1>3, <1>7, <2>5, ChannelBlock DEF RlPlace, Printed
  <2> QED
    BY <1>7, <2>1, <2>2, <2>3, <2>4, <2>5 DEF RlKept
<1>8. CASE Left(p) = <<Do("seq_start")>> /\ (pos[p] > 0 => "rl" \in GoodPtrs(p))
  BY <1>1, <1>2, <1>3, <1>8 DEF RlPlace
<1>9. CASE Left(p) = <<Do("return_error")>>
  BY <1>1, <1>2, <1>3, <1>9 DEF RlPlace
<1> QED
  BY <1>5, <1>6, <1>7, <1>8, <1>9 DEF RlAt, ToShow, ToRestore

\* What RlAt says of the steps that are left.
LEMMA RlAtForms ==
  ASSUME NEW p \in Procs, gpu' = gpu
  PROVE  /\ Left(p)' = <<Do("seq_start")>> /\ (pos'[p] > 0 => "rl" \in GoodPtrs(p)') => RlAt(p)'
         /\ Ends(Left(p)', Searching, ToShow) => RlAt(p)'
         /\ Left(p)' \in RlKept /\ "rl" \in GoodPtrs(p)' => RlAt(p)'
         /\ Printed(Left(p)') /\ RlSaved(p)' => RlAt(p)'
         /\ Left(p)' = <<Do("return_error")>> => RlAt(p)'
<1>1. RlKept' = RlKept
  BY DEF RlKept
<1>2. Ends(Left(p)', Searching, ToShow) => RlAt(p)'
  BY DEF RlAt, ToShow
<1>3. Printed(Left(p)') /\ RlSaved(p)' => RlAt(p)'
  BY DEF RlAt, ToRestore, Printed
<1>4. Left(p)' \in RlKept /\ "rl" \in GoodPtrs(p)' => RlAt(p)'
  BY <1>1 DEF RlAt
<1> QED
  BY <1>2, <1>3, <1>4 DEF RlAt

LEMMA AfterSaveStep ==
  ASSUME NEW step \in AfterSave
  PROVE  /\ step.op \in {"use", "reg", "addr", "go"}
         /\ step.op \in {"reg", "go"} => step.fail = "restore"
         /\ step.op = "addr" => step.fail \in {"restore", "garbage"} /\ step.k # "rl"
BY DEF AfterSave, Plain, Garbage, Jumping, StepOf

\* A reader is shown the runlist with a pointer that is good.
LEMMA ShowNeeds ==
  ASSUME NEW c, ~(c.chip < Pascal), NEW G, NEW D, Sound(c, "read", <<Go("show")>>, G, D)
  PROVE  "rl" \in G \cup D
<1>1. <<Go("show")>> \in Seq({Go("show")}) /\ <<Go("show")>> # <<>> /\ <<Go("show")>>[1] = Go("show")
  OBVIOUS
<1>2. Needs(c, "read", Go("show")) = {"rl"} \ Excused(c, "read")
  BY OpFacts, EntryFacts DEF Needs
<1>3. "rl" \notin Excused(c, "read")
  BY DEF Excused
<1> DEFINE s == <<Go("show")>>
<1>4. s \in Seq({Go("show")}) /\ s # <<>> /\ s[1] = Go("show")
  BY <1>1
<1> HIDE DEF s
<1>5. Sound(c, "read", s, G, D)
  BY DEF s
<1>6. Needs(c, "read", s[1]) \subseteq G \cup D
  BY <1>4, <1>5, SoundHead
<1> QED
  BY <1>2, <1>3, <1>4, <1>6

LEMMA RlForward ==
  ASSUME ExitInv, StepsInv, PtrsTyped, NEW p \in Procs, InCall(p), call[p] = "read", call' = call, gpu' = gpu,
         ~(gpu.chip < Pascal), Proper(Cur(p)), Forward(p), RlPlace(p),
         Sound(gpu, "read", Tail(Left(p)), GoodPtrs(p)', PastPtrs(p)')
  PROVE  RlAt(p)'
<1>1. Left(p)' = Tail(Left(p)) /\ Effect(p) /\ Cur(p).op \notin Lasts
  BY DEF Forward
<1>2. Go("show").op = "go" /\ Reg("shown").op = "reg"
  BY DEF Go, Reg, Step
<1>3. "rl" \in Names
  BY DEF Names
<1>4. CASE Ends(Tail(Left(p)), Searching, ToShow)
  BY <1>1, <1>4, RlAtForms
<1>5. CASE Cur(p).op = "set_iter" /\ Tail(Left(p)) = <<Go("show")>>
  <2>1. "rl" \in GoodPtrs(p)' \cup PastPtrs(p)'
    BY <1>5, ShowNeeds
  <2>2. PastPtrs(p)' \subseteq GoodPtrs(p)'
    BY DEF PastPtrs, GoodPtrs
  <2>3. Left(p)' \in RlKept
    BY <1>1, <1>5 DEF RlKept, ToPrint
  <2> QED
    BY <2>1, <2>2, <2>3, RlAtForms
<1>6. CASE "rl" \in GoodPtrs(p) /\ Cur(p).op \in {"use", "reg"} /\ Tail(Left(p)) \in RlKept
  <2>1. GoodPtrs(p)' = GoodPtrs(p)
    BY <1>1, <1>6, PtrsHeld DEF Effect, Held
  <2> QED
    BY <1>1, <1>6, <2>1, RlAtForms
<1>7. CASE "rl" \in GoodPtrs(p) /\ Cur(p).op = "save" /\ Printed(Tail(Left(p)))
  <2>1. UNCHANGED <<window, ptr>> /\ saved' = [saved EXCEPT ![p] = window]
    BY <1>1, <1>7 DEF Effect
  <2>2. saved'[p] = window /\ Ptr(p, "rl")' = Ptr(p, "rl")
    BY <1>3, <2>1, PtrsHeld DEF PtrsTyped
  <2>3. RlSaved(p)'
    BY <1>7, <2>2 DEF RlSaved, GoodPtrs, Direct, Bad
  <2> QED
    BY <1>1, <1>7, <2>3, RlAtForms
<1>8. CASE RlSaved(p) /\ Cur(p) \in AfterSave /\ Printed(Tail(Left(p)))
  <2>1. UNCHANGED saved
    BY <1>1, <1>8, AfterSaveStep DEF Effect, Held
  <2>2. Ptr(p, "rl")' = Ptr(p, "rl")
    <3>1. CASE Cur(p).op = "addr"
      <4>1. PICK v : Point(Owner(p), Cur(p).k, v)
        BY <1>1, <3>1 DEF Effect
      <4>2. PICK k \in Names : k = Cur(p).k
        BY <3>1, NamedPointer
      <4>3. k # "rl"
        BY <1>8, <3>1, <4>2, AfterSaveStep
      <4> QED
        BY <1>3, <4>1, <4>2, <4>3, PtrAfter
    <3>2. CASE Cur(p).op # "addr"
      <4>1. UNCHANGED ptr
        BY <1>1, <1>8, <3>2, AfterSaveStep DEF Effect, Held
      <4> QED
        BY <1>3, <4>1, PtrsHeld
    <3> QED
      BY <3>1, <3>2
  <2>3. RlSaved(p)'
    BY <1>8, <2>1, <2>2 DEF RlSaved, Direct, Bad
  <2> QED
    BY <1>1, <1>8, <2>3, RlAtForms
<1>9. CASE RlSaved(p) /\ Cur(p).op = "restore" /\ Tail(Left(p)) = <<Do("shown")>>
  <2>1. UNCHANGED ptr /\ window' = saved[p]
    BY <1>1, <1>9 DEF Effect
  <2>2. Ptr(p, "rl")' = Ptr(p, "rl")
    BY <1>3, <2>1, PtrsHeld
  <2>3. "rl" \in GoodPtrs(p)'
    BY <1>3, <1>9, <2>1, <2>2 DEF RlSaved, GoodPtrs, Direct, Bad
  <2>4. Left(p)' \in RlKept
    BY <1>1, <1>9 DEF RlKept
  <2> QED
    BY <2>3, <2>4, RlAtForms
<1>10. Cur(p).op \notin {"seq_start", "go", "show", "shown", "next", "return_error"}
  BY <1>1 DEF Lasts
<1>11. <<Do("show")>> \in RlKept /\ Tail(Block(gpu, "read", "channel")) \in RlKept
  BY DEF RlKept, ToPrint
<1> QED
  BY <1>2, <1>4, <1>5, <1>6, <1>7, <1>8, <1>9, <1>10, <1>11 DEF RlPlace

LEMMA RlLeap ==
  ASSUME ExitInv, StepsInv, NEW p \in Procs, InCall(p), call[p] = "read", call' = call, gpu' = gpu,
         NEW label \in Labels("read"), Leap(p, label), RlPlace(p)
  PROVE  RlAt(p)'
<1>1. /\ GoodPtrs(p)' = GoodPtrs(p) /\ GoesTo(p, label) /\ Left(p)' = Block(gpu, "read", label)
      /\ label # "garbage"
  BY PtrsHeld, NoGarbageLabel DEF Leap, Held, Files
<1>2. Go("show").op = "go" /\ Go("show").fail = "show" /\ Reg("shown").op = "reg" /\ Reg("shown").fail = "shown"
  BY DEF Go, Reg, Step
<1>3. CASE label = "begin" /\ "rl" \in GoodPtrs(p)
  <2>1. Left(p)' = <<Do("seq_start")>>
    BY <1>1, <1>3, ReadBlocks
  <2> QED
    BY <1>1, <1>3, <2>1, RlAtForms
<1>4. CASE label \in {"runlist", "runlist_pramin"}
  <2>1. Ends(Left(p)', Searching, ToShow)
    BY <1>1, <1>4, ReadBlocks DEF ToShow
  <2> QED
    BY <2>1, RlAtForms
<1>5. CASE label = "err"
  <2>1. Left(p)' = <<Do("return_error")>>
    BY <1>1, <1>5, ReadBlocks
  <2> QED
    BY <2>1, RlAtForms
<1>6. CASE label \in {"show", "channel", "shown", "next"} /\ "rl" \in GoodPtrs(p)
  <2>1. Left(p)' \in RlKept
    <3>1. CASE label = "show"
      BY <1>1, <3>1, ReadBlocks DEF RlKept, ToPrint
    <3>2. CASE label = "channel"
      BY <1>1, <3>2 DEF RlKept
    <3>3. CASE label = "shown"
      <4>1. Block(gpu, "read", "shown") = <<Do("shown")>>
        BY DEF Block
      <4> QED
        BY <1>1, <3>3, <4>1 DEF RlKept
    <3>4. CASE label = "next"
      BY <1>1, <3>4, ReadBlocks DEF RlKept
    <3> QED
      BY <1>6, <3>1, <3>2, <3>3, <3>4
  <2> QED
    BY <1>1, <1>6, <2>1, RlAtForms
<1>7. CASE label = "restore" /\ RlSaved(p)
  <2>1. Left(p)' = ToRestore
    BY <1>1, <1>7 DEF Block, ToRestore
  <2>2. Len(ToRestore) \in Nat
    BY DEF ToRestore
  <2>3. 1..(Len(ToRestore) - Len(ToRestore)) = {} /\ \A i \in Nat : (Len(ToRestore) - Len(ToRestore)) + i = i
    BY <2>2
  <2>4. Printed(Left(p)')
    BY <2>1, <2>2, <2>3 DEF Printed, Ends
  <2>5. RlSaved(p)'
    BY <1>7 DEF RlSaved, Leap, Held, Ptr, Direct, Bad
  <2> QED
    BY <2>4, <2>5, RlAtForms
<1>8. CASE Cur(p).op = "seq_start" /\ (pos[p] > 0 => "rl" \in GoodPtrs(p))
  BY <1>1, <1>4, <1>6, <1>8 DEF GoesTo
<1>9. CASE Cur(p) \in Searching
  <2>1. Cur(p).op \in {"reg", "addr", "go"} /\ Cur(p).fail = label
    BY <1>1, <1>9, SearchingStep DEF GoesTo
  <2>2. label \in {"err", "runlist_pramin"}
    BY <1>1, <1>9, <2>1, SearchingStep
  <2> QED
    BY <1>4, <1>5, <2>2
<1>10. CASE "rl" \in GoodPtrs(p) /\ (Cur(p) \in {Go("show"), Reg("shown")} \/ Cur(p).op \in {"show", "shown", "next"})
  BY <1>1, <1>2, <1>3, <1>6, <1>10 DEF GoesTo
<1>11. CASE RlSaved(p) /\ Cur(p) \in AfterSave
  <2>1. Cur(p).op \in {"reg", "addr", "go"} /\ Cur(p).fail = label
    BY <1>1, <1>11, AfterSaveStep DEF GoesTo
  <2>2. label = "restore"
    BY <1>1, <1>11, <2>1, AfterSaveStep
  <2> QED
    BY <1>7, <1>11, <2>2
<1>12. Cur(p).op \notin {"set_iter", "use", "save", "restore", "return_error"}
  BY <1>1 DEF GoesTo
<1> QED
  BY <1>8, <1>9, <1>10, <1>11, <1>12 DEF RlPlace

-----------------------------------------------------------------------------
(* Where the pointers of a call lead. *)

LEMMA ChipOf ==
  ASSUME ExitInv
  PROVE  gpu.chip \in Nat
BY WindowUsersAssumption DEF ExitInv, CallInv

\* A call that waits keeps its pointers as long as nobody moves the window.
LEMMA PointersStay ==
  ASSUME NEW q \in Procs, gpu' = gpu, window' = window, call'[q] = call[q], Left(q)' = Left(q),
         walk'[q] = walk[q], pos'[q] = pos[q], saved'[q] = saved[q],
         \A k \in Names : Ptr(q, k)' = Ptr(q, k), PointersAt(q)
  PROVE  PointersAt(q)'
<1>1. GoodPtrs(q)' = GoodPtrs(q) /\ PastPtrs(q)' = PastPtrs(q)
  BY DEF GoodPtrs, PastPtrs, Direct, Bad
<1>2. Sound(gpu', call'[q], Left(q)', GoodPtrs(q)', PastPtrs(q)')
  BY <1>1 DEF PointersAt
<1>3. walk'[q].at \in {"read", "pte", "alloc", "pde"} => ~Astray(q, "pd")'
  <2>1. ptr'[q]["pd"] = ptr[q]["pd"]
    BY DEF Ptr, Names
  <2> QED
    BY <2>1 DEF PointersAt, Astray, Direct
<1>4. RlAt(q) => RlAt(q)'
  <2>1. RlSaved(q)' <=> RlSaved(q)
    BY DEF RlSaved, Names, Direct, Bad
  <2>2. RlKept' = RlKept
    BY DEF RlKept
  <2> QED
    BY <1>1, <2>1, <2>2 DEF RlAt
<1>5. call'[q] = "read" /\ ~(gpu'.chip < Pascal) => RlAt(q)'
  BY <1>4 DEF PointersAt
<1> QED
  BY <1>2, <1>3, <1>5 DEF PointersAt

\* A call takes one of its own steps.
LEMMA OwnPoints ==
  ASSUME ExitInv, StepsInv, PtrsTyped, NEW p \in Procs, InCall(p), PointersAt(p), Proper(Cur(p)),
         gpu' = gpu, call' = call, walk' = walk, walk[p].at = "none",
         \/ Forward(p)
         \/ \E label \in Labels(call[p]) : Leap(p, label)
         \/ Left(p)' = Left(p) /\ Held /\ UNCHANGED pos
  PROVE  PointersAt(p)'
<1>1. call[p] = "read" /\ ~(gpu.chip < Pascal) => RlPlace(p)
  BY ChipOf, RlPlaces DEF PointersAt
<1>2. Sound(gpu, call[p], Left(p), GoodPtrs(p), PastPtrs(p))
  BY DEF PointersAt
<1>3. call[p] \in Files
  BY AtStep
<1>4. CASE Forward(p)
  <2>1. Sound(gpu, call[p], Tail(Left(p)), GoodPtrs(p)', PastPtrs(p)') /\ Left(p)' = Tail(Left(p))
    BY <1>2, <1>4, ForwardSound DEF Forward
  <2>2. call[p] = "read" /\ ~(gpu.chip < Pascal) => RlAt(p)'
    BY <1>1, <1>4, <2>1, RlForward
  <2> QED
    BY <2>1, <2>2 DEF PointersAt
<1>5. ASSUME NEW label \in Labels(call[p]), Leap(p, label)
      PROVE  PointersAt(p)'
  <2>1. call[p] = "read" /\ ~(gpu.chip < Pascal) /\ (Cur(p).op = "next" \/ (Cur(p).op = "seq_start" /\ pos[p] > 0))
           => "rl" \in GoodPtrs(p)
    <3>1. SUFFICES ASSUME RlPlace(p), Cur(p).op = "next" \/ (Cur(p).op = "seq_start" /\ pos[p] > 0)
                   PROVE  "rl" \in GoodPtrs(p)
      BY <1>1
    <3>2. Cur(p) \notin Searching /\ Cur(p) \notin AfterSave
      BY <3>1, SearchingStep, AfterSaveStep
    <3> QED
      BY <3>1, <3>2 DEF RlPlace
  <2>2. Sound(gpu, call[p], Block(gpu, call[p], label), GoodPtrs(p)', PastPtrs(p)')
        /\ Left(p)' = Block(gpu, call[p], label)
    BY <1>2, <1>5, <2>1, LeapSound DEF Leap
  <2>3. call[p] = "read" /\ ~(gpu.chip < Pascal) => RlAt(p)'
    BY <1>1, <1>5, RlLeap
  <2> QED
    BY <2>2, <2>3 DEF PointersAt
<1>6. CASE Left(p)' = Left(p) /\ Held /\ UNCHANGED pos
  <2>1. \A k \in Names : Ptr(p, k)' = Ptr(p, k)
    BY <1>6, PtrsHeld DEF Held
  <2> QED
    BY <1>6, <2>1, PointersStay DEF Held
<1> QED
  BY <1>4, <1>5, <1>6

\* A call begins without a pointer.
LEMMA StartPoints ==
  ASSUME ExitInv, StepsInv, ReadersInv, NEW p \in Procs, StartCall(p)
  PROVE  /\ PointersAt(p)' /\ \A i \in 1..Len(Left(p)') : Proper(Left(p)'[i])
         /\ walk' = walk /\ walk[p].at = "none"
         /\ call'[p] = "read" => Left(p)' = <<Do("seq_start")>>
<1> DEFINE c == gpu.calls[p][made[p] + 1]
           b == Block(gpu, c, "begin")
<1>1. /\ call' = [call EXCEPT ![p] = c] /\ gpu' = gpu /\ walk' = walk
      /\ pc' = [pc EXCEPT ![p] = Steps(b)] /\ ~InCall(p)
  BY DEF StartCall, KeepRest
<1>2. call'[p] = c /\ walk[p].at = "none"
  BY <1>1 DEF ExitInv, CallInv
<1>3. c \in Files
  BY CasesAssumption DEF StartCall, ExitInv, CallInv, Procs
<1>4. Left(p)' = b
  BY <1>1, LeftAfter
<1>5. Sound(gpu, c, b, AtEntry(gpu, c, "begin"), {}) /\ \A i \in 1..Len(b) : Proper(b[i])
  BY <1>3, NoGarbageLabel, BlocksSupported
<1>6. AtEntry(gpu, c, "begin") = {}
  BY EntryFacts
<1>7. c = "read" => b = <<Do("seq_start")>> /\ pos'[p] = 0
  <2>1. c = "read" => Open(p)
    BY DEF StartCall
  <2> QED
    BY <2>1, ReadBlocks DEF Open, ReadersInv
<1> HIDE DEF c, b
<1>8. Sound(gpu, c, b, GoodPtrs(p)', PastPtrs(p)')
  BY <1>5, <1>6, SoundMore
<1>9. c = "read" => RlAt(p)'
  BY <1>1, <1>4, <1>7, RlAtForms
<1>10. PointersAt(p)'
  BY <1>1, <1>2, <1>4, <1>8, <1>9 DEF PointersAt
<1> QED
  BY <1>1, <1>2, <1>4, <1>5, <1>7, <1>10

\* A walk uses the pointer to a table as soon as it has it.
LEMMA MapPoints ==
  ASSUME ExitInv, StepsInv, PtrsTyped, NEW p \in Procs, StartWalk(p) \/ WalkStep(p), PointersAt(p),
         walk[p].at # "none" => Cur(p).op = "map_pages"
  PROVE  PointersAt(p)'
<1>1. /\ UNCHANGED <<call, pc, gpu>> /\ InCall(p) /\ Cur(p).op = "map_pages" /\ Left(p)' = Left(p)
  <2>1. CASE StartWalk(p)
    BY <2>1 DEF StartWalk, Doing, KeepCall, KeepRest, Left
  <2>2. CASE WalkStep(p)
    <3>1. walk[p].at # "none"
      BY <2>2 DEF WalkStep, DerefTable, MoveToTable, ReadEntry, WritePte, SkipMapping, Exists,
                  Allocate, LinkPage
    <3> QED
      BY <2>2, <3>1 DEF WalkStep, KeepCall, KeepRest, Left, ExitInv, CallInv
  <2> QED
    BY <2>1, <2>2
<1>2. call[p] \in Maps /\ Cur(p) = Left(p)[1] /\ Left(p) \in Seq(StepsOf(call[p])) /\ call[p] # "read"
  <2>1. call[p] \in Maps
    BY <1>1, AtStep, OpsOfCalls
  <2> QED
    BY <1>1, <2>1, AtStep DEF Closed, Maps
<1>3. Sound(gpu, call[p], Left(p), GoodPtrs(p)', PastPtrs(p)')
  BY <1>1, <1>2, SoundWalk
<1>4. walk \in [Procs \cup {"exit"} -> Walks] /\ p \in DOMAIN walk
  BY DEF ExitInv, WalkInv
<1>5. walk'[p].at \in {"read", "pte", "alloc", "pde"} => ~Astray(p, "pd")'
  <2>1. CASE StartWalk(p)
    BY <1>4, <2>1 DEF StartWalk, Goes, At
  <2>2. CASE DerefTable(p)
    <3>1. CASE Point(p, "pd", Direct) \/ InWindow(p, "pd", "directory")
      <4>1. ptr'[p]["pd"] \in {Direct, window'}
        BY <3>1 DEF Point, InWindow, PtrsTyped, Names
      <4> QED
        BY <4>1 DEF Astray, Direct
    <3>2. CASE Goes(p, [walk[p] EXCEPT !.at = "move"])
      BY <1>4, <3>2 DEF Goes, Walks
    <3> QED
      BY <2>2, <3>1, <3>2 DEF DerefTable
  <2>3. CASE MoveToTable(p)
    <3>1. ptr'[p]["pd"] = window'
      BY <2>3 DEF MoveToTable, Relocate, Point, PtrsTyped, Names
    <3> QED
      BY <3>1 DEF Astray, Direct
  <2>4. CASE ReadEntry(p) \/ Allocate(p)
    <3>1. UNCHANGED windowVars /\ walk[p].at \in {"read", "alloc"}
      BY <2>4 DEF ReadEntry, Allocate
    <3>2. ~Astray(p, "pd")
      BY <3>1 DEF PointersAt
    <3> QED
      BY <3>1, <3>2 DEF Astray, windowVars, Direct
  <2>5. CASE WritePte(p) \/ SkipMapping(p) \/ LinkPage(p)
    <3>1. \E n, level, table, at : at \in {"deref", "mapped"} /\ walk' = [walk EXCEPT ![p] = At(n, level, table, at)]
      BY <2>5 DEF WritePte, SkipMapping, LinkPage, NextMapping, Goes
    <3>2. walk'[p].at \in {"deref", "mapped"}
      BY <1>4, <3>1 DEF At
    <3> QED
      BY <3>2
  <2> QED
    BY <2>1, <2>2, <2>3, <2>4, <2>5 DEF WalkStep
<1> QED
  BY <1>1, <1>2, <1>3, <1>5 DEF PointersAt

-----------------------------------------------------------------------------
(* What a step leaves to the others. *)

\* What a step of p does to the window and the pointers.
PtrFrame(p) ==
  /\ gpu' = gpu /\ layout' = layout /\ stored' \subseteq stored \cup {p}
  /\ \/ UNCHANGED window /\ (moved' = moved \/ (StartCall(p) /\ moved' = moved \ {p}))
     \/ window' \in Nat /\ MovedBy(p)
  /\ \/ UNCHANGED ptr
     \/ Cur(p).k \in Names /\ \E v \in Int : Point(Owner(p), Cur(p).k, v)
     \/ \E v \in Int : Point(p, "pd", v)
  /\ saved' = saved \/ saved' = [saved EXCEPT ![p] = window]

LEMMA SegmentOf ==
  ASSUME ExitInv, PtrsTyped, NEW obj \in Objects
  PROVE  layout[obj] \in Nat
BY WindowUsersAssumption DEF ExitInv, CallInv, PtrsTyped, Objects

LEMMA CallFrames ==
  ASSUME ExitInv, StepsInv, PtrsTyped, NEW p \in Procs, CallStep(p), InCall(p) => Proper(Cur(p))
  PROVE  PtrFrame(p)
<1>1. Bad \in Int /\ Direct \in Int /\ window \in Int
  BY DEF Bad, Direct, PtrsTyped
<1>2. ASSUME NEW op, Doing(p, op)
      PROVE  InCall(p) /\ Cur(p).op = op
  BY <1>2 DEF Doing
<1>3. CASE StartCall(p)
  BY <1>3 DEF StartCall, KeepRest, PtrFrame
<1>4. CASE Return(p) \/ ReadRegister(p) \/ UsePointer(p) \/ GoAstray(p)
  <2>1. UNCHANGED <<windowVars, gpu, saved, stored>>
    BY <1>4 DEF Return, Finish, ReadRegister, UsePointer, GoAstray, KeepMemory, KeepCall, KeepRest
  <2> QED
    BY <2>1 DEF windowVars, PtrFrame
<1>5. CASE LookAtWindow(p)
  <2>1. Doing(p, "addr") /\ UNCHANGED <<gpu, saved, stored, layout, window, moved>>
    BY <1>5 DEF LookAtWindow, InWindow, windowVars, KeepCall, KeepRest
  <2>2. Cur(p).k \in Names
    BY <1>2, <2>1, NamedPointer
  <2>3. UNCHANGED ptr \/ \E v \in {window, Bad} : Point(Owner(p), Cur(p).k, v)
    BY <1>5 DEF LookAtWindow, InWindow, windowVars
  <2> QED
    BY <1>1, <2>1, <2>2, <2>3 DEF PtrFrame
<1>6. CASE MoveWindow(p)
  <2>1. Doing(p, "addr") /\ UNCHANGED <<gpu, saved, stored>>
        /\ Relocate(p, Owner(p), Cur(p).k, Cur(p).obj)
    BY <1>6 DEF MoveWindow, KeepCall, KeepRest
  <2>2. Cur(p).k \in Names
    BY <1>2, <2>1, NamedPointer
  <2>3. Cur(p).obj \in Objects
    <3>1. Cur(p) \in StepsOf(call[p]) /\ Cur(p).obj # ""
      BY <1>2, <2>1, AtStep DEF Proper
    <3>2. Cur(p).obj \in Objects \cup {""}
      BY <3>1 DEF StepsOf, Plain, Garbage, Jumping, StepOf, Objects
    <3> QED
      BY <3>1, <3>2
  <2>4. layout[Cur(p).obj] \in Nat
    BY <2>3, SegmentOf
  <2> QED
    BY <2>1, <2>2, <2>4 DEF Relocate, PtrFrame
<1>7. CASE LocalStep(p)
  <2>1. gpu' = gpu
    BY <1>7 DEF LocalStep, KeepRest
  <2>2. CASE Doing(p, "bypass") /\ Point(Owner(p), Cur(p).k, Direct)
             /\ UNCHANGED <<layout, window, moved, saved, stored>>
    <3>1. Cur(p).k \in Names
      BY <1>2, <2>2, NamedPointer
    <3> QED
      BY <1>1, <2>1, <2>2, <3>1 DEF PtrFrame
  <2>3. CASE saved' = [saved EXCEPT ![p] = window] /\ UNCHANGED <<windowVars, stored>>
    BY <2>1, <2>3 DEF windowVars, PtrFrame
  <2>4. CASE window' = saved[p] /\ MovedBy(p) /\ UNCHANGED <<layout, ptr, saved, stored>>
    BY <2>1, <2>4 DEF PtrFrame, PtrsTyped
  <2>5. CASE UNCHANGED <<windowVars, saved>> /\ stored' \in {stored, stored \cup {p}}
    BY <2>1, <2>5 DEF windowVars, PtrFrame
  <2> QED
    BY <1>7, <2>2, <2>3, <2>4, <2>5 DEF LocalStep
<1> QED
  BY <1>3, <1>4, <1>5, <1>6, <1>7 DEF CallStep

LEMMA ReadFrames ==
  ASSUME NEW p \in Procs, ReadStep(p)
  PROVE  PtrFrame(p)
<1>1. UNCHANGED <<windowVars, gpu, saved, stored>>
  <2>1. CASE Iterate(p) \/ SeqShow(p) \/ Shown(p) \/ SeqAdvance(p)
    BY <2>1 DEF Iterate, SeqShow, Shown, SeqAdvance, KeepMemory, KeepCall, KeepRest
  <2>2. CASE SeqStart(p) \/ SeqEmpty(p)
    BY <2>2 DEF SeqStart, SeqEmpty, Finish, KeepMemory, KeepRest
  <2> QED
    BY <2>1, <2>2 DEF ReadStep
<1> QED
  BY <1>1 DEF windowVars, PtrFrame

LEMMA MapFrames ==
  ASSUME ExitInv, PtrsTyped, NEW p \in Procs, MapStep(p)
  PROVE  PtrFrame(p)
<1>1. UNCHANGED <<gpu, saved, stored>>
  BY DEF MapStep, StartWalk, WalkStep, WalkEnds, EndWalk, Finish, KeepCall, KeepRest
<1>2. CASE UNCHANGED windowVars
  BY <1>1, <1>2 DEF windowVars, PtrFrame
<1>3. CASE DerefTable(p)
  <2>1. UNCHANGED <<layout, window, moved>> /\ (UNCHANGED ptr \/ \E v \in {window, Direct} : Point(p, "pd", v))
    BY <1>3 DEF DerefTable, InWindow, windowVars
  <2> QED
    BY <1>1, <2>1 DEF PtrFrame, PtrsTyped, Direct
<1>4. CASE MoveToTable(p)
  <2>1. layout["directory"] \in Nat
    BY SegmentOf DEF Objects
  <2> QED
    BY <1>1, <1>4, <2>1 DEF MoveToTable, Relocate, PtrFrame
<1> QED
  BY <1>2, <1>3, <1>4 DEF MapStep, StartWalk, WalkStep, WalkEnds, ReadEntry, WritePte, SkipMapping,
                          Allocate, LinkPage

LEMMA FramesTyped ==
  ASSUME PtrsTyped, NEW p \in Procs, PtrFrame(p)
  PROVE  PtrsTyped'
<1>1. saved' \in [Procs -> Nat] /\ layout' = gpu'.layout /\ window' \in Nat /\ stored' \subseteq Procs
  BY DEF PtrsTyped, PtrFrame
<1>2. moved' \subseteq Actors
  BY DEF PtrsTyped, PtrFrame, MovedBy
<1>3. Owner(p) \in Procs \cup {"iter"} /\ "pd" \in Names
  BY DEF Owner, Names
<1>4. ptr' \in [Procs \cup {"iter", "exit"} -> [Names -> Int]]
  BY <1>3 DEF PtrsTyped, PtrFrame, Point
<1> QED
  BY <1>1, <1>2, <1>4 DEF PtrsTyped

\* Another call's pointers are not touched, unless both read.
LEMMA OthersPtrs ==
  ASSUME PtrsTyped, NEW p \in Procs, PtrFrame(p), NEW q \in Procs \ {p}, call'[q] = call[q],
         ~(call[p] = "read" /\ call[q] = "read")
  PROVE  /\ saved'[q] = saved[q] /\ (q \in moved => q \in moved')
         /\ \A k \in Names : Ptr(q, k)' = Ptr(q, k)
         /\ q \notin moved' => window' = window
<1>1. saved'[q] = saved[q]
  BY DEF PtrFrame, PtrsTyped
<1>2. q \in Actors /\ "iter" \notin Procs
  BY WindowUsersAssumption, CasesAssumption DEF Procs
<1>3. (q \in moved => q \in moved') /\ (q \notin moved' => window' = window)
  BY <1>2 DEF PtrFrame, MovedBy
<1>4. ASSUME NEW k \in Names
      PROVE  Ptr(q, k)' = Ptr(q, k)
  <2> DEFINE o == IF k = "rl" /\ call[q] = "read" THEN "iter" ELSE q
  <2>1. o \in DOMAIN ptr /\ o # p /\ (o = "iter" => k = "rl" /\ call[p] # "read")
    BY <1>2 DEF PtrsTyped
  <2>2. ptr'[o][k] = ptr[o][k]
    <3>1. CASE UNCHANGED ptr
      BY <3>1
    <3>2. ASSUME NEW v \in Int, Point(Owner(p), Cur(p).k, v)
          PROVE  ptr'[o][k] = ptr[o][k]
      <4>1. Owner(p) # o
        BY <2>1 DEF Owner
      <4> HIDE DEF o
      <4> QED
        BY <2>1, <3>2, <4>1 DEF Point, PtrsTyped
    <3>3. ASSUME NEW v \in Int, Point(p, "pd", v)
          PROVE  ptr'[o][k] = ptr[o][k]
      <4> HIDE DEF o
      <4> QED
        BY <2>1, <3>3 DEF Point, PtrsTyped
    <3> QED
      BY <3>1, <3>2, <3>3 DEF PtrFrame
  <2> QED
    BY <2>2 DEF Ptr
<1> QED
  BY <1>1, <1>3, <1>4

AllProper(s) == \A i \in 1..Len(s) : Proper(s[i])

LEMMA ProperStep ==
  ASSUME ExitInv, StepsInv, ReadersInv, NEW p \in Procs, Moves(p), InCall(p)',
         InCall(p) => AllProper(Left(p))
  PROVE  AllProper(Left(p)')
<1>1. CASE StartCall(p)
  BY <1>1, StartPoints DEF AllProper
<1>2. CASE Waits(p)
  BY <1>2 DEF Waits, InCall, Left
<1>3. CASE Passes(p)
  <2>1. InCall(p) /\ Left(p)' = Tail(Left(p)) /\ Left(p) \in Seq(StepsOf(call[p])) /\ Left(p) # <<>>
    BY <1>3, LeftAfter, AtStep DEF Passes, Closed
  <2> DEFINE s == Left(p)
             S == StepsOf(call[p])
  <2> HIDE DEF s, S
  <2>2. s \in Seq(S) /\ s # <<>> /\ AllProper(s)
    BY <2>1 DEF s, S
  <2>3. Len(Tail(s)) = Len(s) - 1 /\ Len(s) \in Nat /\ \A i \in 1..(Len(s) - 1) : Tail(s)[i] = s[i + 1]
    BY <2>2, SeqFacts, LenProperties
  <2>4. \A i \in 1..(Len(s) - 1) : i + 1 \in 1..Len(s)
    BY <2>3
  <2>5. AllProper(Tail(s))
    BY <2>2, <2>3, <2>4 DEF AllProper
  <2> QED
    BY <2>1, <2>5 DEF s
<1>4. ASSUME NEW label \in Labels(call[p]), Jumps(p, label)
      PROVE  AllProper(Left(p)')
  <2>1. Left(p)' = Block(gpu, call[p], label) /\ call[p] \in Files
    BY <1>4, LeftAfter, AtStep DEF Jumps
  <2> QED
    BY <2>1, BlocksSupported DEF AllProper
<1>5. \A r \in {"ok", "error", "cut"} : ~Quits(p, r)
  BY DEF Quits, InCall, ExitInv, CallInv
<1> QED
  BY <1>1, <1>2, <1>3, <1>4, <1>5 DEF Moves

\* A walk runs while its call is about to map the pages.
LEMMA WalkingStep ==
  ASSUME ExitInv, StepsInv, NEW p \in Procs, CallStep(p) \/ ReadStep(p) \/ MapStep(p),
         walk[p].at # "none" => Cur(p).op = "map_pages", walk'[p].at # "none"
  PROVE  Cur(p)'.op = "map_pages"
<1>1. ASSUME walk[p].at # "none", pc' = pc
      PROVE  Cur(p)'.op = "map_pages"
  BY <1>1 DEF Cur
<1>2. walk \in [Procs \cup {"exit"} -> Walks]
  BY DEF ExitInv, WalkInv
<1>3. CASE CallStep(p)
  <2>1. CASE GoAstray(p)
    <3>1. UNCHANGED <<pc, walk>>
      BY <2>1 DEF GoAstray, KeepMemory
    <3> QED
      BY <1>1, <3>1
  <2>2. CASE StartCall(p)
    BY <2>2 DEF StartCall, InCall, ExitInv, CallInv
  <2>3. CASE Return(p) \/ ReadRegister(p) \/ LookAtWindow(p) \/ MoveWindow(p) \/ UsePointer(p) \/ LocalStep(p)
    BY <2>3 DEF Return, ReadRegister, LookAtWindow, MoveWindow, UsePointer, LocalStep, Doing, KeepMemory
  <2> QED
    BY <1>3, <2>1, <2>2, <2>3 DEF CallStep
<1>4. CASE ReadStep(p)
  BY <1>4 DEF ReadStep, Iterate, SeqStart, SeqEmpty, FoundEmpty, SeqShow, Shown, SeqAdvance, Doing, KeepMemory
<1>5. CASE StartWalk(p)
  BY <1>5 DEF StartWalk, Doing, Cur
<1>6. CASE WalkStep(p)
  <2>1. walk[p].at # "none" /\ UNCHANGED pc
    BY <1>6 DEF WalkStep, DerefTable, MoveToTable, ReadEntry, WritePte, SkipMapping, Exists,
                Allocate, LinkPage
  <2> QED
    BY <1>1, <2>1
<1>7. ~WalkEnds(p)
  BY <1>2 DEF WalkEnds, EndWalk, Goes, NoWalk, At
<1> QED
  BY <1>3, <1>4, <1>5, <1>6, <1>7 DEF MapStep

-----------------------------------------------------------------------------
(* What a reader is about to show. *)

\* Steps that end otherwise than with showing the next record.
LEMMA NotToPrint ==
  /\ \A s : (\E pre : Ends(s, pre, ToShow) \/ Ends(s, pre, ToShown)) => s \notin ToPrint
  /\ \A op \in {"seq_start", "next", "return_error"} : <<Do(op)>> \notin ToPrint
<1>1. /\ Len(<<Go("show")>>) = 1 /\ <<Go("show")>>[1] = Go("show")
      /\ Len(<<Do("show")>>) = 1 /\ <<Do("show")>>[1] = Do("show")
      /\ Len(<<Use("rl"), Do("show")>>) = 2
      /\ <<Use("rl"), Do("show")>>[1] = Use("rl") /\ <<Use("rl"), Do("show")>>[2] = Do("show")
      /\ Len(ToShow) = 2 /\ ToShow[1] = Do("set_iter")
      /\ Len(ToShown) = 1 /\ ToShown[1] = Do("shown")
      /\ \A a : Len(<<a>>) = 1 /\ <<a>>[1] = a
  BY DEF ToShow, ToShown
<1>2. /\ Go("show").op = "go" /\ Use("rl").op = "use" /\ \A op : Do(op).op = op
  BY OpFacts DEF Use, Step
<1>3. ASSUME NEW s, NEW pre, Ends(s, pre, ToShow)
      PROVE  s \notin ToPrint
  <2>1. Len(s) >= 2 /\ s[Len(s) - 2 + 1] = Do("set_iter")
    BY <1>1, <1>3 DEF Ends
  <2>2. CASE s = <<Use("rl"), Do("show")>>
    <3>1. s[1] = Do("set_iter")
      BY <1>1, <2>1, <2>2
    <3> QED
      BY <1>1, <1>2, <2>2, <3>1
  <2>3. ~(1 >= 2)
    OBVIOUS
  <2> QED
    BY <1>1, <2>1, <2>2, <2>3 DEF ToPrint
<1>4. ASSUME NEW s, NEW pre, Ends(s, pre, ToShown)
      PROVE  s \notin ToPrint
  <2>1. s[Len(s) - 1 + 1] = Do("shown")
    BY <1>1, <1>4 DEF Ends
  <2>2. CASE s = <<Go("show")>>
    <3>1. s[1] = Do("shown")
      BY <1>1, <2>1, <2>2
    <3> QED
      BY <1>1, <1>2, <2>2, <3>1
  <2>3. CASE s = <<Do("show")>>
    <3>1. s[1] = Do("shown")
      BY <1>1, <2>1, <2>3
    <3> QED
      BY <1>1, <1>2, <2>3, <3>1
  <2>4. CASE s = <<Use("rl"), Do("show")>>
    <3>1. s[2] = Do("shown")
      BY <1>1, <2>1, <2>4
    <3> QED
      BY <1>1, <1>2, <2>4, <3>1
  <2> QED
    BY <2>2, <2>3, <2>4 DEF ToPrint
<1>5. ASSUME NEW op \in {"seq_start", "next", "return_error"}
      PROVE  <<Do(op)>> \notin ToPrint
  BY <1>1, <1>2 DEF ToPrint
<1> QED
  BY <1>3, <1>4, <1>5

\* A record that a reader is about to show is there.
LEMMA CallShowsEntry ==
  ASSUME ExitInv, StepsInv, "readers" \notin seen, NEW p \in Procs, call[p] = "read",
         call'[p] = "read", ReaderAt(p), ShowsEntry(p), CallStep(p)
  PROVE  ShowsEntry(p)'
<1>1. InCall(p) /\ ~StartCall(p)
  BY ReaderFacts DEF StartCall
<1>2. /\ UNCHANGED <<pos, gpu>>
      /\ Cur(p).op \notin {"clear_iter", "set_iter", "seq_start", "show", "shown", "next"}
  BY <1>1, CallStepFile DEF fileVars
<1>3. ToPrint' = ToPrint /\ Length(p)' = Length(p)
  BY <1>2 DEF ToPrint, Length
<1>4. CASE Left(p) \in ToPrint
  <2>1. CASE pos[p] < Length(p)
    BY <1>2, <1>3, <2>1 DEF ShowsEntry
  <2>2. CASE Left(p) = <<Go("show")>> /\ Length(p) = 0
    <3>1. Cur(p) = Go("show") /\ Cur(p).op = "go" /\ Cur(p).fail = "show"
      BY <1>1, <2>2, AtStep, OpFacts
    <3>2. Reading(p)
      BY <1>1, <3>1, ReaderPlace, OpFacts, SearchingStep, PrintingStep
    <3>3. iter.len = 0
      BY <2>2, <3>2 DEF Reading, Follows, IteratesAt, Length
    <3>4. NoneToShow(p)
      BY <3>1, <3>3 DEF NoneToShow
    <3>5. pc' = pc
      BY <1>1, <3>1, <3>4
      DEF CallStep, Return, ReadRegister, LookAtWindow, MoveWindow, UsePointer, GoAstray, LocalStep, Doing
    <3>6. Left(p)' = Left(p)
      BY <3>5 DEF Left
    <3> QED
      BY <1>3, <2>2, <3>6 DEF ShowsEntry
  <2> QED
    BY <1>4, <2>1, <2>2 DEF ShowsEntry
<1>5. ASSUME Left(p) \notin ToPrint
      PROVE  Left(p)' \notin ToPrint
  <2>1. Cur(p) = Left(p)[1] /\ Left(p) \in Seq(StepsOf(call[p])) /\ Left(p) # <<>>
    BY <1>1, AtStep DEF Closed
  <2>2. ToShow \in Seq({Do("set_iter"), Go("show")}) /\ ToShown \in Seq({Do("shown")})
        /\ ToShow[1].op = "set_iter" /\ ToShown[1].op = "shown" /\ \A op : <<Do(op)>>[1].op = op
    <3>1. ToShow[1] = Do("set_iter") /\ ToShown[1] = Do("shown") /\ \A a : <<a>>[1] = a
      BY DEF ToShow, ToShown
    <3>2. ToShow \in Seq({Do("set_iter"), Go("show")}) /\ ToShown \in Seq({Do("shown")})
      BY DEF ToShow, ToShown
    <3> QED
      BY <3>1, <3>2, OpFacts
  <2>3. \/ Cur(p) \in Searching /\ Ends(Tail(Left(p)), Searching, ToShow)
        \/ Cur(p) \in Printing /\ Ends(Tail(Left(p)), Printing, ToShown)
        \/ Cur(p).op = "return_error"
    <3>1. CASE Ends(Left(p), Searching, ToShow)
      BY <1>2, <2>1, <2>2, <3>1, EndsFirst
    <3>2. CASE Ends(Left(p), Printing, ToShown)
      BY <1>2, <2>1, <2>2, <3>2, EndsFirst
    <3> QED
      BY <1>2, <1>5, <2>1, <2>2, <3>1, <3>2 DEF ReaderAt, ToPrint, ToShow, ToShown
  <2>4. CASE Waits(p)
    BY <1>5, <2>4 DEF Waits, Left
  <2>5. CASE Passes(p)
    <3>1. Left(p)' = Tail(Left(p)) /\ Cur(p).op # "return_error"
      BY <2>5, LeftAfter DEF Passes, Lasts
    <3> QED
      BY <2>3, <3>1, NotToPrint
  <2>6. ASSUME NEW label \in Labels(call[p]), Jumps(p, label)
        PROVE  Left(p)' \notin ToPrint
    <3>1. Left(p)' = Block(gpu, "read", label) /\ Cur(p).op \in {"reg", "addr", "go"} /\ Cur(p).fail = label
      BY <1>2, <2>6, LeftAfter DEF Jumps
    <3>2. label # "garbage"
      BY ReaderFacts, NoGarbageLabel
    <3>3. label \in {"err", "runlist_pramin", "shown", "restore"}
      BY <2>3, <3>1, <3>2, SearchingStep, PrintingStep
    <3>4. \/ Block(gpu, "read", label) = <<Do("return_error")>>
          \/ Ends(Block(gpu, "read", label), Searching, ToShow)
          \/ Ends(Block(gpu, "read", label), Printing, ToShown)
      BY <3>3, ReadBlocks DEF ToShow, ToShown
    <3> QED
      BY <3>1, <3>4, NotToPrint
  <2>7. \A r \in {"ok", "error", "cut"} : ~Quits(p, r)
    BY DEF Quits, ExitInv, CallInv
  <2> QED
    BY <1>1, <2>4, <2>5, <2>6, <2>7, CallMoves DEF Moves
<1> QED
  BY <1>3, <1>4, <1>5 DEF ShowsEntry

LEMMA ReadShowsEntry ==
  ASSUME ExitInv, StepsInv, ReadersInv, "readers" \notin seen, NEW p \in Procs, call[p] = "read",
         call'[p] = "read", ReaderAt(p), ShowsEntry(p), ReadStep(p)
  PROVE  ShowsEntry(p)'
<1>1. ToPrint' = ToPrint
  BY DEF ToPrint
<1>2. gpu' = gpu /\ Length(p)' = Length(p) /\ Length(p) \in Nat
  <2>1. gpu' = gpu
    BY ReadStepFile
  <2>2. Runlists[gpu.runlist[p]] \in Seq(Nat)
    BY RunlistOf, RunlistsAssumption
  <2>3. Length(p) \in Nat
    BY <2>2, LenProperties DEF Length
  <2> QED
    BY <2>1, <2>3 DEF Length
<1>3. ASSUME NEW op, Cur(p).op = op, op \in {"clear_iter", "set_iter", "seq_start", "shown", "next"}
      PROVE  /\ op \in {"clear_iter", "set_iter"} =>
                  Opened(p) /\ (Ends(Tail(Left(p)), Searching, ToShow) \/ op = "set_iter")
             /\ op = "seq_start" => Resumes(p)
             /\ op = "next" => HasShown(p)
  BY <1>3, ReaderFacts, ReaderPlace, OpFacts, SearchingStep, PrintingStep
<1>4. pos[p] \in Nat
  BY DEF ReadersInv
<1>5. CASE Iterate(p)
  <2>1. /\ Cur(p).op \in {"clear_iter", "set_iter"} /\ pos' = pos
        /\ pc' = [pc EXCEPT ![p] = Steps(Tail(Left(p)))]
    BY <1>5 DEF Iterate, Doing, Onward, Left
  <2>2. Left(p)' = Tail(Left(p))
    BY <2>1, LeftAfter
  <2>3. Opened(p) /\ (Ends(Tail(Left(p)), Searching, ToShow) \/ Cur(p).op = "set_iter")
    BY <1>3, <2>1
  <2>4. CASE Ends(Tail(Left(p)), Searching, ToShow)
    BY <1>1, <2>2, <2>4, NotToPrint DEF ShowsEntry
  <2>5. CASE Cur(p).op = "set_iter"
    <3>1. Tail(Left(p)) = <<Go("show")>>
      BY <2>5, ReaderFacts, ReaderPlace, OpFacts, SearchingStep, PrintingStep
    <3>2. pos[p] < Length(p) \/ Length(p) = 0
      BY <1>2, <2>3 DEF Opened
    <3> QED
      BY <1>2, <2>1, <2>2, <3>1, <3>2 DEF ShowsEntry
  <2> QED
    BY <2>3, <2>4, <2>5
<1>6. CASE SeqStart(p)
  <2>1. Cur(p).op = "seq_start" /\ UNCHANGED pos
    BY <1>6 DEF SeqStart, Doing, fileVars
  <2>2. Resumes(p)
    BY <1>3, <2>1
  <2>3. \A r : ~Finish(p, r)
    BY DEF Finish, ExitInv, CallInv
  <2>4. CASE Jump(p, "runlist")
    <3>1. Ends(Left(p)', Searching, ToShow)
      BY <2>4, LeftAfter, ReadBlocks DEF Jump, ToShow
    <3> QED
      BY <1>1, <3>1, NotToPrint DEF ShowsEntry
  <2>5. CASE pos[p] > 0 /\ pos[p] < iter.len
    <3>1. iter.len = Length(p)
      BY <2>2, <2>5 DEF Resumes, Follows, IteratesAt, Length
    <3> QED
      BY <1>2, <2>1, <2>5, <3>1 DEF ShowsEntry
  <2> QED
    BY <1>6, <2>3, <2>4, <2>5 DEF SeqStart
<1>7. CASE SeqShow(p)
  <2>1. CASE Jump(p, "shown") \/ Jump(p, "channel")
    <3>1. Ends(Left(p)', Printing, ToShown)
      BY <2>1, LeftAfter, ReadBlocks DEF Jump, ToShown
    <3> QED
      BY <1>1, <3>1, NotToPrint DEF ShowsEntry
  <2>2. CASE UNCHANGED <<pc, fileVars>>
    BY <1>1, <1>2, <2>2 DEF ShowsEntry, Left, fileVars
  <2> QED
    BY <1>7, <2>1, <2>2 DEF SeqShow
<1>8. CASE Shown(p)
  <2>1. Left(p)' \in {<<Do("next")>>, <<Do("seq_start")>>}
    BY <1>8, LeftAfter, ReadBlocks DEF Shown, Jump
  <2> QED
    BY <1>1, <2>1, NotToPrint DEF ShowsEntry
<1>9. CASE SeqAdvance(p)
  <2>1. Cur(p).op = "next" /\ pos'[p] = pos[p] + 1
    BY <1>9 DEF SeqAdvance, Doing, SeqNext, ReadersInv
  <2>2. iter.len = Length(p)
    BY <1>3, <2>1 DEF HasShown, Follows, IteratesAt, Length
  <2>3. CASE pos[p] + 1 < iter.len
    BY <1>2, <2>1, <2>2, <2>3 DEF ShowsEntry
  <2>4. CASE Jump(p, "begin")
    <3>1. Left(p)' = <<Do("seq_start")>>
      BY <2>4, LeftAfter, ReadBlocks DEF Jump
    <3> QED
      BY <1>1, <3>1, NotToPrint DEF ShowsEntry
  <2> QED
    BY <1>9, <2>3, <2>4 DEF SeqAdvance
<1>10. ~SeqEmpty(p)
  BY DEF SeqEmpty, Finish, ExitInv, CallInv
<1> QED
  BY <1>5, <1>6, <1>7, <1>8, <1>9, <1>10 DEF ReadStep

-----------------------------------------------------------------------------
(* Accesses that go astray. *)

\* A reader that is alone shows an entry of its runlist.
LEMMA ShowsInRange ==
  ASSUME ExitInv, StepsInv, ReadersInv, WindowInv, "readers" \notin seen, NEW p \in Procs,
         Doing(p, "show")
  PROVE  InRange
<1>1. InCall(p) /\ Cur(p).op = "show"
  BY DEF Doing
<1>2. call[p] = "read"
  BY <1>1, AtStep, OpsOfCalls
<1>3. ReaderAt(p)
  BY <1>2 DEF ReadersInv
<1>4. Cur(p) = Left(p)[1] /\ Left(p) \in Seq(StepsOf(call[p])) /\ Left(p) # <<>>
  BY <1>1, AtStep DEF Closed
<1>5. /\ ToShow \in Seq({Do("set_iter"), Go("show")}) /\ ToShow[1] = Do("set_iter")
      /\ ToShown \in Seq({Do("shown")}) /\ ToShown[1] = Do("shown")
      /\ \A a : <<a>>[1] = a
  BY DEF ToShow, ToShown
<1>6. ~Ends(Left(p), Searching, ToShow)
  <2>1. SUFFICES ASSUME Ends(Left(p), Searching, ToShow)
                 PROVE  FALSE
    OBVIOUS
  <2>2. Left(p) = ToShow \/ Left(p)[1] \in Searching
    BY <1>4, <1>5, <2>1, EndsFirst
  <2> QED
    BY <1>1, <1>4, <1>5, <2>2, SearchingStep, OpFacts
<1>7. ~Ends(Left(p), Printing, ToShown)
  <2>1. SUFFICES ASSUME Ends(Left(p), Printing, ToShown)
                 PROVE  FALSE
    OBVIOUS
  <2>2. Left(p) = ToShown \/ Left(p)[1] \in Printing
    BY <1>4, <1>5, <2>1, EndsFirst
  <2> QED
    BY <1>1, <1>4, <1>5, <2>2, PrintingStep, OpFacts
<1>8. \A op : Left(p) = <<Do(op)>> => op = "show"
  BY <1>1, <1>4, <1>5, OpFacts
<1>9. Left(p) \in ToPrint /\ Reading(p)
  BY <1>3, <1>6, <1>7, <1>8 DEF ReaderAt, ToPrint, ToShow, ToShown
<1>10. pos[p] < Length(p) /\ pos[p] \in Nat /\ Length(p) \in Nat
  <2>1. Left(p) # <<Go("show")>>
    BY <1>1, <1>4, <1>5, OpFacts
  <2> QED
    BY <1>2, <1>9, <2>1, ReaderFacts DEF WindowInv, ShowsEntry, ReadersInv
<1>11. IteratesAt(p, iter, gpu.runlist[p], pos[p], pos[p], reshown)
  BY <1>9 DEF Reading, Follows
<1>12. InRange <=> pos[p] + 1 <= Length(p)
  BY <1>2, <1>11, ReaderInRange
<1> QED
  BY <1>10, <1>12

\* What is known of an access that goes astray.
Explained == stray = NoAccess \/ stray.by \in moved \/ KnownStray \/ "readers" \in seen

\* The pointer that goes astray is one the code itself uses when it may not lead
\* there, or an error that was taken for a pointer.
LEMMA AstrayExplained ==
  ASSUME ExitInv, StepsInv, WindowInv, NEW p \in Procs, GoAstray(p)
  PROVE  Explained'
<1>1. /\ UNCHANGED <<moved, seen, gpu>> /\ Running /\ InCall(p)
      /\ \/ /\ Cur(p).op = "use" /\ Astray(Owner(p), Cur(p).k)
            /\ stray' = [by |-> p, k |-> Cur(p).k, call |-> call[p], ptr |-> ptr[Owner(p)][Cur(p).k]]
         \/ /\ walk[p].at \in {"read", "pte", "pde"} /\ Astray(p, "pd")
            /\ stray'.by = p
  BY DEF GoAstray, Doing, KeepMemory, windowVars, KeepCall, KeepRest
<1>2. SUFFICES ASSUME p \notin moved, "readers" \notin seen
               PROVE  KnownStray'
  BY <1>1 DEF Explained
<1>3. PointersAt(p)
  BY <1>1, <1>2 DEF WindowInv
<1>4. ~(walk[p].at \in {"read", "pte", "pde"} /\ Astray(p, "pd"))
  BY <1>3 DEF PointersAt
<1> DEFINE k == Cur(p).k
<1>5. /\ Cur(p).op = "use" /\ Astray(Owner(p), k)
      /\ stray' = [by |-> p, k |-> k, call |-> call[p], ptr |-> ptr[Owner(p)][k]]
  BY <1>1, <1>4
<1>6. k \in GoodPtrs(p) \/ k \in Excused(gpu, call[p])
  <2>1. Sound(gpu, call[p], Left(p), GoodPtrs(p), PastPtrs(p))
    BY <1>3 DEF PointersAt
  <2>2. Left(p) \in Seq(StepsOf(call[p])) /\ Left(p) # <<>> /\ Cur(p) = Left(p)[1]
    BY <1>1, AtStep DEF Closed
  <2>3. Needs(gpu, call[p], Cur(p)) \subseteq GoodPtrs(p) \cup PastPtrs(p)
    BY <2>1, <2>2, SoundHead
  <2>4. Needs(gpu, call[p], Cur(p)) = {k} \ Excused(gpu, call[p])
    BY <1>5 DEF Needs
  <2> QED
    BY <2>3, <2>4, PastIsGood
<1>7. CASE k \in GoodPtrs(p)
  <2>1. Ptr(p, k) = ptr[Owner(p)][k]
    BY DEF Ptr, Owner
  <2>2. ptr[Owner(p)][k] = Bad
    BY <1>5, <1>7, <2>1 DEF GoodPtrs, Astray
  <2> QED
    BY <1>5, <2>2 DEF KnownStray
<1>8. CASE k \in Excused(gpu, call[p])
  BY <1>1, <1>5, <1>8 DEF Excused, KnownStray
<1> QED
  BY <1>6, <1>7, <1>8

LEMMA ProcExplained ==
  ASSUME ExitInv, StepsInv, ReadersInv, WindowInv, NEW p \in Procs,
         CallStep(p) \/ ReadStep(p) \/ MapStep(p)
  PROVE  Explained'
<1>1. CASE GoAstray(p)
  BY <1>1, AstrayExplained
<1>2. CASE SeqShow(p)
  <2>1. InRange \/ "readers" \in seen
    BY <1>2, ShowsInRange DEF SeqShow
  <2>2. CASE InRange
    BY <1>2, <2>2 DEF SeqShow, Doing, Running, Explained
  <2>3. CASE "readers" \in seen
    BY <1>2, <2>3 DEF SeqShow, KeepCall, Explained
  <2> QED
    BY <2>1, <2>2, <2>3
<1>3. ASSUME Running, stray' = stray
      PROVE  Explained'
  BY <1>3 DEF Running, Explained
<1>4. CASE StartCall(p) \/ Return(p) \/ ReadRegister(p) \/ LookAtWindow(p) \/ MoveWindow(p)
           \/ UsePointer(p) \/ LocalStep(p)
  BY <1>3, <1>4 DEF StartCall, Return, ReadRegister, LookAtWindow, MoveWindow, UsePointer, LocalStep, Doing
<1>5. CASE Iterate(p) \/ SeqStart(p) \/ SeqEmpty(p) \/ Shown(p) \/ SeqAdvance(p)
  BY <1>3, <1>5 DEF Iterate, SeqStart, SeqEmpty, FoundEmpty, Shown, SeqAdvance, Doing
<1>6. CASE MapStep(p)
  BY <1>3, <1>6 DEF MapStep, StartWalk, WalkStep, WalkEnds, Doing
<1> QED
  BY <1>1, <1>2, <1>4, <1>5, <1>6 DEF CallStep, ReadStep

LEMMA OtherExplained ==
  ASSUME WindowInv, OtherStep
  PROVE  Explained'
<1>1. ASSUME Running, stray' = stray
      PROVE  Explained'
  BY <1>1 DEF Running, Explained
<1>2. CASE DriverMoves \/ ModuleStep \/ GcSeek \/ GcEnds
  BY <1>1, <1>2 DEF DriverMoves, ModuleStep, GcSeek, GcEnds, Collecting
<1>3. CASE GcFree
  <2>1. Running /\ gpu' = gpu
    BY <1>3 DEF GcFree, Collecting, KeepRest
  <2>2. CASE ~gpu.iommu /\ stray' = [by |-> "exit", k |-> "freed page", call |-> "exit", ptr |-> 0]
    BY <2>1, <2>2 DEF Explained, KnownStray
  <2> QED
    BY <1>1, <1>3, <2>1, <2>2 DEF GcFree
<1>4. CASE UNCHANGED vars
  <2>1. UNCHANGED <<stray, moved, gpu, seen>>
    BY <1>4 DEF vars, windowVars, callVars
  <2> QED
    BY <2>1 DEF Explained, KnownStray, WindowInv
<1> QED
  BY <1>2, <1>3, <1>4 DEF OtherStep

-----------------------------------------------------------------------------
(* Every step keeps WindowInv. *)

LEMMA WindowParts ==
  WindowInv <=>
    /\ PtrsTyped
    /\ \A p \in Procs : InCall(p) => AllProper(Left(p))
    /\ \A p \in Procs : walk[p].at # "none" => Cur(p).op = "map_pages"
    /\ "readers" \notin seen => \A p \in Procs : call[p] = "read" => ShowsEntry(p)
    /\ Running /\ "readers" \notin seen =>
         \A p \in Procs : InCall(p) /\ p \notin moved => PointersAt(p)
    /\ Explained
BY DEF WindowInv, PtrsTyped, AllProper, ShowsEntry, Explained

LEMMA CurProper ==
  ASSUME ExitInv, StepsInv, WindowInv, NEW p \in Procs, InCall(p)
  PROVE  Proper(Cur(p))
<1>1. Left(p) \in Seq(StepsOf(call[p])) /\ Left(p) # <<>> /\ Cur(p) = Left(p)[1] /\ AllProper(Left(p))
  BY AtStep, WindowParts DEF Closed
<1>2. 1 \in 1..Len(Left(p))
  <2>1. Len(Left(p)) \in Nat /\ Len(Left(p)) # 0
    BY <1>1, LenProperties, EmptySeq
  <2> QED
    BY <2>1
<1> QED
  BY <1>1, <1>2 DEF AllProper

LEMMA ProcRuns ==
  ASSUME NEW p \in Procs, CallStep(p) \/ ReadStep(p) \/ MapStep(p)
  PROVE  Running
<1>1. CASE CallStep(p)
  BY <1>1 DEF CallStep, StartCall, Return, ReadRegister, LookAtWindow, MoveWindow, UsePointer, GoAstray,
              LocalStep, Doing
<1>2. CASE ReadStep(p)
  BY <1>2 DEF ReadStep, Iterate, SeqStart, SeqEmpty, FoundEmpty, SeqShow, Shown, SeqAdvance, Doing
<1>3. CASE MapStep(p)
  BY <1>3 DEF MapStep, StartWalk, WalkStep, WalkEnds, Doing
<1> QED
  BY <1>1, <1>2, <1>3

\* The pointers of the process that takes the step.
LEMMA OwnPointers ==
  ASSUME ExitInv, ExitInv', StepsInv, ReadersInv, WindowInv, NEW p \in Procs,
         CallStep(p) \/ ReadStep(p) \/ MapStep(p), PtrFrame(p),
         Running', InCall(p)', p \notin moved', "readers" \notin seen
  PROVE  PointersAt(p)'
<1>1. CASE StartCall(p)
  BY <1>1, StartPoints
<1>2. CASE ~StartCall(p)
  <2>1. gpu' = gpu /\ p \notin moved /\ PtrsTyped
    BY <1>2, WindowParts DEF PtrFrame, MovedBy
  <2>2. InCall(p) => PointersAt(p) /\ Proper(Cur(p))
    BY <2>1, ProcRuns, CurProper, WindowParts
  <2>3. CASE CallStep(p)
    <3>1. ~Return(p)
      BY DEF Return, Finish, InCall, ExitInv, CallInv
    <3>2. /\ InCall(p) /\ UNCHANGED <<call, pos>> /\ walk' = walk /\ walk[p].at = "none"
          /\ \/ Forward(p)
             \/ \E label \in Labels(call[p]) : Leap(p, label)
             \/ Left(p)' = Left(p) /\ Held
      BY <1>2, <2>3, <3>1, CallPoints
    <3> QED
      BY <2>1, <2>2, <3>2, OwnPoints
  <2>4. CASE ReadStep(p)
    <3>1. /\ InCall(p) /\ call' = call /\ walk' = walk /\ walk[p].at = "none"
          /\ \/ Forward(p)
             \/ \E label \in Labels(call[p]) : Leap(p, label)
      BY <2>4, ReadPoints
    <3> QED
      BY <2>1, <2>2, <3>1, OwnPoints
  <2>5. CASE MapStep(p)
    <3>1. ~WalkEnds(p)
      BY DEF WalkEnds, EndWalk, Finish, InCall, ExitInv, CallInv
    <3>2. walk[p].at # "none" => Cur(p).op = "map_pages"
      BY WindowParts
    <3>3. InCall(p)
      <4>1. call[p] \in Maps
        BY <2>5, MapStepFile
      <4> QED
        BY <4>1 DEF Maps, InCall
    <3> QED
      BY <2>1, <2>2, <2>5, <3>1, <3>2, <3>3, MapPoints DEF MapStep
  <2> QED
    BY <2>3, <2>4, <2>5
<1> QED
  BY <1>1, <1>2

LEMMA ProcKeepsWindow ==
  ASSUME ExitInv, ExitInv', StepsInv, ReadersInv, WindowInv, NEW p \in Procs,
         CallStep(p) \/ ReadStep(p) \/ MapStep(p)
  PROVE  WindowInv'
<1>1. PtrsTyped /\ PtrFrame(p)
  BY CallFrames, ReadFrames, MapFrames, CurProper, WindowParts
<1>2. PtrsTyped'
  BY <1>1, FramesTyped
<1>3. Moves(p) /\ ProcFrame(p)
  BY CallMoves, ReadMoves, MapMoves
<1>4. \A q \in Procs \ {p} : /\ call'[q] = call[q] /\ pc'[q] = pc[q] /\ Left(q)' = Left(q)
                             /\ walk'[q] = walk[q]
  BY <1>3, OthersWait DEF ProcFrame, Left
<1>5. ASSUME NEW q \in Procs, InCall(q)'
      PROVE  AllProper(Left(q)')
  <2>1. CASE q = p
    BY <1>3, <1>5, <2>1, ProperStep, WindowParts
  <2>2. CASE q # p
    <3>1. InCall(q) /\ Left(q)' = Left(q)
      BY <1>4, <1>5, <2>2 DEF InCall
    <3> QED
      BY <3>1, WindowParts
  <2> QED
    BY <2>1, <2>2
<1>6. ASSUME NEW q \in Procs, walk'[q].at # "none"
      PROVE  Cur(q)'.op = "map_pages"
  <2>1. CASE q = p
    BY <1>6, <2>1, WalkingStep, WindowParts
  <2>2. CASE q # p
    <3>1. walk[q].at # "none" /\ Cur(q)' = Cur(q)
      BY <1>4, <1>6, <2>2 DEF Cur
    <3> QED
      BY <3>1, WindowParts
  <2> QED
    BY <2>1, <2>2
<1>7. FileFrame(p) /\ gpu' = gpu /\ seen \subseteq seen'
  <2>1. CASE StartCall(p)
    BY <2>1, StartCallFile
  <2>2. CASE ReadStep(p)
    BY <2>2, ReadStepFile
  <2>3. CASE MapStep(p) \/ (CallStep(p) /\ ~StartCall(p))
    <3>1. UNCHANGED fileVars /\ gpu' = gpu /\ seen \subseteq seen'
      BY <2>3, CallStepFile, MapStepFile
    <3> QED
      BY <3>1, FrameOfFile DEF fileVars
  <2> QED
    BY <2>1, <2>2, <2>3
<1>8. ASSUME "readers" \notin seen', NEW q \in Procs, call'[q] = "read"
      PROVE  ShowsEntry(q)'
  <2>1. "readers" \notin seen
    BY <1>7, <1>8
  <2>2. CASE q # p
    <3>1. /\ call[q] = "read" /\ Left(q)' = Left(q) /\ pos'[q] = pos[q]
          /\ Length(q)' = Length(q) /\ ToPrint' = ToPrint
      BY <1>4, <1>7, <1>8, <2>2 DEF FileFrame, Length, ToPrint
    <3>2. ShowsEntry(q)
      BY <2>1, <3>1, WindowParts
    <3> QED
      BY <3>1, <3>2 DEF ShowsEntry
  <2>3. CASE q = p /\ call[p] = "read"
    <3>1. ReaderAt(p) /\ ShowsEntry(p) /\ ~MapStep(p)
      BY <2>1, <2>3, MapStepFile, WindowParts DEF ReadersInv, Maps
    <3> QED
      BY <1>8, <2>1, <2>3, <3>1, CallShowsEntry, ReadShowsEntry
  <2>4. CASE q = p /\ call[p] # "read"
    <3>1. StartCall(p)
      <4>1. call'[p] \in {call[p], "none"} \/ StartCall(p)
        BY <1>3 DEF Moves, Waits, Passes, Jumps, Quits, ExitInv, CallInv
      <4> QED
        BY <1>8, <2>4, <4>1
    <3>2. Left(p)' = <<Do("seq_start")>>
      BY <1>8, <2>4, <3>1, StartCallFile
    <3>3. ToPrint' = ToPrint
      BY DEF ToPrint
    <3> QED
      BY <2>4, <3>2, <3>3, NotToPrint DEF ShowsEntry
  <2> QED
    BY <2>2, <2>3, <2>4
<1>9. ASSUME Running', "readers" \notin seen', NEW q \in Procs, InCall(q)', q \notin moved'
      PROVE  PointersAt(q)'
  <2>1. "readers" \notin seen /\ Running
    BY <1>7, <1>9, ProcRuns
  <2>2. CASE q = p
    BY <1>1, <1>9, <2>1, <2>2, OwnPointers
  <2>3. CASE q # p
    <3>1. ~(call[p] = "read" /\ call[q] = "read")
      BY <2>1, <2>3 DEF ReadersInv
    <3>2. /\ saved'[q] = saved[q] /\ (q \in moved => q \in moved')
          /\ \A k \in Names : Ptr(q, k)' = Ptr(q, k)
          /\ q \notin moved' => window' = window
      BY <1>1, <1>4, <2>3, <3>1, OthersPtrs
    <3>3. PointersAt(q)
      BY <1>4, <1>9, <2>1, <2>3, <3>2, WindowParts DEF InCall
    <3>4. pos'[q] = pos[q]
      BY <1>7, <2>3 DEF FileFrame
    <3> QED
      BY <1>4, <1>7, <1>9, <2>3, <3>2, <3>3, <3>4, PointersStay
  <2> QED
    BY <2>2, <2>3
<1>10. Explained'
  BY ProcExplained
<1>11. WindowInv' <=>
         /\ PtrsTyped'
         /\ \A q \in Procs : InCall(q)' => AllProper(Left(q)')
         /\ \A q \in Procs : walk'[q].at # "none" => Cur(q)'.op = "map_pages"
         /\ "readers" \notin seen' => \A q \in Procs : call'[q] = "read" => ShowsEntry(q)'
         /\ Running' /\ "readers" \notin seen' =>
              \A q \in Procs : InCall(q)' /\ q \notin moved' => PointersAt(q)'
         /\ Explained'
  BY DEF WindowInv, PtrsTyped, AllProper, ShowsEntry, Explained
<1> QED
  BY <1>2, <1>5, <1>6, <1>8, <1>9, <1>10, <1>11

LEMMA WindowInit == ExitInv /\ Init => WindowInv
<1> SUFFICES ASSUME ExitInv, Init
             PROVE  WindowInv
  OBVIOUS
<1>1. /\ layout = gpu.layout /\ window = 0 /\ moved = {} /\ stored = {} /\ stray = NoAccess
      /\ saved = [p \in Procs |-> 0]
      /\ ptr = [o \in Procs \cup {"iter", "exit"} |-> [k \in Names |-> Direct]]
      /\ \A p \in Procs : call[p] = "none" /\ walk[p].at = "none"
  BY DEF Init, Names, NoWalk, At
<1>2. Direct \in Int
  BY DEF Direct
<1> QED
  BY <1>1, <1>2 DEF WindowInv, InCall

\* What the driver, the exit and the coming and going of the module do.
LEMMA OtherPtrFrame ==
  ASSUME ExitInv, WindowInv, OtherStep
  PROVE  /\ UNCHANGED <<layout, saved>>
         /\ \/ UNCHANGED <<window, moved, ptr>>
            \/ UNCHANGED ptr /\ window' \in Nat /\ MovedBy("driver")
            \/ UNCHANGED <<window, moved>> /\ \E v \in Int : Point("exit", "pd", v)
            \/ window' \in Nat /\ MovedBy("exit") /\ \E v \in Int : Point("exit", "pd", v)
<1>1. PtrsTyped
  BY WindowParts
<1>2. CASE DriverMoves
  <2>1. layout["bar2_instance"] \in Nat /\ layout["table"] \in Nat
    BY <1>1, SegmentOf DEF Objects
  <2> QED
    BY <1>2, <2>1 DEF DriverMoves, callVars
<1>3. CASE GcSeek
  <2>1. layout["directory"] \in Nat /\ window \in Int
    BY <1>1, SegmentOf DEF Objects, PtrsTyped
  <2> QED
    BY <1>3, <2>1 DEF GcSeek, InWindow, Relocate, callVars
<1>4. CASE ModuleStep
  BY <1>4 DEF ModuleStep, KeepMemory, windowVars, callVars
<1>5. CASE GcFree
  BY <1>5 DEF GcFree, windowVars, callVars
<1>6. CASE GcEnds
  BY <1>6 DEF GcEnds, KeepMemory, windowVars
<1>7. CASE UNCHANGED vars
  BY <1>7 DEF vars, windowVars, callVars
<1> QED
  BY <1>2, <1>3, <1>4, <1>5, <1>6, <1>7 DEF OtherStep

LEMMA OtherRuns ==
  ASSUME OtherStep, Running'
  PROVE  Running
<1>1. CASE DriverMoves \/ ModuleStep \/ GcSeek \/ GcFree \/ GcEnds
  BY <1>1 DEF DriverMoves, ModuleStep, GcSeek, GcFree, GcEnds, Collecting
<1>2. CASE UNCHANGED vars
  BY <1>2 DEF vars, Running
<1> QED
  BY <1>1, <1>2 DEF OtherStep

LEMMA OtherKeepsWindow ==
  ASSUME ExitInv, WindowInv, OtherStep
  PROVE  WindowInv'
<1>1. /\ UNCHANGED <<call, pc, stored, gpu, fileVars>> /\ seen \subseteq seen'
      /\ \A p \in Procs : walk'[p] = walk[p]
  BY OtherFrame, OtherSeen
<1>2. PtrsTyped /\ "exit" \in DOMAIN ptr /\ "pd" \in Names
  BY WindowParts DEF PtrsTyped, Names
<1>3. PtrsTyped'
  <2>1. window' \in Nat /\ moved' \subseteq Actors
    BY <1>2, OtherPtrFrame DEF PtrsTyped, MovedBy
  <2>2. ptr' \in [Procs \cup {"iter", "exit"} -> [Names -> Int]]
    BY <1>2, OtherPtrFrame DEF PtrsTyped, Point
  <2> QED
    BY <1>1, <1>2, <2>1, <2>2, OtherPtrFrame DEF PtrsTyped
<1>4. ASSUME NEW p \in Procs
      PROVE  /\ p \in moved => p \in moved'
             /\ p \notin moved' => window' = window
             /\ \A k \in Names : Ptr(p, k)' = Ptr(p, k)
  <2>1. p \in Actors /\ p # "driver" /\ p # "exit" /\ "iter" # "exit"
    BY WindowUsersAssumption, CasesAssumption DEF Procs
  <2>2. (p \in moved => p \in moved') /\ (p \notin moved' => window' = window)
    BY <2>1, OtherPtrFrame DEF MovedBy
  <2>3. \A o \in {p, "iter"} : ptr'[o] = ptr[o]
    <3>1. CASE UNCHANGED ptr
      BY <3>1
    <3>2. ASSUME NEW v \in Int, Point("exit", "pd", v)
          PROVE  \A o \in {p, "iter"} : ptr'[o] = ptr[o]
      BY <1>2, <2>1, <3>2 DEF Point, PtrsTyped
    <3> QED
      BY <3>1, <3>2, OtherPtrFrame
  <2> QED
    BY <1>1, <2>2, <2>3 DEF Ptr
<1>5. \A p \in Procs : InCall(p)' => AllProper(Left(p)')
  BY <1>1, WindowParts DEF InCall, Left
<1>6. \A p \in Procs : walk'[p].at # "none" => Cur(p)'.op = "map_pages"
  BY <1>1, WindowParts DEF Cur
<1>7. "readers" \notin seen' => \A p \in Procs : call'[p] = "read" => ShowsEntry(p)'
  <2>1. ToPrint' = ToPrint
    BY DEF ToPrint
  <2>2. \A p \in Procs : ShowsEntry(p) => ShowsEntry(p)'
    BY <1>1, <2>1 DEF ShowsEntry, Length, Left, fileVars
  <2> QED
    BY <1>1, <2>2, WindowParts
<1>8. ASSUME Running', "readers" \notin seen', NEW p \in Procs, InCall(p)', p \notin moved'
      PROVE  PointersAt(p)'
  <2>1. PointersAt(p)
    BY <1>1, <1>4, <1>8, OtherRuns, WindowParts DEF InCall
  <2>2. Left(p)' = Left(p) /\ UNCHANGED <<pos, saved>>
    BY <1>1, OtherPtrFrame DEF Left, fileVars
  <2> QED
    BY <1>1, <1>4, <1>8, <2>1, <2>2, PointersStay
<1>9. Explained'
  BY OtherExplained
<1> QED
  BY <1>3, <1>5, <1>6, <1>7, <1>8, <1>9 DEF WindowInv, PtrsTyped, AllProper, ShowsEntry, Explained

LEMMA WindowStep ==
  ExitInv /\ ExitInv' /\ StepsInv /\ ReadersInv /\ WindowInv /\ [Next]_vars => WindowInv'
BY NextSplit, ProcKeepsWindow, OtherKeepsWindow

LEMMA PointersFollow ==
  ASSUME ExitInv, WindowInv
  PROVE  WindowExact
<1>1. call \in [Procs -> {"none", "read", "preempt_mode"} \cup Maps]
  BY DEF ExitInv, CallInv, Files, Maps
<1>2. freed \cup leaked \subseteq 1..MaxPages /\ regs \cup irq \subseteq Devices /\ device \in Devices
  BY DEF ExitInv, TableInv, ModuleInv
<1>3. window \in Nat /\ moved \subseteq Actors /\ stored \subseteq Procs
  BY DEF WindowInv
<1> QED
  BY <1>1, <1>2, <1>3 DEF WindowExact, TypeOK, WindowInv

\* A pointer that addr_to_pramin_mut made into the window (bus.c:81) leads where
\* it was made for whenever a call uses it, on every chip, in every layout of
\* memory and with any number of processes: unless somebody else has moved the
\* window since the call began, two readers share the iterator
\* (runlist_procfs.c:185), or in the cases that KnownStray lists.
THEOREM PointersExact == Spec => []WindowExact
<1>1. Init => ExitInv /\ StepsInv /\ ReadersInv /\ WindowInv
  BY ExitInit, StepsInit, ReadersInit, WindowInit
<1>2. ExitInv /\ ExitInv' /\ StepsInv /\ ReadersInv /\ WindowInv /\ [Next]_vars
        => StepsInv' /\ ReadersInv' /\ WindowInv'
  BY StepsStep, ReadersStep, WindowStep
<1>3. ExitInv /\ WindowInv => WindowExact
  BY PointersFollow
<1>4. Spec => []ExitInv
  BY ExitInvariant
<1> QED
  BY <1>1, <1>2, <1>3, <1>4, PTL DEF Spec
=============================================================================
