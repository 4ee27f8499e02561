----------------------------- MODULE PageTables -----------------------------
(***************************************************************************)
(* nvdebug's changes to the page tables of a context, after                *)
(* src/nvdebug/mmu.c and map_mem_for_instance of                           *)
(* src/nvdebug/runlist_procfs.c.                                           *)
(*                                                                         *)
(* Table 0 is the driver's directory, in GPU memory; tables 1..MaxPages    *)
(* are pages nvdebug has allocated, in system memory.  The two lower       *)
(* levels of the five stand for all: a huge page has its entry at level 2, *)
(* a small one at level 3.  An entry is 0 (invalid), the number of a table *)
(* (a directory entry), or -n for the n-th mapping (a page table entry).   *)
(***************************************************************************)
EXTENDS PraminWindow, Sequences, FiniteSets

CONSTANTS MaxPages   \* pages that can be allocated (a bound)

ASSUME PagesAssumption == MaxPages \in Nat

VARIABLES mem,        \* the entries of every table
          pd_allocs,  \* the pages in use, newest last, with their parent's entry
          freed,      \* pages given back
          leaked,     \* pages lost when they could not be mapped for the GPU
          walk        \* where every caller is in map_page_directory

tableVars == <<mem, pd_allocs, freed, leaked>>

\* The mappings of map_mem_for_instance, in order, by the index at each level:
\* GPU memory in huge pages, then BAR0 ranges in small ones.
Mappings == << <<1, 1>>, <<1, 2>>, <<2, 1, 1>>, <<2, 1, 2>> >>
Huge(n) == Len(Mappings[n]) = 2
Indices == 1..2

Pages == {pd_allocs[i].page : i \in DOMAIN pd_allocs}
Unused == 1..MaxPages \ (Pages \cup freed \cup leaked)
NextPage == CHOOSE page \in 1..MaxPages : page \in Unused

At(n, level, table, at) == [n |-> n, level |-> level, table |-> table, at |-> at, page |-> 0]
NoWalk == At(0, 0, 0, "none")

Entry(w) == mem[w.table][Mappings[w.n][w.level]]
Store(w, e) == mem' = [mem EXCEPT ![w.table][Mappings[w.n][w.level]] = e]
LastLevel(w) == w.level = Len(Mappings[w.n])
Goes(p, w) == walk' = [walk EXCEPT ![p] = w]

\* pd_deref of the table this level is in.
DerefTable(p) ==
  /\ walk[p].at = "deref"
  /\ \/ walk[p].table # 0 /\ Point(p, "pd", Direct) /\ UNCHANGED <<layout, window, moved>>
        /\ Goes(p, [walk[p] EXCEPT !.at = "read"])
     \/ walk[p].table = 0 /\ InWindow(p, "pd", "directory")
        /\ Goes(p, [walk[p] EXCEPT !.at = "read"])
     \/ walk[p].table = 0 /\ ~Covered("directory") /\ UNCHANGED windowVars
        /\ Goes(p, [walk[p] EXCEPT !.at = "move"])
  /\ UNCHANGED tableVars

MoveToTable(p) ==
  /\ walk[p].at = "move"
  /\ Relocate(p, p, "pd", "directory")
  /\ Goes(p, [walk[p] EXCEPT !.at = "read"])
  /\ UNCHANGED tableVars

\* The entry is read: it is missing, or it leads to the next table.
ReadEntry(p) ==
  /\ walk[p].at = "read" /\ ~Astray(p, "pd")
  /\ LET w == walk[p]
         e == Entry(w)
     IN  \/ e = 0 /\ Goes(p, [w EXCEPT !.at = IF LastLevel(w) THEN "pte" ELSE "alloc"])
         \/ e > 0 /\ ~LastLevel(w) /\ Goes(p, At(w.n, w.level + 1, e, "deref"))
  /\ UNCHANGED <<windowVars, tableVars>>

\* The virtual address is in use for something else: a mapping of another
\* page, or small pages where a huge one was to be.
InUse(p) ==
  /\ walk[p].at = "read" /\ ~Astray(p, "pd")
  /\ Entry(walk[p]) \notin {0, -walk[p].n}
  /\ ~LastLevel(walk[p]) => Entry(walk[p]) < 0

\* The mapping is already there; map_mem_for_instance then takes the rest for
\* granted if it is one of GPU memory.
Exists(p) == walk[p].at = "read" /\ ~Astray(p, "pd") /\ Entry(walk[p]) = -walk[p].n

\* Mutant: the last mapping is left out.
NextMappingShort(p) ==
  Goes(p, IF walk[p].n >= Len(Mappings) - 1 THEN At(0, 0, 0, "mapped")
          ELSE At(walk[p].n + 1, 1, 0, "deref"))

\* The mapping is made, or was there, and the next one's turn comes.
NextMapping(p) ==
  Goes(p, IF walk[p].n = Len(Mappings) THEN At(0, 0, 0, "mapped")
          ELSE At(walk[p].n + 1, 1, 0, "deref"))

WritePte(p) ==
  /\ walk[p].at = "pte" /\ ~Astray(p, "pd")
  /\ Store(walk[p], -walk[p].n)
  /\ NextMapping(p)
  /\ UNCHANGED <<windowVars, pd_allocs, freed, leaked>>

SkipMapping(p) ==
  /\ Exists(p) /\ ~Huge(walk[p].n)
  /\ NextMapping(p)
  /\ UNCHANGED <<windowVars, tableVars>>

\* A page is allocated, mapped for the GPU and recorded, before anything
\* points to it.
Allocate(p) ==
  /\ walk[p].at = "alloc" /\ Unused # {}
  /\ LET page == NextPage IN
       /\ pd_allocs' = Append(pd_allocs, [page |-> page, table |-> walk[p].table,
                                          idx |-> Mappings[walk[p].n][walk[p].level]])
       /\ Goes(p, [walk[p] EXCEPT !.at = "pde", !.page = page])
  /\ UNCHANGED <<windowVars, mem, freed, leaked>>

LinkPage(p) ==
  /\ walk[p].at = "pde" /\ ~Astray(p, "pd")
  /\ Store(walk[p], walk[p].page)
  /\ Goes(p, At(walk[p].n, walk[p].level + 1, walk[p].page, "deref"))
  /\ UNCHANGED <<windowVars, pd_allocs, freed, leaked>>

\* The page could not be mapped for the GPU: nothing remembers it.
LosePage(p) ==
  /\ walk[p].at = "alloc" /\ Unused # {}
  /\ leaked' = leaked \cup {NextPage}

----------------------------------------------------------------------------
(* gc_page_directory(g, true), from the oldest allocation to the newest. *)

Oldest == Head(pd_allocs)

\* Mutant: the newest page is collected first, but its parent's entry is kept.
FreeKeepsEntry(own) ==
  /\ mem' = [mem EXCEPT ![Oldest.page] = [i \in Indices |-> 0]]
  /\ freed' = freed \cup {Oldest.page}
  /\ pd_allocs' = Tail(pd_allocs)
  /\ UNCHANGED leaked

\* The page is taken from its parent, if the parent still points to it, wiped
\* and given back.
Free(own) ==
  /\ mem' = [mem EXCEPT ![Oldest.page] = [i \in Indices |-> 0],
                        ![Oldest.table][Oldest.idx] = IF own THEN 0 ELSE @]
  /\ freed' = freed \cup {Oldest.page}
  /\ pd_allocs' = Tail(pd_allocs)
  /\ UNCHANGED leaked

PointsTo(e) == mem[e.table][e.idx] = e.page
----------------------------------------------------------------------------

\* What translate_page_directory finds for the n-th mapping: the entry at the
\* end of the directory entries that lead to it, or 0.
Translate(n) ==
  LET v == Mappings[n]
      one == mem[0][v[1]]
      two == IF one > 0 THEN mem[one][v[2]] ELSE one
      three == IF two > 0 /\ Len(v) = 3 THEN mem[two][v[3]] ELSE two
  IN  three

\* The driver itself may use the address range of the BAR0 mappings (taken).
DriversTable(taken) == [i \in Indices |-> IF i = 2 THEN taken ELSE 0]
TablesInit(taken) ==
  /\ mem = [t \in 0..MaxPages |-> IF t = 0 THEN DriversTable(taken) ELSE [i \in Indices |-> 0]]
  /\ pd_allocs = <<>> /\ freed = {} /\ leaked = {}
=============================================================================
