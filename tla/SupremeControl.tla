--------------------------- MODULE SupremeControl ---------------------------
(***************************************************************************)
(* How the supreme mask of SmMask comes to be, and how it is changed from  *)
(* outside: the constructor of the libcuda.so.1 wrapper (libsmctrl.c)      *)
(* makes a shared memory region while nvtaskset -p (nvtaskset.c) may       *)
(* already be looking for it.  The threads of the program run after the    *)
(* constructor.                                                            *)
(***************************************************************************)
EXTENDS SmMask, MaskList

CONSTANTS
  NumTPCs,   \* how many TPCs the GPU has, which may be fewer than a mask has bits
  GPCs       \* the TPCs of every GPC, by its number

GpuTPCs == 0 .. (NumTPCs - 1)

ASSUME GPCsAssumption ==
  /\ NumTPCs \in Nat \ {0} /\ GpuTPCs \subseteq TPCs
  /\ \A g \in DOMAIN GPCs : GPCs[g] \subseteq GpuTPCs
  /\ \A g, h \in DOMAIN GPCs : g # h => GPCs[g] \cap GPCs[h] = {}

VARIABLES loader,   \* how far the constructor is
          env,      \* LIBSMCTRL_MASK
          file,     \* the shared memory: none, empty or sized
          shared,   \* whether the callback reads the shared memory
          region,   \* what the shared memory holds
          tool,     \* what each nvtaskset is doing
          disturbed,  \* history: those whose change met another, or the constructor
          change    \* history: the last change, unless it was disturbed

controlVars == <<loader, env, file, shared, region, tool, disturbed, change>>

\* ~mask, with all its bits: those past the GPU's last TPC as well.
Enabled(mask) == TPCs \ mask
Width == 1 + (CHOOSE t \in TPCs : \A u \in TPCs : u <= t)

\* TPCs and GPCs are numbered by bits of a mask, which has bits to spare for GPCs.
ASSUME BitsAssumption ==
  /\ \E t \in TPCs : TPCs = 0..t
  /\ DOMAIN GPCs \subseteq 0..(Width - 2)

----------------------------------------------------------------------------
(* The constructor, with the callback already set up. *)

SupremeIs(mask) ==
  /\ supreme' = mask
  /\ UNCHANGED <<sm_control_setup_called, enabled, g_sm_mask, g_next_sm_mask, hw_mask, control, history>>

\* Without the shared memory, the mask is kept in a variable of the process.
KeepPrivate ==
  /\ loader' = "ready"
  /\ SupremeIs(env)
  /\ UNCHANGED <<file, shared>>

CreateRegion ==
  /\ loader = "start"
  /\ \/ loader' = "created" /\ file' = "empty" /\ UNCHANGED <<vars, shared>>
     \/ KeepPrivate
  /\ UNCHANGED <<env, region, tool, disturbed, change>>

SizeRegion ==
  /\ loader = "created"
  /\ \/ loader' = "sized" /\ file' = "sized" /\ UNCHANGED <<vars, shared>>
     \/ KeepPrivate
  /\ UNCHANGED <<env, region, tool, disturbed, change>>

MapRegion ==
  /\ loader = "sized"
  /\ \/ loader' = "mapped" /\ shared' = TRUE /\ SupremeIs(region) /\ UNCHANGED file
     \/ KeepPrivate
  /\ UNCHANGED <<env, region, tool, disturbed, change>>

\* The default mask is stored, in two halves.
StoreDefaultLow ==
  /\ loader = "mapped"
  /\ loader' = "half"
  /\ SupremeIs((supreme \ Low) \cup (env \cap Low))
  /\ region' = supreme'
  /\ UNCHANGED <<env, file, shared, tool, disturbed, change>>

StoreDefaultHigh ==
  /\ loader = "half"
  /\ loader' = "ready"
  /\ SupremeIs((supreme \cap Low) \cup (env \ Low))
  /\ region' = supreme'
  /\ UNCHANGED <<env, file, shared, tool, disturbed, change>>

----------------------------------------------------------------------------
(* nvtaskset -p *)

Tool(n, to) == tool' = [tool EXCEPT ![n] = to]

\* get_mask_hndl: a file of that name among the descriptors of the process, or
\* an error.
get_mask_hndl(n) ==
  /\ tool[n] = "idle"
  /\ Tool(n, IF file = "none" THEN "not found" ELSE "found")
  /\ UNCHANGED <<vars, loader, env, file, shared, region, disturbed, change>>

\* The mask is read to be printed; a file without a size cannot be read.
Crash(n) ==
  /\ tool[n] = "found" /\ file = "empty"
  /\ Tool(n, "crashed")
  /\ UNCHANGED <<vars, loader, env, file, shared, region, disturbed, change>>

\* A query prints a list of the enabled TPCs, or of the GPCs they make up.
Query(n) ==
  /\ tool[n] = "found" /\ file = "sized" /\ setter[n] = NoMask
  /\ Tool(n, "idle")
  /\ UNCHANGED <<vars, loader, env, file, shared, region, disturbed, change>>
TpcList(mask) == compose_list(Enabled(mask), Width, FALSE)
GpcList(mask) == compose_gpc_list(Enabled(mask), GPCs, Width, FALSE)

\* Both halves of a change reach whatever the callback reads only if that is
\* the shared memory.
Reach(n) ==
  IF shared THEN Next /\ setter'[n] # setter[n] /\ region' = supreme'
  ELSE /\ \/ \E mask \in LongMasks :
               /\ setter[n] = NoMask
               /\ setter' = [setter EXCEPT ![n] = mask]
               /\ region' = (region \ Low) \cup (mask \cap Low)
          \/ /\ setter[n] # NoMask
             /\ setter' = [setter EXCEPT ![n] = NoMask]
             /\ region' = (region \cap Low) \cup (setter[n] \ Low)
       /\ UNCHANGED <<library, tmd, pc, todo, word, history>>

\* A change: its first half, and its second.
Change(n) ==
  LET others == {m \in Setters \ {n} : setter[m] # NoMask}
      meets == loader # "ready" \/ others # {}
  IN  /\ tool[n] = "found" /\ file = "sized"
      /\ Reach(n)
      /\ IF setter[n] = NoMask
           THEN /\ change' = NoMask /\ UNCHANGED tool
                /\ disturbed' = IF meets THEN disturbed \cup others \cup {n} ELSE disturbed \ {n}
           ELSE /\ change' = IF n \in disturbed THEN NoMask ELSE setter[n]
                /\ Tool(n, "idle") /\ UNCHANGED disturbed
      /\ UNCHANGED <<loader, env, file, shared>>

----------------------------------------------------------------------------

\* Only the wrapper has the constructor.
ControlInit ==
  /\ Wrapper /\ Init
  /\ loader = "start" /\ env \in LongMasks /\ supreme = env
  /\ file = "none" /\ shared = FALSE /\ region = {}
  /\ tool = [n \in Setters |-> "idle"] /\ disturbed = {} /\ change = NoMask

\* A step of the program's threads.
Run ==
  /\ loader = "ready"
  /\ UNCHANGED <<setter, controlVars>>
  /\ Next

ControlNext ==
  \/ CreateRegion \/ SizeRegion \/ MapRegion \/ StoreDefaultLow \/ StoreDefaultHigh
  \/ \E n \in Setters : get_mask_hndl(n) \/ Crash(n) \/ Query(n) \/ Change(n)
  \/ Run

ControlSpec == ControlInit /\ [][ControlNext]_<<vars, controlVars>>

----------------------------------------------------------------------------
(* Properties. *)

\* The mask that LIBSMCTRL_MASK or the last nvtaskset -p asked for is the one the
\* callback applies, however the constructor, the changes and the launches
\* interleave.  A change is lost when it meets another one or the constructor
\* (libsmctrl.c:769), and when the region is not the one the callback reads
\* (libsmctrl.c:752).
SupremeKept ==
  loader = "ready" =>
    /\ shared => supreme = region
    /\ change # NoMask /\ shared => supreme = change
    /\ ~shared => supreme = env
    /\ change = NoMask /\ disturbed = {} /\ (\A n \in Setters : setter[n] = NoMask) => supreme = env

\* What a query prints for a process, however its mask came to be, is never read
\* back as another partition than its own (nvtaskset.c:190, :150).  A list that
\* names a TPC past the GPU's last, as one of an inverted mask may, or whose last
\* range has no end, as that of the mask 0, is refused; any other list of TPCs is
\* read back as the partition it is of, and so is a list of GPCs.  Not promised:
\* the list of an empty partition, and anything at all when the uninitialized
\* in_range happens to be true (nvtaskset.c:190).
QueryExact ==
  LET set == Enabled(region)
      open == {Width - 2, Width - 1} \subseteq set
      gpcs == parse_list(GpcList(region), DOMAIN GPCs)
  IN  set # {} =>
        /\ parse_list(TpcList(region), GpuTPCs) = IF set \subseteq GpuTPCs /\ ~open THEN set ELSE Invalid
        /\ set = TpcsOf(GpcsIn(set, GPCs), GPCs) =>
             gpcs \subseteq DOMAIN GPCs /\ TpcsOf(gpcs, GPCs) = set
=============================================================================
