---------------------------- MODULE PraminWindow ----------------------------
(***************************************************************************)
(* The one PRAMIN window through which nvdebug reaches GPU memory, after   *)
(* src/nvdebug/bus.c.  Memory is divided into segments of 64 KiB; the      *)
(* window shows WindowLen of them, from the segment named by one register. *)
(* A pointer into the window is the offset of what it was made for, so it  *)
(* is good exactly while the window is where it was then: ptr holds that   *)
(* place.                                                                  *)
(***************************************************************************)
EXTENDS Integers

CONSTANTS Actors,      \* the system calls in progress, and the module's exit
          WindowLen    \* segments the window shows (NV_PRAMIN_LEN >> 16)

ASSUME WindowAssumption == WindowLen \in Nat \ {0}

VARIABLES layout,   \* the segment in which each object of GPU memory lies
          window,   \* the register: the first segment that is shown
          ptr,      \* the pointers every owner keeps, by name
          moved     \* the actors during whose call another has moved the window

windowVars == <<layout, window, ptr, moved>>

\* A pointer that does not go through the window (BAR2 or system memory), and
\* one made of an error code that was not recognized.
Direct == -1
Bad == -2

Covered(obj) == layout[obj] \in window..(window + WindowLen - 1)

Point(owner, k, to) == ptr' = [ptr EXCEPT ![owner][k] = to]

\* addr_to_pramin_mut, when the window already shows the address.
InWindow(owner, k, obj) ==
  /\ Covered(obj)
  /\ Point(owner, k, window)
  /\ UNCHANGED <<layout, window, moved>>

\* Somebody else's pointers are from now on at another's mercy.
MovedBy(a) == moved' = moved \cup (Actors \ {a})

\* addr_to_pramin_mut from label relocate on: whatever the register holds by
\* now, the window is moved to the segment of the address.
Relocate(a, owner, k, obj) ==
  /\ window' = layout[obj]
  /\ Point(owner, k, layout[obj])
  /\ MovedBy(a)
  /\ UNCHANGED layout

\* An access through this pointer would hit another address.
Astray(owner, k) == ptr[owner][k] # Direct /\ ptr[owner][k] # window
=============================================================================
