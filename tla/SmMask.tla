------------------------------- MODULE SmMask -------------------------------
(***************************************************************************)
(* The mask control of libsmctrl (src/libsmctrl/libsmctrl.c) in one        *)
(* process, the threads that set masks and launch kernels in it, and the   *)
(* nvtaskset processes that change its supreme mask from outside.          *)
(*                                                                         *)
(* A mask is the set of the TPCs it disables.  It is kept in 32-bit words: *)
(* word 0 (lower), 1 (upper), 2 (ext_lower) and 3 (ext_upper), and the     *)
(* library is built without optimization, so each word of a mask that      *)
(* another thread or process can change is one access of its own.          *)
(***************************************************************************)
EXTENDS Integers

CONSTANTS
  Threads,      \* the threads of the process
  Setters,      \* the nvtaskset -p processes
  Streams,      \* its CUDA streams
  TPCs,         \* the TPCs that a mask has bits for
  WordOf,       \* TPC -> the word its bit is in
  LongMasks,    \* the 128-bit masks that callers ask for
  NoMask,       \* "none was asked for"
  HopperTMD,    \* TRUE for a TMD of version 4.0 or later
  Cuda,         \* its version of CUDA, as far as the stream struct goes
  Wrapper,      \* TRUE when the library is loaded as the libcuda.so.1 wrapper
  CallbackSet   \* TRUE when the first call of setup has already returned

Words == 0 .. 3
Word(w) == {tpc \in TPCs : WordOf[tpc] = w}
Low == Word(0) \cup Word(1)
Masks == SUBSET TPCs

ASSUME TPCsAssumption == WordOf \in [TPCs -> Words] /\ LongMasks \subseteq Masks
ASSUME NoMaskAssumption == \A mask \in Masks : NoMask # mask
\* The constructor of the wrapper runs setup before the program's own code.
ASSUME LoadingAssumption ==
  /\ HopperTMD \in BOOLEAN /\ Cuda \in {"cuda8_0", "cuda9_11", "cuda12"}
  /\ Wrapper \in BOOLEAN /\ CallbackSet \in BOOLEAN
  /\ Wrapper => CallbackSet

\* The uint64_t masks, and the words a TMD and a stream struct have room for.
ShortMasks == {mask \cap Low : mask \in LongMasks}
WideStreams == Cuda = "cuda12"
TMDWords == IF HopperTMD THEN Words ELSE {0, 1}
StreamWords == IF WideStreams THEN Words ELSE {0, 1}

VARIABLES
  sm_control_setup_called,
  enabled,          \* CUDA calls control_callback_v2 before it uploads a TMD
  g_sm_mask,
  g_next_sm_mask,   \* one per thread
  supreme,          \* *g_supreme_sm_mask
  hw_mask,          \* the mask in each stream struct
  tmd,              \* the mask in the TMD each thread is launching
  pc, todo, word,   \* where each thread is, the call it makes, the next word
  setter,           \* the mask each nvtaskset still has half to store
  subscribed,       \* history: how often the callback was subscribed
  escaped,          \* history: the threads that launched a kernel without the
                    \* callback although some mask call had begun
  asked,            \* history: the mask each thread asked its next launch to have
  masked,           \* history: the streams that a mask was set for
  due, copied,      \* history: what a launch was asked, and its stream had,
                    \* NoMask without a mask
  globals,          \* history: g_sm_mask over a launch
  always, ever      \* history: the TPCs the supreme mask disabled all through
                    \* a launch, and at some time of it

library == <<sm_control_setup_called, enabled, g_sm_mask, g_next_sm_mask, supreme, hw_mask>>
control == <<tmd, pc, todo, word, setter>>
history == <<subscribed, escaped, asked, masked, due, copied, globals, always, ever>>
vars == <<library, control, history>>

Idle == [call |-> "none"]
Calls ==
  {Idle}
  \cup [call : {"global", "next"}, mask : ShortMasks]
  \cup [call : {"stream"}, stream : Streams, mask : Masks]
  \cup [call : {"launch"}, stream : Streams]

Init ==
  /\ sm_control_setup_called = CallbackSet
  /\ enabled = CallbackSet
  /\ g_sm_mask = {}
  /\ g_next_sm_mask = [t \in Threads |-> {}]
  /\ supreme \in IF Wrapper THEN LongMasks ELSE {{}}
  /\ hw_mask = [s \in Streams |-> {}]
  /\ tmd = [t \in Threads |-> {}]
  /\ pc = [t \in Threads |-> "idle"]
  /\ todo = [t \in Threads |-> Idle]
  /\ word = [t \in Threads |-> 0]
  /\ setter = [n \in Setters |-> NoMask]
  /\ subscribed = IF CallbackSet THEN 1 ELSE 0
  /\ escaped = {}
  /\ asked = [t \in Threads |-> NoMask]
  /\ masked = {}
  /\ due = [t \in Threads |-> NoMask]
  /\ copied = [t \in Threads |-> NoMask]
  /\ globals = [t \in Threads |-> {}]
  /\ always = [t \in Threads |-> {}]
  /\ ever = [t \in Threads |-> {}]

GoTo(t, place) == pc' = [pc EXCEPT ![t] = place]

\* The words w of mask replaced by those of other.
Overwrite(mask, w, other) == (mask \ Word(w)) \cup (other \cap Word(w))

\* The places of a launch, from CUDA's copy of the stream's mask into the TMD
\* to the TMD's upload.
LaunchPlaces == {"launching", "global", "supreme", "upload"}
Launching(t) == pc[t] \in LaunchPlaces

-----------------------------------------------------------------------------
(* Slips that the properties must catch: variants of the actions below. *)

\* The flag is not tested and set: a thread that does not see the callback
\* enabled yet sets it up.
BeginSetUnguarded(t, call, mask) ==
  /\ pc[t] = "idle"
  /\ todo' = [todo EXCEPT ![t] = [call |-> call, mask |-> mask]]
  /\ GoTo(t, IF enabled THEN "store" ELSE "subscribe")
  /\ UNCHANGED <<library, tmd, word, setter, history>>

\* The next mask is left in place for the launches after.
EnterWithNextKept(t) ==
  /\ pc[t] = "launching" /\ enabled
  /\ g_next_sm_mask[t] # {}
  /\ tmd' = [tmd EXCEPT ![t] = g_next_sm_mask[t]]
  /\ GoTo(t, "supreme")
  /\ UNCHANGED <<library, todo, word, setter, history>>

\* The supreme mask is applied to the lower word only.
ApplySupremeLower(t) ==
  /\ pc[t] = "supreme"
  /\ tmd' = [tmd EXCEPT ![t] = @ \cup (supreme \cap Word(0))]
  /\ GoTo(t, "upload")
  /\ UNCHANGED <<library, todo, word, setter, history>>

\* nvtaskset stores only the lower half of the mask.
StoreSupremeLowOnly(n) ==
  /\ setter[n] # NoMask
  /\ setter' = [setter EXCEPT ![n] = NoMask]
  /\ UNCHANGED <<library, tmd, pc, todo, word, history>>

-----------------------------------------------------------------------------
(* libsmctrl_set_global_mask and libsmctrl_set_next_mask *)

\* The call, with the test-and-set of setup_sm_control_callback.  The thread
\* that finds the flag clear sets the callback up; any other goes on at once,
\* whether or not that has been done.
BeginSet(t, call, mask) ==
  /\ pc[t] = "idle"
  /\ todo' = [todo EXCEPT ![t] = [call |-> call, mask |-> mask]]
  /\ sm_control_setup_called' = TRUE
  /\ GoTo(t, IF sm_control_setup_called THEN "store" ELSE "subscribe")
  /\ UNCHANGED <<enabled, g_sm_mask, g_next_sm_mask, supreme, hw_mask>>
  /\ UNCHANGED <<tmd, word, setter, history>>

Subscribe(t) ==
  /\ pc[t] = "subscribe"
  /\ GoTo(t, "enable")
  /\ subscribed' = subscribed + 1
  /\ UNCHANGED <<library, tmd, todo, word, setter>>
  /\ UNCHANGED <<escaped, asked, masked, due, copied, globals, always, ever>>

Enable(t) ==
  /\ pc[t] = "enable"
  /\ enabled' = TRUE
  /\ GoTo(t, "store")
  /\ UNCHANGED <<sm_control_setup_called, g_sm_mask, g_next_sm_mask, supreme, hw_mask>>
  /\ UNCHANGED <<tmd, todo, word, setter, history>>

Finish(t) ==
  /\ GoTo(t, "idle")
  /\ todo' = [todo EXCEPT ![t] = Idle]

StoreGlobal(t) ==
  /\ pc[t] = "store" /\ todo[t].call = "global"
  /\ g_sm_mask' = todo[t].mask
  /\ globals' = [u \in Threads |-> IF Launching(u) THEN globals[u] \cup {g_sm_mask'}
                                                   ELSE globals[u]]
  /\ Finish(t)
  /\ UNCHANGED <<sm_control_setup_called, enabled, g_next_sm_mask, supreme, hw_mask>>
  /\ UNCHANGED <<tmd, word, setter, subscribed, escaped, asked, masked, due, copied, always, ever>>

StoreNext(t) ==
  /\ pc[t] = "store" /\ todo[t].call = "next"
  /\ g_next_sm_mask' = [g_next_sm_mask EXCEPT ![t] = todo[t].mask]
  /\ asked' = [asked EXCEPT ![t] = todo[t].mask]
  /\ Finish(t)
  /\ UNCHANGED <<sm_control_setup_called, enabled, g_sm_mask, supreme, hw_mask>>
  /\ UNCHANGED <<tmd, word, setter, subscribed, escaped, masked, due, copied, globals, always, ever>>

-----------------------------------------------------------------------------
(* libsmctrl_set_stream_mask and libsmctrl_set_stream_mask_ext *)

BeginSetStreamExt(t, s, mask) ==
  /\ pc[t] = "idle"
  /\ todo' = [todo EXCEPT ![t] = [call |-> "stream", stream |-> s, mask |-> mask]]
  /\ word' = [word EXCEPT ![t] = IF WideStreams THEN 0 ELSE 1]
  /\ GoTo(t, "stream")
  /\ UNCHANGED <<library, tmd, setter, history>>

\* The older call disables every TPC past the 64th.
BeginSetStream(t, s, mask) == BeginSetStreamExt(t, s, mask \cup (TPCs \ Low))

\* One word of the stream struct: mask[0] to mask[3], or upper and then lower.
\* ("enabled" only tells CUDA to look at words that are otherwise still 0.)
\* On CUDA 8.0 the case falls through to the offset of 9.0, and they are stored
\* where CUDA does not look for them.
StoreStreamWord(t) ==
  /\ pc[t] = "stream"
  /\ LET s == todo[t].stream
         last == word[t] = (IF WideStreams THEN 3 ELSE 0)
     IN  /\ hw_mask' = IF Cuda = "cuda8_0" THEN hw_mask
                       ELSE [hw_mask EXCEPT ![s] = Overwrite(@, word[t], todo[t].mask)]
         /\ IF last
              THEN Finish(t) /\ masked' = masked \cup {s} /\ UNCHANGED word
              ELSE /\ word' = [word EXCEPT ![t] = IF WideStreams THEN @ + 1 ELSE @ - 1]
                   /\ UNCHANGED <<pc, todo, masked>>
  /\ UNCHANGED <<sm_control_setup_called, enabled, g_sm_mask, g_next_sm_mask, supreme>>
  /\ UNCHANGED <<tmd, setter, subscribed, escaped, asked, due, copied, globals, always, ever>>

-----------------------------------------------------------------------------
(* A kernel launch *)

\* CUDA builds the TMD and copies the stream's mask into it.
Launch(t, s) ==
  /\ pc[t] = "idle"
  /\ todo' = [todo EXCEPT ![t] = [call |-> "launch", stream |-> s]]
  /\ tmd' = [tmd EXCEPT ![t] = {tpc \in hw_mask[s] : WordOf[tpc] \in TMDWords}]
  /\ word' = [word EXCEPT ![t] = 0]
  /\ GoTo(t, "launching")
  /\ due' = [due EXCEPT ![t] = asked[t]]
  /\ asked' = [asked EXCEPT ![t] = NoMask]
  /\ copied' = [copied EXCEPT ![t] = IF s \in masked \/ tmd'[t] \cap Low # {} THEN tmd'[t]
                                                                          ELSE NoMask]
  /\ globals' = [globals EXCEPT ![t] = {g_sm_mask}]
  /\ always' = [always EXCEPT ![t] = supreme]
  /\ ever' = [ever EXCEPT ![t] = supreme]
  /\ UNCHANGED <<library, setter, subscribed, escaped, masked>>

\* The callback is not enabled: CUDA uploads the TMD as it is.
Unhooked(t) ==
  /\ pc[t] = "launching" /\ ~enabled
  /\ GoTo(t, "upload")
  /\ escaped' = IF sm_control_setup_called THEN escaped \cup {t} ELSE escaped
  /\ UNCHANGED <<library, tmd, todo, word, setter>>
  /\ UNCHANGED <<subscribed, asked, masked, due, copied, globals, always, ever>>

\* The first part of control_callback_v2.  On a TMD of version 4 it disables
\* every TPC past the 64th.
Extended(mask) == IF HopperTMD THEN mask \cup (TPCs \ Low) ELSE mask

EnterWithNext(t) ==
  /\ pc[t] = "launching" /\ enabled
  /\ g_next_sm_mask[t] # {}
  /\ tmd' = [tmd EXCEPT ![t] = Extended(g_next_sm_mask[t])]
  /\ g_next_sm_mask' = [g_next_sm_mask EXCEPT ![t] = {}]
  /\ GoTo(t, "supreme")
  /\ UNCHANGED <<sm_control_setup_called, enabled, g_sm_mask, supreme, hw_mask>>
  /\ UNCHANGED <<todo, word, setter, history>>

EnterWithStream(t) ==
  /\ pc[t] = "launching" /\ enabled
  /\ g_next_sm_mask[t] = {} /\ tmd[t] \cap Low # {}
  /\ tmd' = [tmd EXCEPT ![t] = Extended(@)]
  /\ GoTo(t, "supreme")
  /\ UNCHANGED <<library, todo, word, setter, history>>

EnterWithGlobal(t) ==
  /\ pc[t] = "launching" /\ enabled
  /\ g_next_sm_mask[t] = {} /\ tmd[t] \cap Low = {}
  /\ tmd' = [tmd EXCEPT ![t] = Extended(Overwrite(@, 0, g_sm_mask))]
  /\ GoTo(t, "global")
  /\ UNCHANGED <<library, todo, word, setter, history>>

\* The upper word is taken from a second read of g_sm_mask.
GlobalUpper(t) ==
  /\ pc[t] = "global"
  /\ tmd' = [tmd EXCEPT ![t] = Overwrite(@, 1, g_sm_mask)]
  /\ GoTo(t, "supreme")
  /\ UNCHANGED <<library, todo, word, setter, history>>

\* Each word of the supreme mask is added in turn.  Without the wrapper the
\* code's pointer to it is NULL; the mask is {} here, which adds nothing.
ApplySupreme(t) ==
  /\ pc[t] = "supreme"
  /\ tmd' = [tmd EXCEPT ![t] = @ \cup (supreme \cap Word(word[t]))]
  /\ word' = [word EXCEPT ![t] = @ + 1]
  /\ GoTo(t, IF word[t] + 1 \in TMDWords THEN "supreme" ELSE "upload")
  /\ UNCHANGED <<library, todo, setter, history>>

\* CUDA uploads the TMD; the history of the launch is closed.
Upload(t) ==
  /\ pc[t] = "upload"
  /\ Finish(t)
  /\ tmd' = [tmd EXCEPT ![t] = {}]
  /\ word' = [word EXCEPT ![t] = 0]
  /\ due' = [due EXCEPT ![t] = NoMask]
  /\ copied' = [copied EXCEPT ![t] = NoMask]
  /\ globals' = [globals EXCEPT ![t] = {}]
  /\ always' = [always EXCEPT ![t] = {}]
  /\ ever' = [ever EXCEPT ![t] = {}]
  /\ UNCHANGED <<library, setter, subscribed, escaped, asked, masked>>

-----------------------------------------------------------------------------
(* nvtaskset -p: the 128-bit store to the shared mask is two 64-bit ones *)

ChangeSupreme(mask) ==
  /\ supreme' = mask
  /\ always' = [t \in Threads |-> IF Launching(t) THEN always[t] \cap mask ELSE always[t]]
  /\ ever' = [t \in Threads |-> IF Launching(t) THEN ever[t] \cup mask ELSE ever[t]]
  /\ UNCHANGED <<sm_control_setup_called, enabled, g_sm_mask, g_next_sm_mask, hw_mask>>
  /\ UNCHANGED <<tmd, pc, todo, word, subscribed, escaped, asked, masked, due, copied, globals>>

StoreSupremeLow(n, mask) ==
  /\ Wrapper
  /\ setter[n] = NoMask
  /\ setter' = [setter EXCEPT ![n] = mask]
  /\ ChangeSupreme((supreme \ Low) \cup (mask \cap Low))

StoreSupremeHigh(n) ==
  /\ setter[n] # NoMask
  /\ setter' = [setter EXCEPT ![n] = NoMask]
  /\ ChangeSupreme((supreme \cap Low) \cup (setter[n] \ Low))

-----------------------------------------------------------------------------

Set(t) ==
  \/ \E mask \in ShortMasks, call \in {"global", "next"} : BeginSet(t, call, mask)
  \/ Subscribe(t)
  \/ Enable(t)
  \/ StoreGlobal(t)
  \/ StoreNext(t)

SetStream(t) ==
  \/ \E s \in Streams, mask \in ShortMasks : BeginSetStream(t, s, mask)
  \/ \E s \in Streams, mask \in LongMasks : BeginSetStreamExt(t, s, mask)
  \/ StoreStreamWord(t)

Kernel(t) ==
  \/ \E s \in Streams : Launch(t, s)
  \/ Unhooked(t)
  \/ EnterWithNext(t)
  \/ EnterWithStream(t)
  \/ EnterWithGlobal(t)
  \/ GlobalUpper(t)
  \/ ApplySupreme(t)
  \/ Upload(t)

Nvtaskset(n) ==
  \/ \E mask \in LongMasks : StoreSupremeLow(n, mask)
  \/ StoreSupremeHigh(n)

Next ==
  \/ \E t \in Threads : Set(t) \/ SetStream(t) \/ Kernel(t)
  \/ \E n \in Setters : Nvtaskset(n)

Spec == Init /\ [][Next]_vars

-----------------------------------------------------------------------------
(* Properties *)

\* The variables stay within their ranges; a thread inside a call remembers
\* that call, and only a process with the wrapper has a supreme mask.
TypeOK ==
  /\ sm_control_setup_called \in BOOLEAN /\ enabled \in BOOLEAN
  /\ g_sm_mask \in SUBSET Low
  /\ g_next_sm_mask \in [Threads -> SUBSET Low]
  /\ supreme \in Masks
  /\ hw_mask \in [Streams -> Masks]
  /\ tmd \in [Threads -> Masks]
  /\ pc \in [Threads -> {"idle", "subscribe", "enable", "store", "stream"} \cup LaunchPlaces]
  /\ todo \in [Threads -> Calls]
  /\ word \in [Threads -> 0 .. 4]
  /\ setter \in [Setters -> {NoMask} \cup Masks]
  /\ subscribed \in 0 .. 1
  /\ escaped \subseteq Threads
  /\ asked \in [Threads -> {NoMask} \cup SUBSET Low]
  /\ due \in [Threads -> {NoMask} \cup SUBSET Low]
  /\ masked \subseteq Streams
  /\ copied \in [Threads -> {NoMask} \cup Masks]
  /\ globals \in [Threads -> SUBSET SUBSET Low]
  /\ always \in [Threads -> Masks] /\ ever \in [Threads -> Masks]

\* Setup runs once, whichever threads call it together: the callback is never
\* subscribed a second time, and never enabled before it is subscribed
\* (libsmctrl.c:157, "setup should only run once").
SetupOnce ==
  /\ subscribed <= 1
  /\ enabled => subscribed = 1

\* "Any SMs disabled in it must always remain disabled" (libsmctrl.c:137): a
\* TPC that the supreme mask disabled all through a launch is disabled in the
\* TMD, whichever masks the process sets and however nvtaskset's stores and
\* the callback's reads interleave.
SupremeHolds ==
  \A t \in Threads :
    pc[t] = "upload" => \A tpc \in always[t] : WordOf[tpc] \in TMDWords => tpc \in tmd[t]

\* The masks a launch may draw its lower 64 bits from: the mask its thread asked
\* for since its last launch, else the mask set for its stream, else the values
\* the global mask had meanwhile (libsmctrl.h:16-28).
Candidates(t) ==
  IF due[t] # NoMask THEN {due[t]}
  ELSE IF copied[t] # NoMask THEN {copied[t]}
  ELSE globals[t]

\* The mask of the launch's thread, or else of its stream, is 0 in these bits.
ZeroMask(t) ==
  \/ due[t] = {}
  \/ due[t] = NoMask /\ copied[t] # NoMask /\ copied[t] \cap Low = {}

\* A launch gets each word from one of its candidates, and is kept from no other
\* TPC than those the supreme mask disabled meanwhile.
Respected(t) ==
  \A w \in {0, 1} : \E mask \in Candidates(t) :
    (tmd[t] \cap Word(w)) \ ever[t] = (mask \cap Word(w)) \ ever[t]

\* No mask is lost, and none applied to a launch it was not meant for, whatever
\* the other threads are doing.  libsmctrl.h:16-28 says more than the code does:
\*   a launch whose own mask is 0 is excepted, because libsmctrl.c:127 and :131
\*     take 0 for no mask and apply the mask below, where the header has 0 as a
\*     mask like any other;
\*   a thread one of whose launches the callback has missed is excepted, because
\*     another thread was still setting it up (libsmctrl.c:158);
\*   each word is looked at alone, because the two halves of the global mask are
\*     read one after the other and may be of two masks (libsmctrl.c:133-134).
\* A stream's mask is what its struct holds; on CUDA 8.0 that is not what was
\* asked for, as its case falls through to that of 9.0 (libsmctrl.c:334-340).
HookedPrecedence ==
  \A t \in Threads \ escaped : pc[t] = "upload" /\ ~ZeroMask(t) => Respected(t)

\* Without the exception of the missed launches: the next mask is that "for the
\* next kernel launch from the caller's CPU thread" (libsmctrl.h:27).  It holds
\* where the callback has been set up before the threads run, as the wrapper's
\* constructor does (libsmctrl.c:746).
FirstMaskApplies ==
  \A t \in Threads : pc[t] = "upload" /\ ~ZeroMask(t) => Respected(t)
=============================================================================
