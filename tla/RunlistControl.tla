--------------------------- MODULE RunlistControl ---------------------------
(***************************************************************************)
(* The files of nvdebug that steer the GPU's scheduler: switch_to_tsg,     *)
(* enable_channel, disable_channel, preempt_tsg, preempt_runlist and       *)
(* resubmit_runlist (nvdebug/runlist_procfs.c, runlist.c).                 *)
(*                                                                         *)
(* Anybody may write to these files at any time and nvdebug takes no lock, *)
(* so the steps of several writers interleave with each other, with the    *)
(* driver, which binds channels and submits runlists, and with the GPU's   *)
(* own scheduler.  One action is one access to a register; an access that  *)
(* only fetches what never changes (the device's topology) goes with its   *)
(* neighbour.  The driver and the GPU are external.                        *)
(***************************************************************************)
EXTENDS Integers, Sequences

CONSTANTS
  Writers,    \* the processes that write to the files
  Runlists,   \* the runlists of the GPU
  Insts,      \* instance blocks the driver binds to channels
  MAX_CHID,   \* the highest channel identifier
  MAX_TSGID,  \* 1 << (number of bits of a TSG identifier)
  OFFSETS,    \* 1 << (number of bits of the offset of a submission)
  KeepOffset, \* 0xffffffff, which is -1: no offset
  Scenarios,  \* the devices and the writes considered
  NoInst, NoTsg, NoBase, Idle

Ops == {"switch_to_tsg", "enable_channel", "disable_channel",
        "preempt_tsg", "preempt_runlist", "resubmit_runlist"}
Chips == {"gf100", "tu102", "ga100"}  \* up to Volta, Turing, from Ampere on

ASSUME SizesAssumption ==
  /\ Runlists \subseteq Nat /\ 0 \in Runlists
  /\ MAX_CHID \in Nat /\ MAX_TSGID \in Nat \ {0}
  /\ OFFSETS \in Nat \ {0} /\ KeepOffset \in Nat
ASSUME NamesAssumption == Insts # {} /\ NoInst \notin Insts /\ {NoTsg, Idle} \cap Nat = {}

Channels == Runlists \X (0 .. MAX_CHID)
\* In memory the entry of a TSG is followed by those of its channels; end is
\* the number of entries up to the last of them.
TsgEntry == [tsg : 0 .. MAX_TSGID - 1, chans : Seq(0 .. MAX_CHID), end : Nat]
Commands == [op : Ops, rl : Runlists, n : Nat]
NoCommand == [op |-> "none", rl |-> 0, n |-> 0]

\* Where a TSG begins, which is where the one before it ends.
Start(mem, k) == IF k = 1 THEN 0 ELSE mem[k - 1].end

\* The TSGs lie one behind the other, and each channel belongs to one of them.
Laid(mem) ==
  /\ \A k \in 1 .. Len(mem) : mem[k].end = Start(mem, k) + 1 + Len(mem[k].chans)
  /\ \A i, k \in 1 .. Len(mem) : i < k => mem[i].end < mem[k].end
  /\ \A i, k \in 1 .. Len(mem) :
       \A x \in 1 .. Len(mem[i].chans), y \in 1 .. Len(mem[k].chans) :
         mem[i].chans[x] = mem[k].chans[y] => mem[i].tsg = mem[k].tsg

ASSUME ScenariosAssumption ==
  \A s \in Scenarios :
    /\ s.chip \in Chips
    /\ s.gpu \in Nat                          \* the number of the device
    /\ NoBase \notin DOMAIN s.memory
    /\ \A b \in DOMAIN s.memory : s.memory[b] \in Seq(TsgEntry) /\ Laid(s.memory[b])
    /\ \A r \in Runlists : s.submits[r] \subseteq [base : DOMAIN s.memory, len : Nat, offset : Nat]
    \* What lies behind the end of a runlist is part of s.memory.
    /\ \A r \in Runlists : \A x, y \in s.submits[r] :
         x.len <= Start(s.memory[y.base], Len(s.memory[y.base]) + 1)
    /\ s.commands \subseteq Commands          \* rl is the directory of the file
    /\ s.rebinds \subseteq Channels           \* the channels the driver rebinds

VARIABLES
  scenario,  \* the device and the writes
  chan,      \* PCCSR or Channel RAM: is the channel enabled, its instance block
  list,      \* the runlist submitted to each runlist's registers
  running,   \* the TSG each runlist executes
  job,       \* the call each writer is in
  \* history
  bound,     \* the instance block the driver last bound to a channel
  torn,      \* channels rebound while a writer held what it had read of them
  given,     \* the runlist the driver last submitted, at the offset last asked for
  raced,     \* runlists submitted while a writer was about to resubmit them
  stale,     \* ... and those whose offset was set while a writer was to keep it
  may,       \* what each channel's enablement may be, given the writes so far
  only,      \* the TSG the last write has switched the runlist to
  settled    \* runlists preempted since

hw == <<chan, list, running>>
binding == <<bound, torn>>
submission == <<given, raced, stale>>
switching == <<only, settled>>
vars == <<scenario, hw, job, binding, submission, may, switching>>

-----------------------------------------------------------------------------
(* The device *)

Ampere == scenario.chip = "ga100"

\* Channel and TSG identifiers are per runlist from Ampere on.
Channel(r, c) == <<IF Ampere THEN r ELSE 0, c>>

\* The TSGs the GPU finds in a runlist: those that lie in it whole.
Submitted(s) == LET mem == scenario.memory[s.base]
                IN  {k \in 1 .. Len(mem) : mem[k].end <= s.len}

\* What a call should do: set one channel, or enable the channels of one TSG and
\* no others.
TsgDue(j, k) ==
  LET entry == scenario.memory[j.base][k]
  IN  {<<Channel(j.rl, entry.chans[i]), entry.tsg = j.cmd.n>> : i \in 1 .. Len(entry.chans)}
Due(j) ==
  IF j.cmd.op = "switch_to_tsg" THEN UNION {TsgDue(j, k) : k \in Submitted(j)}
  ELSE {<<Channel(j.rl, j.cmd.n), j.cmd.op = "enable_channel">>}

\* The scheduler picks a TSG of the runlist with an enabled channel.
Runnable(r) ==
  LET mem == scenario.memory[list[r].base]
  IN  {mem[k].tsg : k \in {k \in Submitted(list[r]) :
         \E i \in 1 .. Len(mem[k].chans) : chan[Channel(r, mem[k].chans[i])].enable}}
Reschedule(r) ==
  \E t \in IF Runnable(r) = {} THEN {Idle} ELSE Runnable(r) :
    running' = [running EXCEPT ![r] = t]

NewJob(c) ==
  [pc |-> "idle", cmd |-> c, rl |-> c.rl, base |-> NoBase, len |-> 0, offset |-> 0,
   tsg |-> 1, pos |-> 0, enable |-> FALSE, todo |-> << >>, held |-> NoInst,
   wrote |-> FALSE, asked |-> {}, rivals |-> {}]

Init ==
  /\ scenario \in Scenarios
  /\ list \in {l \in [Runlists -> UNION {scenario.submits[r] : r \in Runlists}] :
                 \A r \in Runlists : l[r] \in scenario.submits[r]}
  /\ bound = [c \in Channels |-> CHOOSE i \in Insts : TRUE]
  /\ chan = [c \in Channels |-> [enable |-> TRUE, inst |-> bound[c]]]
  /\ running = [r \in Runlists |-> Idle]
  /\ job = [w \in Writers |-> NewJob(NoCommand)]
  /\ torn = {}
  /\ given = list
  /\ raced = {}
  /\ stale = {}
  /\ may = [c \in Channels |-> {TRUE}]
  /\ only = [r \in Runlists |-> NoTsg]
  /\ settled = {}

-----------------------------------------------------------------------------
(* Steps shared by the handlers *)

Begin(w, c, op) ==
  /\ job[w].pc = "idle"
  /\ c \in scenario.commands /\ c.op = op

GoTo(w, j, place) == job' = [job EXCEPT ![w] = [j EXCEPT !.pc = place]]

Finish(w) == job' = [job EXCEPT ![w] = NewJob(NoCommand)]

Walking(w) == job[w].pc \in {"walk", "have"}

\* The writer is about to give channels these values: they may have them from
\* now on, whatever other writers inside their loops do.
Claim(w, j, new) ==
  /\ job' = [x \in Writers |->
               IF x = w THEN [j EXCEPT !.asked = @ \cup new]
               ELSE IF Walking(x) THEN [job[x] EXCEPT !.rivals = @ \cup new]
               ELSE job[x]]
  /\ may' = [c \in Channels |-> may[c] \cup {v \in BOOLEAN : <<c, v>> \in new}]
  /\ only' = [r \in Runlists |-> NoTsg]
  /\ settled' = {}

StartWalk(w, j) ==
  LET Others == UNION {job[x].asked : x \in {x \in Writers \ {w} : Walking(x)}}
  IN  Claim(w, [j EXCEPT !.pc = "walk", !.rivals = Others], Due(j))

\* Does the resubmission leave the offset as it has read it?  (There is none
\* before Turing.)
Keeps(w) == scenario.chip = "gf100" \/ job[w].cmd.n = KeepOffset
Keeping(w, r) ==
  /\ job[w].rl = r /\ job[w].cmd.op = "resubmit_runlist" /\ Keeps(w)
  /\ job[w].pc \in {"preempt", "submit"}

\* The writer has asked for an offset, or for none.
Asked(w, off) ==
  LET r == job[w].rl
  IN  IF Keeps(w) THEN UNCHANGED <<given, stale>>
      ELSE /\ given' = [given EXCEPT ![r].offset = off]
           /\ stale' = IF \E x \in Writers : Keeping(x, r) THEN stale \cup {r} ELSE stale \ {r}

\* Is the loop over the runlist not at its end?
MoreTsgs(j) ==
  j.cmd.op = "switch_to_tsg" /\ j.pos < j.len /\ j.tsg <= Len(scenario.memory[j.base])

-----------------------------------------------------------------------------
(* Mutants *)

\* The channel's word is read once and used for all channels of the runlist.
ReadChannelOnce(w) ==
  /\ job[w].pc = "walk" /\ ~Ampere /\ job[w].todo # << >>
  /\ LET word == chan[Channel(job[w].rl, Head(job[w].todo))]
     IN  GoTo(w, [job[w] EXCEPT !.held = IF @ = NoInst THEN word.inst ELSE @], "have")
  /\ UNCHANGED <<scenario, hw, binding, submission, may, switching>>

\* From Ampere on the whole word is written, as before.
WriteChannelWhole(w) ==
  /\ \/ job[w].pc = "have"
     \/ job[w].pc = "walk" /\ Ampere /\ job[w].todo # << >>
  /\ chan' = [chan EXCEPT ![Channel(job[w].rl, Head(job[w].todo))] =
                [enable |-> job[w].enable, inst |-> job[w].held]]
  /\ GoTo(w, [job[w] EXCEPT !.todo = Tail(@), !.wrote = TRUE], "walk")
  /\ UNCHANGED <<scenario, list, running, binding, submission, may, switching>>

\* The channels of a TSG are counted from 0 to its length, exclusive of the last.
NextTsgShort(w) ==
  LET j == job[w]
      entry == scenario.memory[j.base][j.tsg]
  IN  /\ j.pc = "walk" /\ j.todo = << >> /\ MoreTsgs(j)
      /\ Claim(w, [j EXCEPT !.todo = SubSeq(entry.chans, 1, Len(entry.chans) - 1),
                            !.enable = entry.tsg = j.cmd.n,
                            !.tsg = @ + 1, !.pos = @ + 1 + Len(entry.chans)],
               TsgDue(j, j.tsg))
      /\ UNCHANGED <<scenario, hw, binding, submission>>

\* Every channel is read before it is written, from Ampere on too.
ReadFailsAnywhere(w) ==
  /\ \/ job[w].pc \in {"base", "len", "config"}
     \/ job[w].pc = "walk" /\ job[w].todo # << >>
  /\ Finish(w)
  /\ UNCHANGED <<scenario, hw, binding, submission, may, switching>>

\* The number is the offset also when it is -1.
SubmitAnyOffset(w) ==
  LET r == job[w].rl
      off == job[w].cmd.n % OFFSETS
  IN  /\ job[w].pc = "submit"
      /\ list' = [list EXCEPT ![r] =
                    [base   |-> IF scenario.chip = "gf100" THEN job[w].base ELSE @.base,
                     len    |-> job[w].len,
                     offset |-> off]]
      /\ Asked(w, off)
      /\ Finish(w)
      /\ only' = [only EXCEPT ![r] = NoTsg]
      /\ settled' = settled \ {r}
      /\ UNCHANGED <<scenario, chan, running, binding, raced, may>>

\* The runlist is taken from the file's data, as resubmit_runlist does.
PreemptRunlistOfDevice(w, c) ==
  /\ Begin(w, c, "preempt_runlist")
  /\ \/ scenario.gpu \in Runlists /\ Reschedule(scenario.gpu)
     \/ scenario.gpu \notin Runlists /\ UNCHANGED running
  /\ settled' = settled \cup {r \in {c.n} \cap Runlists : only[r] # NoTsg}
  /\ Finish(w)
  /\ UNCHANGED <<scenario, chan, list, binding, submission, may, only>>

-----------------------------------------------------------------------------
(* switch_to_tsg, enable_channel and disable_channel *)

\* switch_to_tsg_file_write: MAX_TSGID itself passes the check.
SwitchToTsg(w, c) ==
  /\ Begin(w, c, "switch_to_tsg")
  /\ \/ c.n > MAX_TSGID /\ Finish(w)
     \/ c.n <= MAX_TSGID /\ GoTo(w, NewJob(c), "base")
  /\ UNCHANGED <<scenario, hw, binding, submission, may, switching>>

\* enable_channel_file_write and disable_channel_file_write.
SetChannel(w, c) ==
  LET j == [NewJob(c) EXCEPT !.todo = <<c.n>>, !.enable = c.op = "enable_channel"]
  IN  /\ Begin(w, c, "enable_channel") \/ Begin(w, c, "disable_channel")
      /\ \/ /\ ~Ampere /\ c.n <= MAX_CHID
            /\ StartWalk(w, j)
         \/ /\ ~Ampere /\ c.n > MAX_CHID
            /\ Finish(w) /\ UNCHANGED <<may, switching>>
         \/ /\ Ampere
            /\ GoTo(w, j, "config") /\ UNCHANGED <<may, switching>>
      /\ UNCHANGED <<scenario, hw, binding, submission>>

\* get_runlist_iter: the address of the runlist comes from one register or half,
\* its length from the next.
ReadBase(w) ==
  /\ job[w].pc = "base"
  /\ GoTo(w, [job[w] EXCEPT !.base = list[job[w].rl].base], "len")
  /\ UNCHANGED <<scenario, hw, binding, submission, may, switching>>

\* ... for a switch; the loop may begin.
ReadLen(w) ==
  LET j == [job[w] EXCEPT !.len = list[job[w].rl].len]
  IN  /\ job[w].pc = "len" /\ job[w].cmd.op = "switch_to_tsg"
      /\ \/ ~Ampere /\ StartWalk(w, j)
         \/ Ampere /\ GoTo(w, j, "config") /\ UNCHANGED <<may, switching>>
      /\ UNCHANGED <<scenario, hw, binding, submission>>

\* From Ampere on: where the runlist's Channel RAM is, and how large.
ReadConfig(w) ==
  /\ job[w].pc = "config"
  /\ LET outside == job[w].cmd.op # "switch_to_tsg" /\ job[w].cmd.n > MAX_CHID
     IN  \/ ~outside /\ StartWalk(w, job[w])
         \/ outside /\ Finish(w) /\ UNCHANGED <<may, switching>>
  /\ UNCHANGED <<scenario, hw, binding, submission>>

\* A bad read, or no mapping of the runlist: the call returns at once.
ReadFails(w) ==
  /\ \/ job[w].pc \in {"base", "len", "config"}
     \/ job[w].pc = "walk" /\ ~Ampere /\ job[w].todo # << >>
  /\ Finish(w)
  /\ UNCHANGED <<scenario, hw, binding, submission, may, switching>>

\* The loop takes the next TSG entry, which may lie behind the end of the
\* runlist when address and length are not of the same submission.
NextTsg(w) ==
  LET j == job[w]
      entry == scenario.memory[j.base][j.tsg]
  IN  /\ j.pc = "walk" /\ j.todo = << >> /\ MoreTsgs(j)
      /\ Claim(w, [j EXCEPT !.todo = entry.chans, !.enable = entry.tsg = j.cmd.n,
                            !.tsg = @ + 1, !.pos = @ + 1 + Len(entry.chans)],
               TsgDue(j, j.tsg))
      /\ UNCHANGED <<scenario, hw, binding, submission>>

\* Before Ampere the channel's word is read,
ReadChannel(w) ==
  /\ job[w].pc = "walk" /\ ~Ampere /\ job[w].todo # << >>
  /\ LET word == chan[Channel(job[w].rl, Head(job[w].todo))]
     IN  GoTo(w, [job[w] EXCEPT !.held = word.inst], "have")
  /\ UNCHANGED <<scenario, hw, binding, submission, may, switching>>

\* and written back whole with enable_set or enable_clear; from Ampere on only
\* the bit is written.
WriteChannel(w) ==
  /\ \/ job[w].pc = "have"
     \/ job[w].pc = "walk" /\ Ampere /\ job[w].todo # << >>
  /\ chan' = [chan EXCEPT ![Channel(job[w].rl, Head(job[w].todo))] =
                [enable |-> job[w].enable, inst |-> IF Ampere THEN @.inst ELSE job[w].held]]
  /\ GoTo(w, [job[w] EXCEPT !.todo = Tail(@), !.wrote = TRUE], "walk")
  /\ UNCHANGED <<scenario, list, running, binding, submission, may, switching>>

\* The call returns without resubmitting or preempting the runlist.  What its
\* channels may be now is what it asked for, or what a rival did meanwhile.
Return(w) ==
  LET Latest(c) == {v \in BOOLEAN : <<c, v>> \in job[w].asked}
      Later(c)  == {v \in BOOLEAN : <<c, v>> \in job[w].rivals}
      r == job[w].rl
      alone == /\ job[w].cmd.op = "switch_to_tsg" /\ job[w].rivals = {}
               /\ list[r].base = job[w].base /\ list[r].len = job[w].len
  IN  /\ job[w].pc = "walk" /\ job[w].todo = << >> /\ ~MoreTsgs(job[w])
      /\ Finish(w)
      /\ may' = [c \in Channels |->
                   IF Latest(c) = {} THEN may[c] ELSE Latest(c) \cup Later(c)]
      /\ only' = IF alone THEN [only EXCEPT ![r] = job[w].cmd.n] ELSE only
      /\ UNCHANGED <<scenario, hw, binding, submission, settled>>

-----------------------------------------------------------------------------
(* preempt_tsg, preempt_runlist and resubmit_runlist *)

\* preempt_tsg: an identifier is cut to its bits, so MAX_TSGID becomes 0.  The
\* runlists on which the TSG that the register then names is running.
Preempted(c) == {r \in Runlists : running[r] = c.n % MAX_TSGID /\ (Ampere => r = c.rl)}

\* preempt_tsg_file_write: MAX_TSGID itself passes the check.
PreemptTsg(w, c) ==
  /\ Begin(w, c, "preempt_tsg")
  /\ \/ c.n > MAX_TSGID /\ UNCHANGED running
     \/ c.n <= MAX_TSGID /\ Preempted(c) = {} /\ UNCHANGED running
     \/ c.n <= MAX_TSGID /\ \E r \in Preempted(c) : Reschedule(r)
  /\ Finish(w)
  /\ UNCHANGED <<scenario, chan, list, binding, submission, may, switching>>

Settle(r) == settled' = settled \cup {x \in {r} : only[x] # NoTsg}

\* preempt_runlist_file_write: the runlist is the number written, unchecked; for
\* a runlist that does not exist there is an error or nothing to preempt.
PreemptRunlist(w, c) ==
  /\ Begin(w, c, "preempt_runlist")
  /\ \/ c.n \in Runlists /\ Reschedule(c.n) /\ Settle(c.n)
     \/ c.n \notin Runlists /\ UNCHANGED <<running, settled>>
  /\ Finish(w)
  /\ UNCHANGED <<scenario, chan, list, binding, submission, may, only>>

\* resubmit_runlist_file_write: the file's data is the number of the device, and
\* is used for that of the runlist; the number written is the offset.
ResubmitRunlist(w, c) ==
  LET j == [NewJob(c) EXCEPT !.rl = scenario.gpu]
  IN  /\ Begin(w, c, "resubmit_runlist")
      /\ IF j.rl \notin Runlists THEN Finish(w)
         ELSE GoTo(w, j, IF scenario.chip = "gf100" THEN "base" ELSE "len")
      /\ UNCHANGED <<scenario, hw, binding, submission, may, switching>>

\* resubmit_runlist: the rest of the present submission; from Turing on the
\* runlist is preempted next.
ReadSubmit(w) ==
  LET present == list[job[w].rl]
  IN  /\ job[w].pc = "len" /\ job[w].cmd.op = "resubmit_runlist"
      /\ GoTo(w, [job[w] EXCEPT !.len = present.len, !.offset = present.offset],
              IF scenario.chip = "gf100" THEN "submit" ELSE "preempt")
      /\ UNCHANGED <<scenario, hw, binding, submission, may, switching>>

PreemptBeforeSubmit(w) ==
  /\ job[w].pc = "preempt"
  /\ Reschedule(job[w].rl) /\ Settle(job[w].rl)
  /\ GoTo(w, job[w], "submit")
  /\ UNCHANGED <<scenario, chan, list, binding, submission, may, only>>

\* What was read is written back: address and length, or all but the address; from
\* Turing on with the offset that was written, cut to its bits, unless it is -1.
Submit(w) ==
  LET r == job[w].rl
      off == IF Keeps(w) THEN job[w].offset ELSE job[w].cmd.n % OFFSETS
  IN  /\ job[w].pc = "submit"
      /\ list' = [list EXCEPT ![r] =
                    [base   |-> IF scenario.chip = "gf100" THEN job[w].base ELSE @.base,
                     len    |-> job[w].len,
                     offset |-> off]]
      /\ Asked(w, off)
      /\ Finish(w)
      /\ only' = [only EXCEPT ![r] = NoTsg]
      /\ settled' = settled \ {r}
      /\ UNCHANGED <<scenario, chan, running, binding, raced, may>>
-----------------------------------------------------------------------------
(* The driver and the GPU *)

\* A timeslice ends, or the running TSG has nothing more to do.
Timeslice(r) ==
  /\ Reschedule(r)
  /\ UNCHANGED <<scenario, chan, list, job, binding, submission, may, switching>>

\* Does the writer hold a part of the submission it will write back?
Resubmitting(w, r) ==
  /\ job[w].rl = r /\ job[w].cmd.op = "resubmit_runlist"
  /\ \/ job[w].pc \in {"preempt", "submit"}
     \/ job[w].pc = "len" /\ scenario.chip = "gf100"

DriverSubmit(r) ==
  /\ \E s \in scenario.submits[r] \ {list[r]} :
       /\ list' = [list EXCEPT ![r] = s]
       /\ given' = [given EXCEPT ![r] = s]
  /\ raced' = IF \E w \in Writers : Resubmitting(w, r) THEN raced \cup {r} ELSE raced \ {r}
  /\ stale' = IF \E w \in Writers : Keeping(w, r) THEN stale \cup {r} ELSE stale \ {r}
  /\ only' = [only EXCEPT ![r] = NoTsg]
  /\ settled' = settled \ {r}
  /\ UNCHANGED <<scenario, chan, running, job, binding, may>>

\* Does the writer hold the channel's word?
Holding(w, c) == job[w].pc = "have" /\ Channel(job[w].rl, Head(job[w].todo)) = c

DriverBind(c) ==
  /\ \E i \in Insts \ {bound[c]} :
       /\ chan' = [chan EXCEPT ![c].inst = i]
       /\ bound' = [bound EXCEPT ![c] = i]
  /\ torn' = IF \E w \in Writers : Holding(w, c) THEN torn \cup {c} ELSE torn \ {c}
  /\ UNCHANGED <<scenario, list, running, job, submission, may, switching>>

-----------------------------------------------------------------------------
Continue(w) ==
  \/ ReadBase(w) \/ ReadLen(w) \/ ReadConfig(w) \/ NextTsg(w) \/ ReadChannel(w) \/ WriteChannel(w)
  \/ Return(w) \/ ReadSubmit(w) \/ PreemptBeforeSubmit(w) \/ Submit(w)

Next ==
  \/ \E w \in Writers, c \in scenario.commands :
       \/ SwitchToTsg(w, c) \/ SetChannel(w, c) \/ PreemptTsg(w, c)
       \/ PreemptRunlist(w, c) \/ ResubmitRunlist(w, c)
  \/ \E w \in Writers : Continue(w) \/ ReadFails(w)
  \/ \E r \in Runlists : Timeslice(r) \/ DriverSubmit(r)
  \/ \E c \in scenario.rebinds : DriverBind(c)

Spec == Init /\ [][Next]_vars

-----------------------------------------------------------------------------
(* Properties *)

Jobs ==
  [pc : {"idle", "base", "len", "config", "walk", "have", "preempt", "submit"},
   cmd : Commands \cup {NoCommand}, rl : Runlists,
   base : DOMAIN scenario.memory \cup {NoBase}, len : Nat, offset : Nat, tsg : Nat \ {0}, pos : Nat,
   enable : BOOLEAN, todo : Seq(Nat), held : Insts \cup {NoInst},
   wrote : BOOLEAN,
   asked : SUBSET (Channels \X BOOLEAN), rivals : SUBSET (Channels \X BOOLEAN)]
Submissions == [base : DOMAIN scenario.memory, len : Nat, offset : Nat]

\* Registers hold what registers can hold; in particular a channel is never
\* bound to a word that was not read (runlist_procfs.c:562-568).
TypeOK ==
  /\ scenario \in Scenarios
  /\ chan \in [Channels -> [enable : BOOLEAN, inst : Insts]]
  /\ list \in [Runlists -> Submissions]
  /\ running \in [Runlists -> Nat \cup {Idle}]
  /\ job \in [Writers -> Jobs]
  /\ bound \in [Channels -> Insts] /\ torn \subseteq Channels
  /\ given \in [Runlists -> Submissions] /\ raced \subseteq Runlists /\ stale \subseteq Runlists
  /\ may \in [Channels -> SUBSET BOOLEAN]
  /\ only \in [Runlists -> Nat \cup {NoTsg}] /\ settled \subseteq Runlists

\* However the calls of several writers interleave, a channel is as the last
\* completed write to it asked, or as one that overlapped with it or came later
\* did: no call undoes one that was over before, and no call skips a channel
\* (the read, update, write at runlist_procfs.c:561-568; the loop at :549-577).
NothingStale == \A c \in Channels : chan[c].enable \in may[c]

\* From Ampere on a switch does all of its work or none: once it has written to
\* a channel it returns only when all of them are written, for all that can fail
\* comes before the loop (runlist_procfs.c:534-546).
AllOrNothing ==
  [][\A w \in Writers : Ampere /\ job[w].wrote /\ job'[w].pc = "idle" =>
                           job[w].todo = << >> /\ ~MoreTsgs(job[w])]_vars

\* No writer changes the instance block of a channel, except by writing back one
\* that the driver replaced while the writer held it (runlist_procfs.c:561-568).
BindingKept == \A c \in Channels : chan[c].inst = bound[c] \/ (c \in torn /\ ~Ampere)

\* No writer changes which runlist is submitted, except when the driver submits
\* another between a resubmission's read and its write; and its offset is the one
\* the driver or a resubmission last asked for, except when another asked for it
\* between the read and the write of one that keeps the offset (runlist.c:237-276).
SubmissionIntact ==
  \A r \in Runlists :
    /\ r \notin raced => list[r].base = given[r].base /\ list[r].len = given[r].len
    /\ r \notin stale => list[r].offset = given[r].offset

\* The procedure that stands in for the code after the early return: once a
\* switch that nobody disturbed is over and the runlist is preempted, only the
\* TSG of the switch executes on it (runlist_procfs.c:582-595).
SwitchThenPreempt == \A r \in settled : running[r] \in {only[r], Idle}
=============================================================================
