------------------------ MODULE RunlistControl_proofs ------------------------
(***************************************************************************)
(* Theorems about RunlistControl, for every number of writers, runlists,   *)
(* channels and TSGs, every device and every set of writes to its files.   *)
(*                                                                         *)
(*   RegistersTyped       registers and calls have their types             *)
(*   BindingPreserved     a write leaves the binding of its channel alone  *)
(*   SubmissionPreserved  and a resubmission the runlist                   *)
(*   SwitchAllOrNothing   from Ampere on a switch is complete              *)
(*   WritesKept           no call undoes one that was over                 *)
(*   SwitchTakesHold      a switch and a preemption leave only its TSG     *)
(***************************************************************************)
EXTENDS RunlistControl, SequenceTheorems, TLAPS

\* Where a call is says what it is and what it has read so far.
Shape(j) ==
  /\ j.cmd.op = "switch_to_tsg" /\ j.pc \in {"len", "config", "walk", "have"} =>
       j.base \in DOMAIN scenario.memory
  /\ j.cmd.op = "resubmit_runlist" /\ j.pc \in {"len", "submit"} /\ scenario.chip = "gf100" =>
       j.base \in DOMAIN scenario.memory
  /\ j.pc \in {"base", "len"} => j.cmd.op \in {"switch_to_tsg", "resubmit_runlist"}
  /\ j.pc \in {"config", "walk", "have"} =>
       j.cmd.op \in {"switch_to_tsg", "enable_channel", "disable_channel"}
  /\ j.pc \in {"preempt", "submit"} => j.cmd.op = "resubmit_runlist"
  /\ j.pc = "preempt" => scenario.chip # "gf100"
  /\ j.pc \in {"base", "len"} => j.todo = << >>
  /\ j.pc = "config" /\ j.cmd.op = "switch_to_tsg" => j.todo = << >>
  /\ j.pc = "config" /\ j.cmd.op # "switch_to_tsg" => j.todo = <<j.cmd.n>>
  /\ j.pc = "config" => Ampere
  /\ j.pc \in {"walk", "have"} => j.todo \in Seq(0 .. MAX_CHID)
  /\ j.pc = "have" => ~Ampere /\ j.todo # << >> /\ j.held \in Insts
  /\ j.wrote => j.pc \in {"walk", "have"}

ShapeInv == TypeOK /\ \A w \in Writers : Shape(job[w])

-----------------------------------------------------------------------------
(* Lemmas about the device and the steps the actions share *)

\* A channel identifier within the limit names a channel.
LEMMA ChannelTyped ==
  ASSUME NEW r \in Runlists, NEW c \in 0 .. MAX_CHID
  PROVE  Channel(r, c) \in Channels
BY SizesAssumption DEF Channel, Channels

\* The first of some channels, and those that follow it.
LEMMA ChannelsTyped ==
  ASSUME NEW s \in Seq(0 .. MAX_CHID), s # << >>
  PROVE  Head(s) \in 0 .. MAX_CHID /\ Tail(s) \in Seq(0 .. MAX_CHID) /\ Tail(s) \in Seq(Nat)
<1>1. Tail(s) \in Seq(0 .. MAX_CHID)
  OBVIOUS
<1>2. 0 .. MAX_CHID \subseteq Nat
  BY SizesAssumption
<1>3. Tail(s) \in Seq(Nat)
  BY <1>1, <1>2, SeqMonotonic, Zenon
<1> QED BY <1>1, <1>3, SizesAssumption

\* The entries of a runlist in memory are TSGs with channels of the device.
LEMMA MemoryTyped ==
  ASSUME scenario \in Scenarios, NEW b \in DOMAIN scenario.memory,
         NEW k \in 1 .. Len(scenario.memory[b])
  PROVE  /\ scenario.memory[b][k].tsg \in Nat
         /\ scenario.memory[b][k].chans \in Seq(0 .. MAX_CHID)
<1>1. scenario.memory[b] \in Seq(TsgEntry)
  BY ScenariosAssumption
<1>2. scenario.memory[b][k] \in TsgEntry
  BY <1>1
<1> QED BY <1>2, SizesAssumption DEF TsgEntry

\* What a TSG of the loop asks for are values of channels.
LEMMA TsgDueTyped ==
  ASSUME scenario \in Scenarios, NEW j \in Jobs, j.base \in DOMAIN scenario.memory,
         NEW k \in 1 .. Len(scenario.memory[j.base])
  PROVE  TsgDue(j, k) \subseteq Channels \X BOOLEAN
<1> DEFINE chans == scenario.memory[j.base][k].chans
<1>1. chans \in Seq(0 .. MAX_CHID)
  BY MemoryTyped
<1>2. \A i \in 1 .. Len(chans) : chans[i] \in 0 .. MAX_CHID
  <2> HIDE DEF chans
  <2> QED BY <1>1, SizesAssumption
<1>3. j.rl \in Runlists
  BY DEF Jobs
<1>4. \A i \in 1 .. Len(chans) : Channel(j.rl, chans[i]) \in Channels
  BY <1>2, <1>3, ChannelTyped
<1>5. ASSUME NEW i \in 1 .. Len(chans)
      PROVE  <<Channel(j.rl, chans[i]), scenario.memory[j.base][k].tsg = j.cmd.n>> \in Channels \X BOOLEAN
  <2>1. (scenario.memory[j.base][k].tsg = j.cmd.n) \in BOOLEAN
    OBVIOUS
  <2> QED BY <1>4, <2>1, Zenon
<1> QED BY <1>5, Zenon DEF TsgDue

\* So does a call as a whole.
LEMMA DueTyped ==
  ASSUME scenario \in Scenarios, NEW j \in Jobs,
         j.cmd.op = "switch_to_tsg" => j.base \in DOMAIN scenario.memory,
         j.cmd.op # "switch_to_tsg" => j.cmd.n \in 0 .. MAX_CHID
  PROVE  Due(j) \subseteq Channels \X BOOLEAN
<1>1. CASE j.cmd.op = "switch_to_tsg"
  <2>1. \A k \in Submitted(j) : TsgDue(j, k) \subseteq Channels \X BOOLEAN
    BY <1>1, TsgDueTyped DEF Submitted
  <2> QED BY <1>1, <2>1 DEF Due
<1>2. CASE j.cmd.op # "switch_to_tsg"
  <2>1. Channel(j.rl, j.cmd.n) \in Channels
    BY <1>2, ChannelTyped DEF Jobs
  <2>2. (j.cmd.op = "enable_channel") \in BOOLEAN
    OBVIOUS
  <2>3. <<Channel(j.rl, j.cmd.n), j.cmd.op = "enable_channel">> \in Channels \X BOOLEAN
    BY <2>1, <2>2, Zenon
  <2> QED BY <1>2, <2>3, Zenon DEF Due
<1> QED BY <1>1, <1>2

\* The scheduler picks a TSG or nothing.
LEMMA RescheduleTyped ==
  ASSUME TypeOK, NEW r \in Runlists, Reschedule(r)
  PROVE  running' \in [Runlists -> Nat \cup {Idle}]
<1>1. list[r].base \in DOMAIN scenario.memory
  BY DEF TypeOK, Submissions
<1>2. Runnable(r) \subseteq Nat
  <2>1. \A k \in Submitted(list[r]) : scenario.memory[list[r].base][k].tsg \in Nat
    BY <1>1, MemoryTyped DEF Submitted, TypeOK
  <2> QED BY <2>1, Zenon DEF Runnable
<1>3. PICK t \in Nat \cup {Idle} : running' = [running EXCEPT ![r] = t]
  BY <1>2 DEF Reschedule
<1> QED BY <1>3 DEF TypeOK

\* A call that is not made is as it should be.
LEMMA NewJobTyped ==
  ASSUME NEW c \in Commands \cup {NoCommand}
  PROVE  NewJob(c) \in Jobs
BY SizesAssumption DEF NewJob, Jobs, Commands, NoCommand

\* So is one that is to set a channel.
LEMMA SetChannelTyped ==
  ASSUME NEW c \in Commands \cup {NoCommand}
  PROVE  [NewJob(c) EXCEPT !.todo = <<c.n>>, !.enable = c.op = "enable_channel"] \in Jobs
<1>1. (c.op = "enable_channel") \in BOOLEAN
  OBVIOUS
<1>2. <<c.n>> \in Seq(Nat)
  BY DEF Commands, NoCommand
<1>3. ASSUME NEW j \in Jobs, NEW t \in Seq(Nat), NEW e \in BOOLEAN
      PROVE  [j EXCEPT !.todo = t, !.enable = e] \in Jobs
  BY DEF Jobs
<1> QED BY <1>1, <1>2, <1>3, NewJobTyped, Zenon

\* A call at rest has read and written nothing.
LEMMA NewJobShape ==
  ASSUME NEW c \in Commands \cup {NoCommand}
  PROVE  Shape(NewJob(c))
BY DEF Shape, NewJob

\* A step that changes the call of one writer alone.
LEMMA JobStep ==
  ASSUME ShapeInv, NEW w \in Writers, NEW j \in Jobs, Shape(j),
         job' = [job EXCEPT ![w] = j], scenario' = scenario
  PROVE  (job \in [Writers -> Jobs])' /\ (\A x \in Writers : Shape(job[x]))'
<1>1. Jobs' = Jobs
  BY DEF Jobs, Commands, NoCommand, Channels
<1>2. job' \in [Writers -> Jobs]
  BY DEF ShapeInv, TypeOK
<1>3. \A x \in Writers : Shape(job'[x])
  BY DEF ShapeInv, TypeOK
<1>4. \A x \in Writers : Shape(job[x])'
  BY <1>3 DEF Shape, Ampere
<1> QED BY <1>1, <1>2, <1>4

\* The end of a call.
LEMMA FinishStep ==
  ASSUME ShapeInv, NEW w \in Writers, Finish(w), scenario' = scenario
  PROVE  (job \in [Writers -> Jobs])' /\ (\A x \in Writers : Shape(job[x]))'
BY JobStep, NewJobTyped, NewJobShape DEF Finish

\* A call that learns of its rivals.
LEMMA RivalsTyped ==
  ASSUME NEW j \in Jobs, NEW new \in SUBSET (Channels \X BOOLEAN)
  PROVE  [j EXCEPT !.rivals = @ \cup new] \in Jobs
<1>1. j.rivals \cup new \in SUBSET (Channels \X BOOLEAN)
  BY DEF Jobs
<1>2. ASSUME NEW all \in SUBSET (Channels \X BOOLEAN)
      PROVE  [j EXCEPT !.rivals = all] \in Jobs
  BY DEF Jobs
<1> QED BY <1>1, <1>2, Zenon

\* A step that announces what it is about to write.
LEMMA ClaimStep ==
  ASSUME ShapeInv, NEW w \in Writers, NEW j \in Jobs, Shape(j),
         NEW new \in SUBSET (Channels \X BOOLEAN), Claim(w, j, new), scenario' = scenario
  PROVE  /\ (job \in [Writers -> Jobs])' /\ (\A x \in Writers : Shape(job[x]))'
         /\ may' \in [Channels -> SUBSET BOOLEAN]
         /\ only' \in [Runlists -> Nat \cup {NoTsg}] /\ settled' \subseteq Runlists
<1>1. Jobs' = Jobs
  BY DEF Jobs, Commands, NoCommand, Channels
<1>2. [j EXCEPT !.asked = @ \cup new] \in Jobs /\ Shape([j EXCEPT !.asked = @ \cup new])
  <2>1. j.asked \cup new \in SUBSET (Channels \X BOOLEAN)
    BY DEF Jobs
  <2>2. ASSUME NEW all \in SUBSET (Channels \X BOOLEAN)
        PROVE  [j EXCEPT !.asked = all] \in Jobs
    BY DEF Jobs
  <2>3. Shape([j EXCEPT !.asked = @ \cup new])
    BY DEF Jobs, Shape
  <2> QED BY <2>1, <2>2, <2>3, Zenon
<1>3. \A x \in Writers : /\ [job[x] EXCEPT !.rivals = @ \cup new] \in Jobs
                         /\ Shape([job[x] EXCEPT !.rivals = @ \cup new])
  <2>1. ASSUME NEW i \in Jobs, Shape(i)
        PROVE  /\ [i EXCEPT !.rivals = @ \cup new] \in Jobs
               /\ Shape([i EXCEPT !.rivals = @ \cup new])
    <3>1. [i EXCEPT !.rivals = @ \cup new] \in Jobs
      BY RivalsTyped
    <3>2. Shape([i EXCEPT !.rivals = @ \cup new])
      BY <2>1 DEF Jobs, Shape
    <3> QED BY <3>1, <3>2
  <2> QED BY <2>1 DEF ShapeInv, TypeOK
<1>4. job' \in [Writers -> Jobs] /\ \A x \in Writers : Shape(job'[x])
  BY <1>2, <1>3 DEF Claim, ShapeInv, TypeOK
<1>5. \A x \in Writers : Shape(job[x])'
  BY <1>4 DEF Shape, Ampere
<1>6. may' \in [Channels -> SUBSET BOOLEAN]
  BY DEF Claim, ShapeInv, TypeOK
<1>7. only' \in [Runlists -> Nat \cup {NoTsg}] /\ settled' \subseteq Runlists
  BY DEF Claim
<1> QED BY <1>1, <1>4, <1>5, <1>6, <1>7

\* The step into the loop over the channels.
LEMMA StartWalkStep ==
  ASSUME ShapeInv, NEW w \in Writers, NEW j \in Jobs, scenario' = scenario,
         j.cmd.op \in {"switch_to_tsg", "enable_channel", "disable_channel"},
         j.cmd.op = "switch_to_tsg" => j.base \in DOMAIN scenario.memory /\ j.todo = << >>,
         j.cmd.op # "switch_to_tsg" => j.cmd.n \in 0 .. MAX_CHID /\ j.todo = <<j.cmd.n>>,
         StartWalk(w, j)
  PROVE  /\ (job \in [Writers -> Jobs])' /\ (\A x \in Writers : Shape(job[x]))'
         /\ may' \in [Channels -> SUBSET BOOLEAN]
         /\ only' \in [Runlists -> Nat \cup {NoTsg}] /\ settled' \subseteq Runlists
<1> DEFINE Others == UNION {job[x].asked : x \in {x \in Writers \ {w} : Walking(x)}}
           walker == [j EXCEPT !.pc = "walk", !.rivals = Others]
<1>1. \A x \in Writers : job[x].asked \subseteq Channels \X BOOLEAN
  BY DEF ShapeInv, TypeOK, Jobs
<1>2. Others \in SUBSET (Channels \X BOOLEAN)
  BY <1>1
<1>3. walker \in Jobs
  <2> HIDE DEF Others
  <2> QED BY <1>2 DEF Jobs
<1>4. Shape(walker)
  <2> HIDE DEF Others
  <2>1. j.todo \in Seq(0 .. MAX_CHID)
    <3>1. ASSUME NEW n \in 0 .. MAX_CHID
          PROVE  <<n>> \in Seq(0 .. MAX_CHID)
      BY <3>1, SizesAssumption
    <3>2. << >> \in Seq(0 .. MAX_CHID)
      BY SizesAssumption
    <3> QED BY <3>1, <3>2, Zenon
  <2>2. /\ walker.pc = "walk" /\ walker.cmd = j.cmd /\ walker.base = j.base
        /\ walker.todo = j.todo
    BY DEF Jobs
  <2> QED BY <2>1, <2>2 DEF Shape
<1>5. Due(j) \in SUBSET (Channels \X BOOLEAN)
  BY DueTyped DEF ShapeInv, TypeOK
<1>6. Claim(w, walker, Due(j))
  BY DEF StartWalk
<1> HIDE DEF walker
<1> QED BY <1>3, <1>4, <1>5, <1>6, ClaimStep

-----------------------------------------------------------------------------
(* The invariant of the types *)

\* Every initial state satisfies it.
LEMMA ShapeInit == Init => ShapeInv
<1> SUFFICES ASSUME Init PROVE ShapeInv
  OBVIOUS
<1>1. \A w \in Writers : job[w] \in Jobs /\ Shape(job[w])
  BY NewJobTyped, NewJobShape DEF Init
<1>2. list \in [Runlists -> Submissions]
  BY ScenariosAssumption DEF Init, Submissions
<1>3. (CHOOSE i \in Insts : TRUE) \in Insts
  BY NamesAssumption
<1>4. bound \in [Channels -> Insts] /\ chan \in [Channels -> [enable : BOOLEAN, inst : Insts]]
  BY <1>3 DEF Init
<1> QED BY <1>1, <1>2, <1>4 DEF Init, ShapeInv, TypeOK

\* The parts of a step the calls make of their own.
JobsFine == (job \in [Writers -> Jobs])' /\ (\A x \in Writers : Shape(job[x]))'

\* Steps that change nothing but the call of one writer.
LEMMA CallSteps ==
  ASSUME ShapeInv, NEW w \in Writers, NEW c \in Commands \cup {NoCommand},
         \/ SwitchToTsg(w, c) \/ ResubmitRunlist(w, c) \/ ReadBase(w) \/ ReadSubmit(w)
         \/ ReadFails(w) \/ ReadChannel(w)
  PROVE  JobsFine
<1> USE DEF JobsFine
<1>0. /\ scenario' = scenario /\ NewJob(c) \in Jobs /\ Shape(NewJob(c))
      /\ job[w] \in Jobs /\ Shape(job[w]) /\ scenario.chip \in Chips
  BY ScenariosAssumption, NewJobTyped, NewJobShape
     DEF ShapeInv, TypeOK, SwitchToTsg, ResubmitRunlist, ReadBase, ReadSubmit, ReadFails, ReadChannel
<1>1. CASE SwitchToTsg(w, c)
  <2>1. [NewJob(c) EXCEPT !.pc = "base"] \in Jobs
    BY <1>0 DEF Jobs
  <2>2. Shape([NewJob(c) EXCEPT !.pc = "base"])
    <3>1. c.op = "switch_to_tsg"
      BY <1>1 DEF SwitchToTsg, Begin
    <3> QED BY <3>1 DEF NewJob, Shape
  <2> QED BY <1>0, <1>1, <2>1, <2>2, JobStep, FinishStep DEF SwitchToTsg, GoTo
<1>2. CASE ResubmitRunlist(w, c)
  <2> DEFINE j(p) == [[NewJob(c) EXCEPT !.rl = scenario.gpu] EXCEPT !.pc = p]
  <2>1. CASE scenario.gpu \in Runlists /\ scenario.chip = "gf100"
    <3>1. j("base") \in Jobs
      BY <1>0, <2>1 DEF Jobs
    <3>2. Shape(j("base"))
      <4>1. c.op = "resubmit_runlist"
        BY <1>2 DEF ResubmitRunlist, Begin
      <4> QED BY <2>1, <4>1 DEF NewJob, Shape
    <3>3. job' = [job EXCEPT ![w] = j("base")]
      BY <1>2, <2>1 DEF ResubmitRunlist, GoTo, NewJob
    <3> HIDE DEF j
    <3> QED BY <1>0, <3>1, <3>2, <3>3, JobStep
  <2>2. CASE scenario.gpu \in Runlists /\ scenario.chip # "gf100"
    <3>1. j("len") \in Jobs
      BY <1>0, <2>2 DEF Jobs
    <3>2. Shape(j("len"))
      <4>1. c.op = "resubmit_runlist"
        BY <1>2 DEF ResubmitRunlist, Begin
      <4> QED BY <2>2, <4>1 DEF NewJob, Shape
    <3>3. job' = [job EXCEPT ![w] = j("len")]
      BY <1>2, <2>2 DEF ResubmitRunlist, GoTo, NewJob
    <3> HIDE DEF j
    <3> QED BY <1>0, <3>1, <3>2, <3>3, JobStep
  <2>3. CASE scenario.gpu \notin Runlists
    BY <1>0, <1>2, <2>3, FinishStep DEF ResubmitRunlist, NewJob
  <2> QED BY <2>1, <2>2, <2>3
<1>3. CASE ReadBase(w)
  <2> DEFINE j == [[job[w] EXCEPT !.base = list[job[w].rl].base] EXCEPT !.pc = "len"]
  <2>1. list[job[w].rl].base \in DOMAIN scenario.memory
    BY <1>0 DEF ShapeInv, TypeOK, Submissions, Jobs
  <2>2. j \in Jobs
    BY <1>0, <2>1 DEF Jobs
  <2>3. Shape(j)
    BY <1>0, <1>3, <2>1 DEF Jobs, Shape, ReadBase
  <2>4. job' = [job EXCEPT ![w] = j]
    BY <1>3 DEF ReadBase, GoTo
  <2> HIDE DEF j
  <2> QED BY <1>0, <2>2, <2>3, <2>4, JobStep
<1>4. CASE ReadSubmit(w)
  <2> DEFINE p == IF scenario.chip = "gf100" THEN "submit" ELSE "preempt"
             now == list[job[w].rl]
             j == [[job[w] EXCEPT !.len = now.len, !.offset = now.offset] EXCEPT !.pc = p]
  <2>1. now.len \in Nat /\ now.offset \in Nat
    BY <1>0 DEF ShapeInv, TypeOK, Submissions, Jobs
  <2>2. j \in Jobs
    <3>1. p \in {"submit", "preempt"}
      OBVIOUS
    <3> HIDE DEF p
    <3> QED BY <1>0, <2>1, <3>1 DEF Jobs
  <2>3. Shape(j)
    BY <1>0, <1>4 DEF Jobs, Shape, ReadSubmit
  <2>4. job' = [job EXCEPT ![w] = j]
    BY <1>4 DEF ReadSubmit, GoTo
  <2> HIDE DEF j
  <2> QED BY <1>0, <2>2, <2>3, <2>4, JobStep
<1>5. CASE ReadFails(w)
  BY <1>0, <1>5, FinishStep DEF ReadFails
<1>6. CASE ReadChannel(w)
  <2> DEFINE word == chan[Channel(job[w].rl, Head(job[w].todo))]
             j == [[job[w] EXCEPT !.held = word.inst] EXCEPT !.pc = "have"]
  <2>1. Head(job[w].todo) \in 0 .. MAX_CHID
    BY <1>0, <1>6, SizesAssumption DEF Shape, ReadChannel
  <2>2. word.inst \in Insts
    BY <1>0, <2>1, ChannelTyped DEF ShapeInv, TypeOK, Jobs
  <2>3. j \in Jobs
    BY <1>0, <2>2 DEF Jobs
  <2>4. Shape(j)
    BY <1>0, <1>6, <2>2 DEF Jobs, Shape, ReadChannel
  <2>5. job' = [job EXCEPT ![w] = j]
    BY <1>6 DEF ReadChannel, GoTo
  <2> HIDE DEF j
  <2> QED BY <1>0, <2>3, <2>4, <2>5, JobStep
<1> QED BY <1>1, <1>2, <1>3, <1>4, <1>5, <1>6

\* Steps that announce values of channels, or decide not to.
LEMMA WalkSteps ==
  ASSUME ShapeInv, NEW w \in Writers, NEW c \in Commands \cup {NoCommand},
         SetChannel(w, c) \/ ReadLen(w) \/ ReadConfig(w) \/ NextTsg(w)
  PROVE  /\ JobsFine /\ may' \in [Channels -> SUBSET BOOLEAN]
         /\ only' \in [Runlists -> Nat \cup {NoTsg}] /\ settled' \subseteq Runlists
<1> USE DEF JobsFine
<1>0. /\ scenario' = scenario /\ NewJob(c) \in Jobs /\ Shape(NewJob(c))
      /\ job[w] \in Jobs /\ Shape(job[w]) /\ scenario \in Scenarios
  BY ScenariosAssumption, NewJobTyped, NewJobShape
     DEF ShapeInv, TypeOK, SetChannel, ReadLen, ReadConfig, NextTsg
<1>a. ASSUME UNCHANGED <<may, switching>>
      PROVE  /\ may' \in [Channels -> SUBSET BOOLEAN]
             /\ only' \in [Runlists -> Nat \cup {NoTsg}] /\ settled' \subseteq Runlists
  BY <1>a DEF ShapeInv, TypeOK, switching
<1>1. CASE SetChannel(w, c)
  <2> DEFINE j == [NewJob(c) EXCEPT !.todo = <<c.n>>, !.enable = c.op = "enable_channel"]
  <2>0. c.op \in {"enable_channel", "disable_channel"} /\ c.n \in Nat
    BY <1>0, <1>1 DEF SetChannel, Begin, Commands, NoCommand
  <2>1. /\ j \in Jobs /\ j.cmd = c /\ j.base = NoBase /\ j.todo = <<c.n>>
        /\ j.wrote = FALSE
    <3>1. j \in Jobs
      BY SetChannelTyped
    <3> QED BY <3>1 DEF NewJob
  <2>2. \/ ~Ampere /\ c.n <= MAX_CHID /\ StartWalk(w, j)
        \/ Finish(w) /\ UNCHANGED <<may, switching>>
        \/ Ampere /\ GoTo(w, j, "config") /\ UNCHANGED <<may, switching>>
    BY <1>1 DEF SetChannel
  <2> HIDE DEF j
  <2>3. CASE ~Ampere /\ c.n <= MAX_CHID /\ StartWalk(w, j)
    <3>1. c.n \in 0 .. MAX_CHID
      BY <2>0, <2>3, SizesAssumption
    <3> QED BY <1>0, <2>0, <2>1, <2>3, <3>1, StartWalkStep
  <2>4. CASE Finish(w) /\ UNCHANGED <<may, switching>>
    BY <1>0, <1>a, <2>4, FinishStep
  <2>5. CASE Ampere /\ GoTo(w, j, "config") /\ UNCHANGED <<may, switching>>
    <3>1. [j EXCEPT !.pc = "config"] \in Jobs
      BY <2>1 DEF Jobs
    <3>2. Shape([j EXCEPT !.pc = "config"])
      BY <2>0, <2>1, <2>5 DEF Jobs, Shape
    <3> QED BY <1>0, <1>a, <2>5, <3>1, <3>2, JobStep DEF GoTo
  <2> QED BY <2>2, <2>3, <2>4, <2>5
<1>2. CASE ReadLen(w)
  <2> DEFINE j == [job[w] EXCEPT !.len = list[job[w].rl].len]
  <2>1. list[job[w].rl].len \in Nat
    BY <1>0 DEF ShapeInv, TypeOK, Submissions, Jobs
  <2>2. /\ j \in Jobs /\ j.cmd = job[w].cmd /\ j.base = job[w].base
        /\ j.todo = job[w].todo /\ j.wrote = job[w].wrote
    <3>1. j \in Jobs
      BY <1>0, <2>1 DEF Jobs
    <3>2. /\ j.cmd = job[w].cmd /\ j.base = job[w].base
          /\ j.todo = job[w].todo /\ j.wrote = job[w].wrote
      BY <1>0 DEF Jobs
    <3> QED BY <3>1, <3>2
  <2>3. /\ j.cmd.op = "switch_to_tsg" /\ j.base \in DOMAIN scenario.memory
        /\ j.todo = << >> /\ ~j.wrote
    BY <1>0, <1>2, <2>2 DEF ReadLen, Shape
  <2>4. \/ StartWalk(w, j)
        \/ Ampere /\ GoTo(w, j, "config") /\ UNCHANGED <<may, switching>>
    BY <1>2 DEF ReadLen
  <2> HIDE DEF j
  <2>5. CASE StartWalk(w, j)
    BY <1>0, <2>2, <2>3, <2>5, StartWalkStep
  <2>6. CASE Ampere /\ GoTo(w, j, "config") /\ UNCHANGED <<may, switching>>
    <3>1. [j EXCEPT !.pc = "config"] \in Jobs
      BY <2>2 DEF Jobs
    <3>2. Shape([j EXCEPT !.pc = "config"])
      BY <2>2, <2>3, <2>6 DEF Jobs, Shape
    <3> QED BY <1>0, <1>a, <2>6, <3>1, <3>2, JobStep DEF GoTo
  <2> QED BY <2>4, <2>5, <2>6
<1>3. CASE ReadConfig(w)
  <2>1. CASE StartWalk(w, job[w]) /\ ~(job[w].cmd.op # "switch_to_tsg" /\ job[w].cmd.n > MAX_CHID)
    <3>1. job[w].cmd.n \in Nat
      BY <1>0 DEF Jobs, Commands, NoCommand
    <3>2. job[w].cmd.op # "switch_to_tsg" => job[w].cmd.n \in 0 .. MAX_CHID
      BY <2>1, <3>1, SizesAssumption
    <3>3. job[w].pc = "config"
      BY <1>3 DEF ReadConfig
    <3>4. /\ job[w].cmd.op \in {"switch_to_tsg", "enable_channel", "disable_channel"}
          /\ job[w].cmd.op = "switch_to_tsg" =>
               job[w].base \in DOMAIN scenario.memory /\ job[w].todo = << >>
          /\ job[w].cmd.op # "switch_to_tsg" => job[w].todo = <<job[w].cmd.n>>
      BY <1>0, <3>3 DEF Shape
    <3> QED BY <1>0, <2>1, <3>2, <3>4, StartWalkStep
  <2>2. CASE Finish(w) /\ UNCHANGED <<may, switching>>
    BY <1>0, <1>a, <2>2, FinishStep
  <2> QED BY <1>3, <2>1, <2>2 DEF ReadConfig
<1>4. CASE NextTsg(w)
  <2> DEFINE i == job[w]
             entry == scenario.memory[i.base][i.tsg]
             j == [i EXCEPT !.todo = entry.chans, !.enable = entry.tsg = i.cmd.n,
                            !.tsg = @ + 1, !.pos = @ + 1 + Len(entry.chans)]
  <2>1. /\ i.pc = "walk" /\ i.cmd.op = "switch_to_tsg" /\ i.base \in DOMAIN scenario.memory
        /\ i.tsg \in Nat \ {0} /\ i.tsg <= Len(scenario.memory[i.base])
    BY <1>0, <1>4 DEF NextTsg, MoreTsgs, Shape, Jobs
  <2>2. i.tsg \in 1 .. Len(scenario.memory[i.base])
    <3>1. scenario.memory[i.base] \in Seq(TsgEntry)
      BY <1>0, <2>1, ScenariosAssumption
    <3> QED BY <2>1, <3>1
  <2>3. entry.chans \in Seq(0 .. MAX_CHID)
    BY <1>0, <2>1, <2>2, MemoryTyped
  <2>4. TsgDue(i, i.tsg) \in SUBSET (Channels \X BOOLEAN)
    BY <1>0, <2>1, <2>2, TsgDueTyped
  <2>5. Claim(w, j, TsgDue(i, i.tsg))
    BY <1>4 DEF NextTsg
  <2>6. (entry.tsg = i.cmd.n) \in BOOLEAN
    OBVIOUS
  <2> HIDE DEF entry
  <2>7. entry.chans \in Seq(Nat) /\ Len(entry.chans) \in Nat
    BY <2>3, SizesAssumption
  <2>8. j \in Jobs
    <3>1. ASSUME NEW x \in Jobs, NEW t \in Seq(Nat), NEW e \in BOOLEAN, NEW n \in Nat
          PROVE  [x EXCEPT !.todo = t, !.enable = e, !.tsg = @ + 1, !.pos = @ + 1 + n] \in Jobs
      <4>1. x.tsg + 1 \in Nat \ {0} /\ x.pos + 1 + n \in Nat
        BY DEF Jobs
      <4>2. ASSUME NEW a \in Nat \ {0}, NEW b \in Nat
            PROVE  [x EXCEPT !.todo = t, !.enable = e, !.tsg = a, !.pos = b] \in Jobs
        BY DEF Jobs
      <4> QED BY <4>1, <4>2, Zenon
    <3> QED BY <1>0, <2>6, <2>7, <3>1, Zenon
  <2>9. Shape(j)
    BY <1>0, <2>1, <2>3 DEF Jobs, Shape
  <2> HIDE DEF j
  <2> QED BY <1>0, <2>4, <2>5, <2>8, <2>9, ClaimStep
<1> QED BY <1>1, <1>2, <1>3, <1>4

\* Together: every step keeps the invariant.
LEMMA ShapeStep == ShapeInv /\ [Next]_vars => ShapeInv'
<1> SUFFICES ASSUME ShapeInv, [Next]_vars PROVE ShapeInv'
  OBVIOUS
<1> USE DEF hw, binding, submission, switching
<1>0. ASSUME scenario' = scenario PROVE Submissions' = Submissions
  BY <1>0 DEF Submissions
<1>c. NoCommand \in Commands \cup {NoCommand} /\ scenario.commands \subseteq Commands
  BY ScenariosAssumption DEF ShapeInv, TypeOK
<1>1. CASE UNCHANGED vars
  BY <1>1 DEF vars, ShapeInv, TypeOK, Submissions, Jobs, Shape, Ampere, Channels, Commands, NoCommand
<1>2. ASSUME NEW w \in Writers, NEW c \in scenario.commands,
             SwitchToTsg(w, c) \/ ResubmitRunlist(w, c)
      PROVE  ShapeInv'
  <2>1. UNCHANGED <<scenario, hw, binding, submission, may, switching>>
    BY <1>2 DEF SwitchToTsg, ResubmitRunlist
  <2>2. JobsFine
    BY <1>c, <1>2, CallSteps
  <2> QED BY <1>0, <2>1, <2>2 DEF JobsFine, ShapeInv, TypeOK
<1>3. ASSUME NEW w \in Writers, NEW c \in scenario.commands, SetChannel(w, c)
      PROVE  ShapeInv'
  <2>1. UNCHANGED <<scenario, hw, binding, submission>>
    BY <1>3 DEF SetChannel
  <2> QED BY <1>0, <1>c, <1>3, <2>1, WalkSteps DEF JobsFine, ShapeInv, TypeOK
<1>4. ASSUME NEW w \in Writers, NEW c \in scenario.commands,
             PreemptTsg(w, c) \/ PreemptRunlist(w, c)
      PROVE  ShapeInv'
  <2>1. UNCHANGED <<scenario, chan, list, binding, submission, may, only>> /\ Finish(w)
    BY <1>4 DEF PreemptTsg, PreemptRunlist
  <2>2. running' \in [Runlists -> Nat \cup {Idle}]
    BY <1>4, RescheduleTyped DEF PreemptTsg, Preempted, PreemptRunlist, ShapeInv, TypeOK
  <2>3. settled' \subseteq Runlists
    BY <1>4 DEF PreemptTsg, PreemptRunlist, Settle, ShapeInv, TypeOK
  <2> QED BY <1>0, <2>1, <2>2, <2>3, FinishStep DEF ShapeInv, TypeOK
<1>5. ASSUME NEW w \in Writers, ReadBase(w) \/ ReadSubmit(w) \/ ReadFails(w) \/ ReadChannel(w)
      PROVE  ShapeInv'
  <2>1. UNCHANGED <<scenario, hw, binding, submission, may, switching>>
    BY <1>5 DEF ReadBase, ReadSubmit, ReadFails, ReadChannel
  <2>2. JobsFine
    BY <1>c, <1>5, CallSteps
  <2> QED BY <1>0, <2>1, <2>2 DEF JobsFine, ShapeInv, TypeOK
<1>6. ASSUME NEW w \in Writers, ReadLen(w) \/ ReadConfig(w) \/ NextTsg(w)
      PROVE  ShapeInv'
  <2>1. UNCHANGED <<scenario, hw, binding, submission>>
    BY <1>6 DEF ReadLen, ReadConfig, NextTsg
  <2> QED BY <1>0, <1>c, <1>6, <2>1, WalkSteps DEF JobsFine, ShapeInv, TypeOK
<1>7. ASSUME NEW w \in Writers, WriteChannel(w)
      PROVE  ShapeInv'
  <2> DEFINE j == [[job[w] EXCEPT !.todo = Tail(@), !.wrote = TRUE] EXCEPT !.pc = "walk"]
             c == Channel(job[w].rl, Head(job[w].todo))
  <2>1. UNCHANGED <<scenario, list, running, binding, submission, may, switching>>
    BY <1>7 DEF WriteChannel
  <2>2. /\ job[w] \in Jobs /\ Shape(job[w]) /\ job[w].pc \in {"walk", "have"}
        /\ job[w].todo # << >> /\ (~Ampere => job[w].held \in Insts)
    BY <1>7 DEF ShapeInv, TypeOK, WriteChannel, Shape
  <2>3. job[w].todo \in Seq(0 .. MAX_CHID)
    BY <2>2 DEF Shape
  <2>4. Head(job[w].todo) \in 0 .. MAX_CHID /\ Tail(job[w].todo) \in Seq(0 .. MAX_CHID)
    BY <2>2, <2>3, ChannelsTyped
  <2>5. Tail(job[w].todo) \in Seq(Nat)
    BY <2>2, <2>3, ChannelsTyped
  <2>6. j \in Jobs
    BY <2>2, <2>5 DEF Jobs
  <2>7. Shape(j)
    BY <2>2, <2>4 DEF Jobs, Shape
  <2>8. job' = [job EXCEPT ![w] = j]
    BY <1>7 DEF WriteChannel, GoTo
  <2>9. c \in Channels
    BY <2>2, <2>4, ChannelTyped DEF Jobs
  <2>10. chan' \in [Channels -> [enable : BOOLEAN, inst : Insts]]
    <3>1. [enable |-> job[w].enable, inst |-> IF Ampere THEN chan[c].inst ELSE job[w].held]
            \in [enable : BOOLEAN, inst : Insts]
      BY <2>2, <2>9 DEF ShapeInv, TypeOK, Jobs
    <3> QED BY <1>7, <2>9, <3>1 DEF WriteChannel, ShapeInv, TypeOK
  <2> HIDE DEF j
  <2>11. (job \in [Writers -> Jobs])' /\ (\A x \in Writers : Shape(job[x]))'
    BY <2>1, <2>6, <2>7, <2>8, JobStep
  <2> QED BY <1>0, <2>1, <2>10, <2>11 DEF ShapeInv, TypeOK
<1>8. ASSUME NEW w \in Writers, Return(w)
      PROVE  ShapeInv'
  <2>1. UNCHANGED <<scenario, hw, binding, submission, settled>> /\ Finish(w)
    BY <1>8 DEF Return
  <2>2. may' \in [Channels -> SUBSET BOOLEAN]
    BY <1>8 DEF Return, ShapeInv, TypeOK
  <2>3. job[w].cmd.n \in Nat
    BY DEF ShapeInv, TypeOK, Jobs, Commands, NoCommand
  <2>4. only' \in [Runlists -> Nat \cup {NoTsg}]
    BY <1>8, <2>3 DEF Return, ShapeInv, TypeOK
  <2> QED BY <1>0, <2>1, <2>2, <2>4, FinishStep DEF ShapeInv, TypeOK
<1>9. ASSUME NEW w \in Writers, PreemptBeforeSubmit(w)
      PROVE  ShapeInv'
  <2> DEFINE j == [job[w] EXCEPT !.pc = "submit"]
  <2>1. UNCHANGED <<scenario, chan, list, binding, submission, may, only>>
    BY <1>9 DEF PreemptBeforeSubmit
  <2>2. job[w] \in Jobs /\ Shape(job[w]) /\ job[w].pc = "preempt" /\ job[w].rl \in Runlists
    BY <1>9 DEF ShapeInv, TypeOK, PreemptBeforeSubmit, Jobs
  <2>3. j \in Jobs
    BY <2>2 DEF Jobs
  <2>4. Shape(j)
    BY <2>2 DEF Jobs, Shape
  <2>5. job' = [job EXCEPT ![w] = j]
    BY <1>9 DEF PreemptBeforeSubmit, GoTo
  <2>6. running' \in [Runlists -> Nat \cup {Idle}]
    BY <1>9, <2>2, RescheduleTyped DEF PreemptBeforeSubmit, ShapeInv
  <2>7. settled' \subseteq Runlists
    BY <1>9, <2>2 DEF PreemptBeforeSubmit, Settle, ShapeInv, TypeOK
  <2> HIDE DEF j
  <2>8. (job \in [Writers -> Jobs])' /\ (\A x \in Writers : Shape(job[x]))'
    BY <2>1, <2>3, <2>4, <2>5, JobStep
  <2> QED BY <1>0, <2>1, <2>6, <2>7, <2>8 DEF ShapeInv, TypeOK
<1>10. ASSUME NEW w \in Writers, Submit(w)
       PROVE  ShapeInv'
  <2> DEFINE r == job[w].rl
             off == IF Keeps(w) THEN job[w].offset ELSE job[w].cmd.n % OFFSETS
  <2>1. UNCHANGED <<scenario, chan, running, binding, raced, may>> /\ Finish(w)
    BY <1>10 DEF Submit
  <2>2. /\ job[w] \in Jobs /\ r \in Runlists /\ job[w].len \in Nat /\ job[w].offset \in Nat
        /\ (scenario.chip = "gf100" => job[w].base \in DOMAIN scenario.memory)
    BY <1>10 DEF ShapeInv, TypeOK, Submit, Jobs, Shape
  <2>a. off \in Nat
    <3>1. job[w].cmd.n \in Nat
      BY <2>2 DEF Jobs, Commands, NoCommand
    <3> QED BY <2>2, <3>1, SizesAssumption
  <2>3. list' \in [Runlists -> Submissions]
    <3> HIDE DEF off
    <3>1. list' = [list EXCEPT ![r] =
                     [base |-> IF scenario.chip = "gf100" THEN job[w].base ELSE @.base,
                      len |-> job[w].len, offset |-> off]]
      BY <1>10 DEF Submit, off
    <3> QED BY <2>2, <2>a, <3>1 DEF Submissions, ShapeInv, TypeOK
  <2>5. given' \in [Runlists -> Submissions] /\ stale' \subseteq Runlists
    <3> HIDE DEF off
    <3>1. Asked(w, off)
      BY <1>10 DEF Submit, off
    <3>2. given[r] \in Submissions /\ [given[r] EXCEPT !.offset = off] \in Submissions
      BY <2>2, <2>a, ZenonT(60) DEF Submissions, ShapeInv, TypeOK
    <3>3. /\ given' = given \/ given' = [given EXCEPT ![r] = [given[r] EXCEPT !.offset = off]]
          /\ stale' \in {stale, stale \cup {r}, stale \ {r}}
      BY <3>1, Zenon DEF Asked
    <3> QED BY <2>2, <3>2, <3>3 DEF ShapeInv, TypeOK
  <2>4. only' \in [Runlists -> Nat \cup {NoTsg}] /\ settled' \subseteq Runlists
    BY <1>10 DEF Submit, ShapeInv, TypeOK
  <2> QED BY <1>0, <2>1, <2>3, <2>4, <2>5, FinishStep DEF ShapeInv, TypeOK
<1>11. ASSUME NEW r \in Runlists, Timeslice(r) \/ DriverSubmit(r)
       PROVE  ShapeInv'
  <2>1. UNCHANGED <<scenario, chan, job, binding, may>>
    BY <1>11 DEF Timeslice, DriverSubmit
  <2>2. (job \in [Writers -> Jobs])' /\ (\A x \in Writers : Shape(job[x]))'
    BY <2>1 DEF ShapeInv, TypeOK, Jobs, Shape, Ampere, Channels, Commands, NoCommand
  <2>3. running' \in [Runlists -> Nat \cup {Idle}]
    BY <1>11, RescheduleTyped DEF Timeslice, DriverSubmit, ShapeInv, TypeOK
  <2>4. scenario.submits[r] \subseteq Submissions
    BY ScenariosAssumption DEF ShapeInv, TypeOK, Submissions
  <2>5. list' \in [Runlists -> Submissions] /\ given' \in [Runlists -> Submissions]
    BY <1>11, <2>4 DEF Timeslice, DriverSubmit, ShapeInv, TypeOK
  <2>6. /\ raced' \subseteq Runlists /\ stale' \subseteq Runlists /\ settled' \subseteq Runlists
        /\ only' \in [Runlists -> Nat \cup {NoTsg}]
    BY <1>11 DEF Timeslice, DriverSubmit, ShapeInv, TypeOK
  <2> QED BY <1>0, <2>1, <2>2, <2>3, <2>5, <2>6 DEF ShapeInv, TypeOK
<1>12. ASSUME NEW c \in scenario.rebinds, DriverBind(c)
       PROVE  ShapeInv'
  <2>1. UNCHANGED <<scenario, list, running, job, submission, may, switching>>
    BY <1>12 DEF DriverBind
  <2>2. (job \in [Writers -> Jobs])' /\ (\A x \in Writers : Shape(job[x]))'
    BY <2>1 DEF ShapeInv, TypeOK, Jobs, Shape, Ampere, Channels, Commands, NoCommand
  <2>3. c \in Channels
    BY ScenariosAssumption DEF ShapeInv, TypeOK
  <2>4. /\ chan' \in [Channels -> [enable : BOOLEAN, inst : Insts]]
        /\ bound' \in [Channels -> Insts] /\ torn' \subseteq Channels
    BY <1>12, <2>3 DEF DriverBind, ShapeInv, TypeOK
  <2> QED BY <1>0, <2>1, <2>2, <2>4 DEF ShapeInv, TypeOK
<1> QED BY <1>1, <1>2, <1>3, <1>4, <1>5, <1>6, <1>7, <1>8, <1>9, <1>10, <1>11, <1>12
        DEF Next, Continue

\* The registers of the device hold what they can hold, whoever writes to the
\* files: no call writes a word back that it has not read (runlist_procfs.c:561-568).
THEOREM RegistersTyped == Spec => []TypeOK
<1>1. ShapeInv => TypeOK
  BY DEF ShapeInv
<1> QED BY <1>1, ShapeInit, ShapeStep, PTL DEF Spec

-----------------------------------------------------------------------------
(* What a call does not change in the others *)

\* A call is the same but for what others have announced meanwhile.
Same(x) ==
  /\ job'[x].pc = job[x].pc /\ job'[x].cmd = job[x].cmd /\ job'[x].rl = job[x].rl
  /\ job'[x].base = job[x].base /\ job'[x].len = job[x].len
  /\ job'[x].offset = job[x].offset
  /\ job'[x].todo = job[x].todo /\ job'[x].held = job[x].held

\* To announce values changes no other call, and the own one as it says.
LEMMA ClaimFrame ==
  ASSUME ShapeInv, NEW w \in Writers, NEW j, NEW new, Claim(w, j, new)
  PROVE  /\ job'[w] = [j EXCEPT !.asked = @ \cup new]
         /\ \A x \in Writers \ {w} : Same(x)
<1>1. ASSUME NEW x \in Writers \ {w} PROVE Same(x)
  <2>1. job[x] \in Jobs
    BY DEF ShapeInv, TypeOK
  <2>2. job'[x] = [job[x] EXCEPT !.rivals = @ \cup new] \/ job'[x] = job[x]
    BY <1>1 DEF Claim
  <2> QED BY <2>1, <2>2 DEF Same, Jobs
<1> QED BY <1>1 DEF Claim

\* A call into or inside the loop leaves the others as they are, and neither
\* holds a channel's word nor a submission after the step.
LEMMA WalkFrame ==
  ASSUME ShapeInv, NEW w \in Writers, NEW c \in Commands \cup {NoCommand},
         SetChannel(w, c) \/ ReadLen(w) \/ ReadConfig(w) \/ NextTsg(w)
  PROVE  job'[w].pc \in {"walk", "config", "idle"} /\ \A x \in Writers \ {w} : Same(x)
<1> DEFINE Goal == job'[w].pc \in {"walk", "config", "idle"} /\ \A x \in Writers \ {w} : Same(x)
<1>0. job[w] \in Jobs /\ NewJob(c) \in Jobs /\ job \in [Writers -> Jobs]
  BY NewJobTyped DEF ShapeInv, TypeOK
<1>1. ASSUME Finish(w) PROVE Goal
  BY <1>0, <1>1 DEF Finish, NewJob, Same
<1>2. ASSUME NEW j \in Jobs, StartWalk(w, j) PROVE Goal
  <2> DEFINE Others == UNION {job[x].asked : x \in {x \in Writers \ {w} : Walking(x)}}
             walker == [j EXCEPT !.pc = "walk", !.rivals = Others]
  <2>1. Claim(w, walker, Due(j))
    BY <1>2 DEF StartWalk
  <2> HIDE DEF Others
  <2>2. [walker EXCEPT !.asked = @ \cup Due(j)].pc = "walk"
    BY DEF Jobs
  <2> HIDE DEF walker
  <2> QED BY <2>1, <2>2, ClaimFrame
<1>3. ASSUME NEW j \in Jobs, GoTo(w, j, "config") PROVE Goal
  BY <1>0, <1>3 DEF GoTo, Jobs, Same
<1> HIDE DEF Goal
<1>4. CASE SetChannel(w, c)
  <2> DEFINE j == [NewJob(c) EXCEPT !.todo = <<c.n>>, !.enable = c.op = "enable_channel"]
  <2>1. StartWalk(w, j) \/ Finish(w) \/ GoTo(w, j, "config")
    BY <1>4 DEF SetChannel
  <2>2. j \in Jobs
    BY SetChannelTyped
  <2> HIDE DEF j
  <2> QED BY <1>1, <1>2, <1>3, <2>1, <2>2 DEF Goal
<1>5. CASE ReadLen(w)
  <2> DEFINE j == [job[w] EXCEPT !.len = list[job[w].rl].len]
  <2>1. StartWalk(w, j) \/ GoTo(w, j, "config")
    BY <1>5 DEF ReadLen
  <2>2. list[job[w].rl].len \in Nat
    BY <1>0 DEF ShapeInv, TypeOK, Submissions, Jobs
  <2>3. j \in Jobs
    BY <1>0, <2>2 DEF Jobs
  <2> HIDE DEF j
  <2> QED BY <1>2, <1>3, <2>1, <2>3 DEF Goal
<1>6. CASE ReadConfig(w)
  BY <1>0, <1>1, <1>2, <1>6 DEF ReadConfig, Goal
<1>7. CASE NextTsg(w)
  <2>1. PICK t, e, n, b, new :
          Claim(w, [job[w] EXCEPT !.todo = t, !.enable = e, !.tsg = n, !.pos = b], new)
    BY <1>7 DEF NextTsg
  <2> DEFINE j == [job[w] EXCEPT !.todo = t, !.enable = e, !.tsg = n, !.pos = b]
  <2>2. [j EXCEPT !.asked = @ \cup new].pc = job[w].pc
    BY <1>0 DEF Jobs
  <2>3. job[w].pc = "walk"
    BY <1>7 DEF NextTsg
  <2>4. Claim(w, j, new)
    BY <2>1
  <2> HIDE DEF j
  <2> QED BY <2>2, <2>3, <2>4, ClaimFrame
<1> QED BY <1>4, <1>5, <1>6, <1>7 DEF Goal

\* Where a step takes its own call.
LEMMA GoToPlace ==
  ASSUME ShapeInv, NEW w \in Writers, NEW j, "pc" \in DOMAIN j, NEW p, GoTo(w, j, p)
  PROVE  job'[w].pc = p
BY DEF GoTo, ShapeInv, TypeOK

LEMMA FinishPlace ==
  ASSUME ShapeInv, NEW w \in Writers, Finish(w)
  PROVE  job'[w].pc = "idle" /\ job'[w] = NewJob(NoCommand)
BY DEF Finish, NewJob, ShapeInv, TypeOK

\* No other step touches the call of another writer either.
LEMMA OthersFrame ==
  ASSUME ShapeInv, NEW w \in Writers, NEW c \in Commands \cup {NoCommand},
         \/ SwitchToTsg(w, c) \/ SetChannel(w, c) \/ PreemptTsg(w, c)
         \/ PreemptRunlist(w, c) \/ ResubmitRunlist(w, c) \/ Continue(w) \/ ReadFails(w)
  PROVE  \A x \in Writers \ {w} : Same(x)
<1>1. ASSUME NEW j, job' = [job EXCEPT ![w] = j]
      PROVE  \A x \in Writers \ {w} : Same(x)
  BY <1>1 DEF Same, ShapeInv, TypeOK
<1>2. CASE SetChannel(w, c) \/ ReadLen(w) \/ ReadConfig(w) \/ NextTsg(w)
  BY <1>2, WalkFrame
<1>3. CASE SwitchToTsg(w, c) \/ PreemptTsg(w, c) \/ PreemptRunlist(w, c) \/ ResubmitRunlist(w, c)
  BY <1>1, <1>3 DEF SwitchToTsg, PreemptTsg, PreemptRunlist, ResubmitRunlist, GoTo, Finish
<1>4. CASE \/ ReadBase(w) \/ ReadChannel(w) \/ WriteChannel(w) \/ Return(w)
           \/ ReadSubmit(w) \/ PreemptBeforeSubmit(w) \/ Submit(w) \/ ReadFails(w)
  BY <1>1, <1>4 DEF ReadBase, ReadChannel, WriteChannel, Return, ReadSubmit,
                    PreemptBeforeSubmit, Submit, ReadFails, GoTo, Finish
<1> QED BY <1>2, <1>3, <1>4 DEF Continue

-----------------------------------------------------------------------------
(* Bindings *)

\* The word a writer holds is bound to the channel still, or was replaced while
\* the writer held it.
HeldFresh(w) ==
  job[w].pc = "have" =>
    LET c == Channel(job[w].rl, Head(job[w].todo))
    IN  job[w].held = bound[c] \/ c \in torn
BindingInv == BindingKept /\ \A w \in Writers : HeldFresh(w)

\* Every step keeps it.
LEMMA BindingStep == ShapeInv /\ BindingInv /\ [Next]_vars => BindingInv'
<1> SUFFICES ASSUME ShapeInv, BindingInv, [Next]_vars PROVE BindingInv'
  OBVIOUS
<1> USE DEF hw, binding, submission, switching
<1>c. NoCommand \in Commands \cup {NoCommand} /\ scenario.commands \subseteq Commands
  BY ScenariosAssumption DEF ShapeInv, TypeOK
<1>1. ASSUME UNCHANGED <<scenario, chan, bound, torn>>, NEW w \in Writers,
             job'[w].pc # "have", \A x \in Writers \ {w} : Same(x)
      PROVE  BindingInv'
  BY <1>1 DEF BindingInv, BindingKept, HeldFresh, Same, Channel, Ampere
<1>2. ASSUME UNCHANGED <<scenario, chan, bound, torn, job>>
      PROVE  BindingInv'
  BY <1>2 DEF BindingInv, BindingKept, HeldFresh, Channel, Ampere
<1>3. ASSUME NEW w \in Writers, NEW c \in scenario.commands,
             \/ SwitchToTsg(w, c) \/ SetChannel(w, c) \/ PreemptTsg(w, c)
             \/ PreemptRunlist(w, c) \/ ResubmitRunlist(w, c)
      PROVE  BindingInv'
  <2>1. UNCHANGED <<scenario, chan, bound, torn>>
    BY <1>3 DEF SwitchToTsg, SetChannel, PreemptTsg, PreemptRunlist, ResubmitRunlist
  <2>2. \A x \in Writers \ {w} : Same(x)
    BY <1>c, <1>3, OthersFrame
  <2>3. job'[w].pc # "have"
    <3>2. CASE SetChannel(w, c)
      BY <1>c, <3>2, WalkFrame
    <3>3. CASE \/ SwitchToTsg(w, c) \/ PreemptTsg(w, c) \/ PreemptRunlist(w, c)
               \/ ResubmitRunlist(w, c)
      <4>1. "pc" \in DOMAIN NewJob(c) /\ "pc" \in DOMAIN [NewJob(c) EXCEPT !.rl = scenario.gpu]
        BY DEF NewJob
      <4> QED BY <3>3, <4>1, GoToPlace, FinishPlace
              DEF SwitchToTsg, PreemptTsg, PreemptRunlist, ResubmitRunlist
    <3> QED BY <1>3, <3>2, <3>3
  <2> QED BY <1>1, <2>1, <2>2, <2>3
<1>4. ASSUME NEW w \in Writers,
             \/ ReadBase(w) \/ ReadLen(w) \/ ReadConfig(w) \/ NextTsg(w) \/ Return(w)
             \/ ReadSubmit(w) \/ PreemptBeforeSubmit(w) \/ Submit(w) \/ ReadFails(w)
      PROVE  BindingInv'
  <2>1. UNCHANGED <<scenario, chan, bound, torn>>
    BY <1>4 DEF ReadBase, ReadLen, ReadConfig, NextTsg, Return, ReadSubmit,
                PreemptBeforeSubmit, Submit, ReadFails
  <2>2. \A x \in Writers \ {w} : Same(x)
    BY <1>c, <1>4, OthersFrame DEF Continue
  <2>3. job'[w].pc # "have"
    <3>1. job[w] \in Jobs
      BY DEF ShapeInv, TypeOK
    <3>2. CASE ReadLen(w) \/ ReadConfig(w) \/ NextTsg(w)
      BY <1>c, <3>2, WalkFrame
    <3>3. CASE ReadBase(w) \/ ReadSubmit(w) \/ PreemptBeforeSubmit(w)
      <4>1. "pc" \in DOMAIN job[w]
        BY <3>1 DEF Jobs
      <4> QED BY <3>3, <4>1, GoToPlace DEF ReadBase, ReadSubmit, PreemptBeforeSubmit
    <3>4. CASE Return(w) \/ Submit(w) \/ ReadFails(w)
      BY <3>4, FinishPlace DEF Return, Submit, ReadFails
    <3> QED BY <1>4, <3>2, <3>3, <3>4
  <2> QED BY <1>1, <2>1, <2>2, <2>3
<1>5. ASSUME NEW w \in Writers, ReadChannel(w)
      PROVE  BindingInv'
  <2> DEFINE c == Channel(job[w].rl, Head(job[w].todo))
  <2>1. UNCHANGED <<scenario, chan, bound, torn>>
    BY <1>5 DEF ReadChannel
  <2>2. \A x \in Writers \ {w} : Same(x)
    BY <1>c, <1>5, OthersFrame DEF Continue
  <2>3. /\ job[w] \in Jobs /\ job[w].rl \in Runlists /\ job[w].todo \in Seq(0 .. MAX_CHID)
        /\ job[w].todo # << >>
    BY <1>5 DEF ShapeInv, TypeOK, Shape, ReadChannel, Jobs
  <2>4. c \in Channels
    BY <2>3, ChannelsTyped, ChannelTyped
  <2>5. chan[c].inst = bound[c] \/ c \in torn
    BY <2>4 DEF BindingInv, BindingKept
  <2>6. /\ job'[w].rl = job[w].rl /\ job'[w].todo = job[w].todo
        /\ job'[w].held = chan[c].inst
    BY <1>5, <2>3 DEF ReadChannel, GoTo, ShapeInv, TypeOK, Jobs
  <2>7. HeldFresh(w)'
    BY <2>1, <2>5, <2>6 DEF HeldFresh, Channel, Ampere
  <2>8. \A x \in Writers \ {w} : HeldFresh(x)'
    BY <2>1, <2>2 DEF BindingInv, HeldFresh, Same, Channel, Ampere
  <2> QED BY <2>1, <2>7, <2>8 DEF BindingInv, BindingKept, Ampere
<1>6. ASSUME NEW w \in Writers, WriteChannel(w)
      PROVE  BindingInv'
  <2> DEFINE c == Channel(job[w].rl, Head(job[w].todo))
  <2>1. UNCHANGED <<scenario, bound, torn>>
    BY <1>6 DEF WriteChannel
  <2>2. \A x \in Writers \ {w} : Same(x)
    BY <1>c, <1>6, OthersFrame DEF Continue
  <2>3. job'[w].pc # "have"
    <3>1. "pc" \in DOMAIN [job[w] EXCEPT !.todo = Tail(@), !.wrote = TRUE]
      BY DEF ShapeInv, TypeOK, Jobs
    <3> QED BY <1>6, <3>1, GoToPlace DEF WriteChannel
  <2>4. Ampere => chan'[c].inst = chan[c].inst \/ c \notin Channels
    BY <1>6 DEF WriteChannel, ShapeInv, TypeOK
  <2>5. ~Ampere => chan'[c].inst = bound[c] \/ c \in torn \/ c \notin Channels
    BY <1>6 DEF WriteChannel, ShapeInv, TypeOK, BindingInv, HeldFresh
  <2>6. \A d \in Channels \ {c} : chan'[d] = chan[d]
    BY <1>6 DEF WriteChannel, ShapeInv, TypeOK
  <2>7. BindingKept'
    BY <2>1, <2>4, <2>5, <2>6 DEF BindingInv, BindingKept, Ampere
  <2>8. \A x \in Writers : HeldFresh(x)'
    BY <2>1, <2>2, <2>3 DEF BindingInv, HeldFresh, Same, Channel, Ampere
  <2> QED BY <2>7, <2>8 DEF BindingInv
<1>7. ASSUME NEW r \in Runlists, Timeslice(r) \/ DriverSubmit(r)
      PROVE  BindingInv'
  BY <1>2, <1>7 DEF Timeslice, DriverSubmit
<1>8. ASSUME NEW c \in scenario.rebinds, DriverBind(c)
      PROVE  BindingInv'
  <2>1. UNCHANGED <<scenario, job>>
    BY <1>8 DEF DriverBind
  <2>2. \A d \in Channels \ {c} : /\ chan'[d] = chan[d] /\ bound'[d] = bound[d]
                                  /\ (d \in torn' <=> d \in torn)
    BY <1>8 DEF DriverBind, ShapeInv, TypeOK
  <2>3. c \in Channels => chan'[c].inst = bound'[c]
    BY <1>8 DEF DriverBind, ShapeInv, TypeOK
  <2>4. \A w \in Writers : Holding(w, c) => c \in torn'
    BY <1>8 DEF DriverBind
  <2>5. \A w \in Writers : job[w].pc = "have" => Channel(job[w].rl, Head(job[w].todo)) \in Channels
    <3>1. ASSUME NEW w \in Writers, job[w].pc = "have"
          PROVE  /\ job[w].rl \in Runlists /\ job[w].todo \in Seq(0 .. MAX_CHID)
                 /\ job[w].todo # << >>
      BY <3>1 DEF ShapeInv, TypeOK, Shape, Jobs
    <3> QED BY <3>1, ChannelsTyped, ChannelTyped
  <2>6. BindingKept'
    <3>1. ASSUME NEW d \in Channels
          PROVE  chan'[d].inst = bound'[d] \/ (d \in torn' /\ ~Ampere)
      <4>1. CASE d = c
        BY <2>3, <4>1
      <4>2. CASE d # c
        <5>1. chan'[d] = chan[d] /\ bound'[d] = bound[d] /\ (d \in torn' <=> d \in torn)
          BY <2>2, <4>2
        <5> QED BY <5>1 DEF BindingInv, BindingKept
      <4> QED BY <4>1, <4>2
    <3> QED BY <2>1, <3>1 DEF BindingKept, Ampere
  <2>7. \A w \in Writers : HeldFresh(w)'
    <3>1. ASSUME NEW w \in Writers, job[w].pc = "have",
                 NEW d \in Channels, d = Channel(job[w].rl, Head(job[w].todo))
          PROVE  job[w].held = bound'[d] \/ d \in torn'
      <4>1. CASE d = c
        BY <2>4, <3>1, <4>1 DEF Holding
      <4>2. CASE d # c
        <5>1. bound'[d] = bound[d] /\ (d \in torn' <=> d \in torn)
          BY <2>2, <4>2
        <5> QED BY <3>1, <5>1 DEF BindingInv, HeldFresh
      <4> QED BY <4>1, <4>2
    <3> QED BY <2>1, <2>5, <3>1 DEF HeldFresh, Channel, Ampere
  <2> QED BY <2>6, <2>7 DEF BindingInv
<1>9. CASE UNCHANGED vars
  BY <1>2, <1>9 DEF vars
<1> QED BY <1>3, <1>4, <1>5, <1>6, <1>7, <1>8, <1>9 DEF Next, Continue

\* No write to the files changes which instance block a channel is bound to,
\* unless the driver rebinds it between the read and the write of its word; from
\* Ampere on not even then (runlist_procfs.c:561-574).
THEOREM BindingPreserved == Spec => []BindingKept
<1>1. Init => BindingInv
  BY DEF Init, BindingInv, BindingKept, HeldFresh, NewJob
<1>2. BindingInv => BindingKept
  BY DEF BindingInv
<1> QED BY <1>1, <1>2, ShapeInit, ShapeStep, BindingStep, PTL DEF Spec

-----------------------------------------------------------------------------
(* Submissions *)

\* What a writer will submit is what the driver submitted last, or the driver has
\* submitted another runlist since the writer began to read; and so for the offset.
SubmitFresh(w) ==
  LET r == job[w].rl
  IN  /\ Resubmitting(w, r) /\ r \notin raced =>
           /\ job[w].pc \in {"preempt", "submit"} => job[w].len = given[r].len
           /\ scenario.chip = "gf100" => job[w].base = given[r].base
      /\ Keeping(w, r) /\ r \notin stale => job[w].offset = given[r].offset
SubmissionInv == SubmissionIntact /\ \A w \in Writers : SubmitFresh(w)

\* Every step keeps it.
LEMMA SubmissionStep == ShapeInv /\ SubmissionInv /\ [Next]_vars => SubmissionInv'
<1> SUFFICES ASSUME ShapeInv, SubmissionInv, [Next]_vars PROVE SubmissionInv'
  OBVIOUS
<1> USE DEF hw, binding, submission, switching
<1>c. NoCommand \in Commands \cup {NoCommand} /\ scenario.commands \subseteq Commands
  BY ScenariosAssumption DEF ShapeInv, TypeOK
<1>1. ASSUME UNCHANGED <<scenario, list, given, raced, stale>>, NEW w \in Writers,
             SubmitFresh(w)', \A x \in Writers \ {w} : Same(x)
      PROVE  SubmissionInv'
  <2>1. \A x \in Writers \ {w} : SubmitFresh(x)'
    BY <1>1 DEF SubmissionInv, SubmitFresh, Resubmitting, Keeping, Keeps, Same
  <2> QED BY <1>1, <2>1 DEF SubmissionInv, SubmissionIntact
<1>2. ASSUME UNCHANGED <<scenario, list, given, raced, stale, job>>
      PROVE  SubmissionInv'
  BY <1>2 DEF SubmissionInv, SubmissionIntact, SubmitFresh, Resubmitting, Keeping, Keeps
<1>3. ASSUME NEW w \in Writers, NEW c \in scenario.commands,
             \/ SwitchToTsg(w, c) \/ SetChannel(w, c) \/ PreemptTsg(w, c)
             \/ PreemptRunlist(w, c) \/ ResubmitRunlist(w, c)
      PROVE  SubmissionInv'
  <2>1. UNCHANGED <<scenario, list, given, raced, stale>>
    BY <1>3 DEF SwitchToTsg, SetChannel, PreemptTsg, PreemptRunlist, ResubmitRunlist
  <2>2. \A x \in Writers \ {w} : Same(x)
    BY <1>c, <1>3, OthersFrame
  <2>3. job'[w].pc \notin {"preempt", "submit"} /\ ~Resubmitting(w, job[w].rl)'
    <3>1. CASE SetChannel(w, c)
      BY <1>c, <3>1, WalkFrame DEF Resubmitting
    <3>2. CASE \/ SwitchToTsg(w, c) \/ PreemptTsg(w, c) \/ PreemptRunlist(w, c)
               \/ ResubmitRunlist(w, c)
      <4>1. "pc" \in DOMAIN NewJob(c) /\ "pc" \in DOMAIN [NewJob(c) EXCEPT !.rl = scenario.gpu]
        BY DEF NewJob
      <4>2. \/ job'[w].pc \in {"idle", "base"}
            \/ job'[w].pc = "len" /\ scenario.chip # "gf100"
        BY <3>2, <4>1, GoToPlace, FinishPlace
           DEF SwitchToTsg, PreemptTsg, PreemptRunlist, ResubmitRunlist
      <4> QED BY <2>1, <4>2 DEF Resubmitting
    <3> QED BY <1>3, <3>1, <3>2
  <2> QED BY <1>1, <2>1, <2>2, <2>3 DEF SubmitFresh, Keeping
<1>4. ASSUME NEW w \in Writers,
             \/ ReadLen(w) \/ ReadConfig(w) \/ NextTsg(w) \/ Return(w) \/ ReadFails(w)
             \/ ReadChannel(w) \/ WriteChannel(w)
      PROVE  SubmissionInv'
  <2>1. UNCHANGED <<scenario, list, given, raced, stale>>
    BY <1>4 DEF ReadLen, ReadConfig, NextTsg, Return, ReadFails, ReadChannel, WriteChannel
  <2>2. \A x \in Writers \ {w} : Same(x)
    BY <1>c, <1>4, OthersFrame DEF Continue
  <2>3. job'[w].pc \in {"walk", "have", "config", "idle"}
    <3>1. job[w] \in Jobs
      BY DEF ShapeInv, TypeOK
    <3>2. CASE ReadLen(w) \/ ReadConfig(w) \/ NextTsg(w)
      BY <1>c, <3>2, WalkFrame
    <3>3. CASE ReadChannel(w) \/ WriteChannel(w)
      <4>1. "pc" \in DOMAIN job[w]
        BY <3>1 DEF Jobs
      <4> QED BY <3>3, <4>1, GoToPlace DEF ReadChannel, WriteChannel
    <3>4. CASE Return(w) \/ ReadFails(w)
      BY <3>4, FinishPlace DEF Return, ReadFails
    <3> QED BY <1>4, <3>2, <3>3, <3>4
  <2> QED BY <1>1, <2>1, <2>2, <2>3 DEF SubmitFresh, Resubmitting, Keeping, Keeps
<1>5. ASSUME NEW w \in Writers, ReadBase(w) \/ ReadSubmit(w) \/ PreemptBeforeSubmit(w)
      PROVE  SubmissionInv'
  <2> DEFINE r == job[w].rl
  <2>1. UNCHANGED <<scenario, list, given, raced, stale>>
    BY <1>5 DEF ReadBase, ReadSubmit, PreemptBeforeSubmit
  <2>2. \A x \in Writers \ {w} : Same(x)
    BY <1>c, <1>5, OthersFrame DEF Continue
  <2>3. job[w] \in Jobs /\ r \in Runlists /\ Shape(job[w])
    BY DEF ShapeInv, TypeOK, Jobs
  <2>4. /\ r \notin raced => list[r].base = given[r].base /\ list[r].len = given[r].len
        /\ r \notin stale => list[r].offset = given[r].offset
    BY <2>3 DEF SubmissionInv, SubmissionIntact
  <2>5. CASE ReadBase(w)
    <3>1. /\ job'[w].pc = "len" /\ job'[w].rl = r /\ job'[w].cmd = job[w].cmd
          /\ job'[w].base = list[r].base
      BY <2>3, <2>5 DEF ReadBase, GoTo, ShapeInv, TypeOK, Jobs
    <3>2. SubmitFresh(w)'
      BY <2>1, <2>4, <3>1 DEF SubmitFresh, Resubmitting, Keeping
    <3> QED BY <1>1, <2>1, <2>2, <3>2
  <2>6. CASE ReadSubmit(w)
    <3>1. /\ job'[w].rl = r /\ job'[w].cmd = job[w].cmd
          /\ job'[w].base = job[w].base /\ job'[w].len = list[r].len
          /\ job'[w].offset = list[r].offset
      BY <2>3, <2>6 DEF ReadSubmit, GoTo, ShapeInv, TypeOK, Jobs
    <3>2. scenario.chip = "gf100" => Resubmitting(w, r) /\ job[w].pc = "len"
      BY <2>6 DEF ReadSubmit, Resubmitting
    <3>3. scenario.chip = "gf100" => r \in raced \/ job[w].base = given[r].base
      BY <3>2 DEF SubmissionInv, SubmitFresh
    <3>4. SubmitFresh(w)'
      BY <2>1, <2>4, <3>1, <3>3 DEF SubmitFresh, Resubmitting, Keeping
    <3> QED BY <1>1, <2>1, <2>2, <3>4
  <2>7. CASE PreemptBeforeSubmit(w)
    <3>1. /\ job'[w].rl = r /\ job'[w].cmd = job[w].cmd
          /\ job'[w].base = job[w].base /\ job'[w].len = job[w].len
          /\ job'[w].offset = job[w].offset
      BY <2>3, <2>7 DEF PreemptBeforeSubmit, GoTo, ShapeInv, TypeOK, Jobs
    <3>2. job[w].pc = "preempt"
      BY <2>7 DEF PreemptBeforeSubmit
    <3>3. SubmitFresh(w)
      BY DEF SubmissionInv
    <3>4. SubmitFresh(w)'
      BY <2>1, <3>1, <3>2, <3>3 DEF SubmitFresh, Resubmitting, Keeping, Keeps
    <3> QED BY <1>1, <2>1, <2>2, <3>4
  <2> QED BY <1>5, <2>5, <2>6, <2>7
<1>6. ASSUME NEW w \in Writers, Submit(w)
      PROVE  SubmissionInv'
  <2> DEFINE r == job[w].rl
             off == IF Keeps(w) THEN job[w].offset ELSE job[w].cmd.n % OFFSETS
  <2>1. UNCHANGED <<scenario, raced>> /\ Finish(w) /\ Asked(w, off)
    BY <1>6 DEF Submit
  <2>2. \A x \in Writers \ {w} : Same(x)
    BY <1>c, <1>6, OthersFrame DEF Continue
  <2>3. /\ r \in Runlists /\ job[w].pc = "submit" /\ job[w].cmd.op = "resubmit_runlist"
        /\ list \in [Runlists -> Submissions] /\ given \in [Runlists -> Submissions]
    BY <1>6 DEF ShapeInv, TypeOK, Jobs, Submit, Shape
  <2>4. /\ r \notin raced =>
             /\ job[w].len = given[r].len /\ list[r].base = given[r].base
             /\ scenario.chip = "gf100" => job[w].base = given[r].base
        /\ Keeps(w) /\ r \notin stale => job[w].offset = given[r].offset
    BY <2>3 DEF SubmissionInv, SubmissionIntact, SubmitFresh, Resubmitting, Keeping
  <2>5. /\ list'[r].base = IF scenario.chip = "gf100" THEN job[w].base ELSE list[r].base
        /\ list'[r].len = job[w].len /\ list'[r].offset = off
    BY <1>6, <2>3 DEF Submit
  <2>6. \A q \in Runlists \ {r} :
          /\ list'[q] = list[q] /\ given'[q] = given[q] /\ (q \in stale' <=> q \in stale)
    BY <1>6, <2>1, <2>3 DEF Submit, Asked
  <2>7. given'[r].base = given[r].base /\ given'[r].len = given[r].len
    <3> HIDE DEF off
    <3> QED BY <2>1, <2>3 DEF Asked, Submissions
  <2>8. CASE Keeps(w)
    <3>1. given' = given /\ stale' = stale
      BY <2>1, <2>8 DEF Asked
    <3>2. SubmissionIntact'
      BY <2>1, <2>4, <2>5, <2>6, <2>8, <3>1 DEF SubmissionInv, SubmissionIntact
    <3>3. \A x \in Writers : SubmitFresh(x)'
      BY <2>1, <2>2, <3>1, FinishPlace DEF SubmissionInv, SubmitFresh, Resubmitting, Keeping, Keeps, Same
    <3> QED BY <3>2, <3>3 DEF SubmissionInv
  <2>9. CASE ~Keeps(w)
    <3>1. given'[r].offset = off
      <4> HIDE DEF off
      <4> QED BY <2>1, <2>3, <2>9 DEF Asked, Submissions
    <3>2. stale' = IF \E x \in Writers : Keeping(x, r) THEN stale \cup {r} ELSE stale \ {r}
      BY <2>1, <2>9 DEF Asked
    <3>3. SubmissionIntact'
      <4> HIDE DEF off
      <4>1. ASSUME NEW q \in Runlists
            PROVE  /\ q \notin raced => list'[q].base = given'[q].base /\ list'[q].len = given'[q].len
                   /\ q \notin stale' => list'[q].offset = given'[q].offset
        <5>1. CASE q = r
          BY <2>4, <2>5, <2>7, <3>1, <5>1
        <5>2. CASE q # r
          BY <2>6, <5>2 DEF SubmissionInv, SubmissionIntact
        <5> QED BY <5>1, <5>2
      <4> QED BY <2>1, <4>1 DEF SubmissionIntact
    <3>4. ASSUME NEW x \in Writers \ {w} PROVE SubmitFresh(x)'
      <4>1. Same(x) /\ SubmitFresh(x) /\ job[x].rl \in Runlists
        BY <2>2 DEF SubmissionInv, ShapeInv, TypeOK, Jobs
      <4>2. CASE job[x].rl = r
        BY <2>1, <2>7, <3>2, <4>1, <4>2 DEF SubmitFresh, Resubmitting, Keeping, Keeps, Same
      <4>3. CASE job[x].rl # r
        BY <2>1, <2>6, <4>1, <4>3 DEF SubmitFresh, Resubmitting, Keeping, Keeps, Same
      <4> QED BY <4>2, <4>3
    <3>5. SubmitFresh(w)'
      BY <2>1, FinishPlace DEF SubmitFresh, Resubmitting, Keeping
    <3> QED BY <3>3, <3>4, <3>5 DEF SubmissionInv
  <2> QED BY <2>8, <2>9
<1>7. ASSUME NEW r \in Runlists, DriverSubmit(r)
      PROVE  SubmissionInv'
  <2>1. UNCHANGED <<scenario, job>>
    BY <1>7 DEF DriverSubmit
  <2>2. \A q \in Runlists \ {r} : /\ list'[q] = list[q] /\ given'[q] = given[q]
                                  /\ (q \in raced' <=> q \in raced) /\ (q \in stale' <=> q \in stale)
    BY <1>7 DEF DriverSubmit, ShapeInv, TypeOK
  <2>3. list'[r] = given'[r]
    BY <1>7 DEF DriverSubmit, ShapeInv, TypeOK
  <2>4. \A w \in Writers : /\ Resubmitting(w, r) => r \in raced'
                           /\ Keeping(w, r) => r \in stale'
    BY <1>7 DEF DriverSubmit
  <2>5. SubmissionIntact'
    BY <2>2, <2>3 DEF SubmissionInv, SubmissionIntact
  <2>6. ASSUME NEW w \in Writers PROVE SubmitFresh(w)'
    <3>1. job[w].rl \in Runlists
      BY DEF ShapeInv, TypeOK, Jobs
    <3>2. CASE job[w].rl = r
      BY <2>1, <2>4, <3>2 DEF SubmitFresh, Resubmitting, Keeping, Keeps
    <3>3. CASE job[w].rl # r
      <4>1. SubmitFresh(w)
        BY DEF SubmissionInv
      <4> QED BY <2>1, <2>2, <3>1, <3>3, <4>1 DEF SubmitFresh, Resubmitting, Keeping, Keeps
    <3> QED BY <3>2, <3>3
  <2> QED BY <2>5, <2>6 DEF SubmissionInv
<1>8. CASE (\E r \in Runlists : Timeslice(r)) \/ (\E c \in scenario.rebinds : DriverBind(c))
  BY <1>2, <1>8 DEF Timeslice, DriverBind
<1>9. CASE UNCHANGED vars
  BY <1>2, <1>9 DEF vars
<1> QED BY <1>3, <1>4, <1>5, <1>6, <1>7, <1>8, <1>9 DEF Next, Continue

\* No write to the files changes which runlist is submitted, unless the driver
\* submits another between the read and the write of a resubmission; and the offset
\* is the one the driver or a resubmission last asked for, unless another asked for
\* it between the read and the write of one that keeps it (runlist.c:237-279).
THEOREM SubmissionPreserved == Spec => []SubmissionIntact
<1>1. Init => SubmissionInv
  BY DEF Init, SubmissionInv, SubmissionIntact, SubmitFresh, Resubmitting, Keeping, NewJob
<1>2. SubmissionInv => SubmissionIntact
  BY DEF SubmissionInv
<1> QED BY <1>1, <1>2, ShapeInit, ShapeStep, SubmissionStep, PTL DEF Spec

-----------------------------------------------------------------------------
(* The switch *)

\* A step that ends a call that has written to a channel finds all of its work done.
LEMMA EndsComplete ==
  ASSUME ShapeInv, [Next]_vars, NEW w \in Writers,
         Ampere, job[w].wrote, job'[w].pc = "idle"
  PROVE  job[w].todo = << >> /\ ~MoreTsgs(job[w])
<1>c. NoCommand \in Commands \cup {NoCommand} /\ scenario.commands \subseteq Commands
  BY ScenariosAssumption DEF ShapeInv, TypeOK
<1>1. job[w] \in Jobs /\ job[w].pc = "walk"
  BY DEF ShapeInv, TypeOK, Shape
<1>2. ASSUME Same(w) PROVE FALSE
  BY <1>1, <1>2 DEF Same
<1>3. CASE \E c \in scenario.commands :
             \/ SwitchToTsg(w, c) \/ SetChannel(w, c) \/ PreemptTsg(w, c)
             \/ PreemptRunlist(w, c) \/ ResubmitRunlist(w, c)
  BY <1>1, <1>3 DEF SwitchToTsg, SetChannel, PreemptTsg, PreemptRunlist, ResubmitRunlist, Begin
<1>4. CASE \/ ReadBase(w) \/ ReadLen(w) \/ ReadConfig(w) \/ ReadSubmit(w)
           \/ PreemptBeforeSubmit(w) \/ Submit(w) \/ ReadChannel(w) \/ ReadFails(w)
  BY <1>1, <1>4 DEF ReadBase, ReadLen, ReadConfig, ReadSubmit, PreemptBeforeSubmit, Submit,
                    ReadChannel, ReadFails
<1>5. CASE NextTsg(w)
  <2>1. PICK t, e, n, b, new :
          Claim(w, [job[w] EXCEPT !.todo = t, !.enable = e, !.tsg = n, !.pos = b], new)
    BY <1>5 DEF NextTsg
  <2> DEFINE j == [job[w] EXCEPT !.todo = t, !.enable = e, !.tsg = n, !.pos = b]
  <2>2. [j EXCEPT !.asked = @ \cup new].pc = "walk"
    BY <1>1 DEF Jobs
  <2>3. Claim(w, j, new)
    BY <2>1
  <2> HIDE DEF j
  <2> QED BY <2>2, <2>3, ClaimFrame
<1>6. CASE WriteChannel(w)
  <2>1. "pc" \in DOMAIN [job[w] EXCEPT !.todo = Tail(@), !.wrote = TRUE]
    BY <1>1 DEF Jobs
  <2> QED BY <1>6, <2>1, GoToPlace DEF WriteChannel
<1>7. CASE Return(w)
  BY <1>7 DEF Return
<1>8. ASSUME NEW x \in Writers \ {w}, NEW c \in Commands \cup {NoCommand},
             \/ SwitchToTsg(x, c) \/ SetChannel(x, c) \/ PreemptTsg(x, c)
             \/ PreemptRunlist(x, c) \/ ResubmitRunlist(x, c) \/ Continue(x) \/ ReadFails(x)
      PROVE  FALSE
  BY <1>2, <1>8, OthersFrame
<1>9. CASE UNCHANGED job
  BY <1>1, <1>9
<1> QED
  <2>1. CASE \/ \E r \in Runlists : Timeslice(r) \/ DriverSubmit(r)
             \/ \E c \in scenario.rebinds : DriverBind(c)
             \/ UNCHANGED vars
    BY <1>9, <2>1 DEF Timeslice, DriverSubmit, DriverBind, vars
  <2>2. CASE \E x \in Writers : Continue(x) \/ ReadFails(x)
    BY <1>c, <1>4, <1>5, <1>6, <1>7, <1>8, <2>2 DEF Continue
  <2>3. CASE \E x \in Writers, c \in scenario.commands :
               \/ SwitchToTsg(x, c) \/ SetChannel(x, c) \/ PreemptTsg(x, c)
               \/ PreemptRunlist(x, c) \/ ResubmitRunlist(x, c)
    BY <1>c, <1>3, <1>8, <2>3
  <2> QED BY <2>1, <2>2, <2>3 DEF Next

\* From Ampere on a switch, or a write to one channel, does all of its work or
\* none of it (runlist_procfs.c:534-577).
THEOREM SwitchAllOrNothing == Spec => AllOrNothing
<1>1. ShapeInv /\ [Next]_vars =>
        [\A w \in Writers : Ampere /\ job[w].wrote /\ job'[w].pc = "idle" =>
                              job[w].todo = << >> /\ ~MoreTsgs(job[w])]_vars
  BY EndsComplete
<1> QED BY <1>1, ShapeInit, ShapeStep, PTL DEF Spec, AllOrNothing

-----------------------------------------------------------------------------
(* What the calls announce *)

\* Does the loop of the call still come to the channel?
Awaits(j, c) ==
  \/ \E i \in 1 .. Len(j.todo) : c = Channel(j.rl, j.todo[i])
  \/ /\ j.cmd.op = "switch_to_tsg"
     /\ \E k \in Submitted(j) :
          /\ j.tsg <= k
          /\ \E i \in 1 .. Len(scenario.memory[j.base][k].chans) :
               c = Channel(j.rl, scenario.memory[j.base][k].chans[i])

\* A call that has not begun its loop has announced nothing.
Fresh(j) ==
  /\ j.asked = {} /\ j.rivals = {} /\ j.tsg = 1 /\ j.pos = 0
  /\ j.pc = "config" /\ j.cmd.op # "switch_to_tsg" => j.enable = (j.cmd.op = "enable_channel")

\* One that has stands before a TSG of the runlist or at its end, and what it
\* announces is what TSGs ask for, those of the submitted runlist among them.
Placed(j) ==
  j.cmd.op = "switch_to_tsg" =>
    /\ j.tsg <= Len(scenario.memory[j.base]) + 1
    /\ j.pos = Start(scenario.memory[j.base], j.tsg)
    /\ \A p \in j.asked : \E k \in 1 .. Len(scenario.memory[j.base]) : p \in TsgDue(j, k)
    /\ \A k \in Submitted(j) : TsgDue(j, k) \subseteq j.asked

\* It has announced what it writes next; whatever it has announced may be; and
\* where it has been, a channel is as it or a rival wants it.
Announced(j) ==
  \A i \in 1 .. Len(j.todo) : <<Channel(j.rl, j.todo[i]), j.enable>> \in j.asked
Allowed(j) == \A c \in Channels, v \in BOOLEAN : <<c, v>> \in j.asked => v \in may[c]
Done(j) ==
  \A c \in Channels, v \in BOOLEAN :
    <<c, v>> \in j.asked => Awaits(j, c) \/ <<c, chan[c].enable>> \in j.asked \cup j.rivals

LoopInv(j) == Placed(j) /\ Announced(j) /\ Allowed(j) /\ Done(j)
ClaimInv ==
  /\ NothingStale
  /\ \A w \in Writers : IF Walking(w) THEN LoopInv(job[w]) ELSE Fresh(job[w])
  /\ \A w, x \in Writers : w # x /\ Walking(w) /\ Walking(x) => job[x].asked \subseteq job[w].rivals

\* A call is the same but for what is known of its rivals and the word it holds.
Alike(x) ==
  /\ job'[x].cmd = job[x].cmd /\ job'[x].rl = job[x].rl /\ job'[x].base = job[x].base
  /\ job'[x].len = job[x].len /\ job'[x].tsg = job[x].tsg /\ job'[x].pos = job[x].pos
  /\ job'[x].todo = job[x].todo /\ job'[x].enable = job[x].enable
  /\ job'[x].asked = job[x].asked /\ job[x].rivals \subseteq job'[x].rivals

\* What is said of a call inside its loop goes on to hold while others write
\* what they have announced to it.
LEMMA LoopKept ==
  ASSUME scenario' = scenario, NEW x \in Writers, Alike(x), LoopInv(job[x]),
         \A c \in Channels, v \in BOOLEAN : <<c, v>> \in job[x].asked => v \in may'[c],
         \A c \in Channels : \/ chan'[c].enable = chan[c].enable
                             \/ <<c, chan'[c].enable>> \in job'[x].rivals
  PROVE  LoopInv(job[x])'
<1>1. \A k : TsgDue(job[x], k)' = TsgDue(job[x], k) /\ Submitted(job[x])' = Submitted(job[x])
  BY DEF TsgDue, Submitted, Alike, Channel, Ampere
<1>2. Placed(job[x])'
  BY <1>1 DEF LoopInv, Placed, Alike
<1>3. Announced(job[x])'
  BY DEF LoopInv, Announced, Alike, Channel, Ampere
<1>4. Allowed(job[x])'
  BY DEF Allowed, Alike, Channels
<1>5. \A c : Awaits(job[x], c) => Awaits(job[x], c)'
  BY DEF Awaits, Submitted, Alike, Channel, Ampere
<1>6. Done(job[x])'
  BY <1>5 DEF LoopInv, Done, Alike, Channels
<1> QED BY <1>2, <1>3, <1>4, <1>6 DEF LoopInv

\* The calls other than the one that steps stay as they are or learn of a rival.
Kept(x) ==
  /\ Alike(x) /\ (Walking(x) <=> job'[x].pc \in {"walk", "have"})
  /\ ~Walking(x) => job'[x] = job[x]

\* The last step of every argument below: what is to be shown when one call has
\* stepped and the others are kept.
LEMMA OthersKept ==
  ASSUME scenario' = scenario, NEW w \in Writers, ClaimInv,
         \A x \in Writers \ {w} : Kept(x),
         \A x \in Writers \ {w} : Walking(x) =>
           /\ \A c \in Channels, v \in BOOLEAN : <<c, v>> \in job[x].asked => v \in may'[c]
           /\ \A c \in Channels : \/ chan'[c].enable = chan[c].enable
                                  \/ <<c, chan'[c].enable>> \in job'[x].rivals
  PROVE  \A x \in Writers \ {w} :
           IF Walking(x)' THEN LoopInv(job[x])' ELSE Fresh(job[x])'
<1> SUFFICES ASSUME NEW x \in Writers \ {w}
             PROVE  IF Walking(x)' THEN LoopInv(job[x])' ELSE Fresh(job[x])'
  OBVIOUS
<1>1. CASE Walking(x)
  <2>1. LoopInv(job[x]) /\ Alike(x)
    BY <1>1 DEF ClaimInv, Kept
  <2>2. LoopInv(job[x])'
    BY <1>1, <2>1, LoopKept
  <2> QED BY <1>1, <2>2 DEF Kept, Walking
<1>2. CASE ~Walking(x)
  <2>1. Fresh(job[x]) /\ job'[x] = job[x]
    BY <1>2 DEF ClaimInv, Kept
  <2> QED BY <1>2, <2>1 DEF Kept, Walking, Fresh
<1> QED BY <1>1, <1>2

\* A step of one call outside its loop, or out of it after a failed read.
LEMMA OutsideStep ==
  ASSUME ShapeInv, ClaimInv, NEW w \in Writers, NEW j,
         UNCHANGED <<scenario, chan, may>>, job' = [job EXCEPT ![w] = j],
         j.pc \notin {"walk", "have"}, Fresh(j)
  PROVE  ClaimInv'
<1>1. job'[w] = j /\ \A x \in Writers \ {w} : job'[x] = job[x]
  BY DEF ShapeInv, TypeOK
<1>2. \A x \in Writers \ {w} : Kept(x)
  BY <1>1 DEF Kept, Alike, Walking
<1>3. \A x \in Writers \ {w} : Walking(x) =>
        \A c \in Channels, v \in BOOLEAN : <<c, v>> \in job[x].asked => v \in may'[c]
  BY DEF ClaimInv, LoopInv, Allowed
<1>4. \A x \in Writers \ {w} : IF Walking(x)' THEN LoopInv(job[x])' ELSE Fresh(job[x])'
  BY <1>2, <1>3, OthersKept
<1>5. ~Walking(w)' /\ Fresh(job[w])'
  BY <1>1 DEF Walking, Fresh
<1>6. NothingStale'
  BY DEF ClaimInv, NothingStale, Channels
<1>7. \A v, x \in Writers : v # x /\ Walking(v)' /\ Walking(x)' => job'[x].asked \subseteq job'[v].rivals
  BY <1>1, <1>5 DEF ClaimInv, Walking
<1> QED BY <1>4, <1>5, <1>6, <1>7 DEF ClaimInv

\* A step of the driver or the GPU.
LEMMA DeviceStep ==
  ASSUME ShapeInv, ClaimInv, UNCHANGED <<scenario, job, may>>,
         \A c \in Channels : chan'[c].enable = chan[c].enable
  PROVE  ClaimInv'
<1>1. \A x \in Writers : Walking(x) => Alike(x) /\ LoopInv(job[x])
  BY DEF Alike, ClaimInv
<1>2. \A x \in Writers : Walking(x) =>
        \A c \in Channels, v \in BOOLEAN : <<c, v>> \in job[x].asked => v \in may'[c]
  BY DEF ClaimInv, LoopInv, Allowed
<1>3. \A x \in Writers : Walking(x) => LoopInv(job[x])'
  BY <1>1, <1>2, LoopKept
<1>4. \A x \in Writers : ~Walking(x) => Fresh(job[x])'
  BY DEF ClaimInv, Fresh
<1>5. NothingStale'
  BY DEF ClaimInv, NothingStale, Channels
<1> QED BY <1>3, <1>4, <1>5 DEF ClaimInv, Walking

\* To announce values keeps what is said of the other calls, who learn of them.
LEMMA ClaimKept ==
  ASSUME ShapeInv, ClaimInv, NEW w \in Writers, NEW j, NEW new, Claim(w, j, new),
         UNCHANGED <<scenario, chan>>
  PROVE  /\ \A x \in Writers \ {w} : IF Walking(x)' THEN LoopInv(job[x])' ELSE Fresh(job[x])'
         /\ \A x \in Writers \ {w} :
              /\ Walking(x)' <=> Walking(x)
              /\ job'[x].asked = job[x].asked
              /\ Walking(x) => job'[x].rivals = job[x].rivals \cup new
         /\ \A c \in Channels, v \in BOOLEAN : v \in may'[c] <=> v \in may[c] \/ <<c, v>> \in new
         /\ NothingStale'
<1>1. \A x \in Writers \ {w} :
        /\ Walking(x) => job'[x] = [job[x] EXCEPT !.rivals = @ \cup new]
        /\ ~Walking(x) => job'[x] = job[x]
  BY DEF Claim
<1>2. \A x \in Writers : job[x] \in Jobs
  BY DEF ShapeInv, TypeOK
<1>3. \A x \in Writers \ {w} : Walking(x) =>
        /\ job'[x].rivals = job[x].rivals \cup new /\ job'[x].pc = job[x].pc /\ Alike(x)
  <2>1. ASSUME NEW i \in Jobs, NEW k, k = [i EXCEPT !.rivals = @ \cup new]
        PROVE  /\ k.rivals = i.rivals \cup new /\ k.pc = i.pc /\ k.cmd = i.cmd /\ k.rl = i.rl
               /\ k.base = i.base /\ k.len = i.len /\ k.tsg = i.tsg /\ k.pos = i.pos
               /\ k.todo = i.todo /\ k.enable = i.enable /\ k.asked = i.asked
    BY <2>1 DEF Jobs
  <2> SUFFICES ASSUME NEW x \in Writers \ {w}, Walking(x)
               PROVE  /\ job'[x].rivals = job[x].rivals \cup new
                      /\ job'[x].pc = job[x].pc /\ Alike(x)
    OBVIOUS
  <2>2. job[x] \in Jobs /\ job'[x] = [job[x] EXCEPT !.rivals = @ \cup new]
    BY <1>1, <1>2
  <2>3. /\ job'[x].rivals = job[x].rivals \cup new /\ job'[x].pc = job[x].pc
        /\ job'[x].cmd = job[x].cmd /\ job'[x].rl = job[x].rl
        /\ job'[x].base = job[x].base /\ job'[x].len = job[x].len /\ job'[x].tsg = job[x].tsg
        /\ job'[x].pos = job[x].pos /\ job'[x].todo = job[x].todo
        /\ job'[x].enable = job[x].enable /\ job'[x].asked = job[x].asked
    BY <2>1, <2>2, ZenonT(30)
  <2> QED BY <2>3 DEF Alike
<1>4. \A x \in Writers \ {w} : Kept(x)
  <2>1. \A x \in Writers \ {w} : Walking(x) => Kept(x)
    BY <1>3 DEF Kept, Walking
  <2>2. \A x \in Writers \ {w} : ~Walking(x) => Kept(x)
    BY <1>1 DEF Kept, Walking, Alike
  <2> QED BY <2>1, <2>2
<1>5. \A c \in Channels, v \in BOOLEAN : v \in may'[c] <=> v \in may[c] \/ <<c, v>> \in new
  BY DEF Claim
<1>6. \A x \in Writers \ {w} : Walking(x) =>
        \A c \in Channels, v \in BOOLEAN : <<c, v>> \in job[x].asked => v \in may'[c]
  BY <1>5 DEF ClaimInv, LoopInv, Allowed
<1>7. \A x \in Writers \ {w} : IF Walking(x)' THEN LoopInv(job[x])' ELSE Fresh(job[x])'
  BY <1>4, <1>6, OthersKept
<1>8. NothingStale'
  <2>1. \A c \in Channels : chan[c].enable \in BOOLEAN
    BY DEF ShapeInv, TypeOK
  <2> QED BY <1>5, <2>1 DEF ClaimInv, NothingStale, Channels
<1>9. \A x \in Writers \ {w} : (Walking(x)' <=> Walking(x)) /\ job'[x].asked = job[x].asked
  BY <1>4 DEF Kept, Walking, Alike
<1> QED BY <1>3, <1>5, <1>7, <1>8, <1>9

\* The step into the loop.
LEMMA EnterLoop ==
  ASSUME ShapeInv, ClaimInv, NEW w \in Writers, NEW j \in Jobs, UNCHANGED <<scenario, chan>>,
         j.asked = {}, j.tsg = 1, j.pos = 0,
         j.cmd.op \in {"switch_to_tsg", "enable_channel", "disable_channel"},
         j.cmd.op = "switch_to_tsg" => j.base \in DOMAIN scenario.memory /\ j.todo = << >>,
         j.cmd.op # "switch_to_tsg" =>
           /\ j.cmd.n \in 0 .. MAX_CHID /\ j.todo = <<j.cmd.n>>
           /\ j.enable = (j.cmd.op = "enable_channel"),
         StartWalk(w, j)
  PROVE  ClaimInv'
<1> DEFINE Others == UNION {job[x].asked : x \in {x \in Writers \ {w} : Walking(x)}}
           walker == [j EXCEPT !.pc = "walk", !.rivals = Others]
           J == job'[w]
<1>1. Claim(w, walker, Due(j))
  BY DEF StartWalk
<1>2. /\ J.pc = "walk" /\ J.cmd = j.cmd /\ J.rl = j.rl /\ J.base = j.base /\ J.len = j.len
      /\ J.tsg = 1 /\ J.pos = 0 /\ J.todo = j.todo /\ J.enable = j.enable
      /\ J.asked = Due(j) /\ J.rivals = Others
  <2>1. J = [walker EXCEPT !.asked = @ \cup Due(j)]
    BY <1>1 DEF Claim
  <2> HIDE DEF Others, J
  <2> QED BY <2>1 DEF Jobs
<1> HIDE DEF walker, J
<1>3. Due(j) \subseteq Channels \X BOOLEAN
  BY DueTyped DEF ShapeInv, TypeOK
<1>d. \A k : TsgDue(job[w], k)' = TsgDue(j, k)
  BY <1>2 DEF TsgDue, Channel, Ampere, J
<1>e. Submitted(job[w])' = Submitted(j)
  BY <1>2 DEF Submitted, J
<1>4. Placed(job[w])'
  <2> SUFFICES ASSUME j.cmd.op = "switch_to_tsg"
               PROVE  /\ 1 <= Len(scenario.memory[j.base]) + 1
                      /\ 0 = Start(scenario.memory[j.base], 1)
                      /\ \A p \in Due(j) : \E k \in 1 .. Len(scenario.memory[j.base]) : p \in TsgDue(j, k)
                      /\ \A k \in Submitted(j) : TsgDue(j, k) \subseteq Due(j)
    BY <1>2, <1>d, <1>e DEF Placed, J, Start
  <2>1. scenario.memory[j.base] \in Seq(TsgEntry)
    BY ScenariosAssumption DEF ShapeInv, TypeOK
  <2>2. \A p \in Due(j) : \E k \in 1 .. Len(scenario.memory[j.base]) : p \in TsgDue(j, k)
    BY DEF Due, Submitted
  <2>3. \A k \in Submitted(j) : TsgDue(j, k) \subseteq Due(j)
    BY DEF Due
  <2> QED BY <2>1, <2>2, <2>3 DEF Start
<1>5. Announced(job[w])'
  <2>1. CASE j.cmd.op = "switch_to_tsg"
    BY <1>2, <2>1 DEF Announced, J
  <2>2. CASE j.cmd.op # "switch_to_tsg"
    BY <1>2, <2>2 DEF Announced, J, Due, Channel, Ampere
  <2> QED BY <2>1, <2>2
<1>6. Allowed(job[w])'
  BY <1>1, <1>2, ClaimKept DEF Allowed, J, Channels
<1>7. Done(job[w])'
  <2>1. \A c, v : <<c, v>> \in Due(j) => Awaits(job[w], c)'
    <3>1. CASE j.cmd.op = "switch_to_tsg"
      <4>1. \A c, v : <<c, v>> \in Due(j) =>
              \E k \in Submitted(j) : \E i \in 1 .. Len(scenario.memory[j.base][k].chans) :
                c = Channel(j.rl, scenario.memory[j.base][k].chans[i])
        BY <3>1 DEF Due, TsgDue
      <4>2. \A k \in Submitted(j) : 1 <= k
        BY DEF Submitted
      <4>3. Submitted(job[w])' = Submitted(j)
        BY <1>2 DEF Submitted, J
      <4> QED BY <1>2, <3>1, <4>1, <4>2, <4>3 DEF Awaits, J, Channel, Ampere
    <3>2. CASE j.cmd.op # "switch_to_tsg"
      <4>1. \A c, v : <<c, v>> \in Due(j) => c = Channel(j.rl, j.cmd.n)
        BY <3>2 DEF Due
      <4>2. 1 \in 1 .. Len(J.todo) /\ J.todo[1] = j.cmd.n
        BY <1>2, <3>2
      <4> QED BY <1>2, <4>1, <4>2 DEF Awaits, J, Channel, Ampere
    <3> QED BY <3>1, <3>2
  <2> QED BY <1>2, <2>1 DEF Done, J
<1>8. LoopInv(job[w])' /\ Walking(w)'
  BY <1>2, <1>4, <1>5, <1>6, <1>7 DEF LoopInv, Walking, J
<1>9. \A v, x \in Writers : v # x /\ Walking(v)' /\ Walking(x)' => job'[x].asked \subseteq job'[v].rivals
  <2>1. \A x \in Writers \ {w} : Walking(x) => job[x].asked \subseteq Others
    OBVIOUS
  <2> QED BY <1>1, <1>2, <2>1, ClaimKept DEF ClaimInv, J
<1> QED BY <1>1, <1>8, <1>9, ClaimKept DEF ClaimInv

\* The next TSG of the loop ends where the one after it begins.
LEMMA EntryLaid ==
  ASSUME scenario \in Scenarios, NEW b \in DOMAIN scenario.memory
  PROVE  LET mem == scenario.memory[b]
         IN  /\ mem \in Seq(TsgEntry)
             /\ \A k \in 1 .. Len(mem) :
                  /\ mem[k].end \in Nat /\ 0 < mem[k].end
                  /\ Start(mem, k + 1) = Start(mem, k) + 1 + Len(mem[k].chans)
             /\ \A i, k \in 1 .. Len(mem) : i < k => mem[i].end < mem[k].end
             /\ \A i, k \in 1 .. Len(mem) :
                  \A x \in 1 .. Len(mem[i].chans), y \in 1 .. Len(mem[k].chans) :
                    mem[i].chans[x] = mem[k].chans[y] => mem[i].tsg = mem[k].tsg
<1> DEFINE mem == scenario.memory[b]
<1>1. mem \in Seq(TsgEntry) /\ Laid(mem)
  BY ScenariosAssumption
<1> HIDE DEF mem
<1>2. \A k \in 1 .. Len(mem) : mem[k].end \in Nat /\ Len(mem[k].chans) \in Nat
  <2>1. \A k \in 1 .. Len(mem) : mem[k] \in TsgEntry
    BY <1>1
  <2> QED BY <2>1, SizesAssumption DEF TsgEntry
<1>3. \A k \in 1 .. Len(mem) : Start(mem, k) \in Nat
  BY <1>1, <1>2 DEF Start
<1>4. \A k \in 1 .. Len(mem) : mem[k].end = Start(mem, k) + 1 + Len(mem[k].chans)
  BY <1>1 DEF Laid
<1>5. \A k \in 1 .. Len(mem) : /\ 0 < mem[k].end
                               /\ Start(mem, k + 1) = Start(mem, k) + 1 + Len(mem[k].chans)
  <2> TAKE k \in 1 .. Len(mem)
  <2>1. Start(mem, k + 1) = mem[k].end
    BY <1>1 DEF Start
  <2> QED BY <1>2, <1>3, <1>4, <2>1
<1> QED BY <1>1, <1>2, <1>5, Zenon DEF Laid, mem

\* The step of the loop to the next TSG.
LEMMA NextStep ==
  ASSUME ShapeInv, ClaimInv, NEW w \in Writers, NextTsg(w)
  PROVE  ClaimInv'
<1> DEFINE j == job[w]
           mem == scenario.memory[j.base]
           entry == mem[j.tsg]
           J == job'[w]
<1>1. /\ j \in Jobs /\ j.pc = "walk" /\ j.todo = << >> /\ j.cmd.op = "switch_to_tsg"
      /\ j.base \in DOMAIN scenario.memory /\ j.tsg <= Len(mem) /\ scenario \in Scenarios
      /\ LoopInv(j) /\ Walking(w) /\ UNCHANGED <<scenario, chan>>
  BY DEF NextTsg, MoreTsgs, ShapeInv, TypeOK, Shape, ClaimInv, Walking, hw
<1>2. j.tsg \in 1 .. Len(mem) /\ mem \in Seq(TsgEntry)
  BY <1>1, EntryLaid DEF Jobs
<1>3. Claim(w, [j EXCEPT !.todo = entry.chans, !.enable = entry.tsg = j.cmd.n,
                         !.tsg = @ + 1, !.pos = @ + 1 + Len(entry.chans)], TsgDue(j, j.tsg))
  BY DEF NextTsg
<1>4. /\ J.pc = "walk" /\ J.cmd = j.cmd /\ J.rl = j.rl /\ J.base = j.base /\ J.len = j.len
      /\ J.tsg = j.tsg + 1 /\ J.pos = j.pos + 1 + Len(entry.chans) /\ J.todo = entry.chans
      /\ J.enable = (entry.tsg = j.cmd.n)
      /\ J.asked = j.asked \cup TsgDue(j, j.tsg) /\ J.rivals = j.rivals
  <2> DEFINE new == TsgDue(j, j.tsg)
             e == (entry.tsg = j.cmd.n)
             chans == entry.chans
  <2>1. J = [[j EXCEPT !.todo = chans, !.enable = e, !.tsg = @ + 1, !.pos = @ + 1 + Len(chans)]
               EXCEPT !.asked = @ \cup new]
    BY <1>3 DEF Claim
  <2> HIDE DEF new, e, chans, j, J
  <2>2. /\ J.pc = j.pc /\ J.cmd = j.cmd /\ J.rl = j.rl /\ J.base = j.base /\ J.len = j.len
        /\ J.tsg = j.tsg + 1 /\ J.pos = j.pos + 1 + Len(chans) /\ J.todo = chans
        /\ J.enable = e /\ J.asked = j.asked \cup new /\ J.rivals = j.rivals
    BY <1>1, <2>1 DEF Jobs
  <2> QED BY <1>1, <2>2 DEF new, e, chans, j
<1>5. TsgDue(j, j.tsg) \subseteq Channels \X BOOLEAN
  BY <1>1, <1>2, TsgDueTyped
<1>d. \A k : TsgDue(job[w], k)' = TsgDue(j, k)
  <2>1. /\ scenario' = scenario /\ job'[w].cmd = job[w].cmd /\ job'[w].rl = job[w].rl
        /\ job'[w].base = job[w].base
    BY <1>1, <1>4
  <2> QED BY <2>1 DEF TsgDue, Channel, Ampere
<1>6. Placed(job[w])'
  <2>1. /\ \A p \in j.asked : \E k \in 1 .. Len(mem) : p \in TsgDue(j, k)
        /\ j.pos = Start(mem, j.tsg)
        /\ \A k \in Submitted(j) : TsgDue(j, k) \subseteq j.asked
    BY <1>1 DEF LoopInv, Placed
  <2>2. \A p \in J.asked : \E k \in 1 .. Len(mem) : p \in TsgDue(j, k)
    <3> HIDE DEF j, J
    <3> QED BY <1>2, <1>4, <2>1
  <2>3. J.pos = Start(mem, j.tsg + 1) /\ j.tsg + 1 <= Len(mem) + 1
    <3>1. Start(mem, j.tsg + 1) = Start(mem, j.tsg) + 1 + Len(entry.chans)
      BY <1>1, <1>2, EntryLaid
    <3> HIDE DEF j, J, mem, entry
    <3> QED BY <1>2, <1>4, <2>1, <3>1
  <2>4. Submitted(job[w])' = Submitted(j)
    BY <1>1, <1>4 DEF Submitted
  <2>5. /\ J.tsg <= Len(mem) + 1 /\ J.pos = Start(mem, J.tsg) /\ J.base = j.base
        /\ scenario' = scenario
    <3> HIDE DEF j, J, mem, entry
    <3> QED BY <1>1, <1>4, <2>3
  <2>6. \A p \in J.asked : \E k \in 1 .. Len(mem) : p \in TsgDue(job[w], k)'
    <3> HIDE DEF j, J, mem, entry
    <3> QED BY <1>d, <2>2
  <2>7. \A k \in Submitted(job[w])' : TsgDue(job[w], k)' \subseteq J.asked
    <3>1. \A k \in Submitted(j) : TsgDue(j, k) \subseteq J.asked
      <4> HIDE DEF j, J
      <4> QED BY <1>4, <2>1
    <3> HIDE DEF j, J
    <3> QED BY <1>d, <2>4, <3>1
  <2> HIDE DEF J
  <2> QED BY <2>5, <2>6, <2>7 DEF Placed, J, Start
<1>7. Announced(job[w])'
  <2>1. \A i \in 1 .. Len(entry.chans) :
          <<Channel(j.rl, entry.chans[i]), entry.tsg = j.cmd.n>> \in TsgDue(j, j.tsg)
    BY DEF TsgDue
  <2> HIDE DEF entry, j, J
  <2>2. \A i \in 1 .. Len(J.todo) : <<Channel(J.rl, J.todo[i]), J.enable>> \in J.asked
    BY <1>4, <2>1
  <2> QED BY <1>1, <2>2 DEF Announced, J, Channel, Ampere
<1>8. Allowed(job[w])'
  <2>1. Allowed(j)
    BY <1>1 DEF LoopInv
  <2>2. \A c \in Channels, v \in BOOLEAN : v \in may'[c] <=> v \in may[c] \/ <<c, v>> \in TsgDue(j, j.tsg)
    BY <1>1, <1>3, ClaimKept
  <2> HIDE DEF j, J
  <2>3. \A c \in Channels, v \in BOOLEAN : <<c, v>> \in J.asked => v \in may'[c]
    BY <1>4, <2>1, <2>2 DEF Allowed
  <2> QED BY <1>1, <2>3 DEF Allowed, J, Channels
<1>9. Done(job[w])'
  <2>1. \A c, v : <<c, v>> \in TsgDue(j, j.tsg) => \E i \in 1 .. Len(entry.chans) : c = Channel(j.rl, entry.chans[i])
    BY DEF TsgDue
  <2>2. \A c : Awaits(j, c) => Awaits(job[w], c)'
    <3> SUFFICES ASSUME NEW c, Awaits(j, c) PROVE Awaits(job[w], c)'
      OBVIOUS
    <3>1. PICK k \in Submitted(j) : /\ j.tsg <= k
                                    /\ \E i \in 1 .. Len(mem[k].chans) : c = Channel(j.rl, mem[k].chans[i])
      <4>1. j.todo = << >> => ~ \E i \in 1 .. Len(j.todo) : c = Channel(j.rl, j.todo[i])
        OBVIOUS
      <4>2. j.todo = << >>
        BY <1>1
      <4>3. ~ \E i \in 1 .. Len(j.todo) : c = Channel(j.rl, j.todo[i])
        BY <4>1, <4>2
      <4> HIDE DEF j
      <4> QED BY <4>3 DEF Awaits, mem
    <3>2. k \in 1 .. Len(mem)
      BY DEF Submitted
    <3>3. CASE k = j.tsg
      BY <1>1, <1>4, <3>1, <3>3 DEF Awaits, Channel, Ampere
    <3>4. CASE j.tsg + 1 <= k
      <4>1. k \in Submitted(job[w])'
        BY <1>1, <1>4 DEF Submitted
      <4> QED BY <1>1, <1>4, <3>1, <3>4, <4>1 DEF Awaits, Channel, Ampere
    <3>5. k = j.tsg \/ j.tsg + 1 <= k
      <4>1. j.tsg <= k /\ j.tsg \in 1 .. Len(mem)
        BY <1>2, <3>1
      <4> HIDE DEF j, mem
      <4> QED BY <3>2, <4>1
    <3> QED BY <3>3, <3>4, <3>5
  <2>3. \A c, v : <<c, v>> \in TsgDue(j, j.tsg) => Awaits(job[w], c)'
    <3>1. J.todo = entry.chans /\ J.rl = j.rl /\ scenario' = scenario
      BY <1>1, <1>4
    <3> HIDE DEF j, entry
    <3>2. \A c, v : <<c, v>> \in TsgDue(j, j.tsg) =>
            \E i \in 1 .. Len(J.todo) : c = Channel(J.rl, J.todo[i])
      BY <2>1, <3>1
    <3> HIDE DEF J
    <3> QED BY <3>1, <3>2 DEF Awaits, J, Channel, Ampere
  <2>4. Done(j)
    BY <1>1 DEF LoopInv
  <2> HIDE DEF j, J, entry
  <2>5. \A c \in Channels, v \in BOOLEAN :
          <<c, v>> \in J.asked => Awaits(job[w], c)' \/ <<c, chan[c].enable>> \in J.asked \cup J.rivals
    BY <1>4, <2>2, <2>3, <2>4 DEF Done
  <2> QED BY <1>1, <2>5 DEF Done, J, Channels
<1>10. LoopInv(job[w])' /\ Walking(w)'
  BY <1>4, <1>6, <1>7, <1>8, <1>9 DEF LoopInv, Walking
<1>11. \A v, x \in Writers : v # x /\ Walking(v)' /\ Walking(x)' => job'[x].asked \subseteq job'[v].rivals
  <2>1. /\ \A x \in Writers \ {w} :
              /\ Walking(x)' <=> Walking(x)
              /\ job'[x].asked = job[x].asked
              /\ Walking(x) => job'[x].rivals = job[x].rivals \cup TsgDue(j, j.tsg)
    BY <1>1, <1>3, ClaimKept
  <2> HIDE DEF J
  <2>2. J.asked = job[w].asked \cup TsgDue(j, j.tsg) /\ J.rivals = job[w].rivals
    BY <1>4
  <2>3. \A v, x \in Writers : v # x /\ Walking(v) /\ Walking(x) => job[x].asked \subseteq job[v].rivals
    BY DEF ClaimInv
  <2> HIDE DEF j
  <2> QED BY <1>1, <2>1, <2>2, <2>3 DEF J
<1> HIDE DEF j, J, mem, entry
<1> QED BY <1>1, <1>3, <1>10, <1>11, ClaimKept DEF ClaimInv

\* At the end of the loop nothing is left to be done.
LEMMA LoopDone ==
  ASSUME ShapeInv, NEW w \in Writers, job[w].pc = "walk", Placed(job[w]),
         job[w].todo = << >>, ~MoreTsgs(job[w])
  PROVE  \A c : ~Awaits(job[w], c)
<1> DEFINE j == job[w]
           mem == scenario.memory[j.base]
<1>1. j \in Jobs /\ Shape(j) /\ scenario \in Scenarios
  BY DEF ShapeInv, TypeOK
<1>2. CASE j.cmd.op # "switch_to_tsg"
  BY <1>2 DEF Awaits
<1>3. CASE j.cmd.op = "switch_to_tsg"
  <2>1. j.base \in DOMAIN scenario.memory
    BY <1>1, <1>3 DEF Shape
  <2>2. /\ mem \in Seq(TsgEntry)
        /\ \A k \in 1 .. Len(mem) : mem[k].end \in Nat /\ 0 < mem[k].end
        /\ \A i, k \in 1 .. Len(mem) : i < k => mem[i].end < mem[k].end
    BY <1>1, <2>1, EntryLaid
  <2>3. j.tsg \in Nat \ {0} /\ j.pos \in Nat /\ j.len \in Nat
    BY <1>1 DEF Jobs
  <2>4. j.pos = (IF j.tsg = 1 THEN 0 ELSE mem[j.tsg - 1].end) /\ j.tsg <= Len(mem) + 1
    BY <1>3 DEF Placed, Start
  <2>5. ~(j.pos < j.len /\ j.tsg <= Len(mem))
    BY <1>3 DEF MoreTsgs
  <2>6. ASSUME NEW k \in Submitted(j), j.tsg <= k
        PROVE  FALSE
    <3>1. k \in 1 .. Len(mem) /\ mem[k].end <= j.len
      BY DEF Submitted
    <3> HIDE DEF mem, j
    <3>2. j.tsg <= Len(mem) /\ j.len <= j.pos
      BY <2>2, <2>3, <2>5, <2>6, <3>1
    <3>3. CASE j.tsg = 1
      BY <2>2, <2>3, <2>4, <3>1, <3>2, <3>3
    <3>4. CASE j.tsg # 1
      <4>1. j.tsg - 1 \in 1 .. Len(mem) /\ j.tsg - 1 < k
        BY <2>2, <2>3, <2>6, <3>1, <3>2, <3>4
      <4>2. mem[j.tsg - 1].end < mem[k].end
        BY <2>2, <3>1, <4>1
      <4> QED BY <2>2, <2>3, <2>4, <3>1, <3>2, <3>4, <4>1, <4>2
    <3> QED BY <3>3, <3>4
  <2> QED BY <2>6 DEF Awaits
<1> QED BY <1>2, <1>3

\* A step of one call inside its loop that announces nothing.
LEMMA InsideStep ==
  ASSUME ShapeInv, ClaimInv, NEW w \in Writers, NEW j, job' = [job EXCEPT ![w] = j],
         UNCHANGED <<scenario, may>>, Walking(w), j.pc \in {"walk", "have"},
         j.asked = job[w].asked, j.rivals = job[w].rivals, LoopInv(job[w])',
         \A c \in Channels : \/ chan'[c].enable = chan[c].enable
                             \/ <<c, chan'[c].enable>> \in job[w].asked
  PROVE  ClaimInv'
<1>1. job'[w] = j /\ \A x \in Writers \ {w} : job'[x] = job[x]
  BY DEF ShapeInv, TypeOK
<1>2. \A x \in Writers \ {w} : Kept(x)
  BY <1>1 DEF Kept, Alike, Walking
<1>3. \A x \in Writers \ {w} : Walking(x) =>
           /\ \A c \in Channels, v \in BOOLEAN : <<c, v>> \in job[x].asked => v \in may'[c]
           /\ \A c \in Channels : \/ chan'[c].enable = chan[c].enable
                                  \/ <<c, chan'[c].enable>> \in job'[x].rivals
  BY <1>1 DEF ClaimInv, LoopInv, Allowed
<1>4. \A x \in Writers \ {w} : IF Walking(x)' THEN LoopInv(job[x])' ELSE Fresh(job[x])'
  BY <1>2, <1>3, OthersKept
<1>5. NothingStale'
  <2>1. Allowed(job[w])
    BY DEF ClaimInv, LoopInv
  <2>2. job[w].asked \subseteq Channels \X BOOLEAN
    BY DEF ShapeInv, TypeOK, Jobs
  <2>3. ASSUME NEW c \in Channels PROVE chan'[c].enable \in may[c]
    <3>1. CASE chan'[c].enable = chan[c].enable
      BY <3>1 DEF ClaimInv, NothingStale
    <3>2. CASE <<c, chan'[c].enable>> \in job[w].asked
      BY <2>1, <2>2, <3>2 DEF Allowed
    <3> QED BY <3>1, <3>2
  <2> QED BY <2>3 DEF NothingStale, Channels
<1>6. \A v, x \in Writers : v # x /\ Walking(v)' /\ Walking(x)' => job'[x].asked \subseteq job'[v].rivals
  BY <1>1 DEF ClaimInv, Walking
<1>7. Walking(w)'
  BY <1>1 DEF Walking
<1> QED BY <1>4, <1>5, <1>6, <1>7 DEF ClaimInv

\* A channel's word is read.
LEMMA ReadStep ==
  ASSUME ShapeInv, ClaimInv, NEW w \in Writers, ReadChannel(w)
  PROVE  ClaimInv'
<1>1. PICK h : job' = [job EXCEPT ![w] = [[job[w] EXCEPT !.held = h] EXCEPT !.pc = "have"]]
  BY DEF ReadChannel, GoTo
<1>2. job[w] \in Jobs /\ Walking(w) /\ UNCHANGED <<scenario, chan, may>> /\ LoopInv(job[w])
  BY DEF ReadChannel, ShapeInv, TypeOK, Walking, ClaimInv, hw
<1> DEFINE j == [[job[w] EXCEPT !.held = h] EXCEPT !.pc = "have"]
<1>3. /\ j.cmd = job[w].cmd /\ j.rl = job[w].rl /\ j.base = job[w].base
      /\ j.len = job[w].len /\ j.tsg = job[w].tsg /\ j.pos = job[w].pos
      /\ j.todo = job[w].todo /\ j.enable = job[w].enable
      /\ j.asked = job[w].asked /\ j.rivals = job[w].rivals /\ j.pc = "have"
  BY <1>2 DEF Jobs
<1>4. job' = [job EXCEPT ![w] = j]
  BY <1>1
<1> HIDE DEF j
<1>5. job'[w] = j
  BY <1>4 DEF ShapeInv, TypeOK
<1>6. LoopInv(job[w])'
  <2>1. Alike(w)
    BY <1>3, <1>5 DEF Alike
  <2>2. \A c \in Channels, v \in BOOLEAN : <<c, v>> \in job[w].asked => v \in may'[c]
    BY <1>2 DEF LoopInv, Allowed
  <2> QED BY <1>2, <2>1, <2>2, LoopKept
<1> QED BY <1>2, <1>3, <1>4, <1>6, InsideStep

\* A channel is written.
LEMMA WriteStep ==
  ASSUME ShapeInv, ClaimInv, NEW w \in Writers, WriteChannel(w)
  PROVE  ClaimInv'
<1> DEFINE i == job[w]
           c == Channel(i.rl, Head(i.todo))
           j == [[i EXCEPT !.todo = Tail(@), !.wrote = TRUE] EXCEPT !.pc = "walk"]
<1>1. /\ i \in Jobs /\ Shape(i) /\ Walking(w) /\ i.todo # << >> /\ i.pc \in {"walk", "have"}
      /\ UNCHANGED <<scenario, may>> /\ LoopInv(i)
  BY DEF WriteChannel, ShapeInv, TypeOK, Walking, ClaimInv, Shape
<1>2. /\ i.todo \in Seq(0 .. MAX_CHID) /\ Head(i.todo) = i.todo[1] /\ 1 \in 1 .. Len(i.todo)
      /\ Len(Tail(i.todo)) = Len(i.todo) - 1
      /\ \A n \in 1 .. Len(Tail(i.todo)) : Tail(i.todo)[n] = i.todo[n + 1] /\ n + 1 \in 1 .. Len(i.todo)
      /\ \A n \in 1 .. Len(i.todo) : n # 1 => n - 1 \in 1 .. Len(Tail(i.todo)) /\ Tail(i.todo)[n - 1] = i.todo[n]
  <2>1. i.todo \in Seq(0 .. MAX_CHID)
    BY <1>1 DEF Shape
  <2> HIDE DEF i
  <2> QED BY <1>1, <2>1
<1>3. c \in Channels
  BY <1>1, <1>2, ChannelsTyped, ChannelTyped DEF Jobs
<1>4. /\ chan'[c].enable = i.enable
      /\ \A d \in Channels \ {c} : chan'[d].enable = chan[d].enable
  BY <1>3 DEF WriteChannel, ShapeInv, TypeOK
<1>5. job' = [job EXCEPT ![w] = j]
  BY DEF WriteChannel, GoTo
<1>6. /\ j.cmd = i.cmd /\ j.rl = i.rl /\ j.base = i.base /\ j.len = i.len /\ j.tsg = i.tsg
      /\ j.pos = i.pos /\ j.todo = Tail(i.todo) /\ j.enable = i.enable
      /\ j.asked = i.asked /\ j.rivals = i.rivals /\ j.pc = "walk"
  BY <1>1 DEF Jobs
<1> HIDE DEF j
<1>7. job'[w] = j
  BY <1>5 DEF ShapeInv, TypeOK
<1>8. <<c, i.enable>> \in i.asked
  BY <1>1, <1>2 DEF LoopInv, Announced
<1>9. LoopInv(job[w])'
  <2>0. /\ scenario' = scenario /\ job'[w].cmd = i.cmd /\ job'[w].rl = i.rl
        /\ job'[w].base = i.base /\ job'[w].len = i.len /\ job'[w].tsg = i.tsg
        /\ job'[w].pos = i.pos /\ job'[w].asked = i.asked /\ job'[w].rivals = i.rivals
        /\ job'[w].todo = Tail(i.todo) /\ job'[w].enable = i.enable
    BY <1>1, <1>6, <1>7
  <2>1. \A k : TsgDue(job[w], k)' = TsgDue(i, k) /\ Submitted(job[w])' = Submitted(i)
    BY <2>0 DEF TsgDue, Submitted, Channel, Ampere
  <2>2. Placed(job[w])'
    BY <1>1, <2>0, <2>1 DEF LoopInv, Placed
  <2>3. Announced(job[w])'
    <3>1. \A n \in 1 .. Len(Tail(i.todo)) : <<Channel(i.rl, Tail(i.todo)[n]), i.enable>> \in i.asked
      BY <1>1, <1>2 DEF LoopInv, Announced
    <3> HIDE DEF i
    <3> QED BY <2>0, <3>1 DEF Announced, Channel, Ampere
  <2>4. Allowed(job[w])'
    BY <1>1, <2>0 DEF LoopInv, Allowed, Channels
  <2>5. ASSUME NEW d, d # c, Awaits(i, d) PROVE Awaits(job[w], d)'
    <3>1. CASE \E n \in 1 .. Len(i.todo) : d = Channel(i.rl, i.todo[n])
      <4>1. \E n \in 1 .. Len(Tail(i.todo)) : d = Channel(i.rl, Tail(i.todo)[n])
        BY <1>2, <2>5, <3>1
      <4> HIDE DEF i
      <4> QED BY <2>0, <4>1 DEF Awaits, Channel, Ampere
    <3>2. CASE ~\E n \in 1 .. Len(i.todo) : d = Channel(i.rl, i.todo[n])
      <4>1. /\ i.cmd.op = "switch_to_tsg"
            /\ \E k \in Submitted(i) :
                 /\ i.tsg <= k
                 /\ \E n \in 1 .. Len(scenario.memory[i.base][k].chans) :
                      d = Channel(i.rl, scenario.memory[i.base][k].chans[n])
        BY <2>5, <3>2 DEF Awaits
      <4>2. Submitted(job[w])' = Submitted(i)
        BY <2>0 DEF Submitted
      <4> HIDE DEF i
      <4> QED BY <2>0, <4>1, <4>2 DEF Awaits, Channel, Ampere
    <3> QED BY <3>1, <3>2
  <2>6. Done(job[w])'
    <3>1. ASSUME NEW d \in Channels, NEW v \in BOOLEAN, <<d, v>> \in i.asked
          PROVE  Awaits(job[w], d)' \/ <<d, chan'[d].enable>> \in i.asked \cup i.rivals
      <4>1. CASE d = c
        BY <1>4, <1>8, <4>1
      <4>2. CASE d # c
        BY <1>1, <1>4, <2>5, <3>1, <4>2 DEF LoopInv, Done
      <4> QED BY <4>1, <4>2
    <3> QED BY <2>0, <3>1 DEF Done, Channels
  <2> QED BY <2>2, <2>3, <2>4, <2>6 DEF LoopInv
<1>10. \A d \in Channels : \/ chan'[d].enable = chan[d].enable
                           \/ <<d, chan'[d].enable>> \in job[w].asked
  BY <1>4, <1>8
<1> HIDE DEF c
<1> QED BY <1>1, <1>5, <1>6, <1>9, <1>10, InsideStep

\* A call returns: what its channels may be is narrowed to what it and its
\* rivals announced, and that is what they are.
LEMMA ReturnStep ==
  ASSUME ShapeInv, ClaimInv, NEW w \in Writers, Return(w)
  PROVE  ClaimInv'
<1> DEFINE i == job[w]
           Latest(c) == {v \in BOOLEAN : <<c, v>> \in i.asked}
           Later(c)  == {v \in BOOLEAN : <<c, v>> \in i.rivals}
<1>1. /\ i \in Jobs /\ Walking(w) /\ LoopInv(i) /\ i.pc = "walk" /\ i.todo = << >> /\ ~MoreTsgs(i)
      /\ UNCHANGED <<scenario, chan>> /\ Finish(w)
      /\ may' = [c \in Channels |-> IF Latest(c) = {} THEN may[c] ELSE Latest(c) \cup Later(c)]
  BY DEF Return, ShapeInv, TypeOK, Walking, ClaimInv, hw
<1>2. \A c : ~Awaits(i, c)
  BY <1>1, LoopDone DEF LoopInv
<1>3. job'[w] = NewJob(NoCommand) /\ \A x \in Writers \ {w} : job'[x] = job[x]
  BY <1>1, FinishPlace DEF Finish, ShapeInv, TypeOK
<1>4. Fresh(job[w])' /\ ~Walking(w)'
  BY <1>3 DEF Fresh, Walking, NewJob
<1>5. NothingStale'
  <2>1. ASSUME NEW c \in Channels PROVE chan[c].enable \in may'[c]
    <3>1. CASE Latest(c) = {}
      BY <1>1, <3>1 DEF ClaimInv, NothingStale
    <3>2. CASE Latest(c) # {}
      <4>1. <<c, chan[c].enable>> \in i.asked \cup i.rivals
        BY <1>1, <1>2, <3>2 DEF LoopInv, Done
      <4>2. chan[c].enable \in BOOLEAN
        BY DEF ShapeInv, TypeOK
      <4>3. chan[c].enable \in Latest(c) \cup Later(c)
        BY <4>1, <4>2
      <4> HIDE DEF Latest, Later
      <4> QED BY <1>1, <3>2, <4>3
    <3> QED BY <3>1, <3>2
  <2> QED BY <1>1, <2>1 DEF NothingStale, Channels
<1>6. \A x \in Writers \ {w} : Kept(x)
  BY <1>3 DEF Kept, Alike, Walking
<1>7. \A x \in Writers \ {w} : Walking(x) =>
        \A c \in Channels, v \in BOOLEAN : <<c, v>> \in job[x].asked => v \in may'[c]
  <2> SUFFICES ASSUME NEW x \in Writers \ {w}, Walking(x), NEW c \in Channels, NEW v \in BOOLEAN,
                      <<c, v>> \in job[x].asked
               PROVE  v \in may'[c]
    OBVIOUS
  <2>1. <<c, v>> \in i.rivals /\ v \in may[c]
    BY <1>1 DEF ClaimInv, LoopInv, Allowed
  <2>2. v \in Later(c)
    BY <2>1
  <2> HIDE DEF Latest, Later
  <2> QED BY <1>1, <2>1, <2>2
<1>8. \A x \in Writers \ {w} : IF Walking(x)' THEN LoopInv(job[x])' ELSE Fresh(job[x])'
  BY <1>1, <1>6, <1>7, OthersKept
<1>9. \A v, x \in Writers : v # x /\ Walking(v)' /\ Walking(x)' => job'[x].asked \subseteq job'[v].rivals
  BY <1>3, <1>4 DEF ClaimInv, Walking
<1> QED BY <1>4, <1>5, <1>8, <1>9 DEF ClaimInv

\* The steps outside the loop.
LEMMA OutsideSteps ==
  ASSUME ShapeInv, ClaimInv, NEW w \in Writers, NEW c \in Commands \cup {NoCommand},
         \/ SwitchToTsg(w, c) \/ PreemptTsg(w, c) \/ PreemptRunlist(w, c) \/ ResubmitRunlist(w, c)
         \/ ReadBase(w) \/ ReadFails(w) \/ ReadSubmit(w) \/ PreemptBeforeSubmit(w) \/ Submit(w)
  PROVE  ClaimInv'
<1>1. UNCHANGED <<scenario, chan, may>>
  BY DEF SwitchToTsg, PreemptTsg, PreemptRunlist, ResubmitRunlist, ReadBase, ReadFails,
         ReadSubmit, PreemptBeforeSubmit, Submit, hw
<1>2. ASSUME Finish(w) PROVE ClaimInv'
  <2>1. Fresh(NewJob(NoCommand)) /\ NewJob(NoCommand).pc = "idle"
    BY DEF Fresh, NewJob
  <2> QED BY <1>1, <1>2, <2>1, OutsideStep DEF Finish
<1>3. ASSUME NEW r, NEW p \in {"base", "len"},
             job' = [job EXCEPT ![w] = [[NewJob(c) EXCEPT !.rl = r] EXCEPT !.pc = p]]
      PROVE  ClaimInv'
  <2> DEFINE j == [[NewJob(c) EXCEPT !.rl = r] EXCEPT !.pc = p]
  <2>1. Fresh(j) /\ j.pc = p
    BY <1>3 DEF Fresh, NewJob
  <2>2. job' = [job EXCEPT ![w] = j]
    BY <1>3
  <2> HIDE DEF j
  <2> QED BY <1>1, <1>3, <2>1, <2>2, OutsideStep
<1>4. ASSUME job[w].pc \notin {"walk", "have"}, NEW j \in Jobs, j.pc \notin {"walk", "have", "config"},
             j.asked = job[w].asked, j.rivals = job[w].rivals, j.tsg = job[w].tsg,
             j.pos = job[w].pos, job' = [job EXCEPT ![w] = j]
      PROVE  ClaimInv'
  <2>1. Fresh(j)
    BY <1>4 DEF ClaimInv, Walking, Fresh
  <2> QED BY <1>1, <1>4, <2>1, OutsideStep
<1>5. CASE SwitchToTsg(w, c)
  <2>1. CASE GoTo(w, NewJob(c), "base")
    <3>1. Fresh([NewJob(c) EXCEPT !.pc = "base"]) /\ [NewJob(c) EXCEPT !.pc = "base"].pc = "base"
      BY DEF Fresh, NewJob
    <3> QED BY <1>1, <2>1, <3>1, OutsideStep DEF GoTo
  <2> QED BY <1>2, <1>5, <2>1 DEF SwitchToTsg
<1>6. CASE ResubmitRunlist(w, c)
  BY <1>2, <1>3, <1>6 DEF ResubmitRunlist, GoTo
<1>7. job[w] \in Jobs
  BY DEF ShapeInv, TypeOK
<1>8. CASE ReadBase(w)
  <2> DEFINE j == [[job[w] EXCEPT !.base = list[job[w].rl].base] EXCEPT !.pc = "len"]
  <2>1. list[job[w].rl].base \in DOMAIN scenario.memory
    BY <1>7 DEF ShapeInv, TypeOK, Submissions, Jobs
  <2>2. /\ j \in Jobs /\ j.pc = "len" /\ j.asked = job[w].asked /\ j.rivals = job[w].rivals
        /\ j.tsg = job[w].tsg /\ j.pos = job[w].pos
    BY <1>7, <2>1 DEF Jobs
  <2>3. job' = [job EXCEPT ![w] = j] /\ job[w].pc = "base"
    BY <1>8 DEF ReadBase, GoTo
  <2> HIDE DEF j
  <2> QED BY <1>4, <2>2, <2>3
<1>9. CASE ReadSubmit(w)
  <2> DEFINE p == IF scenario.chip = "gf100" THEN "submit" ELSE "preempt"
             now == list[job[w].rl]
             j == [[job[w] EXCEPT !.len = now.len, !.offset = now.offset] EXCEPT !.pc = p]
  <2>1. now.len \in Nat /\ now.offset \in Nat /\ p \in {"submit", "preempt"}
    BY <1>7 DEF ShapeInv, TypeOK, Submissions, Jobs
  <2>2. job' = [job EXCEPT ![w] = j] /\ job[w].pc = "len"
    BY <1>9 DEF ReadSubmit, GoTo
  <2> HIDE DEF p
  <2>3. /\ j \in Jobs /\ j.pc = p /\ j.asked = job[w].asked /\ j.rivals = job[w].rivals
        /\ j.tsg = job[w].tsg /\ j.pos = job[w].pos
    BY <1>7, <2>1 DEF Jobs
  <2> HIDE DEF j
  <2> QED BY <1>4, <2>1, <2>2, <2>3
<1>10. CASE PreemptBeforeSubmit(w)
  <2> DEFINE j == [job[w] EXCEPT !.pc = "submit"]
  <2>1. /\ j \in Jobs /\ j.pc = "submit" /\ j.asked = job[w].asked /\ j.rivals = job[w].rivals
        /\ j.tsg = job[w].tsg /\ j.pos = job[w].pos
    BY <1>7 DEF Jobs
  <2>2. job' = [job EXCEPT ![w] = j] /\ job[w].pc = "preempt"
    BY <1>10 DEF PreemptBeforeSubmit, GoTo
  <2> HIDE DEF j
  <2> QED BY <1>4, <2>1, <2>2
<1> QED BY <1>2, <1>5, <1>6, <1>8, <1>9, <1>10 DEF PreemptTsg, PreemptRunlist, ReadFails, Submit

\* The steps that may lead into the loop.
LEMMA EnterSteps ==
  ASSUME ShapeInv, ClaimInv, NEW w \in Writers, NEW c \in Commands \cup {NoCommand},
         SetChannel(w, c) \/ ReadLen(w) \/ ReadConfig(w)
  PROVE  ClaimInv'
<1>1. /\ job[w] \in Jobs /\ Shape(job[w]) /\ NewJob(c) \in Jobs /\ UNCHANGED <<scenario, chan>>
      /\ Fresh(NewJob(NoCommand)) /\ NewJob(NoCommand).pc = "idle"
  BY NewJobTyped DEF ShapeInv, TypeOK, SetChannel, ReadLen, ReadConfig, hw, Fresh, NewJob
<1>2. ASSUME Finish(w), may' = may PROVE ClaimInv'
  BY <1>1, <1>2, OutsideStep DEF Finish
<1>3. CASE SetChannel(w, c)
  <2> DEFINE j == [NewJob(c) EXCEPT !.todo = <<c.n>>, !.enable = c.op = "enable_channel"]
  <2>0. c.op \in {"enable_channel", "disable_channel"} /\ c.n \in Nat
    BY <1>1, <1>3 DEF SetChannel, Begin, Commands, NoCommand
  <2>1. /\ j \in Jobs /\ j.cmd = c /\ j.todo = <<c.n>> /\ j.enable = (c.op = "enable_channel")
        /\ j.asked = {} /\ j.rivals = {} /\ j.tsg = 1 /\ j.pos = 0
    <3>1. j \in Jobs
      BY SetChannelTyped
    <3> QED BY <3>1 DEF NewJob
  <2>2. \/ c.n <= MAX_CHID /\ StartWalk(w, j)
        \/ Finish(w) /\ may' = may
        \/ GoTo(w, j, "config") /\ may' = may
    BY <1>3 DEF SetChannel
  <2> HIDE DEF j
  <2>3. CASE c.n <= MAX_CHID /\ StartWalk(w, j)
    <3>1. c.n \in 0 .. MAX_CHID
      BY <2>0, <2>3, SizesAssumption
    <3> QED BY <1>1, <2>0, <2>1, <2>3, <3>1, EnterLoop
  <2>4. CASE GoTo(w, j, "config") /\ may' = may
    <3>1. Fresh([j EXCEPT !.pc = "config"]) /\ [j EXCEPT !.pc = "config"].pc = "config"
      BY <2>1 DEF Fresh, Jobs
    <3> QED BY <1>1, <2>4, <3>1, OutsideStep DEF GoTo
  <2> QED BY <1>2, <2>2, <2>3, <2>4
<1>4. CASE ReadLen(w)
  <2> DEFINE j == [job[w] EXCEPT !.len = list[job[w].rl].len]
  <2>0. job[w].pc = "len" /\ job[w].cmd.op = "switch_to_tsg" /\ Fresh(job[w])
    BY <1>4 DEF ReadLen, ClaimInv, Walking
  <2>1. list[job[w].rl].len \in Nat
    BY <1>1 DEF ShapeInv, TypeOK, Submissions, Jobs
  <2>2. /\ j \in Jobs /\ j.cmd = job[w].cmd /\ j.base = job[w].base /\ j.todo = job[w].todo
        /\ j.asked = {} /\ j.rivals = {} /\ j.tsg = 1 /\ j.pos = 0
    BY <1>1, <2>0, <2>1 DEF Jobs, Fresh
  <2>3. j.base \in DOMAIN scenario.memory /\ j.todo = << >>
    BY <1>1, <2>0, <2>2 DEF Shape
  <2>4. \/ StartWalk(w, j)
        \/ Ampere /\ GoTo(w, j, "config") /\ UNCHANGED <<may, switching>>
    BY <1>4 DEF ReadLen
  <2> HIDE DEF j
  <2>5. CASE StartWalk(w, j)
    BY <1>1, <2>0, <2>2, <2>3, <2>5, EnterLoop
  <2>6. CASE Ampere /\ GoTo(w, j, "config") /\ UNCHANGED <<may, switching>>
    <3>1. Fresh([j EXCEPT !.pc = "config"]) /\ [j EXCEPT !.pc = "config"].pc = "config"
      BY <2>0, <2>2 DEF Fresh, Jobs
    <3> QED BY <1>1, <2>6, <3>1, OutsideStep DEF GoTo
  <2> QED BY <2>4, <2>5, <2>6
<1>5. CASE ReadConfig(w)
  <2>1. CASE StartWalk(w, job[w]) /\ ~(job[w].cmd.op # "switch_to_tsg" /\ job[w].cmd.n > MAX_CHID)
    <3>1. job[w].cmd.n \in Nat
      BY <1>1 DEF Jobs, Commands, NoCommand
    <3>2. job[w].cmd.op # "switch_to_tsg" => job[w].cmd.n \in 0 .. MAX_CHID
      BY <2>1, <3>1, SizesAssumption
    <3>3. job[w].pc = "config" /\ Fresh(job[w])
      BY <1>5 DEF ReadConfig, ClaimInv, Walking
    <3>4. /\ job[w].cmd.op \in {"switch_to_tsg", "enable_channel", "disable_channel"}
          /\ job[w].cmd.op = "switch_to_tsg" =>
               job[w].base \in DOMAIN scenario.memory /\ job[w].todo = << >>
          /\ job[w].cmd.op # "switch_to_tsg" => job[w].todo = <<job[w].cmd.n>>
      BY <1>1, <3>3 DEF Shape
    <3> QED BY <1>1, <2>1, <3>2, <3>3, <3>4, EnterLoop DEF Fresh
  <2> QED BY <1>2, <1>5, <2>1 DEF ReadConfig, switching
<1> QED BY <1>3, <1>4, <1>5

\* Every step keeps what the calls have announced.
LEMMA ClaimsStep == ShapeInv /\ ClaimInv /\ [Next]_vars => ClaimInv'
<1> SUFFICES ASSUME ShapeInv, ClaimInv, [Next]_vars PROVE ClaimInv'
  OBVIOUS
<1>c. NoCommand \in Commands \cup {NoCommand} /\ scenario.commands \subseteq Commands
  BY ScenariosAssumption DEF ShapeInv, TypeOK
<1>1. ASSUME NEW w \in Writers, NEW c \in scenario.commands,
             \/ SwitchToTsg(w, c) \/ SetChannel(w, c) \/ PreemptTsg(w, c)
             \/ PreemptRunlist(w, c) \/ ResubmitRunlist(w, c)
      PROVE  ClaimInv'
  BY <1>c, <1>1, OutsideSteps, EnterSteps
<1>2. ASSUME NEW w \in Writers, Continue(w) \/ ReadFails(w)
      PROVE  ClaimInv'
  BY <1>c, <1>2, OutsideSteps, EnterSteps, NextStep, ReadStep, WriteStep, ReturnStep DEF Continue
<1>3. ASSUME NEW r \in Runlists, Timeslice(r) \/ DriverSubmit(r)
      PROVE  ClaimInv'
  BY <1>3, DeviceStep DEF Timeslice, DriverSubmit
<1>4. ASSUME NEW c \in scenario.rebinds, DriverBind(c)
      PROVE  ClaimInv'
  <2>1. \A d \in Channels : chan'[d].enable = chan[d].enable
    BY <1>4 DEF DriverBind, ShapeInv, TypeOK
  <2> QED BY <1>4, <2>1, DeviceStep DEF DriverBind
<1>5. CASE UNCHANGED vars
  BY <1>5, DeviceStep DEF vars, hw
<1> QED BY <1>1, <1>2, <1>3, <1>4, <1>5 DEF Next

\* Before the first call nothing is announced.
LEMMA ClaimInit == Init => ClaimInv
<1> SUFFICES ASSUME Init PROVE ClaimInv
  OBVIOUS
<1>1. \A w \in Writers : job[w] = NewJob(NoCommand)
  BY DEF Init
<1>2. \A w \in Writers : ~Walking(w) /\ Fresh(job[w])
  <2>1. Fresh(NewJob(NoCommand)) /\ NewJob(NoCommand).pc = "idle"
    BY DEF Fresh, NewJob
  <2> QED BY <1>1, <2>1 DEF Walking
<1>3. NothingStale
  <2>1. \A c \in Channels : chan[c].enable = TRUE /\ may[c] = {TRUE}
    BY DEF Init
  <2> QED BY <2>1, Zenon DEF NothingStale
<1> QED BY <1>2, <1>3 DEF ClaimInv

\* However the calls of any number of writers interleave with each other and
\* with failing reads, a channel is as the last completed write asked or as a
\* call that overlapped with it or came later did (runlist_procfs.c:549-577).
THEOREM WritesKept == Spec => []NothingStale
<1>1. ClaimInv => NothingStale
  BY DEF ClaimInv
<1> QED BY <1>1, ShapeInit, ClaimInit, ShapeStep, ClaimsStep, PTL DEF Spec

-----------------------------------------------------------------------------
(* The switch and the preemption after it *)

\* While a switch is the last write nobody has announced anything; only its TSG
\* can run, and after a preemption it is what runs.
QuietInv ==
  /\ \A r \in Runlists : only[r] # NoTsg =>
       /\ \A w \in Writers : Walking(w) => job[w].asked = {}
       /\ Runnable(r) \subseteq {only[r]}
  /\ \A r \in settled : only[r] # NoTsg /\ running[r] \in Runnable(r) \cup {Idle}

\* What can run on a runlist depends on the submission and on which channels are
\* enabled.
LEMMA RunnableSame ==
  ASSUME ShapeInv, scenario' = scenario, NEW r \in Runlists, list'[r] = list[r],
         \A c \in Channels : chan'[c].enable = chan[c].enable
  PROVE  Runnable(r)' = Runnable(r)
<1> DEFINE mem == scenario.memory[list[r].base]
<1>1. list[r].base \in DOMAIN scenario.memory /\ scenario \in Scenarios
  BY DEF ShapeInv, TypeOK, Submissions
<1>2. \A k \in Submitted(list[r]) : mem[k].chans \in Seq(0 .. MAX_CHID)
  BY <1>1, MemoryTyped DEF Submitted
<1>3. ASSUME NEW k \in Submitted(list[r]), NEW i \in 1 .. Len(mem[k].chans)
      PROVE  chan'[Channel(r, mem[k].chans[i])].enable = chan[Channel(r, mem[k].chans[i])].enable
  <2> DEFINE s == mem[k].chans
  <2>1. s \in Seq(0 .. MAX_CHID) /\ i \in 1 .. Len(s)
    BY <1>2
  <2>2. s[i] \in 0 .. MAX_CHID
    <3> HIDE DEF s
    <3> QED BY <1>3, <2>1, SizesAssumption
  <2> QED BY <2>2, ChannelTyped
<1>4. Submitted(list[r])' = Submitted(list[r]) /\ mem' = mem
  BY DEF Submitted
<1>5. \A c : Channel(r, c)' = Channel(r, c)
  BY DEF Channel, Ampere
<1> DEFINE On(k) == \E i \in 1 .. Len(mem[k].chans) : chan[Channel(r, mem[k].chans[i])].enable
           K == {k \in Submitted(list[r]) : On(k)}
<1>6. K' = K
  <2>1. \A k \in Submitted(list[r]) : \A i \in 1 .. Len(mem[k].chans) :
          chan'[Channel(r, mem[k].chans[i])].enable = chan[Channel(r, mem[k].chans[i])].enable
    BY <1>3
  <2>2. \A k \in Submitted(list[r]) :
          (\E i \in 1 .. Len(mem[k].chans) : chan'[Channel(r, mem[k].chans[i])].enable)
            <=> \E i \in 1 .. Len(mem[k].chans) : chan[Channel(r, mem[k].chans[i])].enable
    <3> HIDE DEF mem
    <3> QED BY <2>1
  <2>3. \A k \in Submitted(list[r]) : On(k)' <=> On(k)
    <3>1. \A k : On(k)'
            <=> \E i \in 1 .. Len(mem[k].chans) : chan'[Channel(r, mem[k].chans[i])].enable
      BY DEF Channel, Ampere
    <3> QED BY <2>2, <3>1, Zenon
  <2> HIDE DEF mem, On
  <2>4. \A k : k \in K' <=> k \in Submitted(list[r])' /\ On(k)'
    OBVIOUS
  <2>5. \A k : k \in K <=> k \in Submitted(list[r]) /\ On(k)
    OBVIOUS
  <2>6. \A k : k \in K' <=> k \in K
    <3> HIDE DEF K
    <3> QED BY <1>4, <2>3, <2>4, <2>5, Zenon
  <2> QED BY <2>6
<1>7. Runnable(r) = {mem[k].tsg : k \in K}
  BY DEF Runnable
<1>8. Runnable(r)' = {mem[k].tsg : k \in K}'
  BY DEF Runnable
<1> HIDE DEF mem, K
<1> QED BY <1>4, <1>6, <1>7, <1>8

\* The scheduler changes one runlist, to what can run on it.
LEMMA RescheduleStep ==
  ASSUME ShapeInv, NEW r \in Runlists, Reschedule(r)
  PROVE  /\ running'[r] \in Runnable(r) \cup {Idle}
         /\ \A q \in Runlists \ {r} : running'[q] = running[q]
<1>1. PICK t \in IF Runnable(r) = {} THEN {Idle} ELSE Runnable(r) :
        running' = [running EXCEPT ![r] = t]
  BY Zenon DEF Reschedule
<1>2. t \in Runnable(r) \cup {Idle}
  BY <1>1, Zenon
<1> HIDE DEF Runnable
<1> QED BY <1>1, <1>2 DEF ShapeInv, TypeOK

\* A step that announces values ends whatever a switch has reached.
LEMMA QuietEnds ==
  ASSUME only' = [r \in Runlists |-> NoTsg], settled' = {}
  PROVE  QuietInv'
BY DEF QuietInv

\* A step that leaves channels alone, submits nothing new to the runlists still
\* switched, and adds nothing to what is announced.
LEMMA QuietKept ==
  ASSUME ShapeInv, QuietInv, scenario' = scenario,
         \A c \in Channels : chan'[c].enable = chan[c].enable,
         \A w \in Writers : job'[w].pc \in {"walk", "have"} =>
                              Walking(w) /\ job'[w].asked = job[w].asked,
         \A r \in Runlists : only'[r] # NoTsg => only'[r] = only[r] /\ list'[r] = list[r],
         \A r \in settled' : r \in Runlists /\ only'[r] # NoTsg,
         \A r \in settled' : \/ r \in settled /\ running'[r] = running[r]
                             \/ running'[r] \in Runnable(r) \cup {Idle}
  PROVE  QuietInv'
<1>1. \A r \in Runlists : only'[r] # NoTsg => Runnable(r)' = Runnable(r)
  BY RunnableSame
<1>2. \A r \in Runlists : only'[r] # NoTsg =>
        /\ \A w \in Writers : Walking(w)' => job'[w].asked = {}
        /\ Runnable(r)' \subseteq {only'[r]}
  BY <1>1 DEF QuietInv, Walking
<1>3. \A r \in settled' : only'[r] # NoTsg /\ running'[r] \in Runnable(r)' \cup {Idle}
  BY <1>1 DEF QuietInv
<1> QED BY <1>2, <1>3 DEF QuietInv

\* When a switch that no other call overlapped returns, only its TSG can run.
LEMMA SwitchDone ==
  ASSUME ShapeInv, NEW w \in Writers, LoopInv(job[w]), job[w].pc = "walk", job[w].todo = << >>,
         ~MoreTsgs(job[w]), job[w].cmd.op = "switch_to_tsg", job[w].rivals = {},
         list[job[w].rl].base = job[w].base, list[job[w].rl].len = job[w].len
  PROVE  Runnable(job[w].rl) \subseteq {job[w].cmd.n}
<1> DEFINE j == job[w]
           r == j.rl
           mem == scenario.memory[j.base]
<1>1. /\ j \in Jobs /\ r \in Runlists /\ scenario \in Scenarios
      /\ j.base \in DOMAIN scenario.memory
  BY DEF ShapeInv, TypeOK, Shape, Jobs
<1>2. list[r].base = j.base /\ Submitted(list[r]) = Submitted(j)
  BY DEF Submitted
<1>3. Placed(j) /\ Done(j) /\ \A c : ~Awaits(j, c)
  BY LoopDone DEF LoopInv
<1>4. ASSUME NEW k \in Submitted(j), NEW i \in 1 .. Len(mem[k].chans),
             chan[Channel(r, mem[k].chans[i])].enable
      PROVE  mem[k].tsg = j.cmd.n
  <2> DEFINE c == Channel(r, mem[k].chans[i])
  <2>1. k \in 1 .. Len(mem)
    BY DEF Submitted
  <2>2. mem[k].chans \in Seq(0 .. MAX_CHID)
    BY <1>1, <2>1, MemoryTyped
  <2>3. mem[k].chans[i] \in 0 .. MAX_CHID
    BY <1>4, <2>2, ElementOfSeq, Zenon
  <2>4. c \in Channels /\ chan[c].enable = TRUE
    BY <1>1, <1>4, <2>3, ChannelTyped DEF ShapeInv, TypeOK
  <2>5. <<c, mem[k].tsg = j.cmd.n>> \in TsgDue(j, k)
    BY <1>4 DEF TsgDue
  <2>6. <<c, mem[k].tsg = j.cmd.n>> \in j.asked
    BY <1>3, <2>5 DEF Placed
  <2>7. <<c, TRUE>> \in j.asked
    BY <1>3, <2>4, <2>6 DEF Done
  <2>8. PICK q \in 1 .. Len(mem) : <<c, TRUE>> \in TsgDue(j, q)
    BY <1>3, <2>7 DEF Placed
  <2>9. PICK x \in 1 .. Len(mem[q].chans) :
          <<c, TRUE>> = <<Channel(j.rl, mem[q].chans[x]), mem[q].tsg = j.cmd.n>>
    BY <2>8, Zenon DEF TsgDue
  <2>10. mem[q].chans[x] = mem[k].chans[i] /\ mem[q].tsg = j.cmd.n
    BY <2>9 DEF Channel
  <2>11. mem[q].tsg = mem[k].tsg
    BY <1>1, <1>4, <2>1, <2>10, EntryLaid, ZenonT(60)
  <2> QED BY <2>10, <2>11
<1> QED BY <1>2, <1>4 DEF Runnable

\* The return of a call.
LEMMA QuietReturn ==
  ASSUME ShapeInv, ClaimInv, QuietInv, NEW w \in Writers, Return(w)
  PROVE  QuietInv'
<1>1. /\ UNCHANGED <<scenario, chan, list, running, settled>> /\ Finish(w)
      /\ job[w].pc = "walk" /\ job[w].todo = << >> /\ ~MoreTsgs(job[w])
      /\ LoopInv(job[w]) /\ Walking(w)
  BY DEF Return, hw, ClaimInv, Walking
<1>2. job'[w].pc = "idle" /\ \A x \in Writers \ {w} : job'[x] = job[x]
  BY <1>1, FinishPlace DEF Finish, ShapeInv, TypeOK
<1>3. settled \subseteq Runlists /\ only \in [Runlists -> Nat \cup {NoTsg}]
  BY DEF ShapeInv, TypeOK
<1>4. \A x \in Writers : job'[x].pc \in {"walk", "have"} => x # w /\ Walking(x) /\ job'[x].asked = job[x].asked
  BY <1>2 DEF Walking
<1>5. CASE only' = only
  BY <1>1, <1>3, <1>4, <1>5, QuietKept DEF QuietInv
<1>6. CASE only' # only
  <2> DEFINE r == job[w].rl
             n == job[w].cmd.n
  <2>1. /\ job[w].cmd.op = "switch_to_tsg" /\ job[w].rivals = {}
        /\ list[r].base = job[w].base /\ list[r].len = job[w].len
        /\ only' = [only EXCEPT ![r] = n]
    BY <1>6 DEF Return
  <2>2. r \in Runlists /\ n \in Nat /\ n # NoTsg
    <3>1. job[w] \in Jobs
      BY DEF ShapeInv, TypeOK
    <3>2. r \in Runlists /\ n \in Nat
      BY <3>1 DEF Jobs, Commands, NoCommand
    <3> HIDE DEF r, n
    <3> QED BY <3>2, NamesAssumption
  <2>3. Runnable(r) \subseteq {n}
    BY <1>1, <2>1, SwitchDone
  <2>4. only'[r] = n /\ \A q \in Runlists \ {r} : only'[q] = only[q]
    BY <1>3, <2>1, <2>2
  <2>5. \A x \in Writers : job'[x].pc \in {"walk", "have"} => job'[x].asked = {}
    BY <1>1, <1>4, <2>1 DEF ClaimInv
  <2>6. \A q \in Runlists : Runnable(q)' = Runnable(q)
    BY <1>1, RunnableSame
  <2> HIDE DEF r, n
  <2>7. \A q \in Runlists : only'[q] # NoTsg =>
          /\ \A x \in Writers : Walking(x)' => job'[x].asked = {}
          /\ Runnable(q)' \subseteq {only'[q]}
    <3>1. \A q \in Runlists : only'[q] # NoTsg => Runnable(q)' \subseteq {only'[q]}
      BY <2>3, <2>4, <2>6 DEF QuietInv
    <3> QED BY <2>5, <3>1 DEF Walking
  <2>8. \A q \in settled' : only'[q] # NoTsg /\ running'[q] \in Runnable(q)' \cup {Idle}
    BY <1>1, <1>3, <2>2, <2>4, <2>6 DEF QuietInv
  <2> QED BY <2>7, <2>8 DEF QuietInv
<1> QED BY <1>5, <1>6

\* A preemption of one runlist, with or without a switch before it.
LEMMA PreemptRuns ==
  ASSUME ShapeInv, QuietInv, NEW r \in Runlists, Reschedule(r), UNCHANGED only,
         settled' = settled \/ Settle(r)
  PROVE  /\ \A q \in settled' : q \in Runlists /\ only'[q] # NoTsg
         /\ \A q \in settled' : \/ q \in settled /\ running'[q] = running[q]
                                \/ running'[q] \in Runnable(q) \cup {Idle}
<1>1. settled \subseteq Runlists /\ settled' \subseteq settled \cup {r}
  BY DEF Settle, ShapeInv, TypeOK
<1>2. r \in settled' => only[r] # NoTsg
  BY DEF Settle, QuietInv
<1>3. \A q \in settled' : q \in Runlists /\ only'[q] # NoTsg
  BY <1>1, <1>2 DEF QuietInv
<1> QED BY <1>1, <1>3, RescheduleStep

\* A step outside the loop.
LEMMA QuietOutside ==
  ASSUME ShapeInv, QuietInv, NEW w \in Writers, NEW j, job' = [job EXCEPT ![w] = j],
         j.pc \notin {"walk", "have"}, UNCHANGED <<scenario, chan>>,
         \/ UNCHANGED <<list, running, switching>>
         \/ /\ UNCHANGED <<list, only>>
            /\ \E r \in Runlists : Reschedule(r) /\ (settled' = settled \/ Settle(r))
         \/ \E r \in Runlists :
              /\ \A q \in Runlists \ {r} : list'[q] = list[q] /\ only'[q] = only[q]
              /\ only'[r] = NoTsg /\ settled' = settled \ {r} /\ running' = running
  PROVE  QuietInv'
<1>1. \A x \in Writers : job'[x].pc \in {"walk", "have"} => Walking(x) /\ job'[x].asked = job[x].asked
  BY DEF Walking, ShapeInv, TypeOK
<1>2. settled \subseteq Runlists
  BY DEF ShapeInv, TypeOK
<1>3. CASE UNCHANGED <<list, running, switching>>
  <2>1. \A r \in settled' : r \in Runlists /\ only'[r] # NoTsg
    BY <1>2, <1>3 DEF QuietInv, switching
  <2> QED BY <1>1, <1>3, <2>1, QuietKept DEF switching
<1>4. CASE /\ UNCHANGED <<list, only>>
           /\ \E r \in Runlists : Reschedule(r) /\ (settled' = settled \/ Settle(r))
  BY <1>1, <1>4, PreemptRuns, QuietKept
<1>5. CASE \E r \in Runlists :
             /\ \A q \in Runlists \ {r} : list'[q] = list[q] /\ only'[q] = only[q]
             /\ only'[r] = NoTsg /\ settled' = settled \ {r} /\ running' = running
  BY <1>1, <1>2, <1>5, QuietKept DEF QuietInv
<1> QED BY <1>3, <1>4, <1>5

\* The steps that may announce values.
LEMMA QuietClaims ==
  ASSUME ShapeInv, QuietInv, NEW w \in Writers, NEW c \in Commands \cup {NoCommand},
         SetChannel(w, c) \/ ReadLen(w) \/ ReadConfig(w) \/ NextTsg(w)
  PROVE  QuietInv'
<1>0. UNCHANGED <<scenario, chan, list, running>> /\ job[w] \in Jobs /\ NewJob(c) \in Jobs
  BY NewJobTyped DEF SetChannel, ReadLen, ReadConfig, NextTsg, hw, ShapeInv, TypeOK
<1>1. ASSUME NEW j, StartWalk(w, j) PROVE QuietInv'
  BY <1>1, QuietEnds DEF StartWalk, Claim
<1>2. ASSUME Finish(w), UNCHANGED switching PROVE QuietInv'
  <2>1. NewJob(NoCommand).pc = "idle"
    BY DEF NewJob
  <2> QED BY <1>0, <1>2, <2>1, QuietOutside DEF Finish
<1>3. ASSUME NEW j \in Jobs, GoTo(w, j, "config"), UNCHANGED switching PROVE QuietInv'
  <2>1. [j EXCEPT !.pc = "config"].pc = "config"
    BY DEF Jobs
  <2> QED BY <1>0, <1>3, <2>1, QuietOutside DEF GoTo
<1>4. CASE SetChannel(w, c)
  <2> DEFINE j == [NewJob(c) EXCEPT !.todo = <<c.n>>, !.enable = c.op = "enable_channel"]
  <2>1. \/ StartWalk(w, j)
        \/ Finish(w) /\ UNCHANGED <<may, switching>>
        \/ GoTo(w, j, "config") /\ UNCHANGED <<may, switching>>
    BY <1>4 DEF SetChannel
  <2>2. j \in Jobs
    BY SetChannelTyped
  <2> HIDE DEF j
  <2> QED BY <1>1, <1>2, <1>3, <2>1, <2>2
<1>5. CASE ReadLen(w)
  <2> DEFINE j == [job[w] EXCEPT !.len = list[job[w].rl].len]
  <2>1. \/ StartWalk(w, j)
        \/ Ampere /\ GoTo(w, j, "config") /\ UNCHANGED <<may, switching>>
    BY <1>5 DEF ReadLen
  <2>2. list[job[w].rl].len \in Nat
    BY <1>0 DEF ShapeInv, TypeOK, Submissions, Jobs
  <2>3. j \in Jobs
    BY <1>0, <2>2 DEF Jobs
  <2> HIDE DEF j
  <2> QED BY <1>1, <1>3, <2>1, <2>3
<1>6. CASE ReadConfig(w)
  BY <1>1, <1>2, <1>6 DEF ReadConfig
<1>7. CASE NextTsg(w)
  BY <1>7, QuietEnds DEF NextTsg, Claim
<1> QED BY <1>4, <1>5, <1>6, <1>7

\* The accesses to a channel inside the loop: there is nothing to write while a
\* switch is the last write.
LEMMA QuietInside ==
  ASSUME ShapeInv, ClaimInv, QuietInv, NEW w \in Writers, ReadChannel(w) \/ WriteChannel(w)
  PROVE  QuietInv'
<1>1. /\ Walking(w) /\ LoopInv(job[w]) /\ job[w].todo # << >> /\ job[w].todo \in Seq(0 .. MAX_CHID)
      /\ UNCHANGED switching
  BY DEF ReadChannel, WriteChannel, Walking, ClaimInv, ShapeInv, Shape
<1>2. job[w].asked # {}
  <2>1. 1 \in 1 .. Len(job[w].todo)
    BY <1>1
  <2> QED BY <1>1, <2>1 DEF LoopInv, Announced
<1>3. (\A r \in Runlists : only[r] = NoTsg) /\ settled \subseteq Runlists
  BY <1>1, <1>2 DEF QuietInv, ShapeInv, TypeOK
<1>4. settled = {}
  BY <1>3 DEF QuietInv
<1> QED BY <1>1, <1>3, <1>4 DEF QuietInv, switching

\* Every step keeps the runlists switched.
LEMMA QuietStep == ShapeInv /\ ClaimInv /\ QuietInv /\ [Next]_vars => QuietInv'
<1> SUFFICES ASSUME ShapeInv, ClaimInv, QuietInv, [Next]_vars PROVE QuietInv'
  OBVIOUS
<1>c. NoCommand \in Commands \cup {NoCommand} /\ scenario.commands \subseteq Commands
  BY ScenariosAssumption DEF ShapeInv, TypeOK
<1>f. NewJob(NoCommand).pc = "idle"
  BY DEF NewJob
<1>1. ASSUME NEW w \in Writers, NEW c \in scenario.commands,
             SwitchToTsg(w, c) \/ ResubmitRunlist(w, c)
      PROVE  QuietInv'
  <2>1. PICK j : job' = [job EXCEPT ![w] = j] /\ j.pc \notin {"walk", "have"}
    <3>1. "pc" \in DOMAIN NewJob(c) /\ "pc" \in DOMAIN [NewJob(c) EXCEPT !.rl = scenario.gpu]
      BY DEF NewJob
    <3>2. \A p \in {"base", "len"} :
            /\ [NewJob(c) EXCEPT !.pc = p].pc = p
            /\ [[NewJob(c) EXCEPT !.rl = scenario.gpu] EXCEPT !.pc = p].pc = p
      BY <3>1
    <3> QED BY <1>1, <1>f, <3>2 DEF SwitchToTsg, ResubmitRunlist, GoTo, Finish
  <2> QED BY <1>1, <2>1, QuietOutside DEF SwitchToTsg, ResubmitRunlist, hw
<1>2. ASSUME NEW w \in Writers, NEW c \in scenario.commands, PreemptTsg(w, c)
      PROVE  QuietInv'
  <2>1. \/ UNCHANGED <<list, running, switching>>
        \/ /\ UNCHANGED <<list, only>>
           /\ \E r \in Runlists : Reschedule(r) /\ settled' = settled
    BY <1>2, Zenon DEF PreemptTsg, Preempted, switching
  <2> QED BY <1>2, <1>f, <2>1, QuietOutside DEF PreemptTsg, Finish
<1>3. ASSUME NEW w \in Writers, NEW c \in scenario.commands, PreemptRunlist(w, c)
      PROVE  QuietInv'
  <2>1. \/ UNCHANGED <<list, running, switching>>
        \/ /\ UNCHANGED <<list, only>>
           /\ \E r \in Runlists : Reschedule(r) /\ Settle(r)
    BY <1>3, Zenon DEF PreemptRunlist, switching
  <2> QED BY <1>3, <1>f, <2>1, QuietOutside DEF PreemptRunlist, Finish
<1>4. ASSUME NEW w \in Writers, ReadBase(w) \/ ReadSubmit(w) \/ ReadFails(w)
      PROVE  QuietInv'
  <2>1. PICK j : job' = [job EXCEPT ![w] = j] /\ j.pc \notin {"walk", "have"}
    <3>1. job[w] \in Jobs
      BY DEF ShapeInv, TypeOK
    <3>2. ASSUME NEW b, NEW p PROVE [[job[w] EXCEPT !.base = b] EXCEPT !.pc = p].pc = p
      BY <3>1 DEF Jobs
    <3>3. ASSUME NEW n, NEW o, NEW p
          PROVE  [[job[w] EXCEPT !.len = n, !.offset = o] EXCEPT !.pc = p].pc = p
      BY <3>1 DEF Jobs
    <3>4. CASE ReadBase(w)
      <4> DEFINE j == [[job[w] EXCEPT !.base = list[job[w].rl].base] EXCEPT !.pc = "len"]
      <4>1. job' = [job EXCEPT ![w] = j]
        BY <3>4 DEF ReadBase, GoTo
      <4>2. j.pc = "len"
        BY <3>2
      <4> HIDE DEF j
      <4> QED BY <4>1, <4>2
    <3>5. CASE ReadSubmit(w)
      <4> DEFINE p == IF scenario.chip = "gf100" THEN "submit" ELSE "preempt"
                 now == list[job[w].rl]
             j == [[job[w] EXCEPT !.len = now.len, !.offset = now.offset] EXCEPT !.pc = p]
      <4>1. job' = [job EXCEPT ![w] = j]
        BY <3>5 DEF ReadSubmit, GoTo
      <4>2. j.pc = p
        BY <3>3
      <4> HIDE DEF j
      <4> QED BY <4>1, <4>2
    <3>6. CASE ReadFails(w)
      BY <1>f, <3>6 DEF ReadFails, Finish
    <3> QED BY <1>4, <3>4, <3>5, <3>6
  <2> QED BY <1>4, <2>1, QuietOutside DEF ReadBase, ReadSubmit, ReadFails, hw
<1>5. ASSUME NEW w \in Writers, PreemptBeforeSubmit(w)
      PROVE  QuietInv'
  <2>1. job[w] \in Jobs /\ job[w].rl \in Runlists /\ [job[w] EXCEPT !.pc = "submit"].pc = "submit"
    BY DEF ShapeInv, TypeOK, Jobs
  <2> QED BY <1>5, <2>1, QuietOutside DEF PreemptBeforeSubmit, GoTo
<1>6. ASSUME NEW w \in Writers, Submit(w)
      PROVE  QuietInv'
  <2>1. job[w].rl \in Runlists /\ list \in [Runlists -> Submissions] /\ only \in [Runlists -> Nat \cup {NoTsg}]
    BY DEF ShapeInv, TypeOK, Jobs
  <2>2. /\ \A q \in Runlists \ {job[w].rl} : list'[q] = list[q] /\ only'[q] = only[q]
        /\ only'[job[w].rl] = NoTsg /\ settled' = settled \ {job[w].rl} /\ running' = running
    BY <1>6, <2>1 DEF Submit
  <2> QED BY <1>6, <1>f, <2>1, <2>2, QuietOutside DEF Submit, Finish
<1>7. ASSUME NEW r \in Runlists, Timeslice(r)
      PROVE  QuietInv'
  BY <1>7, PreemptRuns, QuietKept DEF Timeslice, Walking, switching
<1>8. ASSUME NEW r \in Runlists, DriverSubmit(r)
      PROVE  QuietInv'
  <2>1. list \in [Runlists -> Submissions] /\ only \in [Runlists -> Nat \cup {NoTsg}] /\ settled \subseteq Runlists
    BY DEF ShapeInv, TypeOK
  <2>2. /\ \A q \in Runlists \ {r} : list'[q] = list[q] /\ only'[q] = only[q]
        /\ only'[r] = NoTsg /\ settled' = settled \ {r}
        /\ UNCHANGED <<scenario, chan, running, job>>
    BY <1>8, <2>1 DEF DriverSubmit
  <2> QED BY <2>1, <2>2, QuietKept DEF QuietInv, Walking
<1>9. ASSUME NEW c \in scenario.rebinds, DriverBind(c)
      PROVE  QuietInv'
  <2>1. \A d \in Channels : chan'[d].enable = chan[d].enable
    BY <1>9 DEF DriverBind, ShapeInv, TypeOK
  <2>2. settled \subseteq Runlists
    BY DEF ShapeInv, TypeOK
  <2> QED BY <1>9, <2>1, <2>2, QuietKept DEF DriverBind, QuietInv, Walking, switching
<1>10. CASE UNCHANGED vars
  <2>1. settled \subseteq Runlists
    BY DEF ShapeInv, TypeOK
  <2> QED BY <1>10, <2>1, QuietKept DEF vars, hw, switching, QuietInv, Walking
<1>11. ASSUME NEW w \in Writers, NEW c \in scenario.commands, SetChannel(w, c)
       PROVE  QuietInv'
  BY <1>c, <1>11, QuietClaims
<1>12. ASSUME NEW w \in Writers, Continue(w)
       PROVE  QuietInv'
  BY <1>c, <1>4, <1>5, <1>6, <1>12, QuietClaims, QuietInside, QuietReturn DEF Continue
<1> QED BY <1>1, <1>2, <1>3, <1>4, <1>7, <1>8, <1>9, <1>10, <1>11, <1>12 DEF Next

\* Once a switch that no other call overlapped is over and the runlist has been
\* preempted, the runlist executes the TSG of the switch or nothing, whatever
\* the scheduler picks, until the next write or submission; however many TSGs and
\* channels there are (runlist_procfs.c:582-595).
THEOREM SwitchTakesHold == Spec => []SwitchThenPreempt
<1>1. Init => ClaimInv /\ QuietInv
  BY ClaimInit DEF Init, QuietInv
<1>2. ShapeInv /\ QuietInv => SwitchThenPreempt
  BY DEF QuietInv, SwitchThenPreempt, ShapeInv, TypeOK
<1> QED BY <1>1, <1>2, ShapeInit, ShapeStep, ClaimsStep, QuietStep, PTL DEF Spec
=============================================================================
