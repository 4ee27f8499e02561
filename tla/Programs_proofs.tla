-------------------------- MODULE Programs_proofs --------------------------
(***************************************************************************)
(* What is proved of the two modules that run programs of calls, Startup   *)
(* and Plugin.  Of the start of the examiner, for any configuration files  *)
(* and any number of cores, however long the measurement takes:            *)
(*   TimingSound       of the measurement by itself (module TimeSync);     *)
(*   EstimateSound     the same in the whole start;                        *)
(*   StartConfigures   the limits and the cores that the tasks are given.  *)
(* Of an instance of a plug-in, for any lists of actions and any sizes:    *)
(*   BalancedListsRun  no malloc or free action of a balanced list fails   *)
(*                     for want of room or of an allocation.               *)
(* The last two rest on the calls that the code makes for a file or a      *)
(* list.  Lemmas about sequences of calls say what a program that was run  *)
(* to its end has tested (up to MainShape), and how a function of the      *)
(* plug-in moves the length of a stack (up to FunctionsWalk).              *)
(***************************************************************************)
EXTENDS Startup, Plugin, FiniteSetTheorems, SequenceTheorems, TLAPS

-----------------------------------------------------------------------------
(* The invariant behind the theorems. *)

TimeTypeOK ==
  /\ cpu \in {"none", "fork", "warm_launch", "warm_start", "warm_sync", "reset", "launch",
              "await_ready", "start", "await_end", "copy", "exited", "killed"}
  /\ gpu \in {"idle", "failed", "launched", "spinning", "stamped"}
  /\ raised \subseteq Flags
  /\ now \in Nat /\ cpu_start \in Nat /\ cpu_end \in Nat
  /\ device_time \in Nat /\ cpu_time \in Nat /\ gpu_time \in Nat

\* The child waits for its warm-up kernel before it takes the flags down, so
\* that no kernel runs when the second is launched; and none runs when the time
\* is copied.
KernelGone ==
  cpu \in {"none", "fork", "warm_launch", "reset", "launch", "copy"} => gpu \in {"idle", "failed"}

\* Until the child has read its clock the second kernel is held back: nothing
\* that the first left behind, and nothing in memory that was not initialized,
\* lets it go.
HeldBack ==
  /\ cpu = "launch" => raised = {}
  /\ cpu \in {"await_ready", "start"} =>
       /\ raised \cap {"start", "end"} = {}
       /\ gpu \in {"launched", "spinning", "failed"}
  /\ cpu = "start" => cpu_start <= now

\* From then on a time the kernel has stored is the second kernel's, read no
\* earlier than the child's, and the kernel is over when the child sees the end.
Stored == cpu_start <= device_time /\ device_time <= now
LetGo ==
  cpu = "await_end" =>
    /\ cpu_start <= now
    /\ gpu = "stamped" \/ "end" \in raised => Stored
    /\ "end" \in raised => gpu = "idle"

\* Only an estimate made of both readings is handed to the parent.
HandedOver ==
  /\ cpu = "copy" =>
       /\ cpu_start <= device_time /\ device_time <= cpu_end
       /\ cpu_time = cpu_start + cpu_end
  /\ gpu_time # 0 =>
       /\ cpu = "exited"
       /\ cpu_start <= gpu_time /\ gpu_time <= cpu_end
       /\ cpu_time = cpu_start + cpu_end

TimeInv == TimeTypeOK /\ KernelGone /\ HeldBack /\ LetGo /\ HandedOver

-----------------------------------------------------------------------------
(* The measurement. *)

\* The invariant holds before the measurement.
LEMMA TimeInitInv == TimeInit => TimeInv
  BY DEF TimeInit, TimeInv, TimeTypeOK, KernelGone, HeldBack, LetGo, HandedOver, Flags

\* Every step of the child, the kernels and the clock keeps it.
LEMMA TimeStepInv == TimeInv /\ [TimeNext]_timeVars => TimeInv'
<1> SUFFICES ASSUME TimeInv, [TimeNext]_timeVars PROVE TimeInv'
  OBVIOUS
<1> USE DEF TimeInv, TimeTypeOK, KernelGone, HeldBack, LetGo, Stored, HandedOver, Flags, stamps
<1>1. CASE UNCHANGED timeVars
  BY <1>1 DEF timeVars
<1>2. CASE ForkTiming
  BY <1>2 DEF ForkTiming
<1>3. CASE ChildStep
  <2>1. CASE SetUpTiming
    BY <2>1 DEF SetUpTiming
  <2>2. CASE Launch
    <3>1. TimeTypeOK' /\ KernelGone'
      BY <2>2 DEF Launch
    <3>2. HeldBack'
      BY <2>2 DEF Launch
    <3>3. LetGo' /\ HandedOver'
      BY <2>2 DEF Launch
    <3> QED  BY <3>1, <3>2, <3>3
  <2>3. CASE RaiseStart
    <3>1. CASE cpu = "start"
      BY <2>3, <3>1 DEF RaiseStart
    <3>2. CASE cpu = "warm_start"
      BY <2>3, <3>2 DEF RaiseStart
    <3> QED  BY <2>3, <3>1, <3>2 DEF RaiseStart
  <2>4. CASE WarmUpDone
    BY <2>4 DEF WarmUpDone
  <2>5. CASE ResetFlags
    BY <2>5 DEF ResetFlags
  <2>6. CASE SeeReady
    BY <2>6 DEF SeeReady
  <2>7. CASE SeeEnd
    BY <2>7 DEF SeeEnd
  <2>8. CASE CopyTime
    BY <2>8 DEF CopyTime
  <2> QED  BY <1>3, <2>1, <2>2, <2>3, <2>4, <2>5, <2>6, <2>7, <2>8 DEF ChildStep
<1>4. CASE KernelStep
  <2>1. CASE KernelReady
    BY <2>1 DEF KernelReady
  <2>2. CASE KernelStamp
    BY <2>2 DEF KernelStamp
  <2>3. CASE KernelEnd
    BY <2>3 DEF KernelEnd
  <2> QED  BY <1>4, <2>1, <2>2, <2>3 DEF KernelStep
<1>5. CASE TimingFails
  BY <1>5 DEF TimingFails
<1>6. CASE TimingKilled
  BY <1>6 DEF TimingKilled
<1>7. CASE Tick
  BY <1>7 DEF Tick
<1>8. CASE LaunchFails
  <2>1. TimeTypeOK' /\ KernelGone'
    BY <1>8 DEF LaunchFails
  <2>2. HeldBack' /\ LetGo' /\ HandedOver'
    BY <1>8 DEF LaunchFails
  <2> QED  BY <2>1, <2>2
<1> QED  BY <1>1, <1>2, <1>3, <1>4, <1>5, <1>6, <1>7, <1>8 DEF TimeNext, MeasureStep

\* It gives the property.
LEMMA TimeInvBrackets == TimeInv => ClockBracketed
<1> SUFFICES ASSUME TimeInv, gpu_time # 0
             PROVE  /\ cpu_start <= gpu_time /\ gpu_time <= cpu_end
                    /\ 2 * gpu_time - cpu_time \in -(cpu_end - cpu_start)..(cpu_end - cpu_start)
  BY DEF ClockBracketed
<1> QED  BY DEF TimeInv, TimeTypeOK, HandedOver

\* The measurement by itself: the GPU's time was read between the child's two
\* readings, whatever the flags held at first and however the child and the
\* two kernels interleave (task_host_utilities.cu:153).
THEOREM TimingSound == TimeSpec => []ClockBracketed
<1> QED  BY TimeInitInv, TimeStepInv, TimeInvBrackets, PTL DEF TimeSpec

-----------------------------------------------------------------------------
(* The runner makes one measurement; what else it does leaves it alone. *)

\* A step of the runner is one of the measurement, or leaves it alone.
LEMMA RunnerMeasures == [Next]_vars => [TimeNext]_timeVars
<1> SUFFICES ASSUME [Next]_vars PROVE [TimeNext]_timeVars
  OBVIOUS
<1>1. CASE UNCHANGED vars
  BY <1>1 DEF vars
<1>2. CASE RunnerStep
  <2> USE DEF Fail
  <2>1. CASE Measure
    BY <2>1 DEF Measure, TimeNext
  <2>2. CASE Pass \/ Acquire \/ DoWithout \/ Free \/ SetSync \/ OwnIterations
    BY <2>2 DEF Pass, Acquire, DoWithout, Free, SetSync, OwnIterations
  <2>3. CASE CallFails \/ OwnIterationsRefused \/ WaitFails
    BY <2>3 DEF CallFails, OwnIterationsRefused, WaitFails
  <2>4. CASE Crashes \/ Reap \/ ExecuteReturns \/ Release
    BY <2>4 DEF Crashes, Reap, ExecuteReturns, Release
  <2> QED  BY <1>2, <2>1, <2>2, <2>3, <2>4 DEF RunnerStep
<1>3. CASE Measuring
  BY <1>3 DEF Measuring, TimeNext
<1>4. CASE Ended
  BY <1>4 DEF Ended, vars
<1> QED  BY <1>1, <1>2, <1>3, <1>4 DEF Next

\* In every run of the examiner, with any configuration and wherever it fails,
\* an estimate that reaches the parent is off by at most half the interval
\* between the child's readings of its clock.
THEOREM EstimateSound == Spec => []ClockBracketed
<1>1. Init => TimeInv
  BY TimeInitInv DEF Init
<1>2. TimeInv /\ [Next]_vars => TimeInv'
  BY TimeStepInv, RunnerMeasures
<1> QED  BY <1>1, <1>2, TimeInvBrackets, PTL DEF Spec

-----------------------------------------------------------------------------
(* Arithmetic and induction. *)

\* The order of the natural numbers is well-founded.
LEMMA LessWellFounded == IsWellFoundedOn({p \in Nat \X Nat : p[1] < p[2]}, Nat)
BY NatLessThanWellFounded DEF OpToRel

\* Every set of numbers that is not empty has a least one.
LEMMA LeastOf ==
  ASSUME NEW T \in SUBSET Nat, T # {}
  PROVE  \E x \in T : \A y \in T : x <= y
<1>1. PICK x \in T : \A y \in T : ~ (<<y, x>> \in {p \in Nat \X Nat : p[1] < p[2]})
  BY WFMin, LessWellFounded
<1>2. \A y \in T : ~ (y < x)
  BY <1>1
<1> QED
  BY <1>2

\* A set of numbers that has 0, and with a number the next, has them all.
LEMMA FromZeroUp ==
  ASSUME NEW T \in SUBSET Nat, 0 \in T, \A n \in T : n + 1 \in T
  PROVE  T = Nat
<1> DEFINE Rest == Nat \ T
<1> SUFFICES ASSUME Rest # {} PROVE FALSE
  OBVIOUS
<1>1. PICK x \in Rest : \A y \in Rest : x <= y
  <2>1. Rest \subseteq Nat
    OBVIOUS
  <2> HIDE DEF Rest
  <2> QED
    BY <2>1, LeastOf
<1>2. x # 0 /\ x \in Nat
  OBVIOUS
<1>3. x - 1 \in Nat /\ ~ (x <= x - 1)
  BY <1>2
<1>4. x - 1 \in T
  BY <1>1, <1>3
<1>5. (x - 1) + 1 \in T
  BY <1>4
<1> QED
  BY <1>2, <1>5

-----------------------------------------------------------------------------
(* Sequences of calls. *)

IsSeq(s) == \E A : s \in Seq(A)
CallsOf(s) == {s[k] : k \in DOMAIN s}

\* What a concatenation is made of.
LEMMA CatSeq ==
  ASSUME NEW s, NEW t, IsSeq(s), IsSeq(t)
  PROVE  /\ IsSeq(s \o t)
         /\ Len(s) \in Nat /\ Len(t) \in Nat /\ Len(s \o t) = Len(s) + Len(t)
         /\ DOMAIN s = 1..Len(s) /\ DOMAIN t = 1..Len(t) /\ DOMAIN (s \o t) = 1..(Len(s) + Len(t))
         /\ \A k \in 1..Len(s) : (s \o t)[k] = s[k]
         /\ \A k \in 1..Len(t) : (s \o t)[Len(s) + k] = t[k]
<1>1. PICK A : s \in Seq(A)
  BY DEF IsSeq
<1>2. PICK B : t \in Seq(B)
  BY DEF IsSeq
<1>3. s \in Seq(A \cup B) /\ t \in Seq(A \cup B)
  BY <1>1, <1>2
<1>4. s \o t \in Seq(A \cup B)
  BY <1>3
<1>5. IsSeq(s \o t)
  BY <1>4 DEF IsSeq
<1> QED
  BY <1>3, <1>5

\* A concatenation has the calls of both parts.
LEMMA CatCalls ==
  ASSUME NEW s, NEW t, IsSeq(s), IsSeq(t)
  PROVE  IsSeq(s \o t) /\ CallsOf(s \o t) = CallsOf(s) \cup CallsOf(t)
<1> DEFINE r == s \o t
<1>1. /\ IsSeq(r)
      /\ Len(s) \in Nat /\ Len(t) \in Nat
      /\ DOMAIN s = 1..Len(s) /\ DOMAIN t = 1..Len(t) /\ DOMAIN r = 1..(Len(s) + Len(t))
      /\ \A k \in 1..Len(s) : r[k] = s[k]
      /\ \A k \in 1..Len(t) : r[Len(s) + k] = t[k]
  BY CatSeq
<1> HIDE DEF r
<1>2. CallsOf(s) \subseteq CallsOf(r)
  BY <1>1 DEF CallsOf
<1>3. CallsOf(t) \subseteq CallsOf(r)
  <2>1. ASSUME NEW k \in 1..Len(t) PROVE t[k] \in CallsOf(r)
    <3>1. Len(s) + k \in DOMAIN r /\ r[Len(s) + k] = t[k]
      BY <1>1
    <3> QED
      BY <3>1 DEF CallsOf
  <2> QED
    BY <1>1, <2>1 DEF CallsOf
<1>4. CallsOf(r) \subseteq CallsOf(s) \cup CallsOf(t)
  <2>1. ASSUME NEW k \in DOMAIN r PROVE r[k] \in CallsOf(s) \cup CallsOf(t)
    <3>1. CASE k <= Len(s)
      BY <1>1, <3>1 DEF CallsOf
    <3>2. CASE k > Len(s)
      <4>1. k - Len(s) \in 1..Len(t) /\ Len(s) + (k - Len(s)) = k
        BY <1>1, <3>2
      <4>2. r[k] = t[k - Len(s)]
        BY <1>1, <4>1
      <4> QED
        BY <1>1, <4>1, <4>2 DEF CallsOf
    <3> QED
      BY <1>1, <3>1, <3>2
  <2> QED
    BY <2>1 DEF CallsOf
<1> QED
  BY <1>1, <1>2, <1>3, <1>4 DEF r

\* A sequence given by its elements.
LEMMA ListIsSeq ==
  ASSUME NEW n \in Nat, NEW s, DOMAIN s = 1..n, s = [k \in 1..n |-> s[k]]
  PROVE  IsSeq(s)
<1>1. s \in [1..n -> CallsOf(s)]
  BY DEF CallsOf
<1>2. s \in Seq(CallsOf(s))
  BY <1>1
<1> QED
  BY <1>2 DEF IsSeq

-----------------------------------------------------------------------------
(* FlattenSeq is a recursive function. *)

FlattenStep(ss, g, w) ==
  g = [i \in 1..w |-> IF i = 1 THEN ss[i] ELSE g[i-1] \o ss[i]]

\* The recursive function that FlattenSeq chooses exists for every width.
LEMMA FlattenExists ==
  ASSUME NEW ss, NEW width \in Nat
  PROVE  \E g : FlattenStep(ss, g, width)
<1> DEFINE T == {w \in Nat : \E g : FlattenStep(ss, g, w)}
<1>1. 0 \in T
  <2> DEFINE g == [i \in 1..0 |-> ss[i]]
  <2>1. FlattenStep(ss, g, 0)
    BY DEF FlattenStep
  <2> QED
    BY <2>1
<1>2. ASSUME NEW w \in T PROVE w + 1 \in T
  <2>1. PICK g : FlattenStep(ss, g, w)
    OBVIOUS
  <2> DEFINE h == [i \in 1..(w+1) |-> IF i = w + 1
                                        THEN IF i = 1 THEN ss[i] ELSE g[i-1] \o ss[i]
                                        ELSE g[i]]
  <2>2. ASSUME NEW i \in 1..(w+1)
        PROVE  h[i] = IF i = 1 THEN ss[i] ELSE h[i-1] \o ss[i]
    <3>1. CASE i = w + 1
      <4>1. h[i] = IF i = 1 THEN ss[i] ELSE g[i-1] \o ss[i]
        BY <3>1
      <4>2. i # 1 => h[i-1] = g[i-1]
        BY <3>1
      <4> HIDE DEF h
      <4> QED
        BY <4>1, <4>2
    <3>2. CASE i # w + 1
      <4>1. h[i] = g[i] /\ i \in 1..w
        BY <3>2
      <4>2. i # 1 => h[i-1] = g[i-1]
        BY <4>1
      <4> HIDE DEF h
      <4>3. g[i] = IF i = 1 THEN ss[i] ELSE g[i-1] \o ss[i]
        BY <2>1, <4>1, Zenon DEF FlattenStep
      <4> QED
        BY <4>1, <4>2, <4>3
    <3> QED
      BY <3>1, <3>2
  <2>3. h = [i \in 1..(w+1) |-> h[i]]
    OBVIOUS
  <2>4. FlattenStep(ss, h, w + 1)
    <3> HIDE DEF h
    <3> QED
      BY <2>2, <2>3, Zenon DEF FlattenStep
  <2> HIDE DEF h
  <2> QED
    BY <2>4
<1>3. T = Nat
  <2> HIDE DEF T
  <2>0. T \in SUBSET Nat
    BY DEF T
  <2> QED
    BY <1>1, <1>2, <2>0, FromZeroUp
<1> QED
  BY <1>3

\* Its result has the calls of all the sequences.
LEMMA FlattenCalls ==
  ASSUME NEW n \in Nat, NEW ss, DOMAIN ss = 1..n, ss = [i \in 1..n |-> ss[i]],
         \A i \in 1..n : IsSeq(ss[i])
  PROVE  /\ IsSeq(FlattenSeq(ss))
         /\ CallsOf(FlattenSeq(ss)) = UNION {CallsOf(ss[i]) : i \in 1..n}
<1>1. Len(ss) = n
  <2>1. ss \in [1..n -> CallsOf(ss)]
    BY DEF CallsOf
  <2>2. ss \in Seq(CallsOf(ss)) /\ DOMAIN ss = 1..Len(ss) /\ Len(ss) \in Nat
    BY <2>1
  <2> QED
    BY <2>2
<1>2. CASE n = 0
  <2>1. FlattenSeq(ss) = ss
    BY <1>1, <1>2 DEF FlattenSeq
  <2>2. IsSeq(ss)
    BY ListIsSeq
  <2>3. CallsOf(ss) = {} /\ 1..n = {}
    BY <1>2 DEF CallsOf
  <2> QED
    BY <2>1, <2>2, <2>3
<1>3. CASE n # 0
  <2> DEFINE F == CHOOSE g : FlattenStep(ss, g, n)
             T == {w \in Nat : w \in 1..n =>
                     /\ IsSeq(F[w])
                     /\ CallsOf(F[w]) = UNION {CallsOf(ss[i]) : i \in 1..w}}
  <2>1. FlattenSeq(ss) = F[n]
    BY <1>1, <1>3 DEF FlattenSeq, FlattenStep
  <2>2. FlattenStep(ss, F, n)
    BY FlattenExists
  <2> HIDE DEF F
  <2>3. ASSUME NEW i \in 1..n PROVE F[i] = IF i = 1 THEN ss[i] ELSE F[i-1] \o ss[i]
    BY <2>2, Zenon DEF FlattenStep
  <2>4. 0 \in T
    OBVIOUS
  <2>5. ASSUME NEW w \in T PROVE w + 1 \in T
    <3> SUFFICES ASSUME w + 1 \in 1..n
                 PROVE  /\ IsSeq(F[w+1])
                        /\ CallsOf(F[w+1]) = UNION {CallsOf(ss[i]) : i \in 1..(w+1)}
      OBVIOUS
    <3>1. CASE w = 0
      <4>1. F[w+1] = ss[1] /\ 1..(w+1) = {1} /\ 1 \in 1..n
        BY <2>3, <3>1
      <4> HIDE DEF T
      <4> QED
        BY <4>1
    <3>2. CASE w # 0
      <4>1. w \in 1..n /\ w \in Nat /\ w + 1 # 1 /\ (w + 1) - 1 = w
        BY <3>2
      <4>2. F[w+1] = F[w] \o ss[w+1]
        BY <2>3, <4>1
      <4>3. IsSeq(F[w]) /\ CallsOf(F[w]) = UNION {CallsOf(ss[i]) : i \in 1..w}
        BY <4>1
      <4> HIDE DEF T
      <4>4. IsSeq(F[w+1]) /\ CallsOf(F[w+1]) = CallsOf(F[w]) \cup CallsOf(ss[w+1])
        BY <4>2, <4>3, CatCalls
      <4>5. 1..(w+1) = (1..w) \cup {w+1}
        BY <4>1
      <4> QED
        BY <4>3, <4>4, <4>5
    <3> QED
      BY <3>1, <3>2
  <2>6. T = Nat
    <3> HIDE DEF T
    <3>0. T \in SUBSET Nat
      BY DEF T
    <3> QED
      BY <2>4, <2>5, <3>0, FromZeroUp
  <2>7. n \in 1..n
    BY <1>3
  <2> QED
    BY <2>1, <2>6, <2>7
<1> QED
  BY <1>2, <1>3

\* List literals of each length used by the programs, and the calls in them.
LEMMA List1 == \A a : IsSeq(<<a>>) /\ CallsOf(<<a>>) = {a}
<1> TAKE a
<1>1. <<a>> \in Seq({a})
  OBVIOUS
<1>2. IsSeq(<<a>>)
  BY <1>1, Zenon DEF IsSeq
<1> QED
  BY <1>2 DEF CallsOf

\* The same for two calls.
LEMMA List2 == \A a, b : IsSeq(<<a, b>>) /\ CallsOf(<<a, b>>) = {a, b}
<1> TAKE a, b
<1>1. <<a, b>> \in Seq({a, b})
  OBVIOUS
<1>2. IsSeq(<<a, b>>)
  BY <1>1, Zenon DEF IsSeq
<1> QED
  BY <1>2 DEF CallsOf

\* For three.
LEMMA List3 == \A a, b, c : IsSeq(<<a, b, c>>) /\ CallsOf(<<a, b, c>>) = {a, b, c}
<1> TAKE a, b, c
<1>1. <<a, b, c>> \in Seq({a, b, c})
  OBVIOUS
<1>2. IsSeq(<<a, b, c>>)
  BY <1>1, Zenon DEF IsSeq
<1> QED
  BY <1>2 DEF CallsOf

\* For four.
LEMMA List4 ==
  \A a, b, c, d : IsSeq(<<a, b, c, d>>) /\ CallsOf(<<a, b, c, d>>) = {a, b, c, d}
<1> TAKE a, b, c, d
<1>1. <<a, b, c, d>> \in Seq({a, b, c, d})
  OBVIOUS
<1>2. IsSeq(<<a, b, c, d>>)
  BY <1>1, Zenon DEF IsSeq
<1> QED
  BY <1>2 DEF CallsOf

\* For five.
LEMMA List5 ==
  \A a, b, c, d, e : IsSeq(<<a, b, c, d, e>>) /\ CallsOf(<<a, b, c, d, e>>) = {a, b, c, d, e}
<1> TAKE a, b, c, d, e
<1>1. <<a, b, c, d, e>> \in Seq({a, b, c, d, e})
  OBVIOUS
<1>2. IsSeq(<<a, b, c, d, e>>)
  BY <1>1, Zenon DEF IsSeq
<1> QED
  BY <1>2 DEF CallsOf

\* For seven.
LEMMA List7 ==
  \A a, b, c, d, e, f, g : IsSeq(<<a, b, c, d, e, f, g>>)
                           /\ CallsOf(<<a, b, c, d, e, f, g>>) = {a, b, c, d, e, f, g}
<1> TAKE a, b, c, d, e, f, g
<1>1. <<a, b, c, d, e, f, g>> \in Seq({a, b, c, d, e, f, g})
  OBVIOUS
<1>2. IsSeq(<<a, b, c, d, e, f, g>>)
  BY <1>1, Zenon DEF IsSeq
<1> QED
  BY <1>2 DEF CallsOf

\* For eight.
LEMMA List8 ==
  \A a, b, c, d, e, f, g, h : IsSeq(<<a, b, c, d, e, f, g, h>>)
                              /\ CallsOf(<<a, b, c, d, e, f, g, h>>) = {a, b, c, d, e, f, g, h}
<1> TAKE a, b, c, d, e, f, g, h
<1>1. <<a, b, c, d, e, f, g, h>> \in Seq({a, b, c, d, e, f, g, h})
  OBVIOUS
<1>2. IsSeq(<<a, b, c, d, e, f, g, h>>)
  BY <1>1, Zenon DEF IsSeq
<1> QED
  BY <1>2 DEF CallsOf

\* A program may have no calls in one of its parts.
LEMMA EmptyIsSeq == IsSeq(<<>>)
<1>1. <<>> \in Seq({})
  OBVIOUS
<1> QED
  BY <1>1, Zenon DEF IsSeq

\* Then it adds none.
LEMMA EmptyCalls == CallsOf(<<>>) = {}
BY DEF CallsOf

-----------------------------------------------------------------------------
(* The calls of the runner, by their kinds. *)

Quiet == {"get", "put", "check", "pass", "refuse", "null", "fork", "measure", "reap",
          "maybe", "keep"}

\* A sequence of calls of the kinds O.
Only(s, O) == IsSeq(s) /\ \A c \in CallsOf(s) : c.op \in O

\* The kinds of the calls of a concatenation.
LEMMA OnlyCat ==
  ASSUME NEW s, NEW t, NEW O, NEW P, NEW Q, Only(s, O), Only(t, P), O \subseteq Q, P \subseteq Q
  PROVE  Only(s \o t, Q)
BY CatCalls DEF Only

\* The kind of each way to write a call.
LEMMA KindsOf ==
  \A r, fail :
    /\ Get(r, fail).op = "get" /\ Put(r).op = "put" /\ Check(fail).op = "check"
    /\ Refuse(fail).op = "refuse" /\ Null.op = "null" /\ Maybe(r).op = "maybe"
    /\ Keep(r).op = "keep" /\ Fork(fail).op = "fork"
BY DEF Get, Put, Check, Refuse, Null, Maybe, Keep, Fork, Call

\* A test that the file decides either passes or refuses.
LEMMA KindOfJudge ==
  ASSUME NEW ok, NEW fail
  PROVE  Judge(ok, fail).op \in {"pass", "refuse"}
BY DEF Judge, Refuse, Call

\* Several acquisitions in a row are acquisitions.
LEMMA GetsQuiet ==
  ASSUME NEW n \in Nat, NEW rs, DOMAIN rs = 1..n, NEW fail
  PROVE  Only(Gets(rs, fail), Quiet)
<1> DEFINE s == Gets(rs, fail)
<1>1. s = [k \in 1..n |-> Get(rs[k], fail)]
  BY DEF Gets
<1>2. \A k \in 1..n : s[k].op = "get"
  BY <1>1, KindsOf
<1>3. DOMAIN s = 1..n /\ s = [k \in 1..n |-> s[k]]
  BY <1>1
<1> HIDE DEF s
<1>4. IsSeq(s)
  BY <1>3, ListIsSeq
<1> QED
  BY <1>2, <1>3, <1>4 DEF Only, CallsOf, Quiet, s

\* Reading the file sets and tests nothing (runner.c).
LEMMA FileQuiet ==
  ASSUME NEW f, f.chunks \in Nat
  PROVE  Only(GetConfigFileContent(f), Quiet)
<1> DEFINE opened == IF f.stdin THEN <<>> ELSE <<"config_file">>
           A == Gets(opened, <<>>)
           B == <<Get("config_content", opened)>>
           C == [k \in 1..(2 * f.chunks + 1) |-> Check(<<"config_content">> \o opened)]
           D == [k \in DOMAIN opened |-> Put("config_file")]
<1>1. \E n \in Nat : DOMAIN opened = 1..n
  <2>1. CASE f.stdin
    <3>1. opened = <<>> /\ DOMAIN <<>> = 1..0
      BY <2>1
    <3> QED
      BY <3>1
  <2>2. CASE ~f.stdin
    <3>1. opened = <<"config_file">> /\ DOMAIN <<"config_file">> = 1..1
      BY <2>2
    <3> QED
      BY <3>1
  <2> QED
    BY <2>1, <2>2
<1> HIDE DEF opened
<1>2. Only(A, Quiet)
  BY <1>1, GetsQuiet
<1>3. Only(B, Quiet)
  BY List1, KindsOf DEF Only, Quiet
<1>4. Only(C, Quiet)
  <2> DEFINE n == 2 * f.chunks + 1
  <2>1. n \in Nat /\ DOMAIN C = 1..n /\ C = [k \in 1..n |-> C[k]]
    OBVIOUS
  <2>2. \A k \in 1..n : C[k].op = "check"
    BY KindsOf
  <2> HIDE DEF C, n
  <2>3. IsSeq(C)
    BY <2>1, ListIsSeq
  <2> QED
    BY <2>1, <2>2, <2>3 DEF Only, CallsOf, Quiet
<1>5. Only(D, Quiet)
  <2>1. PICK n \in Nat : DOMAIN opened = 1..n
    BY <1>1
  <2>2. DOMAIN D = 1..n /\ D = [k \in 1..n |-> D[k]]
    BY <2>1
  <2>3. \A k \in 1..n : D[k].op = "put"
    BY <2>1, KindsOf
  <2> HIDE DEF D
  <2>4. IsSeq(D)
    BY <2>2, ListIsSeq
  <2> QED
    BY <2>2, <2>3, <2>4 DEF Only, CallsOf, Quiet
<1>6. GetConfigFileContent(f) = A \o B \o C \o D
  BY DEF GetConfigFileContent, opened
<1> HIDE DEF A, B, C, D
<1>7. Only(A \o B, Quiet)
  BY <1>2, <1>3, OnlyCat
<1>8. Only(A \o B \o C, Quiet)
  BY <1>4, <1>7, OnlyCat
<1> QED
  BY <1>5, <1>6, <1>8, OnlyCat

\* Nor does loading the library.
LEMMA LibraryQuiet == \A fail : Only(LoadTaskHostLibrary(fail), Quiet)
BY List4, KindsOf DEF LoadTaskHostLibrary, Only, Quiet

Own == Quiet \cup {"unless_sync"}
Setting == Quiet \cup {"sync"}
Calls == Quiet \cup {"sync", "unless_sync"}

\* Nor does copying a string that may be absent.
LEMMA CopyOptionalQuiet == \A o, k, r, fail : Only(CopyOptional(o, k, r, fail), Quiet)
<1> TAKE o, k, r, fail
<1> DEFINE A == <<Judge(Optional(o, k, "string"), fail)>>
           B == IF k \in Keys(o) THEN <<Get(r, fail)>> ELSE <<>>
<1>1. Only(A, Quiet)
  BY List1, KindOfJudge DEF Only, Quiet
<1>2. Only(B, Quiet)
  <2>1. Only(<<Get(r, fail)>>, Quiet)
    BY List1, KindsOf DEF Only, Quiet
  <2>2. Only(<<>>, Quiet)
    BY EmptyIsSeq, EmptyCalls DEF Only
  <2> QED
    BY <2>1, <2>2
<1>3. CopyOptional(o, k, r, fail) = A \o B
  BY DEF CopyOptional
<1> HIDE DEF A, B
<1> QED
  BY <1>1, <1>2, <1>3, OnlyCat

\* A dimension is tested, or a NULL pointer followed.
LEMMA KindOfDim3 == \A o, k, fail : ParseDim3OrInt(o, k, fail).op \in Quiet
BY KindOfJudge, KindsOf DEF ParseDim3OrInt, Quiet

\* An entry of the benchmark list with a limit of its own is tested for it.
LEMMA BenchmarkCalls ==
  ASSUME NEW b, NEW i, NEW smctrl, NEW fail
  PROVE  /\ Only(ParseBenchmark(b, i, smctrl, fail), Own)
         /\ "max_iterations" \in Keys(b) =>
              \E c \in CallsOf(ParseBenchmark(b, i, smctrl, fail)) : c.op = "unless_sync"
<1> DEFINE A == <<Judge(VerifyConfigKeys(b, BenchmarkKeys), fail),
                  Judge(Required(b, "filename", "string"), fail),
                  Get(Numbered("filename", i), fail)>>
           B == CopyOptional(b, "log_name", Numbered("log_name", i), fail)
           C == CopyOptional(b, "label", Numbered("label", i), fail)
           D == <<Judge(/\ Optional(b, "mps_thread_percentage", "number")
                        /\ ItemOr(b, "mps_thread_percentage", 100) \in 1..100, fail),
                  ParseDim3OrInt(b, "thread_count", fail),
                  ParseDim3OrInt(b, "block_count", fail),
                  Judge(Required(b, "data_size", "number"), fail),
                  Judge("sm_mask" \in Keys(b) => smctrl /\ b.value["sm_mask"].json = "string", fail)>>
           E == IF "additional_info" \in Keys(b)
                  THEN <<Get(Numbered("additional_info", i), fail)>> ELSE <<>>
           F == <<Judge(Optional(b, "max_iterations", "number"), fail)>>
           G == IF "max_iterations" \in Keys(b)
                  THEN <<Call("unless_sync", "none", "none", {}, 0, fail)>> ELSE <<>>
           H == <<Judge(/\ Optional(b, "max_time", "number")
                        /\ Optional(b, "terminator", "boolean")
                        /\ Optional(b, "release_time", "number")
                        /\ Optional(b, "cpu_core", "number")
                        /\ Optional(b, "stream_priority", "number"), fail)>>
<1>1. ParseBenchmark(b, i, smctrl, fail) = A \o B \o C \o D \o E \o F \o G \o H
  BY DEF ParseBenchmark
<1>2. Only(A, Quiet)
  BY List3, KindsOf, KindOfJudge DEF Only, Quiet
<1>3. Only(B, Quiet) /\ Only(C, Quiet)
  BY CopyOptionalQuiet
<1>4. Only(D, Quiet)
  <2> DEFINE p == Judge(/\ Optional(b, "mps_thread_percentage", "number")
                         /\ ItemOr(b, "mps_thread_percentage", 100) \in 1..100, fail)
             q == Judge(Required(b, "data_size", "number"), fail)
             r == Judge("sm_mask" \in Keys(b) => smctrl /\ b.value["sm_mask"].json = "string", fail)
  <2>1. p.op \in Quiet
    BY KindOfJudge, Zenon DEF Quiet
  <2>2. q.op \in Quiet
    BY KindOfJudge, Zenon DEF Quiet
  <2>3. r.op \in Quiet
    BY KindOfJudge, Zenon DEF Quiet
  <2>4. D = <<p, ParseDim3OrInt(b, "thread_count", fail), ParseDim3OrInt(b, "block_count", fail), q, r>>
    BY Zenon
  <2> HIDE DEF p, q, r, D
  <2> QED
    BY <2>1, <2>2, <2>3, <2>4, List5, KindOfDim3 DEF Only
<1>5. Only(E, Quiet)
  <2>1. Only(<<Get(Numbered("additional_info", i), fail)>>, Quiet)
    BY List1, KindsOf DEF Only, Quiet
  <2>2. Only(<<>>, Quiet)
    BY EmptyIsSeq, EmptyCalls DEF Only
  <2> QED
    BY <2>1, <2>2
<1>6. Only(F, Quiet) /\ Only(H, Quiet)
  <2> DEFINE p == Judge(/\ Optional(b, "max_time", "number")
                        /\ Optional(b, "terminator", "boolean")
                        /\ Optional(b, "release_time", "number")
                        /\ Optional(b, "cpu_core", "number")
                        /\ Optional(b, "stream_priority", "number"), fail)
  <2>1. Only(F, Quiet)
    BY List1, KindOfJudge DEF Only, Quiet
  <2>2. p.op \in Quiet
    BY KindOfJudge, Zenon DEF Quiet
  <2>3. H = <<p>>
    BY Zenon
  <2> HIDE DEF p, H
  <2>4. Only(H, Quiet)
    BY <2>2, <2>3, List1 DEF Only
  <2> QED
    BY <2>1, <2>4
<1>7. /\ Only(G, Own)
      /\ "max_iterations" \in Keys(b) => \E c \in CallsOf(G) : c.op = "unless_sync"
  <2>1. CASE "max_iterations" \in Keys(b)
    <3> DEFINE own == Call("unless_sync", "none", "none", {}, 0, fail)
    <3>1. G = <<own>> /\ own.op = "unless_sync"
      BY <2>1 DEF Call
    <3> HIDE DEF own, G
    <3>2. IsSeq(G) /\ CallsOf(G) = {own}
      BY <3>1, List1
    <3> QED
      BY <3>1, <3>2 DEF Only, Own
  <2>2. CASE "max_iterations" \notin Keys(b)
    <3>1. G = <<>>
      BY <2>2
    <3> HIDE DEF G
    <3> QED
      BY <2>2, <3>1, EmptyIsSeq, EmptyCalls DEF Only
  <2> QED
    BY <2>1, <2>2
<1> HIDE DEF A, B, C, D, E, F, G, H
<1>8. Only(A \o B \o C \o D \o E \o F, Quiet)
  <2>1. Only(A \o B, Quiet)
    BY <1>2, <1>3, OnlyCat
  <2>2. Only(A \o B \o C, Quiet)
    BY <2>1, <1>3, OnlyCat
  <2>3. Only(A \o B \o C \o D, Quiet)
    BY <2>2, <1>4, OnlyCat
  <2>4. Only(A \o B \o C \o D \o E, Quiet)
    BY <2>3, <1>5, OnlyCat
  <2> QED
    BY <2>4, <1>6, OnlyCat
<1>9. Quiet \subseteq Own
  BY DEF Own
<1>10. /\ Only(A \o B \o C \o D \o E \o F \o G, Own)
       /\ CallsOf(G) \subseteq CallsOf(A \o B \o C \o D \o E \o F \o G)
  BY <1>7, <1>8, <1>9, OnlyCat, CatCalls DEF Only
<1>11. /\ Only(A \o B \o C \o D \o E \o F \o G \o H, Own)
       /\ CallsOf(G) \subseteq CallsOf(A \o B \o C \o D \o E \o F \o G \o H)
  <2>1. Only(A \o B \o C \o D \o E \o F \o G \o H, Own)
    BY <1>6, <1>9, <1>10, OnlyCat
  <2>2. CallsOf(A \o B \o C \o D \o E \o F \o G)
          \subseteq CallsOf(A \o B \o C \o D \o E \o F \o G \o H)
    BY <1>6, <1>10, CatCalls DEF Only
  <2> QED
    BY <1>10, <2>1, <2>2
<1> QED
  BY <1>1, <1>7, <1>11

\* So is each entry of the list.
LEMMA BenchmarkListCalls ==
  ASSUME NEW d, NEW smctrl, NEW fail, Benchmarks(d) \in Seq(ToSet(Benchmarks(d)))
  PROVE  LET L == ParseBenchmarkList(d, smctrl, fail)
         IN  /\ Only(L, Own)
             /\ \A i \in 1..Len(Benchmarks(d)) :
                  "max_iterations" \in Keys(Benchmarks(d)[i]) =>
                    \E c \in CallsOf(L) : c.op = "unless_sync"
<1> DEFINE bs == Benchmarks(d)
           n == Len(bs)
           ErrorCleanup == FreeStrings(Len(bs)) \o <<"benchmarks">> \o fail
           A == <<Get("benchmarks", fail)>>
           ss == [i \in DOMAIN bs |-> ParseBenchmark(bs[i], i, smctrl, ErrorCleanup)]
<1>1. ParseBenchmarkList(d, smctrl, fail) = A \o FlattenSeq(ss)
  BY DEF ParseBenchmarkList
<1>2. n \in Nat /\ DOMAIN bs = 1..n
  OBVIOUS
<1> HIDE DEF bs, n, ErrorCleanup
<1>3. DOMAIN ss = 1..n /\ ss = [i \in 1..n |-> ss[i]]
  BY <1>2
<1>4. ASSUME NEW i \in 1..n
      PROVE  /\ Only(ss[i], Own)
             /\ "max_iterations" \in Keys(bs[i]) => \E c \in CallsOf(ss[i]) : c.op = "unless_sync"
  <2>1. ss[i] = ParseBenchmark(bs[i], i, smctrl, ErrorCleanup)
    BY <1>2
  <2> HIDE DEF ss
  <2> QED
    BY <2>1, BenchmarkCalls
<1>5. Only(A, Own)
  BY List1, KindsOf DEF Only, Own, Quiet
<1> HIDE DEF ss, A
<1>6. /\ IsSeq(FlattenSeq(ss))
      /\ CallsOf(FlattenSeq(ss)) = UNION {CallsOf(ss[i]) : i \in 1..n}
  BY <1>2, <1>3, <1>4, FlattenCalls DEF Only
<1>7. Only(FlattenSeq(ss), Own)
  BY <1>4, <1>6 DEF Only
<1>8. /\ Only(A \o FlattenSeq(ss), Own)
      /\ CallsOf(FlattenSeq(ss)) \subseteq CallsOf(A \o FlattenSeq(ss))
  BY <1>5, <1>7, OnlyCat, CatCalls DEF Only
<1>9. ASSUME NEW i \in 1..n, "max_iterations" \in Keys(bs[i])
      PROVE  \E c \in CallsOf(A \o FlattenSeq(ss)) : c.op = "unless_sync"
  BY <1>4, <1>6, <1>8, <1>9
<1> QED
  BY <1>1, <1>8, <1>9 DEF bs, n

\* In a sequence of calls, a limit of one's own is only tested after the setting
\* that it is tested against.
SyncFirst(s) ==
  \A j, k \in DOMAIN s : s[j].op = "sync" /\ s[k].op = "unless_sync" => j < k

Fine(s) == Only(s, Calls) /\ SyncFirst(s)

\* Without the setting, or without its tests, the order is no question.
LEMMA FineWithout ==
  ASSUME NEW s, Only(s, Setting) \/ Only(s, Own)
  PROVE  Fine(s)
BY DEF Only, Fine, SyncFirst, Setting, Own, Calls, CallsOf, Quiet

\* The order is kept when all that may set comes before all that may test.
LEMMA FineCat ==
  ASSUME NEW s, NEW t, Fine(s), Fine(t), Only(s, Setting) \/ Only(t, Own)
  PROVE  Fine(s \o t)
<1> DEFINE r == s \o t
<1>1. Only(r, Calls)
  BY OnlyCat DEF Fine
<1>2. /\ Len(s) \in Nat /\ Len(t) \in Nat
      /\ DOMAIN s = 1..Len(s) /\ DOMAIN t = 1..Len(t) /\ DOMAIN r = 1..(Len(s) + Len(t))
      /\ \A k \in 1..Len(s) : r[k] = s[k]
      /\ \A k \in 1..Len(t) : r[Len(s) + k] = t[k]
  BY CatSeq DEF Fine, Only
<1> HIDE DEF r
<1>3. \A k \in 1..(Len(s) + Len(t)) :
        k > Len(s) => k - Len(s) \in 1..Len(t) /\ r[k] = t[k - Len(s)]
  <2> TAKE k \in 1..(Len(s) + Len(t))
  <2> HAVE k > Len(s)
  <2>1. k - Len(s) \in 1..Len(t) /\ Len(s) + (k - Len(s)) = k
    BY <1>2
  <2> QED
    BY <1>2, <2>1
<1>4. ASSUME NEW j \in DOMAIN r, NEW k \in DOMAIN r, r[j].op = "sync", r[k].op = "unless_sync"
      PROVE  j < k
  <2>1. CASE j <= Len(s) /\ k <= Len(s)
    <3>1. j \in DOMAIN s /\ k \in DOMAIN s /\ r[j] = s[j] /\ r[k] = s[k]
      BY <1>2, <2>1
    <3> QED
      BY <1>4, <3>1 DEF Fine, SyncFirst
  <2>2. CASE j > Len(s) /\ k > Len(s)
    <3>1. /\ j - Len(s) \in DOMAIN t /\ k - Len(s) \in DOMAIN t
          /\ r[j] = t[j - Len(s)] /\ r[k] = t[k - Len(s)]
      BY <1>2, <1>3, <2>2
    <3>2. j - Len(s) < k - Len(s)
      BY <1>4, <3>1 DEF Fine, SyncFirst
    <3> QED
      BY <1>2, <3>2
  <2>3. CASE j > Len(s) /\ k <= Len(s)
    <3>1. j - Len(s) \in DOMAIN t /\ k \in DOMAIN s /\ r[j] = t[j - Len(s)] /\ r[k] = s[k]
      BY <1>2, <1>3, <2>3
    <3>2. r[k] \in CallsOf(s) /\ r[j] \in CallsOf(t)
      BY <3>1 DEF CallsOf
    <3>3. r[k].op \in Setting \/ r[j].op \in Own
      BY <3>2 DEF Only
    <3> QED
      BY <1>4, <3>3 DEF Setting, Own, Quiet
  <2> QED
    BY <1>2, <2>1, <2>2, <2>3
<1> QED
  BY <1>1, <1>4 DEF Fine, SyncFirst, r

\* What the parser, and all of main, makes sure of when it refuses nothing.
Refuses(s) == \E c \in CallsOf(s) : c.op \in {"refuse", "null"}
TestsLimits(s, d) ==
  \A i \in 1..Count(d) : "max_iterations" \in Keys(Benchmarks(d)[i]) =>
    \E c \in CallsOf(s) : c.op = "unless_sync"
TestsCores(s, d, set) ==
  Refuses(s) \/ \A i \in 1..Count(d) : CoreAvailable(d, set, Benchmarks(d)[i])

ArraysAssumed(d) ==
  d.json = "object" /\ Required(d, "benchmarks", "array")
    => Benchmarks(d) \in Seq(ToSet(Benchmarks(d)))

\* A file has a number of benchmarks.
LEMMA CountIsNat ==
  ASSUME NEW d, ArraysAssumed(d)
  PROVE  Count(d) \in Nat
BY DEF Count, ArraysAssumed

\* The list is parsed, or refused when there is none.
LEMMA ListSettingCalls ==
  ASSUME NEW d, NEW smctrl, NEW fail, d.json = "object", ArraysAssumed(d)
  PROVE  Only(ListSetting(d, smctrl, fail), Own) /\ TestsLimits(ListSetting(d, smctrl, fail), d)
<1>1. CASE Required(d, "benchmarks", "array") /\ Benchmarks(d) # <<>>
  <2>1. ListSetting(d, smctrl, fail) = ParseBenchmarkList(d, smctrl, fail)
    BY <1>1 DEF ListSetting
  <2>2. Benchmarks(d) \in Seq(ToSet(Benchmarks(d))) /\ Count(d) = Len(Benchmarks(d))
    BY <1>1 DEF ArraysAssumed, Count
  <2> QED
    BY <2>1, <2>2, BenchmarkListCalls DEF TestsLimits
<1>2. CASE ~(Required(d, "benchmarks", "array") /\ Benchmarks(d) # <<>>)
  <2>1. ListSetting(d, smctrl, fail) = <<Refuse(fail)>>
    BY <1>2 DEF ListSetting
  <2>2. Only(<<Refuse(fail)>>, Own)
    BY List1, KindsOf DEF Only, Own, Quiet
  <2>3. Count(d) = 0
    <3>1. CASE Required(d, "benchmarks", "array")
      <4>1. Benchmarks(d) = <<>>
        BY <1>2, <3>1
      <4> QED
        BY <3>1, <4>1 DEF Count
    <3>2. CASE ~Required(d, "benchmarks", "array")
      BY <3>2 DEF Count
    <3> QED
      BY <3>1, <3>2
  <2> QED
    BY <2>1, <2>2, <2>3 DEF TestsLimits
<1> QED
  BY <1>1, <1>2

\* The settings before sync_every_iteration set and test nothing of it.
LEMMA GlobalSettingsQuiet == \A d, fail : Only(GlobalSettings(d, fail), Quiet)
<1> TAKE d, fail
<1> DEFINE p1 == Judge(VerifyConfigKeys(d, GlobalKeys), fail)
           p2 == Judge(Required(d, "max_iterations", "number") /\ Item(d, "max_iterations") >= 0, fail)
           p3 == Judge(Required(d, "max_time", "number") /\ Optional(d, "use_processes", "boolean"), fail)
           p4 == Judge(Required(d, "cuda_device", "number") /\ Required(d, "name", "string"), fail)
           p6 == Judge(Optional(d, "base_result_directory", "string"), fail)
           p8 == Judge(Optional(d, "pin_cpus", "boolean"), fail)
<1>1. p1.op \in Quiet
  BY KindOfJudge, Zenon DEF Quiet
<1>2. p2.op \in Quiet
  BY KindOfJudge, Zenon DEF Quiet
<1>3. p3.op \in Quiet
  BY KindOfJudge, Zenon DEF Quiet
<1>4. p4.op \in Quiet
  BY KindOfJudge, Zenon DEF Quiet
<1>6. p6.op \in Quiet
  BY KindOfJudge, Zenon DEF Quiet
<1>8. p8.op \in Quiet
  BY KindOfJudge, Zenon DEF Quiet
<1>9. GlobalSettings(d, fail) = <<p1, p2, p3, p4, Get("scenario_name", fail), p6,
                                  Get("base_result_directory", fail), p8>>
  BY Zenon DEF GlobalSettings
<1>10. Get("scenario_name", fail).op \in Quiet /\ Get("base_result_directory", fail).op \in Quiet
  BY KindsOf DEF Quiet
<1> HIDE DEF p1, p2, p3, p4, p6, p8
<1> QED
  BY <1>1, <1>2, <1>3, <1>4, <1>6, <1>8, <1>9, <1>10, List8 DEF Only

\* The setting itself.
LEMMA SyncSettingCalls == \A d, fail : Only(SyncSetting(d, fail), Setting)
<1> TAKE d, fail
<1> DEFINE p == Judge(Optional(d, "sync_every_iteration", "boolean"), fail)
           q == Call(IF IsTrue(d, "sync_every_iteration") THEN "sync" ELSE "pass",
                     "none", "none", {}, 0, fail)
<1>1. p.op \in Setting
  BY KindOfJudge, Zenon DEF Quiet, Setting
<1>2. q.op = IF IsTrue(d, "sync_every_iteration") THEN "sync" ELSE "pass"
  BY DEF Call
<1>3. q.op \in Setting
  BY <1>2 DEF Setting, Quiet
<1>4. SyncSetting(d, fail) = <<p, q>>
  BY Zenon DEF SyncSetting
<1> HIDE DEF p, q
<1> QED
  BY <1>1, <1>3, <1>4, List2 DEF Only

\* The settings are read before the list is (parse_config.c).
LEMMA SettingsCalls ==
  ASSUME NEW d, NEW smctrl, NEW fail, d.json = "object", ArraysAssumed(d)
  PROVE  Fine(Settings(d, smctrl, fail)) /\ TestsLimits(Settings(d, smctrl, fail), d)
<1> DEFINE A == GlobalSettings(d, fail)
           B == SyncSetting(d, fail)
           C == <<Judge(Optional(d, "do_warmup", "boolean"), fail)>>
           L == ListSetting(d, smctrl, fail)
<1>1. Settings(d, smctrl, fail) = A \o B \o C \o L
  BY DEF Settings
<1>2. Only(A, Quiet) /\ Only(B, Setting)
  BY GlobalSettingsQuiet, SyncSettingCalls
<1>3. Only(C, Quiet)
  BY List1, KindOfJudge DEF Only, Quiet
<1>4. Only(L, Own) /\ TestsLimits(L, d)
  BY ListSettingCalls
<1> HIDE DEF A, B, C, L
<1>5. Quiet \subseteq Setting
  BY DEF Setting
<1>6. Only(A \o B, Setting)
  BY <1>2, <1>5, OnlyCat
<1>7. Only(A \o B \o C, Setting)
  BY <1>3, <1>5, <1>6, OnlyCat
<1>8. Fine(A \o B \o C \o L)
  BY <1>4, <1>7, FineWithout, FineCat
<1>9. CallsOf(L) \subseteq CallsOf(A \o B \o C \o L)
  BY <1>4, <1>7, CatCalls DEF Only
<1> QED
  BY <1>1, <1>4, <1>8, <1>9 DEF TestsLimits

\* So the whole parser tests every limit of one's own after the setting.
LEMMA ParseCalls ==
  ASSUME NEW d, NEW smctrl, NEW fail, ArraysAssumed(d)
  PROVE  /\ Fine(ParseConfiguration(d, smctrl, fail))
         /\ TestsLimits(ParseConfiguration(d, smctrl, fail), d)
<1> DEFINE A == <<Get("global_config", fail)>>
<1>1. Only(A, Quiet)
  BY List1, KindsOf DEF Only, Quiet
<1>2. Quiet \subseteq Setting /\ Quiet \subseteq Own
  BY DEF Setting, Own
<1>3. CASE d.json # "object"
  <2> DEFINE B == <<Refuse(<<"global_config">> \o fail)>>
  <2>1. ParseConfiguration(d, smctrl, fail) = A \o B
    BY <1>3 DEF ParseConfiguration
  <2>2. Only(B, Quiet)
    BY List1, KindsOf DEF Only, Quiet
  <2> HIDE DEF A, B
  <2>3. Only(A \o B, Setting)
    BY <1>1, <1>2, <2>2, OnlyCat
  <2>4. 1..Count(d) = {}
    BY <1>3 DEF Count
  <2> QED
    BY <2>1, <2>3, <2>4, FineWithout DEF TestsLimits
<1>4. CASE d.json = "object"
  <2> DEFINE B == <<Get("root", <<"global_config">> \o fail)>>
             S == Settings(d, smctrl, ParseErrorCleanup \o fail)
             P == <<Put("root")>>
  <2>1. ParseConfiguration(d, smctrl, fail) = A \o (B \o S \o P)
    BY <1>4 DEF ParseConfiguration
  <2>2. Only(B, Quiet) /\ Only(P, Quiet)
    BY List1, KindsOf DEF Only, Quiet
  <2>3. Fine(S) /\ TestsLimits(S, d)
    BY <1>4, SettingsCalls
  <2> HIDE DEF A, B, S, P
  <2>4. Only(A, Setting) /\ Only(B, Setting) /\ Only(P, Own)
    BY <1>1, <1>2, <2>2 DEF Only
  <2>5. Fine(A) /\ Fine(B) /\ Fine(P)
    BY <2>4, FineWithout
  <2>6. Fine(B \o S) /\ CallsOf(S) \subseteq CallsOf(B \o S)
    BY <2>3, <2>4, <2>5, FineCat, CatCalls DEF Fine, Only
  <2>7. Fine(B \o S \o P) /\ CallsOf(S) \subseteq CallsOf(B \o S \o P)
    BY <2>4, <2>5, <2>6, FineCat, CatCalls DEF Fine, Only
  <2>8. Fine(A \o (B \o S \o P)) /\ CallsOf(S) \subseteq CallsOf(A \o (B \o S \o P))
    BY <2>4, <2>5, <2>7, FineCat, CatCalls DEF Fine, Only
  <2> QED
    BY <2>1, <2>3, <2>8 DEF TestsLimits
<1> QED
  BY <1>3, <1>4

-----------------------------------------------------------------------------
(* The host's own calls. *)

\* A task whose core is not available is refused (task_host.c).
LEMMA TaskCalls ==
  ASSUME NEW d, NEW set, NEW i, NEW fail
  PROVE  /\ Only(CreateTaskConfig(d, set, i, fail), Quiet)
         /\ CoreAvailable(d, set, Benchmarks(d)[i]) \/ Refuses(CreateTaskConfig(d, set, i, fail))
<1> DEFINE p == Judge(CoreAvailable(d, set, Benchmarks(d)[i]), fail)
           s == CreateTaskConfig(d, set, i, fail)
<1>1. s = <<p, Get("log_path", fail),
            Get(Numbered("output_file", i), <<"log_path">> \o fail), Put("log_path"),
            Keep(Numbered("block_buf", i)),
            Get(Numbered("library_handle", i), fail), Check(fail), Maybe("no_functions")>>
  BY Zenon DEF CreateTaskConfig
<1>2. p.op \in Quiet
  BY KindOfJudge, Zenon DEF Quiet
<1>3. CoreAvailable(d, set, Benchmarks(d)[i]) \/ p.op = "refuse"
  BY KindsOf DEF Judge
<1> HIDE DEF p, s
<1>4. IsSeq(s) /\ CallsOf(s) = {p, Get("log_path", fail),
            Get(Numbered("output_file", i), <<"log_path">> \o fail), Put("log_path"),
            Keep(Numbered("block_buf", i)),
            Get(Numbered("library_handle", i), fail), Check(fail), Maybe("no_functions")}
  BY <1>1, List8
<1>5. Only(s, Quiet)
  BY <1>2, <1>4, KindsOf DEF Only, Quiet
<1>6. p \in CallsOf(s)
  BY <1>4
<1>7. CoreAvailable(d, set, Benchmarks(d)[i]) \/ Refuses(s)
  BY <1>3, <1>6 DEF Refuses
<1> QED
  BY <1>5, <1>7 DEF s

\* So is a list of tasks with one such.
LEMMA TaskListCalls ==
  ASSUME NEW d, NEW set, NEW fail, Count(d) \in Nat
  PROVE  /\ Only(CreateTaskConfigs(d, set, fail), Quiet)
         /\ TestsCores(CreateTaskConfigs(d, set, fail), d, set)
<1> DEFINE n == Count(d)
           E == CreateErrorCleanup(n) \o fail
           A == <<Get("task_configs", fail), Check(E)>>
           ss == [i \in 1..n |-> CreateTaskConfig(d, set, i, E)]
           L == A \o FlattenSeq(ss)
<1>1. CreateTaskConfigs(d, set, fail) = L
  BY DEF CreateTaskConfigs
<1>2. Only(A, Quiet)
  BY List2, KindsOf DEF Only, Quiet
<1> HIDE DEF n, E, A
<1>3. n \in Nat /\ DOMAIN ss = 1..n /\ ss = [i \in 1..n |-> ss[i]]
  BY DEF n
<1>4. ASSUME NEW i \in 1..n
      PROVE  Only(ss[i], Quiet) /\ (CoreAvailable(d, set, Benchmarks(d)[i]) \/ Refuses(ss[i]))
  <2>1. ss[i] = CreateTaskConfig(d, set, i, E)
    OBVIOUS
  <2> HIDE DEF ss
  <2> QED
    BY <2>1, TaskCalls
<1> HIDE DEF ss
<1>5. /\ IsSeq(FlattenSeq(ss))
      /\ CallsOf(FlattenSeq(ss)) = UNION {CallsOf(ss[i]) : i \in 1..n}
  BY <1>3, <1>4, FlattenCalls DEF Only
<1>6. Only(FlattenSeq(ss), Quiet)
  BY <1>4, <1>5 DEF Only
<1>7. Only(L, Quiet) /\ CallsOf(FlattenSeq(ss)) \subseteq CallsOf(L)
  BY <1>2, <1>6, OnlyCat, CatCalls DEF Only
<1>8. ASSUME NEW i \in 1..n, ~ CoreAvailable(d, set, Benchmarks(d)[i])
      PROVE  Refuses(L)
  <2>1. PICK c \in CallsOf(ss[i]) : c.op \in {"refuse", "null"}
    BY <1>4, <1>8 DEF Refuses
  <2>2. c \in CallsOf(L)
    BY <1>5, <1>7, <2>1
  <2> HIDE DEF L
  <2> QED
    BY <2>1, <2>2 DEF Refuses
<1> HIDE DEF L
<1>9. TestsCores(L, d, set)
  BY <1>8 DEF TestsCores, n
<1> QED
  BY <1>1, <1>7, <1>9

\* The measurements set and test nothing of the configuration.
LEMMA ThreadsQuiet == \A fail : Only(GetMaxResidentThreads(fail), Quiet)
BY List4, KindsOf DEF GetMaxResidentThreads, Only, Quiet

\* Nor does the scale of the timer.
LEMMA ScaleQuiet == \A fail : Only(GetGPUTimerScale(fail), Quiet)
BY List4, KindsOf DEF GetGPUTimerScale, Only, Quiet

\* Nor does the offset of the clocks.
LEMMA OffsetQuiet == \A fail : Only(GetHostDeviceTimeOffset(fail), Quiet)
<1> TAKE fail
<1> DEFINE F == <<"shared_cpu_time", "shared_gpu_time">> \o fail
           m == Call("measure", "none", "none", {}, 0, F)
           r == Call("reap", "none", "none", {}, 0, F)
<1>1. m.op \in Quiet /\ r.op \in Quiet
  BY DEF Call, Quiet
<1>2. GetHostDeviceTimeOffset(fail) =
        <<Get("shared_gpu_time", fail), Get("shared_cpu_time", <<"shared_gpu_time">> \o fail),
          Fork(fail), m, r, Put("shared_cpu_time"), Put("shared_gpu_time")>>
  BY Zenon DEF GetHostDeviceTimeOffset
<1> HIDE DEF F, m, r
<1>3. \A x, y : Get(x, y).op \in Quiet /\ Put(x).op \in Quiet /\ Fork(y).op \in Quiet
  BY KindsOf DEF Quiet
<1> QED
  BY <1>1, <1>2, <1>3, List7 DEF Only

-----------------------------------------------------------------------------
(* The whole program. *)

\* The initialization of the host makes all these tests, or refuses the file.
LEMMA InitializeCalls ==
  ASSUME NEW d, NEW set, NEW smctrl, NEW fail, ArraysAssumed(d)
  PROVE  LET s == Initialize(d, set, smctrl, fail)
         IN  Fine(s) /\ TestsLimits(s, d) /\ TestsCores(s, d, set)
<1> DEFINE Undo(has) == HostCleanup(Count(d), has) \o fail
           C == Undo({"global_config"})
           E == Undo({"global_config", "task_configs"})
           parse == ParseConfiguration(d, smctrl, Undo({}))
           refused == \E k \in DOMAIN parse : parse[k].op \in {"refuse", "null"}
           A == <<Get("state", fail)>>
           T == GetMaxResidentThreads(C)
           K == CreateTaskConfigs(d, set, C)
           S == GetGPUTimerScale(E)
           B == <<Get("barrier", E), Maybe("terminate")>>
           O == GetHostDeviceTimeOffset(E)
           s == Initialize(d, set, smctrl, fail)
           rest == IF refused THEN <<>> ELSE T \o K \o S \o B \o O
<1>1. s = A \o parse \o rest
  BY Zenon DEF Initialize
<1>2. Fine(parse) /\ TestsLimits(parse, d)
  BY ParseCalls
<1>3. Only(T, Quiet) /\ Only(S, Quiet) /\ Only(O, Quiet)
  BY ThreadsQuiet, ScaleQuiet, OffsetQuiet
<1>4. Only(K, Quiet) /\ TestsCores(K, d, set)
  BY TaskListCalls, CountIsNat
<1>5. Only(B, Quiet) /\ Only(A, Quiet)
  BY List1, List2, KindsOf DEF Only, Quiet
<1>6. refused => Refuses(parse)
  BY DEF Refuses, CallsOf
<1> HIDE DEF A, B, C, E, T, K, S, O, s, parse, refused
<1>7. Only(T \o K, Quiet) /\ CallsOf(K) \subseteq CallsOf(T \o K)
  BY <1>3, <1>4, OnlyCat, CatCalls DEF Only
<1>8. Only(T \o K \o S, Quiet) /\ CallsOf(K) \subseteq CallsOf(T \o K \o S)
  BY <1>3, <1>7, OnlyCat, CatCalls DEF Only
<1>9. Only(T \o K \o S \o B, Quiet) /\ CallsOf(K) \subseteq CallsOf(T \o K \o S \o B)
  BY <1>5, <1>8, OnlyCat, CatCalls DEF Only
<1>10. Only(T \o K \o S \o B \o O, Quiet) /\ CallsOf(K) \subseteq CallsOf(T \o K \o S \o B \o O)
  BY <1>3, <1>9, OnlyCat, CatCalls DEF Only
<1>11. Only(rest, Quiet) /\ (refused \/ CallsOf(K) \subseteq CallsOf(rest))
  <2>1. Only(<<>>, Quiet)
    BY EmptyIsSeq, EmptyCalls DEF Only
  <2> QED
    BY <1>10, <2>1
<1> HIDE DEF rest
<1>12. Only(A, Setting) /\ Only(rest, Own) /\ Fine(A) /\ Fine(rest)
  BY <1>5, <1>11, FineWithout DEF Only, Setting, Own
<1>13. Fine(A \o parse) /\ CallsOf(parse) \subseteq CallsOf(A \o parse)
  BY <1>2, <1>12, FineCat, CatCalls DEF Fine, Only
<1>14. /\ Fine(A \o parse \o rest)
       /\ CallsOf(parse) \cup CallsOf(rest) \subseteq CallsOf(A \o parse \o rest)
  BY <1>12, <1>13, FineCat, CatCalls DEF Fine, Only
<1>15. TestsLimits(s, d)
  BY <1>1, <1>2, <1>14 DEF TestsLimits
<1>16. TestsCores(s, d, set)
  BY <1>1, <1>4, <1>6, <1>11, <1>14 DEF TestsCores, Refuses
<1>17. Fine(s)
  BY <1>1, <1>14
<1> QED
  BY <1>15, <1>16, <1>17 DEF s

\* The program of a file: one call of Execute at its end, and before it the
\* tests that matter here.
Shape(p, d, set) ==
  /\ IsSeq(p) /\ DOMAIN p = 1..Len(p) /\ Len(p) \in Nat \ {0}
  /\ p[Len(p)].op = "execute"
  /\ \A k \in 1..(Len(p) - 1) : p[k].op \in Calls
  /\ \A j, k \in 1..(Len(p) - 1) : p[j].op = "sync" /\ p[k].op = "unless_sync" => j < k
  /\ \A i \in 1..Count(d) : "max_iterations" \in Keys(Benchmarks(d)[i]) =>
       \E k \in 1..(Len(p) - 1) : p[k].op = "unless_sync"
  /\ \/ \E k \in 1..(Len(p) - 1) : p[k].op \in {"refuse", "null"}
     \/ \A i \in 1..Count(d) : CoreAvailable(d, set, Benchmarks(d)[i])

\* The program of every file has this shape.
LEMMA MainShape ==
  ASSUME NEW f \in DOMAIN Files
  PROVE  Shape(Main(Files[f]), Files[f].json, Files[f].cpu_set)
<1> DEFINE F == Files[f]
           d == F.json
           set == F.cpu_set
           A == GetConfigFileContent(F)
           B == LoadTaskHostLibrary(<<"config_content">>)
           I == Initialize(d, set, F.smctrl, MainErrorCleanup)
           x == Call("execute", "none", "none", {}, 0,
                     HostCleanup(Count(d), {"global_config", "task_configs"}) \o MainErrorCleanup)
           s == A \o B \o I
           p == s \o <<x>>
<1>1. Main(F) = p
  BY Zenon DEF Main
<1>2. F.chunks \in Nat /\ ArraysAssumed(d)
  BY StartupAssumption, Zenon DEF ArraysAssumed
<1>3. Only(A, Quiet) /\ Only(B, Quiet)
  BY <1>2, FileQuiet, LibraryQuiet
<1>4. Fine(I) /\ TestsLimits(I, d) /\ TestsCores(I, d, set)
  BY <1>2, InitializeCalls
<1>5. x.op = "execute"
  BY DEF Call
<1> HIDE DEF F, d, set, A, B, I, x
<1>6. Only(A \o B, Setting)
  BY <1>3, OnlyCat DEF Setting
<1>7. Fine(s) /\ CallsOf(I) \subseteq CallsOf(s)
  BY <1>4, <1>6, FineWithout, FineCat, CatCalls DEF Fine, Only
<1>8. TestsLimits(s, d) /\ TestsCores(s, d, set)
  BY <1>4, <1>7 DEF TestsLimits, TestsCores, Refuses
<1> HIDE DEF s
<1>9. IsSeq(<<x>>) /\ Len(<<x>>) = 1 /\ <<x>>[1] = x
  BY List1
<1>10. /\ IsSeq(p) /\ Len(s) \in Nat /\ Len(p) = Len(s) + 1
       /\ DOMAIN s = 1..Len(s) /\ DOMAIN p = 1..(Len(s) + 1)
       /\ \A k \in 1..Len(s) : p[k] = s[k]
       /\ p[Len(s) + 1] = x
  <2>1. 1 \in 1..1
    OBVIOUS
  <2> HIDE DEF p
  <2> QED
    BY <1>7, <1>9, <2>1, CatSeq DEF Fine, Only, p
<1> HIDE DEF p
<1>11. 1..(Len(p) - 1) = DOMAIN s /\ \A k \in 1..(Len(p) - 1) : p[k] = s[k]
  BY <1>10
<1>12. \A k \in 1..(Len(p) - 1) : p[k].op \in Calls
  BY <1>7, <1>11 DEF Fine, Only, CallsOf
<1>13. \A j, k \in 1..(Len(p) - 1) : p[j].op = "sync" /\ p[k].op = "unless_sync" => j < k
  BY <1>7, <1>11 DEF Fine, SyncFirst
<1>14. \A c \in CallsOf(s) : \E k \in 1..(Len(p) - 1) : p[k] = c
  BY <1>11 DEF CallsOf
<1>15. \A i \in 1..Count(d) : "max_iterations" \in Keys(Benchmarks(d)[i]) =>
         \E k \in 1..(Len(p) - 1) : p[k].op = "unless_sync"
  BY <1>8, <1>14 DEF TestsLimits
<1>16. \/ \E k \in 1..(Len(p) - 1) : p[k].op \in {"refuse", "null"}
       \/ \A i \in 1..Count(d) : CoreAvailable(d, set, Benchmarks(d)[i])
  BY <1>8, <1>14 DEF TestsCores, Refuses
<1>17. /\ DOMAIN p = 1..Len(p) /\ Len(p) \in Nat \ {0} /\ p[Len(p)].op = "execute"
  BY <1>5, <1>10
<1>18. Shape(p, d, set)
  BY <1>10, <1>12, <1>13, <1>15, <1>16, <1>17, Zenon DEF Shape
<1> QED
  BY <1>1, <1>18, Zenon DEF F, d, set

-----------------------------------------------------------------------------
(* Running the program. *)

\* The runner is past no call that ends it, and past a limit of one's own only
\* without the setting.
Progress ==
  /\ program = Main(Files[file]) /\ file \in DOMAIN Files
  /\ pc \in DOMAIN program
  /\ sync \in BOOLEAN /\ result \in {"running", "ok", "error", "crashed"}
  /\ \A k \in 1..(pc - 1) : program[k].op \notin {"refuse", "null", "execute"}
  /\ sync <=> \E k \in 1..(pc - 1) : program[k].op = "sync"
  /\ sync => \A k \in 1..(pc - 1) : program[k].op # "unless_sync"

StartInv == TimeInv /\ now \in 1..MaxTime /\ Progress

\* The invariant holds at the start.
LEMMA StartInit == Init => StartInv
<1> SUFFICES ASSUME Init PROVE StartInv
  OBVIOUS
<1>1. TimeInv /\ now \in 1..MaxTime
  BY TimeInitInv, MaxTimeAssumption DEF Init, TimeInit
<1>2. file \in DOMAIN Files /\ program = Main(Files[file]) /\ pc = 1 /\ sync = FALSE
      /\ result = "running"
  BY DEF Init
<1>3. Shape(program, Files[file].json, Files[file].cpu_set)
  BY <1>2, MainShape
<1>4. 1 \in DOMAIN program /\ 1..(1 - 1) = {}
  BY <1>3 DEF Shape
<1>5. Progress
  BY <1>2, <1>4 DEF Progress
<1> QED
  BY <1>1, <1>5 DEF StartInv

\* The clock stays within its bound.
LEMMA ClockStep == now \in 1..MaxTime /\ [TimeNext]_timeVars => now' \in 1..MaxTime
<1> SUFFICES ASSUME now \in 1..MaxTime, [TimeNext]_timeVars PROVE now' \in 1..MaxTime
  OBVIOUS
<1>1. CASE Tick
  BY <1>1, MaxTimeAssumption DEF Tick
<1>2. CASE ~Tick
  <2>1. now' = now
    BY <1>2 DEF TimeNext, timeVars, stamps, ForkTiming, MeasureStep, ChildStep, SetUpTiming,
                Launch, LaunchFails, RaiseStart, WarmUpDone, ResetFlags, SeeReady, SeeEnd, CopyTime,
                KernelStep, KernelReady, KernelStamp, KernelEnd, TimingFails, TimingKilled
  <2> QED
    BY <2>1
<1> QED
  BY <1>1, <1>2

\* A call that is passed is none of those that end the program, nor the last.
LEMMA Advance ==
  ASSUME Progress, NEW O, Goes(O), Given' = Given,
         O \subseteq {"pass", "check", "fork", "get", "maybe", "keep", "put", "sync",
                      "unless_sync", "measure", "reap"},
         result' = result, sync' = (sync \/ Current.op = "sync"),
         Current.op = "unless_sync" => ~sync
  PROVE  Progress'
<1> DEFINE p == program
<1>1. Shape(p, Files[file].json, Files[file].cpu_set)
  BY MainShape DEF Progress
<1>2. pc' = pc + 1 /\ p[pc].op \in O /\ p' = p /\ file' = file
  BY DEF Goes, Current, Given
<1> HIDE DEF p
<1>3. pc \in 1..Len(p) /\ Len(p) \in Nat /\ DOMAIN p = 1..Len(p) /\ p[Len(p)].op = "execute"
  <2>1. Len(p) \in Nat /\ DOMAIN p = 1..Len(p) /\ p[Len(p)].op = "execute"
    BY <1>1 DEF Shape
  <2>2. pc \in DOMAIN p
    BY DEF Progress, p
  <2> QED
    BY <2>1, <2>2
<1>4. pc # Len(p)
  BY <1>2, <1>3
<1>5. pc' \in DOMAIN p /\ 1..(pc' - 1) = (1..(pc - 1)) \cup {pc} /\ pc < Len(p)
  <2>1. pc \in Nat /\ 1 <= pc /\ pc < Len(p) /\ Len(p) \in Nat
    <3> DEFINE n == Len(p)
    <3>1. pc \in 1..n /\ n \in Nat /\ pc # n
      BY <1>3, <1>4, Zenon
    <3> HIDE DEF n
    <3>2. pc \in Nat /\ 1 <= pc /\ pc < n /\ n \in Nat
      BY <3>1
    <3> QED
      BY <3>2, Zenon DEF n
  <2>2. pc + 1 \in 1..Len(p) /\ (pc + 1) - 1 = pc /\ 1..pc = (1..(pc - 1)) \cup {pc}
    BY <2>1
  <2> QED
    BY <1>2, <1>3, <2>1, <2>2
<1>6. \A k \in 1..(pc' - 1) : p[k].op \notin {"refuse", "null", "execute"}
  BY <1>2, <1>5 DEF Progress, p
<1>7. p[pc].op = Current.op
  BY DEF Current, p
<1>8. sync' <=> \E k \in 1..(pc' - 1) : p[k].op = "sync"
  BY <1>5, <1>7 DEF Progress, p
<1>9. sync' => \A k \in 1..(pc' - 1) : p[k].op # "unless_sync"
  <2>1. CASE p[pc].op = "sync"
    <3> SUFFICES ASSUME NEW k \in 1..(pc' - 1), p[k].op = "unless_sync" PROVE FALSE
      OBVIOUS
    <3>1. k \in 1..(Len(p) - 1) /\ pc \in 1..(Len(p) - 1) /\ k <= pc
      BY <1>3, <1>5
    <3>2. pc < k
      BY <1>1, <2>1, <3>1 DEF Shape
    <3> QED
      BY <1>3, <3>1, <3>2
  <2>2. CASE p[pc].op # "sync"
    BY <1>5, <1>7, <2>2 DEF Progress, p
  <2> QED
    BY <2>1, <2>2
<1>10. result' \in {"running", "ok", "error", "crashed"} /\ sync' \in BOOLEAN
  BY DEF Progress
<1> QED
  BY <1>2, <1>5, <1>6, <1>8, <1>9, <1>10 DEF Progress, p

\* A step that stays at a call.
LEMMA Stay ==
  ASSUME Progress, UNCHANGED <<Given, pc, sync>>,
         result' \in {"running", "ok", "error", "crashed"}
  PROVE  Progress'
BY DEF Progress, Given

\* Every step keeps what is known of the calls that were passed.
LEMMA ProgressStep == Progress /\ [Next]_vars => Progress'
<1> SUFFICES ASSUME Progress, [Next]_vars PROVE Progress'
  OBVIOUS
<1>0. sync \in BOOLEAN /\ result \in {"running", "ok", "error", "crashed"}
  BY DEF Progress
<1>1. CASE UNCHANGED vars
  BY <1>0, <1>1, Stay DEF vars, startVars, Given
<1>2. CASE Pass
  BY <1>0, <1>2, Advance DEF Pass, Goes
<1>3. CASE Acquire
  BY <1>0, <1>3, Advance DEF Acquire, Goes
<1>4. CASE DoWithout
  BY <1>0, <1>4, Advance DEF DoWithout, Goes
<1>5. CASE Free
  BY <1>0, <1>5, Advance DEF Free, Goes
<1>6. CASE SetSync
  BY <1>0, <1>6, Advance DEF SetSync, Goes
<1>7. CASE OwnIterations
  BY <1>0, <1>7, Advance DEF OwnIterations, Goes
<1>8. CASE CallFails \/ OwnIterationsRefused \/ WaitFails
  BY <1>0, <1>8, Stay DEF CallFails, OwnIterationsRefused, WaitFails, Fail
<1>9. CASE Crashes \/ ExecuteReturns
  BY <1>0, <1>9, Stay DEF Crashes, ExecuteReturns
<1>10. CASE Measure
  BY <1>0, <1>10, Advance DEF Measure, Goes
<1>11. CASE Reap
  BY <1>0, <1>11, Advance DEF Reap, Goes
<1>12. CASE Release
  BY <1>0, <1>12, Stay DEF Release, Given
<1>13. CASE Measuring \/ Ended
  BY <1>0, <1>13, Stay DEF Measuring, Ended, vars, startVars, Given
<1> QED
  BY <1>1, <1>2, <1>3, <1>4, <1>5, <1>6, <1>7, <1>8, <1>9, <1>10, <1>11, <1>12, <1>13
  DEF Next, RunnerStep

\* The invariant is inductive.
LEMMA StartStep == StartInv /\ [Next]_vars => StartInv'
BY TimeStepInv, RunnerMeasures, ClockStep, ProgressStep DEF StartInv

-----------------------------------------------------------------------------
(* The cores of pinned tasks. *)

\* The remainder of a number less than twice the divisor.
LEMMA SmallMod ==
  ASSUME NEW a \in Nat, NEW n \in Nat \ {0}, a < 2 * n
  PROVE  a % n = IF a < n THEN a ELSE a - n
<1>1. /\ a % n \in 0..(n-1) /\ a \div n \in Int
      /\ a = n * (a \div n) + (a % n)
  OBVIOUS
<1> DEFINE q == a \div n
           r == a % n
<1>2. q \in Int /\ r \in Int /\ 0 <= r /\ r < n /\ a = n * q + r
  BY <1>1
<1> HIDE DEF q, r
<1>3. CASE q = 0
  <2>1. n * q = 0
    BY <1>3
  <2>2. a = r
    BY <1>2, <2>1
  <2> QED
    BY <1>2, <2>2 DEF r
<1>4. CASE q = 1
  <2>1. n * q = n
    BY <1>4
  <2>2. a = n + r
    BY <1>2, <2>1
  <2> QED
    BY <1>2, <2>2 DEF r
<1>5. CASE q >= 2
  <2>1. n * q >= n * 2
    BY <1>2, <1>5
  <2> QED
    BY <1>2, <2>1
<1>6. CASE q < 0
  <2>1. n * q <= n * (-1)
    BY <1>2, <1>6
  <2> QED
    BY <1>2, <2>1
<1> QED
  BY <1>2, <1>3, <1>4, <1>5, <1>6

\* A set of cores, as the assumption about the files has it.
IsCpuSet(set) == set \in (SUBSET (0..(CpuSetSize - 1))) \ {{}}

\* Where there is a core set there are cores.
LEMMA SizePositive ==
  ASSUME NEW set, IsCpuSet(set)
  PROVE  CpuSetSize \in Nat \ {0} /\ \A c \in set : c \in 0..(CpuSetSize - 1)
BY StartupAssumption DEF IsCpuSet

\* How far core x is ahead of core c, which is as far as can be from itself.
Ahead(c, x) == IF x > c THEN x - c ELSE x - c + CpuSetSize

\* The next available core is available, and none is nearer.
LEMMA NextCore ==
  ASSUME NEW set, IsCpuSet(set), NEW c \in 0..(CpuSetSize - 1)
  PROVE  /\ CycleToNextCPU(c, set) \in set
         /\ \A x \in set : Ahead(c, CycleToNextCPU(c, set)) <= Ahead(c, x)
<1> DEFINE N == CpuSetSize
           K == {k \in 1..N : (c + k) % N \in set}
           m == Min(K)
           e == (c + m) % N
<1>1. N \in Nat \ {0} /\ c \in 0..(N - 1) /\ \A x \in set : x \in 0..(N - 1)
  BY SizePositive
<1>2. CycleToNextCPU(c, set) = e
  BY DEF CycleToNextCPU
<1> HIDE DEF N
<1>3. ASSUME NEW x \in set
      PROVE  /\ Ahead(c, x) \in 1..N
             /\ (c + Ahead(c, x)) % N = x
  <2> DEFINE a == c + Ahead(c, x)
  <2>1. x \in 0..(N - 1) /\ Ahead(c, x) = IF x > c THEN x - c ELSE x - c + N
    BY <1>1 DEF Ahead, N
  <2>2. Ahead(c, x) \in 1..N /\ a = IF x > c THEN x ELSE x + N
    BY <1>1, <2>1
  <2>3. a \in Nat /\ a < 2 * N
    BY <1>1, <2>1, <2>2
  <2> HIDE DEF a
  <2>4. a % N = IF a < N THEN a ELSE a - N
    BY <1>1, <2>3, SmallMod
  <2>5. a % N = x
    BY <1>1, <2>1, <2>2, <2>4
  <2> QED
    BY <2>2, <2>5 DEF a
<1>4. K \in SUBSET Nat /\ K # {}
  <2>1. PICK x \in set : TRUE
    BY DEF IsCpuSet
  <2>2. Ahead(c, x) \in K
    BY <1>3
  <2> QED
    BY <1>1, <2>2
<1>5. m \in K /\ \A y \in K : m <= y
  <2> HIDE DEF K
  <2>1. \E x \in K : \A y \in K : x <= y
    BY <1>4, LeastOf
  <2> QED
    BY <2>1 DEF Min
<1>6. e \in set /\ m \in 1..N
  BY <1>5
<1>7. e = IF c + m < N THEN c + m ELSE c + m - N
  <2>1. c + m \in Nat /\ c + m < 2 * N
    <3> HIDE DEF m, e
    <3> QED
      BY <1>1, <1>6
  <2> DEFINE a == c + m
  <2>2. a \in Nat /\ a < 2 * N
    BY <2>1
  <2>3. e = a % N
    OBVIOUS
  <2> HIDE DEF a, m, e
  <2>4. e = IF a < N THEN a ELSE a - N
    BY <1>1, <2>2, <2>3, SmallMod
  <2> QED
    BY <1>1, <1>6, <2>4 DEF a
<1>8. \A x \in set : m <= Ahead(c, x)
  BY <1>3, <1>5
<1> HIDE DEF K, m, e
<1>9. Ahead(c, e) = m
  BY <1>1, <1>6, <1>7 DEF Ahead, N
<1> QED
  BY <1>2, <1>6, <1>8, <1>9

\* CycleToNextCPU from one task to the next, the recursion of PinnedCore.
FirstCore(set) == IF set = {0} THEN 0 ELSE CycleToNextCPU(1, set)
CoreStep(set, g, w) ==
  g = [n \in 1..w |-> IF n = 1 THEN FirstCore(set) ELSE CycleToNextCPU(g[n-1], set)]

\* The recursive function inside PinnedCore exists for every width.
LEMMA CoreExists ==
  ASSUME NEW set, NEW width \in Nat
  PROVE  \E g : CoreStep(set, g, width)
<1> DEFINE T == {w \in Nat : \E g : CoreStep(set, g, w)}
           <1>1. 0 \in T
  <2> DEFINE g == [n \in 1..0 |-> 0]
  <2>1. CoreStep(set, g, 0)
    BY DEF CoreStep
  <2> QED
    BY <2>1
<1>2. ASSUME NEW w \in T PROVE w + 1 \in T
  <2>1. PICK g : CoreStep(set, g, w)
    OBVIOUS
  <2> DEFINE h == [n \in 1..(w+1) |-> IF n = w + 1
                                        THEN IF n = 1 THEN FirstCore(set)
                                             ELSE CycleToNextCPU(g[n-1], set)
                                        ELSE g[n]]
  <2>2. ASSUME NEW n \in 1..(w+1)
        PROVE  h[n] = IF n = 1 THEN FirstCore(set) ELSE CycleToNextCPU(h[n-1], set)
    <3>1. CASE n = w + 1
      <4>1. h[n] = IF n = 1 THEN FirstCore(set) ELSE CycleToNextCPU(g[n-1], set)
        BY <3>1
      <4>2. n # 1 => h[n-1] = g[n-1]
        BY <3>1
      <4> HIDE DEF h
      <4> QED
        BY <4>1, <4>2
    <3>2. CASE n # w + 1
      <4>1. h[n] = g[n] /\ n \in 1..w
        BY <3>2
      <4>2. n # 1 => h[n-1] = g[n-1]
        BY <4>1
      <4> HIDE DEF h
      <4>3. g[n] = IF n = 1 THEN FirstCore(set) ELSE CycleToNextCPU(g[n-1], set)
        BY <2>1, <4>1, Zenon DEF CoreStep
      <4> QED
        BY <4>1, <4>2, <4>3
    <3> QED
      BY <3>1, <3>2
  <2>3. h = [n \in 1..(w+1) |-> h[n]]
    OBVIOUS
  <2>4. CoreStep(set, h, w + 1)
    <3> HIDE DEF h
    <3> QED
      BY <2>2, <2>3, Zenon DEF CoreStep
  <2> HIDE DEF h
  <2> QED
    BY <2>4
<1>3. T = Nat
  <2> HIDE DEF T
  <2>0. T \in SUBSET Nat
    BY DEF T
  <2> QED
    BY <1>1, <1>2, <2>0, FromZeroUp
<1> QED
  BY <1>3

\* It does not matter up to which task the cores are worked out.
LEMMA CoreUnique ==
  ASSUME NEW set, NEW v \in Nat, NEW w \in Nat, NEW g, NEW h,
         CoreStep(set, g, v), CoreStep(set, h, w), NEW j \in Nat, j \in 1..v, j \in 1..w
  PROVE  g[j] = h[j]
<1> DEFINE T == {n \in Nat : n \in 1..v /\ n \in 1..w => g[n] = h[n]}
<1>0. /\ \A n \in 1..v : g[n] = IF n = 1 THEN FirstCore(set) ELSE CycleToNextCPU(g[n-1], set)
      /\ \A n \in 1..w : h[n] = IF n = 1 THEN FirstCore(set) ELSE CycleToNextCPU(h[n-1], set)
  BY Zenon DEF CoreStep
<1>1. 0 \in T
  OBVIOUS
<1>2. ASSUME NEW n \in T PROVE n + 1 \in T
  <2> SUFFICES ASSUME n + 1 \in 1..v, n + 1 \in 1..w PROVE g[n+1] = h[n+1]
    OBVIOUS
  <2>1. CASE n = 0
    <3>1. n + 1 = 1
      BY <2>1
    <3> QED
      BY <1>0, <3>1
  <2>2. CASE n # 0
    <3>1. n + 1 # 1 /\ (n + 1) - 1 = n /\ n \in 1..v /\ n \in 1..w
      BY <2>2
    <3>2. g[n] = h[n]
      BY <3>1
    <3> QED
      BY <1>0, <3>1, <3>2
  <2> QED
    BY <2>1, <2>2
<1>3. T = Nat
  <2> HIDE DEF T
  <2>0. T \in SUBSET Nat
    BY DEF T
  <2> QED
    BY <1>1, <1>2, <2>0, FromZeroUp
<1> QED
  BY <1>3

\* The recursion, as an equation for any task.
LEMMA PinnedStep ==
  ASSUME NEW set
  PROVE  /\ PinnedCore(set, 1) = FirstCore(set)
         /\ \A n \in Nat \ {0} :
              PinnedCore(set, n + 1) = CycleToNextCPU(PinnedCore(set, n), set)
<1> DEFINE G(w) == CHOOSE g : CoreStep(set, g, w)
<1>1. \A w \in Nat : CoreStep(set, G(w), w)
  BY CoreExists, Zenon
<1>2. \A w : PinnedCore(set, w) = G(w)[w]
  BY Zenon DEF PinnedCore, CoreStep, FirstCore
<1> HIDE DEF G
<1>3. \A w \in Nat : \A n \in 1..w :
        G(w)[n] = IF n = 1 THEN FirstCore(set) ELSE CycleToNextCPU(G(w)[n-1], set)
  BY <1>1, Zenon DEF CoreStep
<1>4. PinnedCore(set, 1) = FirstCore(set)
  <2>1. 1 \in Nat /\ 1 \in 1..1
    OBVIOUS
  <2> QED
    BY <1>2, <1>3, <2>1
<1>5. ASSUME NEW n \in Nat \ {0}
      PROVE  PinnedCore(set, n + 1) = CycleToNextCPU(PinnedCore(set, n), set)
  <2>1. n + 1 \in Nat /\ n + 1 \in 1..(n + 1) /\ n + 1 # 1 /\ (n + 1) - 1 = n
        /\ n \in 1..n /\ n \in 1..(n + 1)
    OBVIOUS
  <2>2. G(n+1)[n+1] = CycleToNextCPU(G(n+1)[n], set)
    BY <1>3, <2>1
  <2>3. G(n+1)[n] = G(n)[n]
    BY <1>1, <2>1, CoreUnique
  <2> QED
    BY <1>2, <2>2, <2>3
<1> QED
  BY <1>4, <1>5

\* Every pinned task is on an available core.
LEMMA PinnedAvailable ==
  ASSUME NEW set, IsCpuSet(set)
  PROVE  \A n \in Nat \ {0} : PinnedCore(set, n) \in set
<1> DEFINE T == {n \in Nat : PinnedCore(set, n + 1) \in set}
<1>0. CpuSetSize \in Nat \ {0} /\ \A c \in set : c \in 0..(CpuSetSize - 1)
  BY SizePositive
<1>1. 0 \in T
  <2>1. FirstCore(set) \in set
    <3>1. CASE set = {0}
      BY <3>1 DEF FirstCore
    <3>2. CASE set # {0}
      <4>1. PICK x \in set : x # 0
        BY <3>2 DEF IsCpuSet
      <4>2. 1 \in 0..(CpuSetSize - 1)
        BY <1>0, <4>1
      <4> QED
        BY <3>2, <4>2, NextCore DEF FirstCore
    <3> QED
      BY <3>1, <3>2
  <2>2. PinnedCore(set, 1) \in set /\ 0 + 1 = 1
    BY <2>1, PinnedStep
  <2> QED
    BY <2>2
<1>2. ASSUME NEW n \in T PROVE n + 1 \in T
  <2>1. n + 1 \in Nat \ {0} /\ PinnedCore(set, n + 1) \in 0..(CpuSetSize - 1)
    BY <1>0
  <2>2. PinnedCore(set, (n + 1) + 1) = CycleToNextCPU(PinnedCore(set, n + 1), set)
    BY <2>1, PinnedStep
  <2>3. PinnedCore(set, (n + 1) + 1) \in set
    BY <2>1, <2>2, NextCore
  <2> QED
    BY <2>1, <2>3
<1>3. T = Nat
  <2> HIDE DEF T
  <2>0. T \in SUBSET Nat
    BY DEF T
  <2> QED
    BY <1>1, <1>2, <2>0, FromZeroUp
<1>4. ASSUME NEW n \in Nat \ {0} PROVE PinnedCore(set, n) \in set
  <2>1. n - 1 \in Nat /\ (n - 1) + 1 = n
    OBVIOUS
  <2>2. n - 1 \in T
    BY <1>3, <2>1, Zenon
  <2> QED
    BY <2>1, <2>2
<1> QED
  BY <1>4

\* The place of a core in the order in which they are given out.
Place(set, c) ==
  IF c >= PinnedCore(set, 1) THEN c - PinnedCore(set, 1)
  ELSE c - PinnedCore(set, 1) + CpuSetSize

\* From one task to the next the core is the next one in that order, or the
\* first again when all were given out.
LEMMA NextPlace ==
  ASSUME NEW set, IsCpuSet(set), NEW n \in Nat \ {0}
  PROVE  LET c == PinnedCore(set, n)
             e == PinnedCore(set, n + 1)
         IN  \/ /\ ~ (Place(set, e) <= Place(set, c))
                /\ \A x \in set : Place(set, x) <= Place(set, e) <=>
                                    Place(set, x) <= Place(set, c) \/ x = e
             \/ \A x \in set : /\ Place(set, x) <= Place(set, c)
                               /\ Place(set, x) <= Place(set, e) <=> x = e
<1> DEFINE c == PinnedCore(set, n)
           e == PinnedCore(set, n + 1)
           f == PinnedCore(set, 1)
           N == CpuSetSize
<1>1. N \in Nat \ {0} /\ \A x \in set : x \in 0..(N - 1)
  BY SizePositive
<1>2. c \in set /\ e \in set /\ f \in set
  <2>1. n + 1 \in Nat \ {0} /\ 1 \in Nat \ {0}
    OBVIOUS
  <2> QED
    BY <2>1, PinnedAvailable
<1>3. \A x \in set : Ahead(c, e) <= Ahead(c, x)
  <2>1. e = CycleToNextCPU(c, set)
    BY PinnedStep
  <2>2. c \in 0..(CpuSetSize - 1)
    BY <1>1, <1>2
  <2> HIDE DEF c, e
  <2> QED
    BY <2>1, <2>2, NextCore
<1> HIDE DEF c, e, f, N
<1>4. /\ \A x \in set : Ahead(c, x) = IF x > c THEN x - c ELSE x - c + N
      /\ \A x \in set : Place(set, x) = IF x >= f THEN x - f ELSE x - f + N
  BY DEF Ahead, Place, N, f
<1>5. CASE Place(set, e) > Place(set, c)
  <2>1. ASSUME NEW x \in set
        PROVE  Place(set, x) <= Place(set, e) <=> Place(set, x) <= Place(set, c) \/ x = e
    BY <1>1, <1>2, <1>3, <1>4, <1>5
  <2>2. ~ (Place(set, e) <= Place(set, c))
    BY <1>1, <1>2, <1>4, <1>5
  <2> QED
    BY <2>1, <2>2 DEF c, e
<1>6. CASE ~ (Place(set, e) > Place(set, c))
  <2>1. ASSUME NEW x \in set PROVE Place(set, x) <= Place(set, c)
    BY <1>1, <1>2, <1>3, <1>4, <1>6
  <2>2. e = f
    BY <1>1, <1>2, <1>3, <1>4, <1>6
  <2>3. ASSUME NEW x \in set PROVE Place(set, x) <= Place(set, e) <=> x = e
    BY <1>1, <1>2, <1>4, <2>2
  <2> QED
    BY <2>1, <2>3 DEF c, e
<1> QED
  BY <1>5, <1>6

-----------------------------------------------------------------------------
(* How many tasks a core has. *)

TasksOn(set, n, c) == {i \in 1..n : PinnedCore(set, i) = c}

\* One more task is one more on its core, and none more on another.
LEMMA OneMore ==
  ASSUME NEW set, NEW n \in Nat, NEW c
  PROVE  /\ IsFiniteSet(TasksOn(set, n, c)) /\ Cardinality(TasksOn(set, n, c)) \in Nat
         /\ Cardinality(TasksOn(set, n + 1, c)) =
              Cardinality(TasksOn(set, n, c)) + (IF PinnedCore(set, n + 1) = c THEN 1 ELSE 0)
<1> DEFINE A == TasksOn(set, n, c)
           B == TasksOn(set, n + 1, c)
<1>1. IsFiniteSet(A)
  <2>1. A \in SUBSET (1..n)
    BY DEF TasksOn
  <2>2. IsFiniteSet(1..n)
    BY FS_Interval
  <2> HIDE DEF A
  <2> QED
    BY <2>1, <2>2, FS_Subset
<1>2. Cardinality(A) \in Nat
  BY <1>1, FS_CardinalityType
<1>3. CASE PinnedCore(set, n + 1) = c
  <2>1. B = A \cup {n + 1} /\ n + 1 \notin A
    BY <1>3 DEF TasksOn
  <2> HIDE DEF A, B
  <2>2. Cardinality(B) = Cardinality(A) + 1
    BY <1>1, <2>1, FS_AddElement
  <2> QED
    BY <1>1, <1>2, <1>3, <2>2 DEF A, B
<1>4. CASE PinnedCore(set, n + 1) # c
  <2>1. B = A
    BY <1>4 DEF TasksOn
  <2> HIDE DEF A, B
  <2>2. Cardinality(B) = Cardinality(A) + 0
    BY <1>2, <2>1
  <2> QED
    BY <1>1, <1>2, <1>4, <2>2 DEF A, B
<1> QED
  BY <1>3, <1>4

\* After n tasks every core has q of them, and those given out since the last
\* time round one more.
Even(set, n, q) ==
  \A c \in set : Cardinality(TasksOn(set, n, c)) =
    q + (IF Place(set, c) <= Place(set, PinnedCore(set, n)) THEN 1 ELSE 0)

\* The first core has the first task.
LEMMA EvenStart ==
  ASSUME NEW set, IsCpuSet(set)
  PROVE  Even(set, 1, 0)
<1> DEFINE f == PinnedCore(set, 1)
<1>1. /\ CpuSetSize \in Nat \ {0} /\ \A x \in set : x \in 0..(CpuSetSize - 1)
      /\ f \in set
  BY SizePositive, PinnedAvailable
<1>2. \A x \in set : Place(set, x) <= Place(set, f) <=> x = f
  <2> HIDE DEF f
  <2> QED
    BY <1>1 DEF Place, f
<1>3. ASSUME NEW c \in set
      PROVE  Cardinality(TasksOn(set, 1, c)) = 0 + (IF Place(set, c) <= Place(set, f) THEN 1 ELSE 0)
  <2>1. TasksOn(set, 0, c) = {}
    BY DEF TasksOn
  <2>2. Cardinality(TasksOn(set, 0, c)) = 0
    BY <2>1, FS_EmptySet
  <2>3. Cardinality(TasksOn(set, 0 + 1, c)) =
          Cardinality(TasksOn(set, 0, c)) + (IF PinnedCore(set, 0 + 1) = c THEN 1 ELSE 0)
    <3>1. 0 \in Nat
      OBVIOUS
    <3> QED
      BY <3>1, OneMore, Zenon
  <2>4. 0 + 1 = 1
    OBVIOUS
  <2>5. Cardinality(TasksOn(set, 1, c)) = 0 + (IF f = c THEN 1 ELSE 0)
    BY <2>2, <2>3, <2>4
  <2> HIDE DEF f
  <2> QED
    BY <1>2, <2>5
<1> QED
  BY <1>3 DEF Even

\* The next task goes to the core that is behind, or starts another time round.
LEMMA EvenStep ==
  ASSUME NEW set, IsCpuSet(set), NEW n \in Nat \ {0}, NEW q \in Nat, Even(set, n, q)
  PROVE  \E p \in Nat : Even(set, n + 1, p)
<1> DEFINE c == PinnedCore(set, n)
           e == PinnedCore(set, n + 1)
           On(x) == Cardinality(TasksOn(set, n, x))
           More(x) == Cardinality(TasksOn(set, n + 1, x))
<1>1. \A x \in set : On(x) = q + (IF Place(set, x) <= Place(set, c) THEN 1 ELSE 0)
  BY DEF Even
<1>2. \A x \in set : More(x) = On(x) + (IF e = x THEN 1 ELSE 0)
  BY OneMore
<1> HIDE DEF c, e, On, More
<1>3. CASE /\ ~ (Place(set, e) <= Place(set, c))
           /\ \A x \in set : Place(set, x) <= Place(set, e) <=>
                               Place(set, x) <= Place(set, c) \/ x = e
  <2>1. \A x \in set : More(x) = q + (IF Place(set, x) <= Place(set, e) THEN 1 ELSE 0)
    BY <1>1, <1>2, <1>3
  <2> QED
    BY <2>1 DEF Even, More, e
<1>4. CASE \A x \in set : /\ Place(set, x) <= Place(set, c)
                          /\ Place(set, x) <= Place(set, e) <=> x = e
  <2>1. \A x \in set : More(x) = (q + 1) + (IF Place(set, x) <= Place(set, e) THEN 1 ELSE 0)
    BY <1>1, <1>2, <1>4
  <2>2. q + 1 \in Nat
    OBVIOUS
  <2> QED
    BY <2>1, <2>2 DEF Even, More, e
<1> QED
  BY <1>3, <1>4, NextPlace DEF c, e

\* However many tasks are pinned, no core gets two more than another.
LEMMA PinnedEvenly ==
  ASSUME NEW set, IsCpuSet(set), NEW n \in Nat
  PROVE  \A c, d \in set : Cardinality(TasksOn(set, n, c)) <= Cardinality(TasksOn(set, n, d)) + 1
<1> DEFINE T == {k \in Nat : \E q \in Nat : Even(set, k + 1, q)}
<1>1. 0 \in T
  <2>1. 0 \in Nat /\ 0 + 1 = 1
    OBVIOUS
  <2> QED
    BY <2>1, EvenStart
<1>2. ASSUME NEW k \in T PROVE k + 1 \in T
  <2>1. PICK q \in Nat : Even(set, k + 1, q)
    OBVIOUS
  <2>2. k + 1 \in Nat \ {0}
    OBVIOUS
  <2>3. \E p \in Nat : Even(set, (k + 1) + 1, p)
    BY <2>1, <2>2, EvenStep
  <2> QED
    BY <2>2, <2>3
<1>3. T = Nat
  <2> HIDE DEF T
  <2>0. T \in SUBSET Nat
    BY DEF T
  <2> QED
    BY <1>1, <1>2, <2>0, FromZeroUp
<1>4. CASE n = 0
  <2>1. \A c : TasksOn(set, n, c) = {}
    BY <1>4 DEF TasksOn
  <2>2. \A c : Cardinality(TasksOn(set, n, c)) = 0
    BY <2>1, FS_EmptySet
  <2> QED
    BY <2>2
<1>5. CASE n # 0
  <2>1. n - 1 \in Nat /\ (n - 1) + 1 = n
    BY <1>5
  <2>2. n - 1 \in T
    <3> HIDE DEF T
    <3> QED
      BY <1>3, <2>1
  <2>3. PICK q \in Nat : Even(set, n, q)
    BY <2>1, <2>2
  <2> QED
    BY <2>3 DEF Even
<1> QED
  BY <1>4, <1>5

\* What is known of the file when the tasks are run: every core asked for is
\* available, and with the setting no task has a limit of its own.
LEMMA ExecutingKnows ==
  ASSUME Progress, Executing
  PROVE  /\ IsCpuSet(CpuSet) /\ Count(Doc) \in Nat
         /\ \A i \in 1..Count(Doc) : CoreAvailable(Doc, CpuSet, Benchmarks(Doc)[i])
         /\ sync => \A i \in 1..Count(Doc) : "max_iterations" \notin Keys(Benchmarks(Doc)[i])
<1> DEFINE p == program
           n == Len(p)
<1>1. Shape(p, Doc, CpuSet)
  BY MainShape DEF Progress, Doc, CpuSet
<1>2. IsCpuSet(CpuSet) /\ ArraysAssumed(Doc)
  BY StartupAssumption, Zenon DEF Progress, IsCpuSet, CpuSet, Doc, ArraysAssumed
<1>3. Count(Doc) \in Nat
  BY <1>2, CountIsNat
<1>4. p[pc].op = "execute"
  BY DEF Executing, Current
<1>5. pc \in DOMAIN p /\ \A k \in 1..(pc - 1) : p[k].op \notin {"refuse", "null"}
  BY DEF Progress
<1>6. sync => \A k \in 1..(pc - 1) : p[k].op # "unless_sync"
  BY DEF Progress
<1> HIDE DEF p
<1>7. pc = n
  <2>1. DOMAIN p = 1..n /\ n \in Nat /\ \A k \in 1..(n - 1) : p[k].op \in Calls
    BY <1>1 DEF Shape
  <2> HIDE DEF n
  <2>2. pc \notin 1..(n - 1)
    BY <1>4, <2>1 DEF Calls, Quiet
  <2> QED
    BY <1>5, <2>1, <2>2
<1>8. \A i \in 1..Count(Doc) : CoreAvailable(Doc, CpuSet, Benchmarks(Doc)[i])
  BY <1>1, <1>5, <1>7, Zenon DEF Shape
<1>9. sync => \A i \in 1..Count(Doc) : "max_iterations" \notin Keys(Benchmarks(Doc)[i])
  BY <1>1, <1>6, <1>7, Zenon DEF Shape
<1> QED
  BY <1>2, <1>3, <1>8, <1>9

\* With the setting every task has the limit of the file.
LEMMA ProgressLimits == Progress => SyncMeansEqualLimits
<1> SUFFICES ASSUME Progress, Executing, sync,
                    NEW i \in 1..Count(Doc), NEW j \in 1..Count(Doc)
             PROVE  Task(i).max_iterations = Task(j).max_iterations
  BY DEF SyncMeansEqualLimits
<1>1. ASSUME NEW k \in 1..Count(Doc)
      PROVE  Task(k).max_iterations = Item(Doc, "max_iterations")
  <2>1. "max_iterations" \notin Keys(Benchmarks(Doc)[k])
    BY ExecutingKnows
  <2>2. ItemOr(Benchmarks(Doc)[k], "max_iterations", -1) = -1
    BY <2>1 DEF ItemOr
  <2>3. Task(k).max_iterations =
          Override(ItemOr(Benchmarks(Doc)[k], "max_iterations", -1), Item(Doc, "max_iterations"))
    BY DEF Task, TaskConfig
  <2>4. Override(-1, Item(Doc, "max_iterations")) = Item(Doc, "max_iterations")
    BY DEF Override
  <2> QED
    BY <2>2, <2>3, <2>4
<1> QED
  BY <1>1

\* The core of a task, pinned or not.
LEMMA TaskCore ==
  ASSUME Progress, Executing, NEW i \in 1..Count(Doc)
  PROVE  /\ IsTrue(Doc, "pin_cpus") => Task(i).cpu_core = PinnedCore(CpuSet, i)
         /\ Task(i).cpu_core \in CpuSet \cup {UseDefaultCpuCore}
<1>1. Task(i).cpu_core = IF IsTrue(Doc, "pin_cpus") THEN PinnedCore(CpuSet, i)
                         ELSE ItemOr(Benchmarks(Doc)[i], "cpu_core", UseDefaultCpuCore)
  BY DEF Task, TaskConfig
<1>2. CASE IsTrue(Doc, "pin_cpus")
  <2>1. i \in Nat \ {0} /\ IsCpuSet(CpuSet)
    BY ExecutingKnows
  <2>2. PinnedCore(CpuSet, i) \in CpuSet
    BY <2>1, PinnedAvailable
  <2> QED
    BY <1>1, <1>2, <2>2
<1>3. CASE ~ IsTrue(Doc, "pin_cpus")
  <2>1. CoreAvailable(Doc, CpuSet, Benchmarks(Doc)[i])
    BY ExecutingKnows
  <2> QED
    BY <1>1, <1>3, <2>1 DEF CoreAvailable
<1> QED
  BY <1>2, <1>3

\* The cores of the tasks are spread.
LEMMA ProgressCores == Progress => CoresSpread
<1> DEFINE On(c) == Cardinality({i \in 1..Count(Doc) : Task(i).cpu_core = c})
<1> SUFFICES ASSUME Progress, Executing
             PROVE  /\ \A i \in 1..Count(Doc) : Task(i).cpu_core \in CpuSet \cup {UseDefaultCpuCore}
                    /\ IsTrue(Doc, "pin_cpus") => \A c, d \in CpuSet : On(c) <= On(d) + 1
  BY Zenon DEF CoresSpread
<1>1. \A i \in 1..Count(Doc) : Task(i).cpu_core \in CpuSet \cup {UseDefaultCpuCore}
  BY TaskCore
<1>2. ASSUME IsTrue(Doc, "pin_cpus")
      PROVE  \A c, d \in CpuSet : On(c) <= On(d) + 1
  <2>1. \A c : {i \in 1..Count(Doc) : Task(i).cpu_core = c} = TasksOn(CpuSet, Count(Doc), c)
    BY <1>2, TaskCore DEF TasksOn
  <2>2. \A c : On(c) = Cardinality(TasksOn(CpuSet, Count(Doc), c))
    BY <2>1, Zenon
  <2>3. IsCpuSet(CpuSet) /\ Count(Doc) \in Nat
    BY ExecutingKnows
  <2> HIDE DEF On
  <2> QED
    BY <2>2, <2>3, PinnedEvenly
<1> QED
  BY <1>1, <1>2, Zenon

\* The invariant gives the property.
LEMMA StartInvConfigures == StartInv => TasksConfigured
<1> SUFFICES ASSUME StartInv PROVE TasksConfigured
  OBVIOUS
<1>1. Progress /\ TimeInv /\ now \in 1..MaxTime
  BY DEF StartInv
<1>2. Executing => \A i \in 1..Count(Doc) : Task(i).cpu_core \in -1..(CpuSetSize - 1)
  <2> SUFFICES ASSUME Executing, NEW i \in 1..Count(Doc)
               PROVE  Task(i).cpu_core \in -1..(CpuSetSize - 1)
    OBVIOUS
  <2>1. Task(i).cpu_core \in CpuSet \cup {UseDefaultCpuCore}
    BY <1>1, TaskCore
  <2>2. CpuSetSize \in Nat \ {0} /\ \A c \in CpuSet : c \in 0..(CpuSetSize - 1)
    BY <1>1, ExecutingKnows, SizePositive
  <2> QED
    BY <2>1, <2>2 DEF UseDefaultCpuCore
<1>3. TypeOK
  BY <1>1, <1>2 DEF TypeOK, Progress, TimeInv, TimeTypeOK
<1> QED
  BY <1>1, <1>3, ProgressLimits, ProgressCores DEF TasksConfigured

\* Whatever an accepted file asks for and whatever cores there are: tasks that
\* meet at a barrier have one limit of iterations, each is on an available core
\* or on none, and pinned tasks are spread evenly (parse_config.c:380-512,
\* task_host.c:707-760, parse_config.h:78).
THEOREM StartConfigures == Spec => []TasksConfigured
BY StartInit, StartStep, StartInvConfigures, PTL DEF Spec

-----------------------------------------------------------------------------
(* Walks: how the calls of a function change the length of a stack.           *)

\* What a call does to the length of stack S.
Delta(c, S) ==
  IF c.op = "push" /\ c.res = S THEN 1 ELSE IF c.op = "pop" /\ c.res = S THEN -1 ELSE 0

\* A call that concerns a stack, which is one of the two and of their size.
StackCall(c) == c.op \in {"push", "pop"}
Fits(c) ==
  StackCall(c) => c.res \in Stacks /\ (c.op = "push" => c.size = MaxMemoryAllocationCount)

\* Calls that change the length of stack S from a to b; h[k] is the length
\* before the k-th, and V has the lengths that a change may lead to.
WalksBy(h, s, S, a, b, V) ==
  /\ h \in [1..(Len(s) + 1) -> Int] /\ h[1] = a /\ h[Len(s) + 1] = b
  /\ \A k \in 1..Len(s) : h[k+1] = h[k] + Delta(s[k], S)
  /\ \A k \in 1..Len(s) : StackCall(s[k]) /\ s[k].res = S => h[k+1] \in V

\* Such a walk exists.
Walks(s, S, a, b, V) ==
  /\ IsSeq(s) /\ \A c \in CallsOf(s) : Fits(c)
  /\ \E h : WalksBy(h, s, S, a, b, V)

\* Calls that change no stack.
Idle(s) == IsSeq(s) /\ \A c \in CallsOf(s) : ~ StackCall(c)

\* Two such lists in a row are one.
LEMMA IdleCat ==
  ASSUME NEW s, NEW t, Idle(s), Idle(t)
  PROVE  Idle(s \o t)
BY CatCalls DEF Idle

\* They walk on the spot.
LEMMA IdleWalks ==
  ASSUME NEW s, NEW S, NEW a \in Int, NEW V, Idle(s)
  PROVE  Walks(s, S, a, a, V)
<1>1. Len(s) \in Nat /\ DOMAIN s = 1..Len(s)
  BY CatSeq DEF Idle
<1>2. \A k \in 1..Len(s) : ~ StackCall(s[k])
  BY <1>1 DEF Idle, CallsOf
<1> DEFINE h == [k \in 1..(Len(s) + 1) |-> a]
<1>3. /\ h \in [1..(Len(s) + 1) -> Int] /\ h[1] = a /\ h[Len(s) + 1] = a
      /\ \A k \in 1..Len(s) : h[k+1] = a /\ h[k] = a
  BY <1>1
<1> HIDE DEF h
<1>4. \A k \in 1..Len(s) : h[k+1] = h[k] + Delta(s[k], S)
  BY <1>2, <1>3 DEF Delta, StackCall
<1>5. WalksBy(h, s, S, a, a, V)
  BY <1>2, <1>3, <1>4 DEF WalksBy
<1>6. \A c \in CallsOf(s) : Fits(c)
  BY DEF Idle, Fits
<1> QED
  BY <1>5, <1>6 DEF Walks, Idle

\* One walk after another is a walk.
LEMMA WalksCat ==
  ASSUME NEW s, NEW t, NEW S, NEW a \in Int, NEW b \in Int, NEW c \in Int, NEW V,
         Walks(s, S, a, b, V), Walks(t, S, b, c, V)
  PROVE  Walks(s \o t, S, a, c, V)
<1> DEFINE r == s \o t
           m == Len(s)
           n == Len(t)
<1>1. /\ IsSeq(r) /\ Len(r) = m + n
      /\ m \in Nat /\ n \in Nat
      /\ \A k \in 1..m : r[k] = s[k]
      /\ \A k \in 1..n : r[m + k] = t[k]
  BY CatSeq DEF Walks
<1>2. \A x \in CallsOf(r) : Fits(x)
  BY CatCalls DEF Walks
<1>3. PICK g : WalksBy(g, s, S, a, b, V)
  BY DEF Walks
<1>4. PICK f : WalksBy(f, t, S, b, c, V)
  BY DEF Walks
<1>g. /\ g \in [1..(m + 1) -> Int] /\ g[1] = a /\ g[m + 1] = b
      /\ \A k \in 1..m : g[k+1] = g[k] + Delta(s[k], S)
      /\ \A k \in 1..m : StackCall(s[k]) /\ s[k].res = S => g[k+1] \in V
  BY <1>3 DEF WalksBy
<1>f. /\ f \in [1..(n + 1) -> Int] /\ f[1] = b /\ f[n + 1] = c
      /\ \A k \in 1..n : f[k+1] = f[k] + Delta(t[k], S)
      /\ \A k \in 1..n : StackCall(t[k]) /\ t[k].res = S => f[k+1] \in V
  BY <1>4 DEF WalksBy
<1> HIDE DEF r, m, n
<1> DEFINE h == [k \in 1..(m + n + 1) |-> IF k <= m + 1 THEN g[k] ELSE f[k - m]]
<1>5. h \in [1..(m + n + 1) -> Int]
  <2>1. ASSUME NEW k \in 1..(m + n + 1) PROVE h[k] \in Int
    <3>1. k <= m + 1 => k \in 1..(m + 1)
      BY <1>1
    <3>2. ~(k <= m + 1) => k - m \in 1..(n + 1)
      BY <1>1
    <3> QED
      BY <3>1, <3>2, <1>g, <1>f
  <2> QED
    BY <2>1
<1>6. /\ \A k \in 1..(m+1) : h[k] = g[k]
      /\ \A k \in 1..(n+1) : h[m + k] = f[k]
  <2>1. ASSUME NEW k \in 1..(m+1) PROVE h[k] = g[k]
    BY <1>1
  <2>2. ASSUME NEW k \in 1..(n+1) PROVE h[m + k] = f[k]
    <3>1. m + k \in 1..(m + n + 1) /\ (m + k) - m = k
      BY <1>1
    <3>2. CASE k = 1
      BY <1>1, <3>1, <3>2, <1>g, <1>f
    <3>3. CASE k # 1
      <4>1. ~ (m + k <= m + 1)
        BY <1>1, <3>3
      <4> QED
        BY <3>1, <4>1
    <3> QED
      BY <3>2, <3>3
  <2> QED
    BY <2>1, <2>2
<1> HIDE DEF h
<1>7. ASSUME NEW k \in 1..(m + n)
      PROVE  /\ h[k+1] = h[k] + Delta(r[k], S)
             /\ StackCall(r[k]) /\ r[k].res = S => h[k+1] \in V
  <2>1. CASE k <= m
    <3>1. k \in 1..m /\ k \in 1..(m+1) /\ k + 1 \in 1..(m+1)
      BY <1>1, <2>1
    <3>2. r[k] = s[k] /\ h[k] = g[k] /\ h[k+1] = g[k+1]
      BY <3>1, <1>1, <1>6
    <3> QED
      BY <3>1, <3>2, <1>g
  <2>2. CASE ~ (k <= m)
    <3> DEFINE j == k - m
    <3>1. j \in 1..n /\ j \in 1..(n+1) /\ j + 1 \in 1..(n+1) /\ m + j = k /\ m + (j + 1) = k + 1
      BY <1>1, <2>2
    <3> HIDE DEF j
    <3>2. r[k] = t[j] /\ h[k] = f[j] /\ h[k+1] = f[j+1]
      BY <3>1, <1>1, <1>6
    <3> QED
      BY <3>1, <3>2, <1>f
  <2> QED
    BY <2>1, <2>2
<1>8. h[1] = a /\ h[m + n + 1] = c
  <2>1. 1 \in 1..(m+1) /\ n + 1 \in 1..(n+1) /\ m + (n + 1) = m + n + 1
    BY <1>1
  <2> QED
    BY <2>1, <1>6, <1>g, <1>f
<1>9. WalksBy(h, r, S, a, c, V)
  BY <1>1, <1>5, <1>7, <1>8 DEF WalksBy
<1> QED
  BY <1>1, <1>2, <1>9 DEF Walks, r

\* A single call is a walk of one step.
LEMMA WalksOne ==
  ASSUME NEW c, NEW S, NEW a \in Int, NEW V, Fits(c),
         StackCall(c) /\ c.res = S => a + Delta(c, S) \in V
  PROVE  Walks(<<c>>, S, a, a + Delta(c, S), V)
<1> DEFINE h == [k \in 1..2 |-> IF k = 1 THEN a ELSE a + Delta(c, S)]
           s == <<c>>
<1>1. Len(s) = 1 /\ s[1] = c /\ IsSeq(s) /\ CallsOf(s) = {c}
  BY List1
<1>2. Delta(c, S) \in Int
  BY DEF Delta
<1>3. h \in [1..2 -> Int] /\ h[1] = a /\ h[2] = a + Delta(c, S)
  BY <1>2
<1> HIDE DEF h, s
<1>4. 1..1 = {1} /\ 1 + 1 = 2
  OBVIOUS
<1>5. WalksBy(h, s, S, a, a + Delta(c, S), V)
  BY <1>1, <1>3, <1>4 DEF WalksBy
<1> QED
  BY <1>1, <1>5 DEF Walks, s

\* So is any number of walks, each from where the last one ended.
LEMMA WalksFlatten ==
  ASSUME NEW n \in Nat, NEW ss, DOMAIN ss = 1..n, ss = [i \in 1..n |-> ss[i]],
         NEW S, NEW V, NEW f \in [0..n -> Int],
         \A i \in 1..n : Walks(ss[i], S, f[i-1], f[i], V)
  PROVE  Walks(FlattenSeq(ss), S, f[0], f[n], V)
<1>0. 0 \in 0..n /\ f[0] \in Int
  OBVIOUS
<1>1. Len(ss) = n
  <2>1. ss \in [1..n -> CallsOf(ss)]
    BY DEF CallsOf
  <2>2. ss \in Seq(CallsOf(ss)) /\ DOMAIN ss = 1..Len(ss) /\ Len(ss) \in Nat
    BY <2>1
  <2> QED
    BY <2>2
<1>2. CASE n = 0
  <2>1. FlattenSeq(ss) = ss
    BY <1>1, <1>2 DEF FlattenSeq
  <2>2. IsSeq(ss)
    BY ListIsSeq
  <2>3. CallsOf(ss) = {}
    BY <1>2 DEF CallsOf
  <2>4. Idle(ss)
    BY <2>2, <2>3 DEF Idle
  <2> QED
    BY <1>0, <1>2, <2>1, <2>4, IdleWalks
<1>3. CASE n # 0
  <2> DEFINE F == CHOOSE g : FlattenStep(ss, g, n)
             T == {w \in Nat : w \in 1..n => Walks(F[w], S, f[0], f[w], V)}
  <2>1. FlattenSeq(ss) = F[n]
    BY <1>1, <1>3 DEF FlattenSeq, FlattenStep
  <2>2. FlattenStep(ss, F, n)
    BY FlattenExists
  <2> HIDE DEF F
  <2>3. ASSUME NEW i \in 1..n PROVE F[i] = IF i = 1 THEN ss[i] ELSE F[i-1] \o ss[i]
    BY <2>2, Zenon DEF FlattenStep
  <2>4. 0 \in T
    OBVIOUS
  <2>5. ASSUME NEW w \in T PROVE w + 1 \in T
    <3> SUFFICES ASSUME w + 1 \in 1..n PROVE Walks(F[w+1], S, f[0], f[w+1], V)
      OBVIOUS
    <3>1. w \in Nat /\ (w + 1) - 1 = w /\ w \in 0..n /\ w + 1 \in 0..n
      OBVIOUS
    <3>2. Walks(ss[w+1], S, f[w], f[w+1], V)
      BY <3>1
    <3>3. f[w] \in Int /\ f[w+1] \in Int
      BY <3>1
    <3>4. CASE w = 0
      <4>1. F[w+1] = ss[w+1]
        BY <2>3, <3>4
      <4> QED
        BY <3>2, <3>4, <4>1
    <3>5. CASE w # 0
      <4>1. w \in 1..n /\ w + 1 # 1
        BY <3>1, <3>5
      <4>2. F[w+1] = F[w] \o ss[w+1]
        BY <2>3, <3>1, <4>1
      <4>3. Walks(F[w], S, f[0], f[w], V)
        BY <4>1
      <4> HIDE DEF T
      <4> QED
        BY <1>0, <3>2, <3>3, <4>2, <4>3, WalksCat
    <3> QED
      BY <3>4, <3>5
  <2>6. T = Nat
    <3> HIDE DEF T
    <3>0. T \in SUBSET Nat
      BY DEF T
    <3> QED
      BY <2>4, <2>5, <3>0, FromZeroUp
  <2>7. n \in 1..n
    BY <1>3
  <2> QED
    BY <2>1, <2>6, <2>7
<1> QED
  BY <1>2, <1>3

\* The length of a sequence given by its elements.
LEMMA LengthOf ==
  ASSUME NEW n \in Nat, NEW s, DOMAIN s = 1..n, s = [k \in 1..n |-> s[k]]
  PROVE  Len(s) = n
<1>1. s \in [1..n -> CallsOf(s)]
  BY DEF CallsOf
<1>2. s \in Seq(CallsOf(s)) /\ DOMAIN s = 1..Len(s) /\ Len(s) \in Nat
  BY <1>1
<1> QED
  BY <1>2

\* The stack of the allocations of one kind, and what an action does to it.
StackFor(host) == IF host THEN "host_memory_allocations" ELSE "device_memory_allocations"
Change(a, host) ==
  IF a.host # host THEN 0
  ELSE IF a.type = "malloc" THEN 1 ELSE IF a.type = "free" THEN -1 ELSE 0

One(a, host, type) == IF a.type = type /\ a.host = host THEN 1 ELSE 0
OfType(as, n, host, type) == {i \in 1..n : as[i].type = type /\ as[i].host = host}

\* The actions of a type among one action more.
LEMMA OfTypeStep ==
  ASSUME NEW as, NEW n \in Nat, NEW host, NEW type
  PROVE  /\ Cardinality(OfType(as, n, host, type)) \in Nat
         /\ Cardinality(OfType(as, n + 1, host, type)) =
              Cardinality(OfType(as, n, host, type)) + One(as[n+1], host, type)
<1> DEFINE A == OfType(as, n, host, type)
           B == OfType(as, n + 1, host, type)
           Is(i) == as[i].type = type /\ as[i].host = host
<1>0. A = {i \in 1..n : Is(i)} /\ B = {i \in 1..(n+1) : Is(i)}
  BY DEF OfType
<1> HIDE DEF Is
<1>1. IsFiniteSet(A)
  <2>1. A \in SUBSET (1..n)
    BY DEF OfType
  <2>2. IsFiniteSet(1..n)
    BY FS_Interval
  <2> HIDE DEF A
  <2> QED
    BY <2>1, <2>2, FS_Subset
<1>2. Cardinality(A) \in Nat
  BY <1>1, FS_CardinalityType
<1>3. CASE Is(n+1)
  <2> HIDE DEF A, B
  <2>1. B = A \cup {n + 1} /\ n + 1 \notin A
    BY <1>0, <1>3
  <2>2. Cardinality(B) = Cardinality(A) + 1
    BY <1>1, <2>1, FS_AddElement
  <2> QED
    BY <1>2, <1>3, <2>2 DEF A, B, Is, One
<1>4. CASE ~ Is(n+1)
  <2> HIDE DEF A, B
  <2>1. B = A
    BY <1>0, <1>4
  <2>2. Cardinality(B) = Cardinality(A) + 0
    BY <1>2, <2>1
  <2> QED
    BY <1>2, <1>4, <2>2 DEF A, B, Is, One
<1> QED
  BY <1>3, <1>4

\* An action adds a malloc or a free to the counts, or neither.
LEMMA OneChange ==
  ASSUME NEW a, NEW host
  PROVE  /\ One(a, host, "malloc") \in Nat /\ One(a, host, "free") \in Nat
         /\ One(a, host, "malloc") - One(a, host, "free") = Change(a, host)
<1> DEFINE m == One(a, host, "malloc")
           f == One(a, host, "free")
           c == Change(a, host)
<1>1. CASE a.host # host
  <2>1. m = 0 /\ f = 0 /\ c = 0
    BY <1>1 DEF One, Change
  <2> QED
    BY <2>1
<1>2. CASE a.host = host /\ a.type = "malloc"
  <2>1. m = 1 /\ f = 0 /\ c = 1
    BY <1>2 DEF One, Change
  <2> QED
    BY <2>1
<1>3. CASE a.host = host /\ a.type = "free"
  <2>1. m = 0 /\ f = 1 /\ c = -1
    BY <1>3 DEF One, Change
  <2> QED
    BY <2>1
<1>4. CASE a.host = host /\ a.type \notin {"malloc", "free"}
  <2>1. m = 0 /\ f = 0 /\ c = 0
    BY <1>4 DEF One, Change
  <2> QED
    BY <2>1
<1> QED
  BY <1>1, <1>2, <1>3, <1>4

\* The balance of a list, by these counts.
LEMMA BalanceIs ==
  ASSUME NEW as, NEW n, NEW host
  PROVE  Balance(as, n, host) =
           Cardinality(OfType(as, n, host, "malloc")) - Cardinality(OfType(as, n, host, "free"))
BY Zenon DEF Balance, OfType

\* The balance of a list grows by what each of its actions changes.
LEMMA BalanceStep ==
  ASSUME NEW as, NEW host
  PROVE  /\ Balance(as, 0, host) = 0
         /\ \A n \in Nat : Balance(as, n, host) \in Int
         /\ \A n \in Nat : Balance(as, n + 1, host) =
                             Balance(as, n, host) + Change(as[n+1], host)
<1> DEFINE M(n) == Cardinality(OfType(as, n, host, "malloc"))
           F(n) == Cardinality(OfType(as, n, host, "free"))
           B(n) == Balance(as, n, host)
           up(n) == One(as[n+1], host, "malloc")
           down(n) == One(as[n+1], host, "free")
<1>1. \A n : B(n) = M(n) - F(n)
  BY BalanceIs, Zenon
<1>2. M(0) = 0 /\ F(0) = 0
  <2>1. \A type : OfType(as, 0, host, type) = {}
    BY DEF OfType
  <2> QED
    BY <2>1, FS_EmptySet
<1>3. \A n \in Nat : M(n) \in Nat /\ M(n + 1) = M(n) + up(n)
  BY OfTypeStep
<1>4. \A n \in Nat : F(n) \in Nat /\ F(n + 1) = F(n) + down(n)
  BY OfTypeStep
<1>5. \A n \in Nat : /\ up(n) \in Nat /\ down(n) \in Nat
                    /\ up(n) - down(n) = Change(as[n+1], host)
  BY OneChange
<1>t. \A n \in Nat : up(n) \in Nat /\ down(n) \in Nat
  BY DEF One
<1> HIDE DEF M, F, B, up, down
<1>6. B(0) = 0
  <2>1. B(0) = M(0) - F(0)
    BY <1>1
  <2> QED
    BY <1>2, <2>1
<1>7. \A n \in Nat : B(n) \in Int /\ B(n + 1) = B(n) + Change(as[n+1], host)
  <2> TAKE n \in Nat
  <2>1. n + 1 \in Nat
    OBVIOUS
  <2>2. B(n) = M(n) - F(n) /\ B(n + 1) = M(n + 1) - F(n + 1)
    BY <1>1
  <2>3. M(n) - F(n) \in Int /\ M(n + 1) - F(n + 1) \in Int
    BY <1>3, <1>4, <2>1
  <2>4. B(n) \in Int /\ B(n + 1) \in Int
    BY <2>2, <2>3, Zenon
  <2>5. M(n) \in Int /\ F(n) \in Int /\ up(n) \in Int /\ down(n) \in Int
    BY <1>3, <1>4, <1>t
  <2>6. (M(n) + up(n)) - (F(n) + down(n)) = (M(n) - F(n)) + (up(n) - down(n))
    BY <2>5
  <2>7. B(n + 1) = (M(n) + up(n)) - (F(n) + down(n))
    BY <1>3, <1>4, <2>2, Zenon
  <2>8. B(n + 1) = B(n) + Change(as[n+1], host)
    BY <1>5, <2>2, <2>6, <2>7, Zenon
  <2> QED
    BY <2>4, <2>8
<1> QED
  BY <1>6, <1>7, Zenon DEF B

-----------------------------------------------------------------------------
(* The program of a list of actions.                                          *)

\* The form in which PluginAssumption has the parameters.
Sequence(s) == Len(s) \in Nat /\ DOMAIN s = 1..Len(s)
GoodInfo(input) ==
  /\ ParseSettings(input.json) /\ ParseActionList(input.json)
       => Sequence(Item(input.json, "actions"))
  /\ \A i \in DOMAIN Actions(input) : Actions(input)[i].host \in BOOLEAN

\* The lengths, relative to the first, that the mallocs and frees of a list lead to.
Lengths(as, host) ==
  IF MallocActionExists(as) THEN {Balance(as, n, host) : n \in 1..Len(as)} ELSE {}

\* The calls of the i-th action in Execute.
ActionCalls(as, i, s) ==
  CASE as[i].type = "kernel"      -> ExecuteKernelAction(as, i, s)
    [] as[i].type = "malloc"      -> ExecuteMallocAction(as[i])
    [] as[i].type = "free"        -> ExecuteFreeAction(as[i])
    [] as[i].type = "memset"      -> ExecuteMemsetAction(as[i], s)
    [] as[i].type = "memcpy"      -> ExecuteMemcpyAction(as[i], s)
    [] as[i].type = "synchronize" -> ExecuteSyncAction(as[i], s)

\* Execute makes the calls of the actions one after the other, and waits.
LEMMA ExecuteIs ==
  ASSUME NEW input
  PROVE  Execute(input) =
           FlattenSeq([i \in DOMAIN Actions(input) |->
                         ActionCalls(Actions(input), i, StreamOf(input))])
             \o <<Wait(StreamOf(input), <<>>)>>
BY Zenon DEF Execute, OfAllActions, ActionCalls

\* Accepted lists have no other kinds of action.
ActionTypes == {"kernel", "malloc", "free", "memset", "memcpy", "synchronize"}

\* The actions of a list that the parser took are of these kinds; a list that it
\* refused has none.
LEMMA AcceptedActions ==
  ASSUME NEW input, GoodInfo(input)
  PROVE  LET as == Actions(input)
         IN  /\ Sequence(as) /\ as = [i \in 1..Len(as) |-> as[i]]
             /\ \A i \in 1..Len(as) : as[i].type \in ActionTypes /\ as[i].host \in BOOLEAN
<1> DEFINE as == Actions(input)
           list == Item(input.json, "actions")
<1>1. CASE Accepted(input)
  <2>1. as = [i \in DOMAIN list |-> ActionConfig(list[i])]
    BY <1>1, Zenon DEF Actions
  <2>2. Sequence(list)
    BY <1>1 DEF GoodInfo, Accepted
  <2>3. \A i \in 1..Len(list) : ParseSingleAction(list[i], input.one_dimensional)
    <3>1. \A a \in ToSet(list) : ParseSingleAction(a, input.one_dimensional)
      BY <1>1, Zenon DEF Accepted
    <3> HIDE DEF list
    <3> QED
      BY <2>2, <3>1 DEF ToSet, Sequence
  <2>4. ASSUME NEW i \in 1..Len(list)
        PROVE  ActionConfig(list[i]).type \in ActionTypes
    <3>1. ParseSingleAction(list[i], input.one_dimensional)
      BY <2>3
    <3> HIDE DEF list
    <3>2. Item(list[i], "type") \in ActionTypes
      BY <3>1 DEF ParseSingleAction, ActionTypes
    <3>3. ActionConfig(list[i]).type = Item(list[i], "type")
      BY DEF ActionConfig
    <3> QED
      BY <3>2, <3>3
  <2>5. \A i \in DOMAIN as : as[i].host \in BOOLEAN
    BY DEF GoodInfo
  <2> HIDE DEF as, list
  <2>6. DOMAIN as = 1..Len(list) /\ Len(list) \in Nat
        /\ \A i \in 1..Len(list) : as[i] = ActionConfig(list[i])
    BY <2>1, <2>2 DEF Sequence
  <2>7. as = [i \in 1..Len(list) |-> as[i]]
    BY <2>1, <2>2 DEF Sequence
  <2>8. Len(as) = Len(list)
    <3> DEFINE n == Len(list)
    <3>1. n \in Nat /\ DOMAIN as = 1..n /\ as = [i \in 1..n |-> as[i]]
      BY <2>6, <2>7
    <3> HIDE DEF n
    <3>2. Len(as) = n
      BY <3>1, LengthOf
    <3> QED
      BY <3>2 DEF n
  <2> QED
    BY <2>4, <2>5, <2>6, <2>7, <2>8 DEF as, Sequence
<1>2. CASE ~ Accepted(input)
  <2>1. as = <<>>
    BY <1>2, Zenon DEF Actions
  <2> QED
    BY <2>1 DEF Sequence
<1> QED
  BY <1>1, <1>2

\* None of these calls touches a stack.
LEMMA IdleKinds ==
  \A r, s, src, dst, n, ok, fail :
    /\ ~ StackCall(Compute(dst)) /\ ~ StackCall(Kernel(s, dst)) /\ ~ StackCall(Wait(s, fail))
    /\ ~ StackCall(Get(r, fail)) /\ ~ StackCall(Check(fail)) /\ ~ StackCall(Test(ok, fail))
    /\ ~ StackCall(Copy(s, src, dst, fail)) /\ ~ StackCall(CopyNow(src, dst, fail))
    /\ ~ StackCall(Sized(Reset(s, dst, fail), n))
    /\ ~ StackCall(Sized(Copy(s, src, dst, fail), n))
    /\ ~ StackCall(Sized(CopyNow(src, dst, fail), n))
BY DEF StackCall, Compute, Kernel, Wait, Get, Check, Test, Refuse, Copy, CopyNow,
       Sized, Reset, Call

\* A list of one of them.
LEMMA Idle1 == \A a : ~ StackCall(a) => Idle(<<a>>)
BY List1 DEF Idle

\* A list of two.
LEMMA Idle2 == \A a, b : ~ StackCall(a) /\ ~ StackCall(b) => Idle(<<a, b>>)
BY List2 DEF Idle

\* The empty list.
LEMMA IdleNone == Idle(<<>>)
BY EmptyIsSeq, EmptyCalls DEF Idle

\* Lists of lists of them.
LEMMA IdleFlatten ==
  ASSUME NEW n \in Nat, NEW ss, DOMAIN ss = 1..n, ss = [i \in 1..n |-> ss[i]],
         \A i \in 1..n : Idle(ss[i])
  PROVE  Idle(FlattenSeq(ss))
<1>1. \A i \in 1..n : IsSeq(ss[i])
  BY DEF Idle
<1>2. IsSeq(FlattenSeq(ss)) /\ CallsOf(FlattenSeq(ss)) = UNION {CallsOf(ss[i]) : i \in 1..n}
  BY <1>1, FlattenCalls
<1> QED
  BY <1>2 DEF Idle

\* A stack is the one for one kind of allocation.
LEMMA StackNames ==
  /\ Stacks = {StackFor(TRUE), StackFor(FALSE)}
  /\ \A a : \A h \in BOOLEAN : a.host \in BOOLEAN =>
       (StackOf(a) = StackFor(h) <=> a.host = h) /\ StackOf(a) \in Stacks
BY DEF Stacks, StackFor, StackOf

\* An action of a list moves the stacks as it moves the balance.
LEMMA ActionWalks ==
  ASSUME NEW as, NEW s, NEW host \in BOOLEAN, NEW i \in Nat, i \in 1..Len(as), Sequence(as),
         as[i].type \in ActionTypes, as[i].host \in BOOLEAN
  PROVE  Walks(ActionCalls(as, i, s), StackFor(host),
               Balance(as, i - 1, host), Balance(as, i, host), Lengths(as, host))
<1> DEFINE a == as[i]
           S == StackFor(host)
           V == Lengths(as, host)
           b0 == Balance(as, i - 1, host)
           b1 == Balance(as, i, host)
<1>1. b0 \in Int /\ b1 \in Int /\ b1 = b0 + Change(a, host)
  <2>1. i - 1 \in Nat /\ (i - 1) + 1 = i
    OBVIOUS
  <2>2. Balance(as, i - 1, host) \in Int /\ Balance(as, i, host) \in Int
    BY <2>1, BalanceStep
  <2>3. Balance(as, (i - 1) + 1, host) = Balance(as, i - 1, host) + Change(as[(i-1)+1], host)
    BY <2>1, BalanceStep, Zenon
  <2> QED
    BY <2>1, <2>2, <2>3
<1>2. CASE a.type = "malloc"
  <2> DEFINE c == Push(StackOf(a), MaxMemoryAllocationCount, <<>>)
  <2>1. ActionCalls(as, i, s) = <<c>>
    BY <1>2 DEF ActionCalls, ExecuteMallocAction
  <2>2. c.op = "push" /\ c.res = StackOf(a) /\ c.size = MaxMemoryAllocationCount
    BY DEF Push, Call
  <2>3. b1 \in V
    BY <1>2 DEF Lengths, MallocActionExists, Sequence
  <2> HIDE DEF a, b0, b1, S, V, c
  <2>4. Delta(c, S) = Change(a, host)
    BY <1>2, <2>2, StackNames DEF Delta, Change, S, a
  <2>5. Fits(c)
    BY <2>2, StackNames DEF Fits, a
  <2>6. Walks(<<c>>, S, b0, b0 + Delta(c, S), V)
    BY <1>1, <2>3, <2>4, <2>5, WalksOne
  <2> QED
    BY <1>1, <2>1, <2>4, <2>6, Zenon DEF b0, b1, S, V
<1>3. CASE a.type = "free"
  <2> DEFINE c == Pop(StackOf(a))
  <2>1. ActionCalls(as, i, s) = <<c>>
    BY <1>3 DEF ActionCalls, ExecuteFreeAction
  <2>2. c.op = "pop" /\ c.res = StackOf(a)
    BY DEF Pop, Call
  <2>3. b1 \in V
    BY <1>3 DEF Lengths, MallocActionExists, Sequence
  <2> HIDE DEF a, b0, b1, S, V, c
  <2>4. Delta(c, S) = Change(a, host)
    BY <1>3, <2>2, StackNames DEF Delta, Change, S, a
  <2>5. Fits(c)
    BY <2>2, StackNames DEF Fits, a
  <2>6. Walks(<<c>>, S, b0, b0 + Delta(c, S), V)
    BY <1>1, <2>3, <2>4, <2>5, WalksOne
  <2> QED
    BY <1>1, <2>1, <2>4, <2>6, Zenon DEF b0, b1, S, V
<1>4. CASE a.type \notin {"malloc", "free"}
  <2>1. Idle(ActionCalls(as, i, s))
    <3>1. CASE a.type = "kernel"
      <4>1. ActionCalls(as, i, s) = ExecuteKernelAction(as, i, s)
        BY <3>1 DEF ActionCalls
      <4> QED
        BY <4>1, IdleKinds, Idle2, Zenon DEF ExecuteKernelAction
    <3>2. CASE a.type = "memset"
      <4>1. ActionCalls(as, i, s) = ExecuteMemsetAction(a, s)
        BY <3>2 DEF ActionCalls
      <4> QED
        BY <4>1, IdleKinds, Idle1, Zenon DEF ExecuteMemsetAction
    <3>3. CASE a.type = "memcpy"
      <4>1. ActionCalls(as, i, s) = ExecuteMemcpyAction(a, s)
        BY <3>3 DEF ActionCalls
      <4>2. \E c : ExecuteMemcpyAction(a, s) = <<c>> /\ ~ StackCall(c)
        BY IdleKinds, Zenon DEF ExecuteMemcpyAction
      <4> QED
        BY <4>1, <4>2, Idle1
    <3>4. CASE a.type = "synchronize"
      <4>1. ActionCalls(as, i, s) = ExecuteSyncAction(a, s)
        BY <3>4 DEF ActionCalls
      <4> QED
        BY <4>1, IdleKinds, Idle1, Zenon DEF ExecuteSyncAction
    <3> QED
      BY <1>4, <3>1, <3>2, <3>3, <3>4 DEF ActionTypes
  <2>2. Change(a, host) = 0
    BY <1>4 DEF Change
  <2> HIDE DEF b0, b1, S, V
  <2>3. b1 = b0
    BY <1>1, <2>2
  <2> QED
    BY <1>1, <2>1, <2>3, IdleWalks DEF b0, b1, S, V
<1> QED
  BY <1>2, <1>3, <1>4

\* So does Execute, from the first action to the last (stream_action.cu).
LEMMA ExecuteWalks ==
  ASSUME NEW input, GoodInfo(input), NEW host \in BOOLEAN
  PROVE  LET as == Actions(input)
         IN  Walks(Execute(input), StackFor(host), 0, Balance(as, Len(as), host),
                   Lengths(as, host))
<1> DEFINE as == Actions(input)
           s == StreamOf(input)
           S == StackFor(host)
           V == Lengths(as, host)
           n == Len(as)
           ss == [i \in DOMAIN as |-> ActionCalls(as, i, s)]
           w == <<Wait(s, <<>>)>>
           f == [k \in 0..n |-> Balance(as, k, host)]
<1>1. Execute(input) = FlattenSeq(ss) \o w
  BY ExecuteIs, Zenon
<1>2. /\ Sequence(as)
      /\ \A i \in 1..n : as[i].type \in ActionTypes /\ as[i].host \in BOOLEAN
  BY AcceptedActions
<1>3. Idle(w)
  BY IdleKinds, Idle1, Zenon
<1> HIDE DEF as, s, w, S, V
<1>4. n \in Nat /\ DOMAIN as = 1..n
  BY <1>2 DEF Sequence
<1> HIDE DEF n
<1>5. DOMAIN ss = 1..n /\ ss = [i \in 1..n |-> ss[i]] /\ \A i \in 1..n : ss[i] = ActionCalls(as, i, s)
  BY <1>4
<1>6. /\ f \in [0..n -> Int] /\ f[0] = 0 /\ f[n] = Balance(as, n, host)
      /\ \A i \in 1..n : f[i-1] = Balance(as, i - 1, host) /\ f[i] = Balance(as, i, host)
  <2>0. \A k \in 0..n : k \in Nat
    BY <1>4
  <2>1. \A k \in 0..n : Balance(as, k, host) \in Int
    BY <2>0, BalanceStep, Zenon
  <2>2. 0 \in 0..n /\ n \in 0..n /\ \A i \in 1..n : i - 1 \in 0..n /\ i \in 0..n
    BY <1>4
  <2>3. /\ f[0] = Balance(as, 0, host) /\ f[n] = Balance(as, n, host)
        /\ \A i \in 1..n : f[i-1] = Balance(as, i - 1, host) /\ f[i] = Balance(as, i, host)
    BY <2>2, Zenon
  <2> QED
    BY <2>1, <2>3, BalanceStep
<1> HIDE DEF ss, f
<1>7. ASSUME NEW i \in 1..n PROVE Walks(ss[i], S, f[i-1], f[i], V)
  <2>0. i \in Nat
    BY <1>4
  <2>1. i \in 1..Len(as)
    BY Zenon DEF n
  <2>2. Walks(ActionCalls(as, i, s), StackFor(host), Balance(as, i - 1, host),
              Balance(as, i, host), Lengths(as, host))
    BY <1>2, <2>0, <2>1, ActionWalks
  <2> QED
    BY <1>5, <1>6, <2>2, Zenon DEF S, V
<1>8. Walks(FlattenSeq(ss), S, f[0], f[n], V)
  BY <1>4, <1>5, <1>6, <1>7, WalksFlatten
<1>9. f[0] \in Int /\ f[n] \in Int
  <2>1. 0 \in 0..n /\ n \in 0..n
    BY <1>4
  <2> QED
    BY <1>6, <2>1
<1>10. Walks(w, S, f[n], f[n], V)
  BY <1>3, <1>9, IdleWalks
<1>11. Walks(FlattenSeq(ss) \o w, S, f[0], f[n], V)
  BY <1>8, <1>9, <1>10, WalksCat
<1> QED
  BY <1>1, <1>6, <1>11, Zenon DEF as, S, V, n

\* The assumptions on the parameters give the form of each of them.
LEMMA InfosGood ==
  \A x \in DOMAIN Infos : GoodInfo(Infos[x])
<1> TAKE x \in DOMAIN Infos
<1> DEFINE input == Infos[x]
           list == Item(input.json, "actions")
<1>1. /\ ParseSettings(input.json) /\ ParseActionList(input.json)
           => Len(list) \in Nat /\ DOMAIN list = 1..Len(list)
      /\ \A i \in DOMAIN Actions(input) : Actions(input)[i].host \in BOOLEAN
  BY PluginAssumption, Zenon
<1> HIDE DEF input
<1> QED
  BY <1>1, Zenon DEF GoodInfo, Sequence, input

\* A list of such calls given by its elements.
LEMMA FunctionIdle ==
  ASSUME NEW n \in Nat, NEW s, DOMAIN s = 1..n, s = [k \in 1..n |-> s[k]],
         \A k \in 1..n : ~ StackCall(s[k])
  PROVE  Idle(s)
<1>1. IsSeq(s)
  BY ListIsSeq
<1> QED
  BY <1>1 DEF Idle, CallsOf

\* Acquisitions in a row touch no stack.
LEMMA GetsIdle ==
  ASSUME NEW n \in Nat, NEW rs, DOMAIN rs = 1..n, NEW fail
  PROVE  Idle(Gets(rs, fail))
<1> DEFINE s == Gets(rs, fail)
<1>1. s = [k \in 1..n |-> Get(rs[k], fail)]
  BY Zenon DEF Gets
<1>2. DOMAIN s = 1..n /\ s = [k \in 1..n |-> s[k]] /\ \A k \in 1..n : s[k] = Get(rs[k], fail)
  BY <1>1
<1> HIDE DEF s
<1>3. \A k \in 1..n : ~ StackCall(s[k])
  BY <1>2, IdleKinds
<1>4. Idle(s)
  BY <1>2, <1>3, FunctionIdle
<1> QED
  BY <1>4 DEF s

\* CopyOut copies and waits.
LEMMA CopyOutIdle ==
  ASSUME NEW as, Sequence(as)
  PROVE  Idle(CopyOut(as))
<1> DEFINE n == Len(as)
           ss == [i \in DOMAIN as |-> CopyKernelActionMemoryOut(as, i)]
           w == <<Wait("stream", <<>>)>>
<1>1. CopyOut(as) = FlattenSeq(ss) \o w
  BY Zenon DEF CopyOut, OfAllActions
<1>2. Idle(w)
  BY IdleKinds, Idle1, Zenon
<1>3. n \in Nat /\ DOMAIN as = 1..n
  BY DEF Sequence
<1>4. ASSUME NEW i PROVE Idle(CopyKernelActionMemoryOut(as, i))
  <2>1. CASE i \in KernelActions(as)
    <3> DEFINE c(b) == Copy("stream", DeviceTimesOf(i)[b], HostTimesOf(i)[b], <<>>)
               t == [b \in 1..2 |-> c(b)]
    <3>1. CopyKernelActionMemoryOut(as, i) = t
      BY <2>1, Zenon DEF CopyKernelActionMemoryOut
    <3>2. \A b : ~ StackCall(c(b))
      BY IdleKinds, Zenon
    <3> HIDE DEF c
    <3>3. DOMAIN t = 1..2 /\ t = [b \in 1..2 |-> t[b]] /\ \A b \in 1..2 : ~ StackCall(t[b])
      BY <3>2
    <3> HIDE DEF t
    <3>4. Idle(t)
      BY <3>3, FunctionIdle
    <3> QED
      BY <3>1, <3>4, Zenon
  <2>2. CASE i \notin KernelActions(as)
    <3>1. CopyKernelActionMemoryOut(as, i) = <<>>
      BY <2>2, Zenon DEF CopyKernelActionMemoryOut
    <3> QED
      BY <3>1, IdleNone, Zenon
  <2> QED
    BY <2>1, <2>2
<1> HIDE DEF n, w
<1>5. DOMAIN ss = 1..n /\ ss = [i \in 1..n |-> ss[i]] /\ \A i \in 1..n : Idle(ss[i])
  BY <1>3, <1>4
<1> HIDE DEF ss
<1>6. Idle(FlattenSeq(ss))
  BY <1>3, <1>5, IdleFlatten
<1> QED
  BY <1>1, <1>2, <1>6, IdleCat, Zenon

\* The parser of the parameters tests and acquires.
LEMMA ParseIdle ==
  ASSUME NEW input, GoodInfo(input)
  PROVE  Idle(ParseParameters(input))
<1> DEFINE list == Item(input.json, "actions")
           failed == <<"actions">> \o Cleanup(<<>>)
           t == [i \in DOMAIN list |->
                   Test(ParseSingleAction(list[i], input.one_dimensional), failed)]
           a == <<Test(ParseSettings(input.json), Cleanup(<<>>))>>
           b == <<Get("stream", Cleanup(<<>>)),
                  Test(ParseActionList(input.json), Cleanup(<<>>))>>
           c == <<Get("actions", Cleanup(<<>>))>>
<1>1. ParseParameters(input) =
        a \o (IF ~ ParseSettings(input.json) THEN <<>>
              ELSE b \o (IF ~ ParseActionList(input.json) THEN <<>> ELSE c \o t))
  BY Zenon DEF ParseParameters, Item
<1>2. Idle(a) /\ Idle(b) /\ Idle(c)
  BY IdleKinds, Idle1, Idle2, Zenon
<1>3. ASSUME ParseSettings(input.json), ParseActionList(input.json) PROVE Idle(t)
  <2> DEFINE n == Len(list)
             e(i) == Test(ParseSingleAction(list[i], input.one_dimensional), failed)
  <2>1. n \in Nat /\ DOMAIN list = 1..n
    BY <1>3 DEF GoodInfo, Sequence
  <2>2. \A i : ~ StackCall(e(i))
    BY IdleKinds, Zenon
  <2>3. t = [i \in DOMAIN list |-> e(i)]
    OBVIOUS
  <2> HIDE DEF e, t, n
  <2>4. DOMAIN t = 1..n /\ t = [i \in 1..n |-> t[i]] /\ \A i \in 1..n : ~ StackCall(t[i])
    BY <2>1, <2>2, <2>3
  <2> QED
    BY <2>1, <2>4, FunctionIdle
<1> HIDE DEF a, b, c, t
<1> QED
  BY <1>1, <1>2, <1>3, IdleCat, IdleNone, Zenon

\* Before a walk they change nothing.
LEMMA IdleThen ==
  ASSUME NEW s, NEW t, NEW S, NEW a \in Int, NEW b \in Int, NEW V, Idle(s), Walks(t, S, a, b, V)
  PROVE  Walks(s \o t, S, a, b, V)
BY IdleWalks, WalksCat

\* Nor after one.
LEMMA ThenIdle ==
  ASSUME NEW s, NEW t, NEW S, NEW a \in Int, NEW b \in Int, NEW V, Walks(s, S, a, b, V), Idle(t)
  PROVE  Walks(s \o t, S, a, b, V)
BY IdleWalks, WalksCat

\* The allocations made beforehand: one more on each stack at a time.
LEMMA PreallocateWalks ==
  ASSUME NEW as, NEW host \in BOOLEAN
  PROVE  Walks(PreallocateFreeActionBuffers(as), StackFor(host), 0, InitialAllocationCount,
               1..InitialAllocationCount)
<1> DEFINE n == InitialAllocationCount
           S == StackFor(host)
           x == Push("device_memory_allocations", MaxMemoryAllocationCount, Cleanup(as))
           y == Push("host_memory_allocations", MaxMemoryAllocationCount, Cleanup(as))
           ss == [i \in 1..n |-> <<x, y>>]
           f == [i \in 0..n |-> i]
           V == 1..n
<1>1. PreallocateFreeActionBuffers(as) = FlattenSeq(ss)
  BY Zenon DEF PreallocateFreeActionBuffers
<1>2. /\ x.op = "push" /\ x.res = "device_memory_allocations" /\ x.size = MaxMemoryAllocationCount
      /\ y.op = "push" /\ y.res = "host_memory_allocations" /\ y.size = MaxMemoryAllocationCount
  BY DEF Push, Call
<1> HIDE DEF x, y
<1>3. Fits(x) /\ Fits(y)
  BY <1>2 DEF Fits, Stacks
<1>4. /\ DOMAIN ss = 1..n /\ ss = [i \in 1..n |-> ss[i]] /\ \A i \in 1..n : ss[i] = <<x, y>>
  OBVIOUS
<1>5. /\ f \in [0..n -> Int] /\ f[0] = 0 /\ f[n] = n
      /\ \A i \in 1..n : f[i-1] = i - 1 /\ f[i] = i
  BY AllocationAssumption
<1>6. n \in Nat
  BY AllocationAssumption
<1>7. <<x, y>> = <<x>> \o <<y>>
  <2> DEFINE t == <<x>>
             u == <<y>>
             v == <<x, y>>
             w == t \o u
  <2>1. t \in Seq({x, y}) /\ u \in Seq({x, y}) /\ v \in Seq({x, y})
    OBVIOUS
  <2>2. Len(t) = 1 /\ Len(u) = 1 /\ t[1] = x /\ u[1] = y
    OBVIOUS
  <2>3. Len(v) = 2 /\ v[1] = x /\ v[2] = y
    OBVIOUS
  <2> HIDE DEF t, u, v
  <2>4. w \in Seq({x, y}) /\ Len(w) = 2 /\ w[1] = x /\ w[2] = y
    <3>1. IsSeq(t) /\ IsSeq(u)
      BY <2>1, Zenon DEF IsSeq
    <3>2. /\ Len(w) = Len(t) + Len(u)
          /\ \A k \in 1..Len(t) : w[k] = t[k]
          /\ \A k \in 1..Len(u) : w[Len(t) + k] = u[k]
      BY <3>1, CatSeq
    <3>3. w \in Seq({x, y})
      BY <2>1
    <3> HIDE DEF w
    <3> QED
      BY <2>2, <3>2, <3>3
  <2>5. v = w
    BY <2>1, <2>3, <2>4
  <2> QED
    BY <2>5 DEF t, u, v
<1> HIDE DEF ss, f
<1>8. ASSUME NEW i \in 1..n PROVE Walks(ss[i], S, f[i-1], f[i], V)
  <2>1. i - 1 \in Int /\ i \in Int /\ (i - 1) + 1 = i /\ (i - 1) + 0 = i - 1 /\ i + 0 = i
        /\ i \in V
    OBVIOUS
  <2> HIDE DEF V
  <2>2. CASE host
    <3>1. Delta(x, S) = 0 /\ Delta(y, S) = 1 /\ x.res # S
      BY <1>2, <2>2 DEF Delta, StackFor
    <3>2. Walks(<<x>>, S, i - 1, (i - 1) + Delta(x, S), V)
      BY <1>3, <2>1, <3>1, WalksOne
    <3>3. Walks(<<y>>, S, i - 1, (i - 1) + Delta(y, S), V)
      BY <1>3, <2>1, <3>1, WalksOne
    <3>4. Walks(<<x>> \o <<y>>, S, i - 1, i, V)
      BY <2>1, <3>1, <3>2, <3>3, WalksCat
    <3> QED
      BY <1>4, <1>5, <1>7, <3>4
  <2>3. CASE ~ host
    <3>1. Delta(x, S) = 1 /\ Delta(y, S) = 0 /\ y.res # S
      BY <1>2, <2>3 DEF Delta, StackFor
    <3>2. Walks(<<x>>, S, i - 1, (i - 1) + Delta(x, S), V)
      BY <1>3, <2>1, <3>1, WalksOne
    <3>3. Walks(<<y>>, S, i, i + Delta(y, S), V)
      BY <1>3, <2>1, <3>1, WalksOne
    <3>4. Walks(<<x>> \o <<y>>, S, i - 1, i, V)
      BY <2>1, <3>1, <3>2, <3>3, WalksCat
    <3> QED
      BY <1>4, <1>5, <1>7, <3>4
  <2> QED
    BY <2>2, <2>3
<1> HIDE DEF n, V, S
<1>9. Walks(FlattenSeq(ss), S, f[0], f[n], V)
  BY <1>4, <1>5, <1>6, <1>8, WalksFlatten
<1> QED
  BY <1>1, <1>5, <1>9, Zenon DEF n, V, S

\* The memory for the kernels of a list is only acquired.
LEMMA KernelMemoryIdle ==
  ASSUME NEW as, Sequence(as)
  PROVE  Idle(FlattenSeq([i \in DOMAIN as |-> AllocateKernelActionMemory(as, i)]))
<1> DEFINE n == Len(as)
           ss == [i \in DOMAIN as |-> AllocateKernelActionMemory(as, i)]
<1>1. n \in Nat /\ DOMAIN as = 1..n
  BY DEF Sequence
<1>2. ASSUME NEW i PROVE Idle(AllocateKernelActionMemory(as, i))
  <2>1. CASE i \in KernelActions(as)
    <3> DEFINE rs == DeviceTimesOf(i) \o HostTimesOf(i)
    <3>1. AllocateKernelActionMemory(as, i) = Gets(rs, Cleanup(as))
      BY <2>1, Zenon DEF AllocateKernelActionMemory
    <3>2. IsSeq(DeviceTimesOf(i)) /\ IsSeq(HostTimesOf(i))
      BY List2, Zenon DEF DeviceTimesOf, HostTimesOf
    <3>3. PICK m \in Nat : DOMAIN rs = 1..m
      BY <3>2, CatSeq
    <3> HIDE DEF rs
    <3> QED
      BY <3>1, <3>3, GetsIdle
  <2>2. CASE i \notin KernelActions(as)
    <3>1. AllocateKernelActionMemory(as, i) = <<>>
      BY <2>2, Zenon DEF AllocateKernelActionMemory
    <3> QED
      BY <3>1, IdleNone, Zenon
  <2> QED
    BY <2>1, <2>2
<1> HIDE DEF n
<1>3. DOMAIN ss = 1..n /\ ss = [i \in 1..n |-> ss[i]] /\ \A i \in 1..n : Idle(ss[i])
  BY <1>1, <1>2
<1> HIDE DEF ss
<1>4. Idle(FlattenSeq(ss))
  BY <1>1, <1>3, IdleFlatten
<1> QED
  BY <1>4 DEF ss

\* The stacks start empty, or with the allocations made beforehand.
Base(as) == IF MallocActionExists(as) THEN InitialAllocationCount ELSE 0

\* The memory of a list: the stacks are filled when it has a malloc or a free.
LEMMA AllocateWalks ==
  ASSUME NEW as, Sequence(as), NEW host \in BOOLEAN
  PROVE  Walks(AllocateMemory(as), StackFor(host), 0, Base(as), 1..InitialAllocationCount)
<1> DEFINE S == StackFor(host)
           V == 1..InitialAllocationCount
           N == InitialAllocationCount
           A == FlattenSeq([i \in DOMAIN as |-> AllocateKernelActionMemory(as, i)])
           B == <<Get("device_copy_buffer", Cleanup(as))>>
           C == IF SecondaryBufferNeeded(as)
                THEN <<Get("device_secondary_buffer", Cleanup(as))>> ELSE <<>>
           D == <<Get("host_copy_buffer", Cleanup(as))>>
           G == Gets(<<"device_memory_allocations", "host_memory_allocations">>, Cleanup(as))
           Q == PreallocateFreeActionBuffers(as)
           E == IF MallocActionExists(as) THEN G \o Q ELSE <<>>
           Z == <<Get("kernel_times", Cleanup(as))>>
<1>1. AllocateMemory(as) = A \o B \o C \o D \o E \o Z
  BY Zenon DEF AllocateMemory, OfAllActions
<1>2. Idle(A)
  BY KernelMemoryIdle
<1>3. Idle(B) /\ Idle(C) /\ Idle(D) /\ Idle(Z)
  BY IdleKinds, Idle1, IdleNone, Zenon
<1>4. Idle(G)
  <2> DEFINE rs == <<"device_memory_allocations", "host_memory_allocations">>
  <2>1. DOMAIN rs = 1..2 /\ 2 \in Nat
    OBVIOUS
  <2> HIDE DEF rs
  <2>2. Idle(Gets(rs, Cleanup(as)))
    BY <2>1, GetsIdle
  <2> QED
    BY <2>2, Zenon DEF rs
<1>5. Walks(Q, S, 0, N, V)
  BY PreallocateWalks, Zenon
<1>6. N \in Int /\ 0 \in Int
  BY AllocationAssumption
<1> HIDE DEF A, B, C, D, G, Q, Z, S, V, N
<1>7. Walks(E, S, 0, Base(as), V)
  <2>1. CASE MallocActionExists(as)
    <3>1. Walks(G \o Q, S, 0, N, V)
      BY <1>4, <1>5, <1>6, IdleThen
    <3> QED
      BY <2>1, <3>1, Zenon DEF Base, N
  <2>2. CASE ~ MallocActionExists(as)
    <3>1. Walks(<<>>, S, 0, 0, V)
      BY <1>6, IdleNone, IdleWalks
    <3> QED
      BY <2>2, <3>1, Zenon DEF Base
  <2> QED
    BY <2>1, <2>2
<1>8. Base(as) \in Int
  BY <1>6, Zenon DEF Base, N
<1> HIDE DEF E
<1>9. Idle(A \o B \o C \o D)
  BY <1>2, <1>3, IdleCat
<1>10. Walks(A \o B \o C \o D \o E, S, 0, Base(as), V)
  BY <1>6, <1>7, <1>8, <1>9, IdleThen
<1>11. Walks(A \o B \o C \o D \o E \o Z, S, 0, Base(as), V)
  BY <1>3, <1>6, <1>8, <1>10, ThenIdle
<1> QED
  BY <1>1, <1>11, Zenon DEF S, V

\* Without an accepted list there are no actions.
LEMMA NoActions ==
  ASSUME NEW input, ~ Accepted(input)
  PROVE  /\ Actions(input) = <<>> /\ Base(Actions(input)) = 0
         /\ \A host : Balance(Actions(input), Len(Actions(input)), host) = 0
<1>1. Actions(input) = <<>>
  BY Zenon DEF Actions
<1>2. Len(<<>>) = 0 /\ DOMAIN <<>> = {}
  OBVIOUS
<1>3. Base(<<>>) = 0
  BY <1>2, Zenon DEF Base, MallocActionExists
<1> QED
  BY <1>1, <1>2, <1>3, BalanceStep, Zenon

\* Initialize leaves each stack with its base.
LEMMA InitializeWalks ==
  ASSUME NEW input, GoodInfo(input), NEW host \in BOOLEAN
  PROVE  Walks(StreamActionInit(input), StackFor(host), 0, Base(Actions(input)),
               1..InitialAllocationCount)
<1> DEFINE as == Actions(input)
           S == StackFor(host)
           V == 1..InitialAllocationCount
           A == <<Get("state", <<>>), Check(<<"state">>)>>
           B == ParseParameters(input)
           C == IF Accepted(input) THEN AllocateMemory(as) ELSE <<>>
<1>1. StreamActionInit(input) = A \o B \o C
  BY Zenon DEF StreamActionInit
<1>2. Idle(A) /\ Idle(B)
  BY IdleKinds, Idle2, ParseIdle, Zenon
<1>3. Sequence(as)
  BY AcceptedActions
<1>4. 0 \in Int /\ Base(as) \in Int
  BY AllocationAssumption DEF Base
<1>5. Walks(C, S, 0, Base(as), V)
  <2>1. CASE Accepted(input)
    <3>1. Walks(AllocateMemory(as), S, 0, Base(as), V)
      BY <1>3, AllocateWalks, Zenon
    <3> QED
      BY <2>1, <3>1, Zenon
  <2>2. CASE ~ Accepted(input)
    <3>1. Walks(<<>>, S, 0, 0, V)
      BY <1>4, IdleNone, IdleWalks
    <3> QED
      BY <2>2, <3>1, NoActions, Zenon
  <2> QED
    BY <2>1, <2>2
<1> HIDE DEF A, B, C, S, V, as
<1>6. Idle(A \o B)
  BY <1>2, IdleCat
<1>7. Walks(A \o B \o C, S, 0, Base(as), V)
  BY <1>4, <1>5, <1>6, IdleThen
<1> QED
  BY <1>1, <1>7, Zenon DEF S, V, as

\* The calls of a walk that starts c higher.
LEMMA WalksShift ==
  ASSUME NEW s, NEW S, NEW a \in Int, NEW b \in Int, NEW c \in Int, NEW V, NEW W,
         Walks(s, S, a, b, V), \A v \in V : v + c \in W
  PROVE  Walks(s, S, a + c, b + c, W)
<1> DEFINE n == Len(s)
<1>1. PICK h : WalksBy(h, s, S, a, b, V)
  BY DEF Walks
<1>2. /\ h \in [1..(n + 1) -> Int] /\ h[1] = a /\ h[n + 1] = b
      /\ \A k \in 1..n : h[k+1] = h[k] + Delta(s[k], S)
      /\ \A k \in 1..n : StackCall(s[k]) /\ s[k].res = S => h[k+1] \in V
  BY <1>1 DEF WalksBy
<1>3. n \in Nat
  BY CatSeq DEF Walks
<1> HIDE DEF n
<1> DEFINE g == [k \in 1..(n + 1) |-> h[k] + c]
<1>4. /\ g \in [1..(n + 1) -> Int]
      /\ \A k \in 1..(n + 1) : g[k] = h[k] + c /\ h[k] \in Int
  BY <1>2
<1> HIDE DEF g
<1>5. ASSUME NEW k \in 1..n
      PROVE  /\ g[k+1] = g[k] + Delta(s[k], S)
             /\ StackCall(s[k]) /\ s[k].res = S => g[k+1] \in W
  <2>1. k \in 1..(n+1) /\ k + 1 \in 1..(n+1)
    BY <1>3
  <2>2. g[k] = h[k] + c /\ g[k+1] = h[k+1] + c /\ h[k] \in Int /\ h[k+1] \in Int
    BY <1>4, <2>1
  <2>3. Delta(s[k], S) \in Int /\ h[k+1] = h[k] + Delta(s[k], S)
    BY <1>2 DEF Delta
  <2>4. (h[k] + Delta(s[k], S)) + c = (h[k] + c) + Delta(s[k], S)
    BY <2>2, <2>3
  <2>5. g[k+1] = g[k] + Delta(s[k], S)
    BY <2>2, <2>3, <2>4, Zenon
  <2>6. StackCall(s[k]) /\ s[k].res = S => h[k+1] \in V
    BY <1>2
  <2> QED
    BY <2>2, <2>5, <2>6
<1>6. g[1] = a + c /\ g[n + 1] = b + c
  <2>1. 1 \in 1..(n+1) /\ n + 1 \in 1..(n+1)
    BY <1>3
  <2> QED
    BY <1>2, <1>4, <2>1
<1>7. WalksBy(g, s, S, a + c, b + c, W)
  BY <1>4, <1>5, <1>6, Zenon DEF WalksBy, n
<1> QED
  BY <1>7 DEF Walks

-----------------------------------------------------------------------------
(* A list whose mallocs and frees balance. *)

Balanced(as) ==
  \A host \in BOOLEAN :
    /\ Balance(as, Len(as), host) = 0
    /\ \A n \in 1..Len(as) :
         Balance(as, n, host) \in
           (-InitialAllocationCount)..(MaxMemoryAllocationCount - InitialAllocationCount)

\* Where the calls of a function find a stack, and leave it.
Start(f, as) == IF f = "init" THEN 0 ELSE Base(as)
HostFunctions == {"init", "copy_in", "execute", "copy_out"}
Room == 0..MaxMemoryAllocationCount

\* The arithmetic of it.
LEMMA ZeroAdds == 0 + 0 = 0 /\ \A x \in Int : x + 0 = x /\ 0 + x = x
OBVIOUS

\* In every function the length of a stack stays in the room of its array.
LEMMA FunctionsWalk ==
  ASSUME NEW input, GoodInfo(input), Balanced(Actions(input)),
         NEW host \in BOOLEAN, NEW f \in HostFunctions
  PROVE  LET as == Actions(input)
         IN  Walks(StreamActionProgram(input)[f], StackFor(host), Start(f, as), Base(as), Room)
<1> DEFINE as == Actions(input)
           S == StackFor(host)
           p == StreamActionProgram(input)
           M == MaxMemoryAllocationCount
           N == InitialAllocationCount
           n == Len(as)
<1>1. /\ p.init = StreamActionInit(input) /\ p.copy_in = <<>> /\ p.copy_out = CopyOut(as)
      /\ p.execute = IF Accepted(input) THEN Execute(input) ELSE <<>>
  BY DEF StreamActionProgram
<1>2. M \in Nat /\ N \in Nat /\ N <= M
  BY AllocationAssumption
<1>3. Base(as) \in Int /\ 0 \in Int /\ Base(as) \in {0, N}
  BY <1>2 DEF Base
<1>4. Sequence(as)
  BY AcceptedActions
<1> HIDE DEF p
<1>5. CASE f = "init"
  <2>1. Walks(StreamActionInit(input), S, 0, Base(as), 1..N)
    BY <1>2, InitializeWalks, Zenon
  <2>2. \A v \in 1..N : v + 0 \in Room
    BY <1>2 DEF Room
  <2> HIDE DEF as, S, N
  <2>3. Walks(StreamActionInit(input), S, 0 + 0, Base(as) + 0, Room)
    BY <1>3, <2>1, <2>2, WalksShift
  <2>4. 0 + 0 = 0 /\ Base(as) + 0 = Base(as)
    BY <1>3, ZeroAdds, Zenon
  <2>5. Walks(p.init, S, 0, Base(as), Room)
    BY <1>1, <2>3, <2>4, Zenon
  <2> QED
    BY <1>5, <2>5, Zenon DEF Start, p, as, S
<1>6. CASE f = "execute"
  <2>1. CASE Accepted(input)
    <3> DEFINE V == Lengths(as, host)
    <3>1. Walks(Execute(input), S, 0, Balance(as, n, host), V)
      BY ExecuteWalks, Zenon
    <3>2. Balance(as, n, host) = 0
      BY DEF Balanced
    <3>3. ASSUME NEW v \in V PROVE v + Base(as) \in Room
      <4>1. MallocActionExists(as) /\ v \in {Balance(as, k, host) : k \in 1..n}
        BY <3>3, Zenon DEF Lengths
      <4>2. PICK k \in 1..n : v = Balance(as, k, host)
        BY <4>1, Zenon
      <4>3. v \in (-N)..(M - N)
        BY <4>2, Zenon DEF Balanced
      <4>4. Base(as) = N
        BY <4>1, Zenon DEF Base
      <4> HIDE DEF as, N, M
      <4> QED
        BY <1>2, <4>3, <4>4 DEF Room, M
    <3> HIDE DEF as, S, V, n
    <3>4. Walks(Execute(input), S, 0, 0, V)
      BY <3>1, <3>2, Zenon
    <3>5. Walks(Execute(input), S, 0 + Base(as), 0 + Base(as), Room)
      BY <1>3, <3>3, <3>4, WalksShift
    <3>6. 0 + Base(as) = Base(as)
      BY <1>3, ZeroAdds, Zenon
    <3>7. Walks(p.execute, S, Base(as), Base(as), Room)
      BY <1>1, <2>1, <3>5, <3>6, Zenon
    <3>8. f # "init"
      BY <1>6
    <3> QED
      BY <1>6, <3>7, <3>8, Zenon DEF Start, p, as, S
  <2>2. CASE ~ Accepted(input)
    <3>1. Walks(<<>>, S, Base(as), Base(as), Room)
      BY <1>3, IdleNone, IdleWalks
    <3>2. f # "init"
      BY <1>6
    <3>3. Walks(p.execute, S, Base(as), Base(as), Room)
      BY <1>1, <2>2, <3>1, Zenon
    <3> QED
      BY <1>6, <3>2, <3>3, Zenon DEF Start, p
  <2> QED
    BY <2>1, <2>2
<1>7. CASE f \in {"copy_in", "copy_out"}
  <2>1. Idle(p.copy_in) /\ Idle(p.copy_out)
    BY <1>1, <1>4, IdleNone, CopyOutIdle, Zenon
  <2>2. Idle(p[f])
    BY <1>7, <2>1, Zenon
  <2> HIDE DEF as, S
  <2>3. Walks(p[f], S, Base(as), Base(as), Room)
    BY <1>3, <2>2, IdleWalks
  <2>4. f # "init"
    BY <1>7
  <2> QED
    BY <2>3, <2>4, Zenon DEF Start, p, as, S
<1> QED
  BY <1>5, <1>6, <1>7 DEF HostFunctions

-----------------------------------------------------------------------------
(* An instance of the plug-in. *)

\* The actions of the instance, if it is of stream_action.
ActionsOf == Actions(Infos[info])

\* The program is that of the parameters, and the stacks are sequences.
Loaded ==
  /\ stack = [S \in Stacks |-> stack[S]] /\ \A S \in Stacks : IsSeq(stack[S])
  /\ plugin = "stream_action" =>
       info \in DOMAIN Infos /\ program = StreamActionProgram(Infos[info])

\* A stack has the length that the walk of the function has come to.
Tracks(S) ==
  \E h : /\ WalksBy(h, program[fn], S, Start(fn, ActionsOf), Base(ActionsOf), Room)
         /\ pc \in 1..(Len(program[fn]) + 1) /\ Len(stack[S]) = h[pc]

\* With a balanced list every stack is where its walk says, in every function.
Following ==
  plugin = "stream_action" /\ Balanced(ActionsOf) =>
    /\ outcome # "refused"
    /\ fn \in HostFunctions => \A host \in BOOLEAN : Tracks(StackFor(host))

StackInv == Loaded /\ Following

\* The invariant gives the property.
LEMMA StackInvBalanced == StackInv => BalancedRuns
<1> SUFFICES ASSUME StackInv, plugin = "stream_action", outcome = "refused",
                    ~ \E host \in BOOLEAN :
                        \/ Balance(ActionsOf, Len(ActionsOf), host) # 0
                        \/ \E n \in 1..Len(ActionsOf) :
                             Balance(ActionsOf, n, host) \notin
                               (-InitialAllocationCount)..(MaxMemoryAllocationCount - InitialAllocationCount)
             PROVE  FALSE
  BY Zenon DEF BalancedRuns, ActionsOf
<1>1. Balanced(ActionsOf)
  BY Zenon DEF Balanced
<1> QED
  BY <1>1, Zenon DEF StackInv, Following

\* Both stacks are the one for a kind of allocation.
LEMMA StackForIn == \A host \in BOOLEAN : StackFor(host) \in Stacks
BY DEF StackFor, Stacks

\* The invariant holds at first.
LEMMA StackStart == PluginInit => StackInv
<1> SUFFICES ASSUME PluginInit PROVE StackInv
  OBVIOUS
<1>1. /\ fn = "init" /\ pc = 1 /\ stack = [S \in Stacks |-> <<>>] /\ outcome = "running"
  BY Zenon DEF PluginInit
<1>2. Loaded
  <2>1. stack = [S \in Stacks |-> stack[S]] /\ \A S \in Stacks : stack[S] = <<>>
    BY <1>1
  <2>2. ASSUME plugin = "stream_action"
        PROVE  info \in DOMAIN Infos /\ program = StreamActionProgram(Infos[info])
    <3>1. "stream_action" \notin Plugins
      <4>1. Plugins \subseteq DOMAIN Programs
        BY PluginAssumption, Zenon
      <4>2. "stream_action" \notin DOMAIN Programs
        BY DEF Programs
      <4> QED
        BY <4>1, <4>2
    <3>2. info \in DOMAIN Infos /\ program = StreamPrograms[info]
      BY <2>2, <3>1, Zenon DEF PluginInit
    <3> DEFINE t == [x \in DOMAIN Infos |-> StreamActionProgram(Infos[x])]
               n == Len(Infos)
    <3>3. StreamPrograms = <<>> \o t
      BY Zenon DEF StreamPrograms
    <3>4. n \in Nat /\ DOMAIN Infos = 1..n
      BY PluginAssumption
    <3> HIDE DEF n
    <3>5. DOMAIN t = 1..n /\ t = [x \in 1..n |-> t[x]]
      BY <3>4
    <3>6. t[info] = StreamActionProgram(Infos[info])
      BY <3>2
    <3> HIDE DEF t
    <3>7. Len(<<>>) = 0 /\ Len(t) = n /\ IsSeq(t)
      BY <3>4, <3>5, ListIsSeq, LengthOf
    <3>8. (<<>> \o t)[0 + info] = t[info]
      BY <3>2, <3>4, <3>7, EmptyIsSeq, CatSeq
    <3>9. 0 + info = info
      BY <3>2, <3>4
    <3> QED
      BY <3>2, <3>3, <3>6, <3>8, <3>9
  <2> QED
    BY <2>1, <2>2, EmptyIsSeq DEF Loaded
<1>3. ASSUME plugin = "stream_action", Balanced(ActionsOf), NEW host \in BOOLEAN
      PROVE  Tracks(StackFor(host))
  <2>1. info \in DOMAIN Infos /\ program = StreamActionProgram(Infos[info])
    BY <1>2, <1>3 DEF Loaded
  <2>2. "init" \in HostFunctions
    BY DEF HostFunctions
  <2>3. GoodInfo(Infos[info])
    BY <2>1, InfosGood
  <2>4. Walks(program["init"], StackFor(host), Start("init", ActionsOf), Base(ActionsOf), Room)
    BY <1>3, <2>1, <2>2, <2>3, FunctionsWalk, Zenon DEF ActionsOf
  <2>5. PICK h : WalksBy(h, program["init"], StackFor(host), Start("init", ActionsOf), Base(ActionsOf), Room)
    BY <2>4, Zenon DEF Walks
  <2>6. h[1] = 0
    BY <2>5 DEF WalksBy, Start
  <2>7. Len(program["init"]) \in Nat
    BY <2>4, CatSeq DEF Walks
  <2>8. 1 \in 1..(Len(program["init"]) + 1)
    BY <2>7
  <2>9. Len(stack[StackFor(host)]) = 0
    BY <1>1, StackForIn
  <2> QED
    BY <1>1, <2>5, <2>6, <2>8, <2>9, Zenon DEF Tracks
<1>4. Following
  BY <1>1, <1>3 DEF Following
<1> QED
  BY <1>2, <1>4 DEF StackInv

\* What is called next, and where the walk is then.
LEMMA CallStep ==
  ASSUME StackInv, plugin = "stream_action",
         Balanced(ActionsOf), InFunction, NEW host \in BOOLEAN
  PROVE  LET S == StackFor(host)
             c == NextCall
         IN  /\ fn \in HostFunctions /\ Fits(c)
             /\ \E h : /\ WalksBy(h, program[fn], S, Start(fn, ActionsOf), Base(ActionsOf), Room)
                       /\ pc \in 1..Len(program[fn]) /\ pc + 1 \in 1..(Len(program[fn]) + 1)
                       /\ Len(stack[S]) = h[pc] /\ h[pc] \in Int
                       /\ h[pc+1] = h[pc] + Delta(c, S)
                       /\ StackCall(c) /\ c.res = S => h[pc+1] \in Room
<1> DEFINE S == StackFor(host)
           c == NextCall
           s == program[fn]
           n == Len(s)
<1>1. fn \in HostFunctions /\ pc <= n
  BY DEF InFunction, Functions3, HostFunctions
<1>2. Tracks(S)
  BY <1>1, Zenon DEF StackInv, Following
<1>3. PICK h : /\ WalksBy(h, s, S, Start(fn, ActionsOf), Base(ActionsOf), Room)
               /\ pc \in 1..(n + 1) /\ Len(stack[S]) = h[pc]
  BY <1>2, Zenon DEF Tracks
<1>4. Walks(s, S, Start(fn, ActionsOf), Base(ActionsOf), Room)
  <2>1. info \in DOMAIN Infos /\ program = StreamActionProgram(Infos[info])
    BY DEF StackInv, Loaded
  <2>2. GoodInfo(Infos[info])
    BY <2>1, InfosGood
  <2> QED
    BY <1>1, <2>1, <2>2, FunctionsWalk, Zenon DEF ActionsOf
<1>5. IsSeq(s) /\ n \in Nat /\ DOMAIN s = 1..n /\ \A x \in CallsOf(s) : Fits(x)
  BY <1>4, CatSeq DEF Walks
<1>6. c = s[pc]
  BY Zenon DEF NextCall
<1> HIDE DEF n, s, c, S
<1>7. pc \in 1..n /\ pc + 1 \in 1..(n + 1)
  BY <1>1, <1>3, <1>5
<1>8. Fits(c)
  BY <1>5, <1>6, <1>7 DEF CallsOf
<1>9. /\ h \in [1..(n + 1) -> Int]
      /\ \A k \in 1..n : h[k+1] = h[k] + Delta(s[k], S)
      /\ \A k \in 1..n : StackCall(s[k]) /\ s[k].res = S => h[k+1] \in Room
  BY <1>3 DEF WalksBy, n
<1>10. h[pc] \in Int
  BY <1>3, <1>9
<1>11. h[pc+1] = h[pc] + Delta(c, S) /\ (StackCall(c) /\ c.res = S => h[pc+1] \in Room)
  BY <1>6, <1>7, <1>9
<1> QED
  BY <1>1, <1>3, <1>7, <1>8, <1>10, <1>11, Zenon DEF n, s, c, S

\* What no step changes.
Kept == plugin' = plugin /\ info' = info /\ program' = program

\* Where the host is after a call that goes on.
LEMMA Onward ==
  ASSUME StackInv, Kept, fn' = fn, pc' = pc + 1, outcome' = outcome, InFunction,
         Loaded',
         plugin = "stream_action" /\ Balanced(ActionsOf) =>
           \A host \in BOOLEAN : Len(stack'[StackFor(host)]) =
             Len(stack[StackFor(host)]) + Delta(NextCall, StackFor(host))
  PROVE  StackInv'
<1> SUFFICES ASSUME plugin' = "stream_action", Balanced(ActionsOf)'
             PROVE  /\ outcome' # "refused"
                    /\ \A host \in BOOLEAN : Tracks(StackFor(host))'
  BY DEF StackInv, Following
<1>1. plugin = "stream_action" /\ ActionsOf' = ActionsOf /\ Balanced(ActionsOf)
  BY DEF Kept, ActionsOf, Balanced
<1>2. outcome' # "refused"
  BY <1>1 DEF StackInv, Following
<1>3. ASSUME NEW host \in BOOLEAN PROVE Tracks(StackFor(host))'
  <2> DEFINE S == StackFor(host)
  <2>1. PICK h : /\ WalksBy(h, program[fn], S, Start(fn, ActionsOf), Base(ActionsOf), Room)
                 /\ pc \in 1..Len(program[fn]) /\ pc + 1 \in 1..(Len(program[fn]) + 1)
                 /\ Len(stack[S]) = h[pc]
                 /\ h[pc+1] = h[pc] + Delta(NextCall, S)
    BY <1>1, CallStep, Zenon
  <2>2. Len(stack'[S]) = Len(stack[S]) + Delta(NextCall, S)
    BY <1>1, Zenon
  <2>3. Len(stack'[S]) = h[pc + 1]
    BY <2>1, <2>2, Zenon
  <2> HIDE DEF S
  <2>4. /\ WalksBy(h, program'[fn'], S, Start(fn', ActionsOf'), Base(ActionsOf'), Room)
        /\ pc' \in 1..(Len(program'[fn']) + 1) /\ Len(stack'[S]) = h[pc']
    BY <1>1, <2>1, <2>3, Zenon DEF Kept
  <2> QED
    BY <2>4, Zenon DEF Tracks, S
<1> QED
  BY <1>2, <1>3

\* A call that has nothing to do with the stacks.
LEMMA QuietCall ==
  ASSUME StackInv, Kept, fn' = fn, pc' = pc + 1, outcome' = outcome, InFunction,
         stack' = stack, ~ StackCall(NextCall)
  PROVE  StackInv'
<1>1. Loaded'
  BY DEF StackInv, Loaded, Kept
<1>2. \A host \in BOOLEAN : Delta(NextCall, StackFor(host)) = 0
  BY DEF Delta, StackCall
<1>3. ASSUME plugin = "stream_action", Balanced(ActionsOf), NEW host \in BOOLEAN
      PROVE  Len(stack'[StackFor(host)]) =
               Len(stack[StackFor(host)]) + Delta(NextCall, StackFor(host))
  <2>1. Len(stack[StackFor(host)]) \in Int
    BY StackForIn, CatSeq DEF StackInv, Loaded
  <2>2. Len(stack[StackFor(host)]) + 0 = Len(stack[StackFor(host)])
    BY <2>1, ZeroAdds, Zenon
  <2> QED
    BY <1>2, <2>2, Zenon
<1> QED
  BY <1>1, <1>3, Onward, Zenon

\* A step after which no function of the plug-in but Cleanup runs.
LEMMA LastCall ==
  ASSUME StackInv, Kept, Loaded', fn' \notin HostFunctions, outcome' # "refused"
  PROVE  StackInv'
BY DEF StackInv, Following

\* Of a step that concerns the GPU or Cleanup only.
LEMMA OtherStep ==
  ASSUME StackInv, Kept, fn' = fn, pc' = pc, outcome' = outcome, stack' = stack
  PROVE  StackInv'
<1>1. Loaded'
  BY DEF StackInv, Loaded, Kept
<1>2. ActionsOf' = ActionsOf
  BY DEF ActionsOf, Kept
<1>3. \A S : Tracks(S)' <=> Tracks(S)
  BY <1>2, Zenon DEF Tracks, Kept
<1>4. Following'
  BY <1>2, <1>3, Zenon DEF StackInv, Following, Kept, Balanced
<1> QED
  BY <1>1, <1>4 DEF StackInv

\* The length of a stack with one more, and of one with one less.
LEMMA PushPop ==
  ASSUME NEW s, IsSeq(s), NEW x
  PROVE  /\ IsSeq(Append(s, x)) /\ Len(Append(s, x)) = Len(s) + 1 /\ Len(s) \in Nat
         /\ s # <<>> => IsSeq(Front(s)) /\ Len(Front(s)) = Len(s) + (-1)
         /\ s = <<>> <=> Len(s) = 0
<1>1. PICK A : s \in Seq(A)
  BY DEF IsSeq
<1>2. s \in Seq(A \cup {x})
  BY <1>1
<1>3. Append(s, x) \in Seq(A \cup {x}) /\ Len(Append(s, x)) = Len(s) + 1 /\ Len(s) \in Nat
  BY <1>2
<1>4. s = <<>> <=> Len(s) = 0
  BY <1>1
<1>5. ASSUME s # <<>> PROVE Front(s) \in Seq(A) /\ Len(Front(s)) = Len(s) + (-1)
  <2>1. Len(s) - 1 \in Nat /\ Len(s) - 1 <= Len(s)
    BY <1>3, <1>4, <1>5
  <2>2. SubSeq(s, 1, Len(s) - 1) \in Seq(A) /\ Len(SubSeq(s, 1, Len(s) - 1)) = Len(s) - 1
    <3>1. \A i \in 1..(Len(s) - 1) : s[i] \in A
      BY <1>1, <1>3
    <3>2. 1 <= Len(s) - 1 => (Len(s) - 1) - 1 + 1 = Len(s) - 1
      BY <1>3
    <3>3. ~ (1 <= Len(s) - 1) => Len(s) - 1 = 0
      BY <2>1
    <3>4. 1 \in Int /\ Len(s) - 1 \in Int
      BY <2>1
    <3> QED
      BY <3>1, <3>2, <3>3, <3>4, SubSeqProperties
  <2>3. Len(s) - 1 = Len(s) + (-1)
    BY <1>3
  <2> QED
    BY <2>2, <2>3 DEF Front
<1> QED
  BY <1>3, <1>4, <1>5, Zenon DEF IsSeq

\* A stack that a call changes, and the other.
LEMMA Changed ==
  ASSUME Loaded, Kept, NEW r \in Stacks, NEW t, IsSeq(t), stack' = [stack EXCEPT ![r] = t]
  PROVE  /\ Loaded' /\ stack'[r] = t
         /\ \A S \in Stacks : S # r => stack'[S] = stack[S]
<1>1. /\ stack' = [S \in Stacks |-> stack'[S]] /\ stack'[r] = t
      /\ \A S \in Stacks : S # r => stack'[S] = stack[S]
  BY DEF Loaded
<1>2. \A S \in Stacks : IsSeq(stack'[S])
  BY <1>1 DEF Loaded
<1> QED
  BY <1>1, <1>2, Zenon DEF Loaded, Kept

\* On a balanced list no action meets a full or an empty stack.
LEMMA NotRefused ==
  ASSUME StackInv, plugin = "stream_action", Balanced(ActionsOf), ActionRefused
  PROVE  FALSE
<1> DEFINE c == NextCall
           r == c.res
<1>1. /\ InFunction
      /\ \/ c.op = "push" /\ Len(stack[r]) >= c.size
         \/ c.op = "pop" /\ stack[r] = <<>>
  BY Zenon DEF ActionRefused
<1>2. StackCall(c)
  BY <1>1 DEF StackCall
<1>3. Fits(c)
  BY <1>1, CallStep
<1>4. r \in Stacks /\ (c.op = "push" => c.size = MaxMemoryAllocationCount)
  BY <1>2, <1>3 DEF Fits
<1>5. PICK host \in BOOLEAN : r = StackFor(host)
  BY <1>4, StackNames
<1>6. PICK h : /\ Len(stack[r]) = h[pc] /\ h[pc] \in Int
               /\ h[pc+1] = h[pc] + Delta(c, r)
               /\ StackCall(c) /\ c.res = r => h[pc+1] \in Room
  BY <1>1, <1>5, CallStep, Zenon
<1>7. h[pc+1] \in Room
  BY <1>2, <1>6
<1>8. MaxMemoryAllocationCount \in Nat
  BY AllocationAssumption
<1>9. stack[r] = <<>> <=> Len(stack[r]) = 0
  BY <1>4, PushPop DEF StackInv, Loaded
<1> HIDE DEF c, r
<1>10. CASE c.op = "push" /\ Len(stack[r]) >= c.size
  <2>1. Delta(c, r) = 1
    BY <1>10 DEF Delta, r
  <2> QED
    BY <1>4, <1>6, <1>7, <1>8, <1>10, <2>1 DEF Room
<1>11. CASE c.op = "pop" /\ stack[r] = <<>>
  <2>1. Delta(c, r) = -1
    BY <1>11 DEF Delta, r
  <2> QED
    BY <1>6, <1>7, <1>8, <1>9, <1>11, <2>1 DEF Room
<1> QED
  BY <1>1, <1>10, <1>11 DEF r

\* A malloc action.
LEMMA MallocStep ==
  ASSUME StackInv, MallocAction
  PROVE  StackInv'
<1> DEFINE c == NextCall
           r == c.res
<1>1. /\ InFunction /\ c.op = "push" /\ Kept /\ fn' = fn /\ pc' = pc + 1 /\ outcome' = outcome
  BY Zenon DEF MallocAction, Config, Kept
<1>2. PICK x : stack' = [stack EXCEPT ![r] = Append(@, x)]
  BY Zenon DEF MallocAction
<1> HIDE DEF c, r
<1>3. CASE r \in Stacks
  <2>1. IsSeq(stack[r])
    BY <1>3 DEF StackInv, Loaded
  <2> DEFINE t == Append(stack[r], x)
  <2>2. IsSeq(t) /\ Len(t) = Len(stack[r]) + 1
    BY <2>1, PushPop
  <2>3. stack' = [stack EXCEPT ![r] = t]
    BY <1>2
  <2> HIDE DEF t
  <2>4. /\ Loaded' /\ stack'[r] = t
        /\ \A S \in Stacks : S # r => stack'[S] = stack[S]
    BY <1>1, <1>3, <2>2, <2>3, Changed DEF StackInv
  <2>5. ASSUME NEW host \in BOOLEAN
        PROVE  Len(stack'[StackFor(host)]) = Len(stack[StackFor(host)]) + Delta(c, StackFor(host))
    <3> DEFINE S == StackFor(host)
    <3>1. S \in Stacks
      BY StackForIn
    <3>2. IsSeq(stack[S])
      BY <3>1 DEF StackInv, Loaded
    <3>3. Len(stack[S]) \in Int
      BY <3>2, PushPop
    <3> HIDE DEF S
    <3>4. CASE S = r
      <4>1. Delta(c, S) = 1
        BY <1>1, <3>4 DEF Delta, r
      <4> QED
        BY <2>2, <2>4, <3>4, <4>1, Zenon DEF S
    <3>5. CASE S # r
      <4>1. Delta(c, S) = 0
        BY <1>1, <3>5 DEF Delta, r
      <4>2. Len(stack'[S]) = Len(stack[S]) + 0
        BY <2>4, <3>1, <3>3, <3>5, ZeroAdds, Zenon
      <4> QED
        BY <4>1, <4>2, Zenon DEF S
    <3> QED
      BY <3>4, <3>5
  <2> QED
    BY <1>1, <2>4, <2>5, Onward, Zenon DEF c
<1>4. CASE r \notin Stacks
  <2>1. stack' = stack
    BY <1>2, <1>4 DEF StackInv, Loaded
  <2>2. Loaded'
    BY <1>1, <2>1 DEF StackInv, Loaded, Kept
  <2>3. ASSUME plugin = "stream_action", Balanced(ActionsOf) PROVE FALSE
    <3>1. Fits(c)
      BY <1>1, <2>3, CallStep DEF c
    <3> QED
      BY <1>1, <1>4, <3>1 DEF Fits, StackCall, r
  <2> QED
    BY <1>1, <2>2, <2>3, Onward, Zenon
<1> QED
  BY <1>3, <1>4

\* A free action, whether or not its call of the GPU succeeds.
LEMMA PopStep ==
  ASSUME StackInv, Kept, InFunction, NextCall.op = "pop",
         stack[NextCall.res] # <<>>,
         stack' = [stack EXCEPT ![NextCall.res] = Front(@)]
  PROVE  /\ Loaded'
         /\ NextCall.res \in Stacks =>
              \A host \in BOOLEAN : Len(stack'[StackFor(host)]) =
                Len(stack[StackFor(host)]) + Delta(NextCall, StackFor(host))
<1> DEFINE c == NextCall
           r == c.res
           t == Front(stack[r])
<1>1. c.op = "pop" /\ stack[r] # <<>> /\ stack' = [stack EXCEPT ![r] = t]
  OBVIOUS
<1> HIDE DEF c, r
<1>2. CASE r \in Stacks
  <2>1. IsSeq(stack[r])
    BY <1>2 DEF StackInv, Loaded
  <2>2. IsSeq(t) /\ Len(t) = Len(stack[r]) + (-1)
    BY <1>1, <2>1, PushPop
  <2> HIDE DEF t
  <2>3. /\ Loaded' /\ stack'[r] = t
        /\ \A S \in Stacks : S # r => stack'[S] = stack[S]
    BY <1>1, <1>2, <2>2, Changed DEF StackInv
  <2>4. ASSUME NEW host \in BOOLEAN
        PROVE  Len(stack'[StackFor(host)]) = Len(stack[StackFor(host)]) + Delta(c, StackFor(host))
    <3> DEFINE S == StackFor(host)
    <3>1. S \in Stacks
      BY StackForIn
    <3>2. IsSeq(stack[S])
      BY <3>1 DEF StackInv, Loaded
    <3>3. Len(stack[S]) \in Int
      BY <3>2, PushPop
    <3> HIDE DEF S
    <3>4. CASE S = r
      <4>1. Delta(c, S) = -1
        BY <1>1, <3>4 DEF Delta, r
      <4> QED
        BY <2>2, <2>3, <3>4, <4>1, Zenon DEF S
    <3>5. CASE S # r
      <4>1. Delta(c, S) = 0
        BY <1>1, <3>5 DEF Delta, r
      <4>2. Len(stack'[S]) = Len(stack[S]) + 0
        BY <2>3, <3>1, <3>3, <3>5, ZeroAdds, Zenon
      <4> QED
        BY <4>1, <4>2, Zenon DEF S
    <3> QED
      BY <3>4, <3>5
  <2> QED
    BY <2>3, <2>4, Zenon DEF c
<1>3. CASE r \notin Stacks
  <2>1. stack' = stack
    BY <1>1, <1>3 DEF StackInv, Loaded
  <2>2. Loaded'
    BY <2>1 DEF StackInv, Loaded, Kept
  <2> QED
    BY <1>3, <2>2, Zenon DEF r, c
<1> QED
  BY <1>2, <1>3

\* A free action that succeeds keeps the invariant.
LEMMA FreeStep ==
  ASSUME StackInv, FreeAction
  PROVE  StackInv'
<1>1. /\ InFunction /\ NextCall.op = "pop" /\ stack[NextCall.res] # <<>>
      /\ stack' = [stack EXCEPT ![NextCall.res] = Front(@)]
      /\ Kept /\ fn' = fn /\ pc' = pc + 1 /\ outcome' = outcome
  BY Zenon DEF FreeAction, Config, Kept
<1>2. Loaded'
  BY <1>1, PopStep
<1>3. ASSUME plugin = "stream_action", Balanced(ActionsOf)
      PROVE  \A host \in BOOLEAN : Len(stack'[StackFor(host)]) =
               Len(stack[StackFor(host)]) + Delta(NextCall, StackFor(host))
  <2>1. Fits(NextCall)
    BY <1>1, <1>3, CallStep
  <2>2. NextCall.res \in Stacks
    BY <1>1, <2>1 DEF Fits, StackCall
  <2> QED
    BY <1>1, <2>2, PopStep, Zenon
<1> QED
  BY <1>1, <1>2, <1>3, Onward, Zenon

\* From a function to the next: the walk of the one ends where that of the
\* other starts.
LEMMA NextFunctionStep ==
  ASSUME StackInv, NextFunction
  PROVE  StackInv'
<1>1. /\ Kept /\ pc' = 1 /\ stack' = stack /\ fn \in HostFunctions /\ pc > Len(program[fn])
  BY DEF NextFunction, Config, Kept, Returned, Functions3, HostFunctions
<1>2. /\ fn' \in {"copy_in", "execute", "copy_out", "cleanup"}
      /\ outcome' \in {outcome, "cleaned"}
  BY <1>1 DEF NextFunction, HostFunctions
<1>3. Loaded'
  BY <1>1 DEF StackInv, Loaded, Kept
<1> SUFFICES ASSUME plugin' = "stream_action", Balanced(ActionsOf)'
             PROVE  /\ outcome' # "refused"
                    /\ fn' \in HostFunctions => \A host \in BOOLEAN : Tracks(StackFor(host))'
  BY <1>3 DEF StackInv, Following
<1>4. plugin = "stream_action" /\ ActionsOf' = ActionsOf /\ Balanced(ActionsOf)
  BY <1>1 DEF Kept, ActionsOf, Balanced
<1>5. outcome' # "refused"
  BY <1>2, <1>4 DEF StackInv, Following
<1>6. ASSUME fn' \in HostFunctions, NEW host \in BOOLEAN PROVE Tracks(StackFor(host))'
  <2> DEFINE S == StackFor(host)
             b == Base(ActionsOf)
             s == program[fn]
             t == program[fn']
  <2>1. PICK h : /\ WalksBy(h, s, S, Start(fn, ActionsOf), b, Room)
                 /\ pc \in 1..(Len(s) + 1) /\ Len(stack[S]) = h[pc]
    BY <1>1, <1>4, Zenon DEF StackInv, Following, Tracks
  <2>2. info \in DOMAIN Infos /\ program = StreamActionProgram(Infos[info])
    BY <1>4 DEF StackInv, Loaded
  <2>3. GoodInfo(Infos[info])
    BY <2>2, InfosGood
  <2>4. /\ Walks(s, S, Start(fn, ActionsOf), b, Room)
        /\ Walks(t, S, Start(fn', ActionsOf), b, Room)
    BY <1>1, <1>4, <1>6, <2>2, <2>3, FunctionsWalk, Zenon DEF ActionsOf
  <2>5. Len(s) \in Nat /\ Len(t) \in Nat
    BY <2>4, CatSeq DEF Walks
  <2>6. Start(fn', ActionsOf) = b
    BY <1>2 DEF Start
  <2>7. PICK g : WalksBy(g, t, S, Start(fn', ActionsOf), b, Room)
    BY <2>4, Zenon DEF Walks
  <2>8. pc = Len(s) + 1
    <3> HIDE DEF s
    <3> QED
      BY <1>1, <2>1, <2>5 DEF s
  <2>9. h[pc] = b /\ g[1] = b
    BY <2>1, <2>6, <2>7, <2>8, Zenon DEF WalksBy
  <2>10. 1 \in 1..(Len(t) + 1)
    BY <2>5
  <2> HIDE DEF S, b
  <2>11. /\ WalksBy(g, program'[fn'], S, Start(fn', ActionsOf'), Base(ActionsOf'), Room)
         /\ pc' \in 1..(Len(program'[fn']) + 1) /\ Len(stack'[S]) = g[pc']
    BY <1>1, <1>4, <2>1, <2>7, <2>9, <2>10, Zenon DEF Kept, b
  <2> QED
    BY <2>11, Zenon DEF Tracks, S
<1> QED
  BY <1>5, <1>6

\* So does every step.
LEMMA StackStep ==
  ASSUME StackInv, [PluginNext]_pluginVars
  PROVE  StackInv'
<1>1. CASE CheckPasses \/ AcquireNext \/ FreeLocal \/ ComputeOnHost \/ FillWalk
           \/ Issue \/ CopySynchronously \/ Synchronize
  <2>1. /\ Kept /\ fn' = fn /\ pc' = pc + 1 /\ outcome' = outcome /\ InFunction /\ stack' = stack
    BY <1>1, Zenon DEF CheckPasses, AcquireNext, FreeLocal, ComputeOnHost, FillWalk,
         Issue, CopySynchronously, Synchronize, Config, Kept
  <2>2. NextCall.op \notin {"push", "pop"}
    BY <1>1 DEF CheckPasses, AcquireNext, FreeLocal, ComputeOnHost, FillWalk,
         Issue, CopySynchronously, Synchronize
  <2> QED
    BY <2>1, <2>2, QuietCall DEF StackCall
<1>2. CASE MallocAction
  BY <1>2, MallocStep
<1>3. CASE FreeAction
  BY <1>3, FreeStep
<1>4. CASE FreeActionFails
  <2>1. /\ InFunction /\ NextCall.op = "pop" /\ stack[NextCall.res] # <<>>
        /\ stack' = [stack EXCEPT ![NextCall.res] = Front(@)]
        /\ Kept /\ fn' = "done" /\ outcome' = "iteration_failed"
    BY <1>4, Zenon DEF FreeActionFails, Config, Kept
  <2>2. Loaded'
    BY <2>1, PopStep
  <2> QED
    BY <2>1, <2>2, LastCall DEF HostFunctions
<1>5. CASE ActionRefused
  <2>1. Kept /\ stack' = stack /\ fn' = "done"
    BY <1>5, Zenon DEF ActionRefused, Config, Kept
  <2>2. Loaded'
    BY <2>1 DEF StackInv, Loaded, Kept
  <2>3. Balanced(ActionsOf)' => Balanced(ActionsOf)
    BY <2>1 DEF Balanced, ActionsOf, Kept
  <2>4. Following'
    BY <1>5, <2>1, <2>3, NotRefused DEF Following, Kept
  <2> QED
    BY <2>2, <2>4 DEF StackInv
<1>6. CASE InitializeFails \/ IterationFails \/ UncheckedFails \/ StreamNotCreated
  <2>1. /\ Kept /\ stack' = stack /\ fn' \in {"cleanup", "done"}
        /\ outcome' \in {"init_failed", "iteration_failed", "crashed"}
    BY <1>6 DEF InitializeFails, IterationFails, UncheckedFails, StreamNotCreated, Config, Kept
  <2>2. Loaded'
    BY <2>1 DEF StackInv, Loaded, Kept
  <2> QED
    BY <2>1, <2>2, LastCall DEF HostFunctions
<1>7. CASE NextFunction
  BY <1>7, NextFunctionStep
<1>8. CASE CleanupReturns
  <2>1. Kept /\ stack' = stack /\ fn' = "done" /\ outcome' = outcome
    BY <1>8, Zenon DEF CleanupReturns, Config, Kept
  <2>2. Loaded'
    BY <2>1 DEF StackInv, Loaded, Kept
  <2>3. Balanced(ActionsOf)' => Balanced(ActionsOf)
    BY <2>1 DEF Balanced, ActionsOf, Kept
  <2>4. Following'
    BY <2>1, <2>3 DEF StackInv, Following, Kept, HostFunctions
  <2> QED
    BY <2>2, <2>4 DEF StackInv
<1>9. CASE ReleaseNext \/ Complete \/ Finished \/ UNCHANGED pluginVars
  <2>1. Kept /\ fn' = fn /\ pc' = pc /\ outcome' = outcome /\ stack' = stack
    BY <1>9, Zenon DEF ReleaseNext, Complete, Finished, pluginVars, Config, Kept
  <2> QED
    BY <2>1, OtherStep
<1> QED
  BY <1>1, <1>2, <1>3, <1>4, <1>5, <1>6, <1>7, <1>8, <1>9, Zenon DEF PluginNext, HostStep

\* A list of actions of stream_action whose mallocs and frees balance, and that
\* stays within the allocations made beforehand and the room of the arrays, is
\* never refused, however often it runs (stream_action.cu:1201-1251): for every
\* list, every number of iterations and every size of the arrays.
THEOREM BalancedListsRun == PluginSpec => []BalancedRuns
BY StackStart, StackStep, StackInvBalanced, PTL DEF PluginSpec
=============================================================================
