-------------------------- MODULE MCRunlistControl --------------------------
(* RunlistControl on devices with two runlists and three TSGs. *)
EXTENDS RunlistControl

CONSTANTS w1, w2, i1, i2

MCWriters == {w1, w2}
MCRunlists == {0, 1}
MCInsts == {i1, i2}

Tsg(id, chans) == [tsg |-> id, chans |-> chans]
After(n, entry) == [tsg |-> entry.tsg, chans |-> entry.chans, end |-> n + 1 + Len(entry.chans)]
Runlist(entries) ==
  LET laid[k \in 1 .. Len(entries)] == After(IF k = 1 THEN 0 ELSE laid[k - 1].end, entries[k])
  IN  laid
Cmd(op, rl, n) == [op |-> op, rl |-> rl, n |-> n]
List(base, len) == [base |-> base, len |-> len, offset |-> 0]

\* Behind the end of runlist "b" lies what an earlier, longer one left there.
\* From Ampere on the identifiers of another runlist are used again, and TSG 2
\* has two channels.
Memory(chip) ==
  LET second == IF chip = "ga100" THEN Tsg(2, <<1, 2>>) ELSE Tsg(2, <<1>>)
  IN  [b \in {"a", "b", "c"} |->
         CASE b = "a" -> Runlist(<<Tsg(1, <<0>>), second>>)
           [] b = "b" -> Runlist(<<second, Tsg(1, <<0>>)>>)
           [] b = "c" -> Runlist(<<IF chip = "ga100" THEN Tsg(1, <<0>>) ELSE Tsg(0, <<2>>)>>)]

Device(chip, gpu, first, second, commands, rebinds) ==
  [chip |-> chip, gpu |-> gpu, memory |-> Memory(chip), commands |-> commands,
   submits |-> [r \in Runlists |-> IF r = 0 THEN first ELSE {second}],
   rebinds |-> rebinds]

One(chip) == IF chip = "ga100" THEN {List("a", 5)} ELSE {List("a", 4)}
Two(chip) == One(chip) \cup {IF chip = "ga100" THEN List("b", 3) ELSE List("b", 2)}
Other == List("c", 2)
Empty == List("c", 0)

Switches == {Cmd("switch_to_tsg", 0, 1), Cmd("switch_to_tsg", 0, 2)}
PreemptAny == {Cmd("preempt_runlist", 0, r) : r \in {0, 1}}

MCScenarios ==
  \* switches against each other and against single channels
  {Device(chip, 1, One(chip), Other, Switches \cup PreemptAny \cup {Cmd("enable_channel", 0, 0)}, {})
     : chip \in {"gf100", "ga100"}}
  \* against a driver that rebinds a channel
  \cup {Device(chip, 0, One(chip), Empty,
               {Cmd("switch_to_tsg", 0, 1), Cmd("disable_channel", 0, 0)}, {<<0, 0>>})
          : chip \in {"gf100", "ga100"}}
  \* against a driver that submits runlists, and with offsets: one, and none
  \cup {Device(chip, 0, Two(chip), Empty,
               {Cmd("resubmit_runlist", 0, 3), other}, {})
          : chip \in Chips, other \in {Cmd("switch_to_tsg", 0, 1), Cmd("resubmit_runlist", 0, 1)}}
  \* identifiers at and beyond their limit, and a device without a runlist 2
  \cup {Device(chip, 2, One(chip), Other,
               {Cmd("switch_to_tsg", 0, 4), Cmd("switch_to_tsg", 0, 5),
                Cmd("switch_to_tsg", 1, 1), Cmd("disable_channel", 0, 3),
                Cmd("preempt_tsg", 0, 4), Cmd("preempt_tsg", 0, 5),
                Cmd("preempt_tsg", 1, 1), Cmd("preempt_runlist", 0, 2),
                Cmd("resubmit_runlist", 1, 0)}, {})
          : chip \in {"tu102", "ga100"}}
=============================================================================
