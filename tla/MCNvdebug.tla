----------------------------- MODULE MCNvdebug -----------------------------
(* The GPUs and calls for which Nvdebug is checked. *)
EXTENDS Nvdebug, TLC

CONSTANTS P1, P2

\* Two TSGs; an empty runlist.
MCRunlists == [runlist0 |-> <<1, 0, 1, 0>>, runlist1 |-> <<>>]
MCActors == Readers \cup {"exit", "driver"}

Objects == <<"bar2_instance", "bar2_directory", "bar2_table", "runlist", "instance", "directory",
             "table", "wfi", "ctxsw">>
\* Every object in a window of its own, or those of a context in one window.
Spread == [o \in {Objects[i] : i \in DOMAIN Objects} |->
             4 * (CHOOSE i \in DOMAIN Objects : Objects[i] = o)]
Near == [o \in DOMAIN Spread |-> IF o \in {"instance", "wfi", "ctxsw", "runlist"} THEN 41 ELSE Spread[o]]

\* A GPU whose context is found in every way there is, and calls on it.
Base == [chip |-> Ampere, bar2 |-> TRUE, in_bar2 |-> TRUE, virtual |-> TRUE, wfi |-> TRUE,
         iommu |-> TRUE, layout |-> Spread, runlist |-> (P1 :> "runlist0" @@ P2 :> "runlist1"),
         calls |-> (P1 :> <<>> @@ P2 :> <<>>), faults |-> 0, moves |-> 0, apart |-> TRUE, taken |-> 0]
Calls(first, second) == [Base EXCEPT !.calls = (P1 :> first @@ P2 :> second)]

Map == "map_mem_ctxid"
MapChid == "map_mem_chid"
Mode == "preempt_mode"
Read == "read"

\* Every chip, with and without what helps to find the context, one call at a
\* time, with a register that fails or a driver that moves the window.
Alone ==
  {[Calls(calls, <<>>) EXCEPT !.chip = chip, !.layout = lay, !.bar2 = bar.b, !.in_bar2 = bar.i,
                              !.iommu = bar.i, !.virtual = bar.b, !.faults = more, !.moves = 1 - more] :
     calls \in {<<Read>>, <<Mode>>}, chip \in Kepler..Ampere, lay \in {Spread, Near},
     bar \in {[b |-> TRUE, i |-> TRUE], [b |-> TRUE, i |-> FALSE], [b |-> FALSE, i |-> FALSE]},
     more \in 0..1}
AloneMapping ==
  {[Calls(calls, <<>>) EXCEPT !.chip = chip, !.in_bar2 = in, !.iommu = ~in, !.wfi = in, !.faults = 1] :
     calls \in {<<Map, Map>>, <<MapChid>>, <<MapChid, Map>>}, chip \in {Pascal, Volta, Ampere},
     in \in BOOLEAN}

\* A range that the driver has mapped to something else.
InUseAlready == {[Calls(<<Map, Map>>, <<>>) EXCEPT !.taken = -9]}

\* Two processes at once.
Together == {
  Calls(<<Read>>, <<Map>>), Calls(<<Read>>, <<Mode>>), Calls(<<Map>>, <<Mode>>),
  Calls(<<Read>>, <<Read>>),
  Calls(<<Map>>, <<Map>>), [Calls(<<Map>>, <<Read>>) EXCEPT !.layout = Near, !.moves = 1],
  [Calls(<<Mode>>, <<Map>>) EXCEPT !.chip = Volta, !.layout = Near, !.faults = 1],
  [Calls(<<MapChid>>, <<Map>>) EXCEPT !.chip = Pascal, !.layout = Near] }

\* Calls while the module is loaded and unloaded.
Unloading == {
  [Calls(<<Map>>, <<>>) EXCEPT !.apart = FALSE, !.faults = 1],
  [Calls(<<Read>>, <<>>) EXCEPT !.apart = FALSE, !.faults = 1],
  [Calls(<<Mode>>, <<Read>>) EXCEPT !.apart = FALSE] }

\* For the run about records that are shown again: one reader, nothing fails.
MCOneReader == {[Calls(<<Read>>, <<>>) EXCEPT !.layout = Near]}

MCCases == Alone \cup AloneMapping \cup InUseAlready \cup Together \cup Unloading
=============================================================================
