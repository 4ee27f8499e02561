--------------------------- MODULE MCSwapPartitions ---------------------------
(* SwapPartitions on a device of four TPCs with two SMs each. *)
EXTENDS SwapPartitions

\* SMs 0-3 are TPCs 0 and 1; SMs 4-7 are TPCs 2 and 3; 3-7 overlaps with 0-3.
LowerHalf == [lo |-> 0, hi |-> 3]
UpperHalf == [lo |-> 4, hi |-> 7]
UpperPart == [lo |-> 3, hi |-> 7]

Invocation(slices, phases, warmup, drain, upper, fail) ==
  [num_slices |-> slices, max_phases |-> phases, warmup |-> warmup,
   drain_before_swap |-> drain, may_fail |-> fail,
   partition |-> [k \in Roles |-> IF k = 0 THEN LowerHalf ELSE upper]]

\* The loop ends by its cap or for lack of rows, after an odd and an even
\* number of phases, with and without the clean handoff, and with errors.
MCInvocations == {
  Invocation(4, 3, 1, TRUE, UpperHalf, TRUE),
  Invocation(2, 4, 1, TRUE, UpperHalf, FALSE),
  Invocation(5, 4, 2, FALSE, UpperHalf, FALSE),
  Invocation(3, 5, 0, FALSE, UpperHalf, TRUE),
  Invocation(4, 3, 1, TRUE, UpperPart, FALSE) }
=============================================================================
