-------------------------- MODULE MCSupremeControl --------------------------
(* Masks of six bits on a GPU of four TPCs in two GPCs, a thread, and two *)
(* nvtaskset processes.                                                   *)
EXTENDS SupremeControl

CONSTANTS t1, n1, n2, s1

OneThread == {t1}
TwoSetters == {n1, n2}
OneStream == {s1}
SixTPCs == 0 .. 5   \* the bits
WordOfTPC == [tpc \in TPCs |-> <<0, 0, 1, 2, 3, 3>>[tpc + 1]]
TwoGPCs == [g \in 0 .. 1 |-> IF g = 0 THEN {0, 2} ELSE {1, 3}]

\* One leaves the TPCs 1 and 3, the other one TPC too many.
TwoMasks == {{0, 2, 4, 5}, {5}}
=============================================================================
