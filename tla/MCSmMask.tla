------------------------------ MODULE MCSmMask ------------------------------
(* Two threads that share a stream, and one TPC in each of the two words of *)
(* an older TMD.                                                            *)
EXTENDS SmMask

CONSTANTS t1, t2, s1

TwoThreads == {t1, t2}
NoSetter == {}
OneStream == {s1}

\* TPC k has its bit in word k.
TwoTPCs == 0 .. 1
WordOfTPC == [tpc \in TPCs |-> tpc]

LowMasks == {{}, {0}, {1}}
=============================================================================
