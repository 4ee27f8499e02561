----------------------------- MODULE SliceQueue -----------------------------
(***************************************************************************)
(* The measured loop of the single-process benchmark                       *)
(* tests/mask_switch_rate_single_process_dynamic: a GEMM is cut into       *)
(* slices, each launched on a stream of its own under the next mask of a   *)
(* schedule.  At most MaxInflight slices are in flight: when the queue is  *)
(* full, the host drains its front before it deploys the next one.         *)
(*                                                                         *)
(* The GPU (external) runs slices of different streams in any order and at *)
(* the same time.                                                          *)
(***************************************************************************)
EXTENDS Integers, Sequences, FiniteSets

CONSTANTS
  NumSlices,     \* ceil(m / slice_rows)
  MaxSlices,     \* --max-slices
  MaxInflight,   \* --max-inflight
  SampleEvery    \* --sample-every

\* parse_cli refuses a value that is not positive (:149)
ASSUME OptionsAssumption ==
  \A option \in {NumSlices, MaxSlices, MaxInflight, SampleEvery} : option \in Nat \ {0}

VARIABLES
  pc,          \* where main is
  deploy_idx,  \* slices deployed so far (row0 = deploy_idx * slice_rows)
  inflight,    \* the deque of deployed slices that are not finished
  kernel,      \* the state of each slice's kernel on the GPU
  streams,     \* the slices whose stream and event exist
  buffers,     \* the slices whose SMID buffer is allocated
  rows         \* the slices recorded, in order

vars == <<pc, deploy_idx, inflight, kernel, streams, buffers, rows>>

Slices == 0 .. NumSlices - 1
Sampled(n) == n % SampleEvery = 0
Completed == {n \in Slices : kernel[n] = "done"}
Deployed == 0 .. deploy_idx - 1

Init ==
  /\ pc = "loop"
  /\ deploy_idx = 0
  /\ inflight = << >>
  /\ kernel = [n \in Slices |-> "none"]
  /\ streams = {}
  /\ buffers = {}
  /\ rows = << >>

-----------------------------------------------------------------------------
(* Mutants *)

\* A slice is finished without waiting for its event.
FinishNoSync(n) ==
  /\ inflight' = Tail(inflight)
  /\ rows' = Append(rows, n)
  /\ buffers' = buffers \ {n}
  /\ streams' = streams \ {n}
  /\ UNCHANGED <<deploy_idx, kernel>>

\* The stream of a slice that was not sampled is not destroyed.
FinishLeak(n) ==
  /\ kernel[n] = "done"
  /\ Sampled(n) => Deployed \subseteq Completed
  /\ inflight' = Tail(inflight)
  /\ rows' = Append(rows, n)
  /\ buffers' = buffers \ {n}
  /\ streams' = IF Sampled(n) THEN streams \ {n} ELSE streams
  /\ UNCHANGED <<deploy_idx, kernel>>

\* The last drain passes over a slice that was not sampled, and leaves it in
\* the queue: it meets it again for ever.
FinalDrainSampledOnly ==
  /\ pc = "final"
  /\ IF inflight = << >>
     THEN pc' = "sync" /\ UNCHANGED <<deploy_idx, inflight, kernel, streams, buffers, rows>>
     ELSE IF Sampled(Head(inflight))
          THEN /\ kernel[Head(inflight)] = "done"
               /\ Deployed \subseteq Completed
               /\ inflight' = Tail(inflight)
               /\ rows' = Append(rows, Head(inflight))
               /\ buffers' = buffers \ {Head(inflight)}
               /\ streams' = streams \ {Head(inflight)}
               /\ UNCHANGED <<pc, deploy_idx, kernel>>
          ELSE UNCHANGED vars

-----------------------------------------------------------------------------
(* finish_inflight_slice: wait for the event of the slice, copy and free its
   SMID buffer if it was sampled, record it, and destroy its event and stream.
   The buffer is copied by cudaMemcpy, on the legacy default stream, which
   waits for everything enqueued on the streams cudaStreamCreate made. *)
Finish(n) ==
  /\ kernel[n] = "done"
  /\ Sampled(n) => Deployed \subseteq Completed
  /\ inflight' = Tail(inflight)
  /\ rows' = Append(rows, n)
  /\ buffers' = buffers \ {n}
  /\ streams' = streams \ {n}
  /\ UNCHANGED <<deploy_idx, kernel>>

\* The loop's condition and that of the drain inside it.
LoopTop ==
  /\ pc = "loop"
  /\ pc' = IF deploy_idx >= NumSlices \/ deploy_idx >= MaxSlices THEN "final"
           ELSE IF Len(inflight) >= MaxInflight THEN "drain" ELSE "deploy"
  /\ UNCHANGED <<deploy_idx, inflight, kernel, streams, buffers, rows>>

DrainOldest ==
  /\ pc = "drain"
  /\ Finish(Head(inflight))
  /\ pc' = "loop"

\* A fresh stream, the mask, the buffer if this slice is sampled, the launch
\* and the event.
Deploy ==
  /\ pc = "deploy"
  /\ streams' = streams \cup {deploy_idx}
  /\ buffers' = IF Sampled(deploy_idx) THEN buffers \cup {deploy_idx} ELSE buffers
  /\ kernel' = [kernel EXCEPT ![deploy_idx] = "queued"]
  /\ inflight' = Append(inflight, deploy_idx)
  /\ deploy_idx' = deploy_idx + 1
  /\ pc' = "loop"
  /\ UNCHANGED rows

FinalDrain ==
  /\ pc = "final"
  /\ IF inflight = << >>
     THEN pc' = "sync" /\ UNCHANGED <<deploy_idx, inflight, kernel, streams, buffers, rows>>
     ELSE Finish(Head(inflight)) /\ UNCHANGED pc

\* cudaDeviceSynchronize, then the tables are written and the run is over.
DeviceSync ==
  /\ pc = "sync" /\ Deployed \subseteq Completed
  /\ pc' = "done"
  /\ UNCHANGED <<deploy_idx, inflight, kernel, streams, buffers, rows>>

Gpu(n) ==
  /\ \/ kernel[n] = "queued" /\ kernel' = [kernel EXCEPT ![n] = "running"]
     \/ kernel[n] = "running" /\ kernel' = [kernel EXCEPT ![n] = "done"]
  /\ UNCHANGED <<pc, deploy_idx, inflight, streams, buffers, rows>>

Host == LoopTop \/ DrainOldest \/ Deploy \/ FinalDrain \/ DeviceSync

Stopped == pc = "done" /\ UNCHANGED vars

Next == Host \/ (\E n \in Slices : Gpu(n)) \/ Stopped

Spec == Init /\ [][Next]_vars

\* The host runs, and the GPU gets to every slice.
FairSpec == Spec /\ WF_vars(Host) /\ \A n \in Slices : WF_vars(Gpu(n))

-----------------------------------------------------------------------------
(* Properties *)

\* "to avoid unbounded resource growth" (README.md:10): there are never more
\* streams and buffers than --max-inflight, and each belongs to a queued slice.
ResourcesBounded ==
  /\ Cardinality(streams) <= MaxInflight
  /\ \A n \in streams : \E x \in 1 .. Len(inflight) : inflight[x] = n

\* A slice's SMID buffer and stream exist for as long as its kernel may write.
BuffersOutliveKernels ==
  \A n \in Slices : kernel[n] \in {"queued", "running"} =>
    n \in streams /\ (Sampled(n) => n \in buffers)

\* What a slice in flight needs is there, and no more than the limit.
ResourcesHeld == ResourcesBounded /\ BuffersOutliveKernels

\* At the end every slice of the GEMM (up to the cap) was recorded once, in
\* the order it was deployed, and nothing is left allocated.
EverySliceRecorded ==
  pc = "done" =>
    /\ rows = [x \in 1 .. deploy_idx |-> x - 1]
    /\ deploy_idx = NumSlices \/ deploy_idx = MaxSlices
    /\ streams = {} /\ buffers = {}

\* The run comes to its end.
RunCompletes == <>(pc = "done")

=============================================================================
