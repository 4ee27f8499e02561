----------------------------- MODULE PluginCalls -----------------------------
(***************************************************************************)
(* The calls that the functions of a benchmark plug-in are made of.        *)
(*                                                                         *)
(* A plug-in is a record of sequences of calls, one per function of the    *)
(* library interface, in the order the code makes them.  A call of         *)
(* Initialize that may fail carries the releases the code makes then: all  *)
(* of Cleanup, a part of it, or nothing where it just returns NULL.        *)
(***************************************************************************)
EXTENDS Integers, Sequences, FiniteSets, SequencesExt, FiniteSetsExt, TLC

\* Of whoever makes the calls: the runner in module Startup, an instance of a
\* plug-in in module Plugin.
VARIABLES program,   \* the calls it makes
          pc,        \* the next of them
          held,      \* resources acquired and not yet released
          todo       \* releases still to be made before it ends

Call(op, res, src, dst, size, fail) ==
  [op |-> op, res |-> res, src |-> src, dst |-> dst, size |-> size, fail |-> fail]

\* A test of a parameter or of a call that acquires nothing; Refuse is one
\* that the given parameters do not pass.
Check(fail)  == Call("check", "none", "none", {}, 0, fail)
Refuse(fail) == Call("refuse", "none", "none", {}, 0, fail)
Test(ok, fail) == IF ok THEN Check(fail) ELSE Refuse(fail)

\* An allocation or creation; Gets makes several that fail alike.
Get(r, fail) == Call("get", r, "none", {}, 0, fail)
Gets(rs, fail) == [i \in DOMAIN rs |-> Get(rs[i], fail)]

\* calloc() without a check of its result.
Unchecked(r) == Call("unchecked", r, "none", {}, 0, <<>>)

\* free() of a local buffer in the middle of Initialize.
Put(r) == Call("put", r, "none", {}, 0, <<>>)

\* Asynchronous work on stream s: a kernel that writes dst, a kernel that
\* records its start only into a buffer reset before, a copy, a memset.
Kernel(s, dst) == Call("kernel", s, "none", dst, 0, <<>>)
KernelIfReset(s, dst) == Call("kernel_if_reset", s, "none", dst, 0, <<>>)
Copy(s, src, dst, fail) == Call("copy", s, src, {dst}, 0, fail)
Reset(s, dst, fail) == Call("reset", s, "none", {dst}, 0, fail)
Sized(c, n) == [c EXCEPT !.size = n]

\* cudaMemcpy between host and device, on the default stream: it returns when
\* the copy is done.
CopyNow(src, dst, fail) == Call("copy_now", "legacy", src, {dst}, 0, fail)

\* cudaStreamSynchronize, or with "device" cudaDeviceSynchronize.
Wait(s, fail) == Call("wait", s, "none", {}, 0, fail)

\* Work of the CPU, done when the call returns.
Compute(dst) == Call("compute", "none", "none", dst, 0, <<>>)

\* Filling the walk buffer on the host.
Fill(order) == Call("fill", order, "none", {}, 0, <<>>)

\* An allocation pushed on, and a free popped from, a stack of at most size
\* pointers.
Push(array, limit, fail) == Call("push", array, "none", {}, limit, fail)
Pop(array) == Call("pop", array, "none", {}, 0, <<>>)

\* The member of an array of buffers.
Numbered(name, i) == name \o ToString(i)
=============================================================================
