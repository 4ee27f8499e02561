----------------------------- MODULE MCTaskHost -----------------------------
(* The experiments of TaskHost that the .cfg files check. *)
EXTENDS TaskHost

Experiment(limits, timed, terminators, sync, processes, faults) ==
  [max_iterations |-> limits, timed |-> timed, terminators |-> terminators,
   sync_every_iteration |-> sync, use_processes |-> processes, faults |-> faults]

Each(n) == [t \in Tasks |-> n]

\* Three tasks.  In the first experiment task 1 is a terminator with a limit,
\* task 2 has a time limit and task 3 runs until the terminator stops it; in
\* the second the tasks are processes that stop for different reasons; in the
\* third all go in step, and in the fourth they do so with a time limit; the
\* fifth has no end; in the last two every call may fail.
MCConfigs == {
  Experiment(<<2, 0, 0>>, {2}, {1}, FALSE, FALSE, {}),
  Experiment(<<1, 2, 0>>, {3}, {}, FALSE, TRUE, {}),
  Experiment(Each(2), {}, {1}, TRUE, FALSE, {}),
  Experiment(Each(2), {2}, {}, TRUE, FALSE, {}),
  Experiment(<<0, 1, 1>>, {}, {}, FALSE, FALSE, {}),
  Experiment(Each(1), {}, {1}, FALSE, FALSE, FaultKinds \ {"crash"}),
  Experiment(Each(1), {}, {1}, FALSE, TRUE, FaultKinds) }

\* Tasks one of which may fail to initialize.
InitMayFail == {Experiment(Each(1), {}, {}, FALSE, FALSE, {"init"})}
=============================================================================
