----------------------------- MODULE MCStartup -----------------------------
(* The configuration files for which Startup is checked. *)
EXTENDS Startup

Benchmark == [filename |-> Str("counter_spin.so"), thread_count |-> Num(32),
              block_count |-> Num(1), data_size |-> Num(0)]
Global == [name |-> Str("scenario"), max_iterations |-> Num(2), max_time |-> Num(0),
           cuda_device |-> Num(0)]

File(more, benchmarks) ==
  [json |-> Obj(more @@ Global @@ [benchmarks |-> Arr([i \in DOMAIN benchmarks |->
                                     Obj(benchmarks[i] @@ Benchmark)])]),
   stdin |-> TRUE, chunks |-> 0, smctrl |-> TRUE, cpu_set |-> {0, 1}]

None == <<>>
Without(k) == [File(None, <<None>>) EXCEPT
                 !.json = Obj([x \in DOMAIN @.value \ {k} |-> @.value[x]])]
Bad(more) == File(None, <<None, more>>)

\* Files that are accepted: every setting once, tasks of different limits, and
\* tasks pinned to the cores there are.
Good == <<
  [File(None, <<None>>) EXCEPT !.stdin = FALSE, !.chunks = 1],
  File([use_processes |-> Bool(TRUE), base_result_directory |-> Str("r"),
        do_warmup |-> Bool(TRUE), max_time_s |-> Num(1)],
       <<[log_name |-> Str("l"), label |-> Str("x"), additional_info |-> Str("i"),
          max_iterations |-> Num(3), mps_thread_percentage |-> Num(50),
          sm_mask |-> Str("~1")],
         [thread_count |-> Arr(<<Num(4), Num(2)>>), terminator |-> Bool(TRUE),
          max_iterations |-> Num(-5)]>>),
  File([sync_every_iteration |-> Bool(TRUE)], <<None, None>>),
  [File(None, <<[cpu_core |-> Num(3)], None>>) EXCEPT !.cpu_set = {3}] >>
Pinned == [i \in 1..4 |-> [File([pin_cpus |-> Bool(TRUE)], <<None, None, None>>) EXCEPT
                             !.cpu_set = <<{0}, {0, 1}, {1, 3}, {0, 2, 3}>>[i]]]

\* Files that are refused, or crash the parser: one for each of its tests.
Refused == <<
  [File(None, <<None>>) EXCEPT !.json = Str("no object")],
  File([sync_every_iteration |-> Bool(TRUE)], <<None, [max_iterations |-> Num(3)]>>),
  File([colour |-> Num(1)], <<None>>), File([max_iterations |-> Num(-1)], <<None>>),
  File([pin_cpus |-> Num(1)], <<None>>), File([use_processes |-> Num(1)], <<None>>),
  File([do_warmup |-> Num(1)], <<None>>), File([sync_every_iteration |-> Num(1)], <<None>>),
  File([base_result_directory |-> Num(1)], <<None>>), File(None, <<>>),
  Without("name"), Without("cuda_device"), Without("max_time"), Without("benchmarks"),
  Bad([colour |-> Num(1)]), Bad([filename |-> Num(1)]), Bad([log_name |-> Num(1)]),
  Bad([label |-> Num(1)]), Bad([mps_thread_percentage |-> Num(0)]),
  Bad([thread_count |-> Num(0)]), Bad([block_count |-> Arr(<<>>)]),
  Bad([data_size |-> Str("1")]), Bad([max_iterations |-> Str("1")]),
  Bad([cpu_core |-> Str("1")]), Bad([cpu_core |-> Num(7)]),
  [Bad([sm_mask |-> Str("1")]) EXCEPT !.smctrl = FALSE],
  [File(None, <<None>>) EXCEPT !.json.value["benchmarks"].value[1] =
     Obj([filename |-> Str("x")])] >>

MCFiles == Good \o Pinned \o Refused
=============================================================================
