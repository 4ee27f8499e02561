------------------------------ MODULE MCPlugin ------------------------------
(* The action lists of stream_action for which Plugin is checked. *)
EXTENDS Plugin

Action(type, p) == Obj([type |-> Str(type), label |-> Str("l"), parameters |-> Obj(p)])
Bare(type) == Obj([type |-> Str(type), label |-> Str("l")])

Malloc(h) == Action("malloc", [size |-> Num(1), host |-> Bool(h)])
Free(h)   == Action("free", [host |-> Bool(h)])
Memcpy(d, async, n) ==
  Action("memcpy", [size |-> Num(n), direction |-> Str(d), async |-> Bool(async)])

\* One action of every kind and with every default.
Good == << Action("kernel", [duration |-> Num(1)]),
           Action("malloc", [size |-> Num(1)]), Bare("free"),
           Action("memset", [size |-> Num(1)]),
           Action("memset", [size |-> Num(2), async |-> Bool(FALSE)]),
           Memcpy("deviceToHost", TRUE, 3), Memcpy("hostToDevice", FALSE, 2),
           Memcpy("deviceToDevice", FALSE, 1),
           Bare("synchronize"), Action("synchronize", [device |-> Bool(TRUE)]) >>

\* Actions that are refused: one for each test of the parser.
Bad == << Bare("kernel"), Bare("malloc"), Bare("launch"), Obj([type |-> Str("free")]),
          Action("kernel", [type |-> Str("sleep"), duration |-> Num(1)]),
          Action("kernel", [duration |-> Num(1), shared_memory_size |-> Num(100)]),
          Action("malloc", [size |-> Str("1")]),
          Action("free", [size |-> Num(1)]), Action("memset", [async |-> Bool(TRUE)]),
          Memcpy("hostToHost", TRUE, 1), Action("synchronize", [device |-> Num(1)]) >>

Info(list, null_stream) ==
  [json |-> Obj([actions |-> Arr(list), use_null_stream |-> Bool(null_stream)]),
   one_dimensional |-> TRUE]

\* The lists L(a, b), for all a and b in 1..n.
Pairs(n, L(_, _)) == [k \in 1..(n * n) |-> L(1 + ((k - 1) \div n), 1 + ((k - 1) % n))]
Bit(k, i) == (k \div 2^i) % 2 = 1

\* All pairs of actions, on either stream; a bad one after a good one and
\* before; two kernels with something between; mallocs and frees of either
\* memory in two orders; and what is refused before its actions are parsed.
MCInfos ==
  Pairs(10, LAMBDA a, b : Info(<<Good[a], Good[b]>>, FALSE))
  \o Pairs(10, LAMBDA a, b : Info(<<Good[a], Good[b]>>, TRUE))
  \o [b \in 1..11 |-> Info(<<Good[1], Bad[b]>>, FALSE)]
  \o [b \in 1..11 |-> Info(<<Bad[b], Good[3]>>, TRUE)]
  \o [a \in 1..10 |-> Info(<<Good[1], Good[a], Good[1]>>, FALSE)]
  \o [a \in 1..10 |-> Info(<<Good[1], Good[a], Good[1]>>, TRUE)]
  \o [k \in 1..16 |-> Info(<<Malloc(Bit(k, 0)), Malloc(Bit(k, 1)), Free(Bit(k, 2)),
                             Free(Bit(k, 3))>>, FALSE)]
  \o [k \in 1..16 |-> Info(<<Free(Bit(k, 0)), Malloc(Bit(k, 1)), Malloc(Bit(k, 2)),
                             Free(Bit(k, 3))>>, FALSE)]
  \o << [Info(<<Good[1]>>, FALSE) EXCEPT !.one_dimensional = FALSE], Info(<<>>, TRUE),
        [json |-> Num(1), one_dimensional |-> TRUE],
        [json |-> Obj([streams |-> Num(1)]), one_dimensional |-> TRUE],
        [json |-> Obj([use_null_stream |-> Num(1)]), one_dimensional |-> TRUE],
        [json |-> Obj([actions |-> Num(1)]), one_dimensional |-> TRUE] >>
=============================================================================
