------------------------ MODULE SupremeControl_proofs ------------------------
(***************************************************************************)
(* What is proved of SmMask, for any number of threads, streams, TPCs and  *)
(* nvtaskset processes, any masks, either version of the TMD and of the    *)
(* stream struct, with and without the wrapper:                            *)
(*   TypeCorrect         the variables stay within their ranges;           *)
(*   SetsUpOnce          the callback is subscribed once;                  *)
(*   SupremePrevails     no launch escapes the supreme mask;               *)
(*   PrecedenceRespected every launch whose own mask is not 0, of a thread *)
(*                       whose launches the callback has not missed, gets  *)
(*                       the mask that the documented precedence gives it; *)
(*   FirstMaskHonoured   if the callback was set up before the threads ran *)
(*                       it has missed none;                               *)
(* and of SupremeControl, which extends it, for any set of changes:        *)
(*   LastMaskApplies        the mask in force is the one that the          *)
(*                          environment or the last change asked for;      *)
(*   ControlledMaskPrevails no launch escapes it;                          *)
(*   QueriesReadBack        a partition that is printed as a list is read  *)
(*                          back as the same partition or refused, and it  *)
(*                          is exactly known when it is refused.           *)
(* ControlledMaskPrevails rests on the steps of the invariants of SmMask,  *)
(* QueriesReadBack on an induction over the bits of a mask and the tokens  *)
(* of a list.                                                              *)
(***************************************************************************)
EXTENDS SupremeControl, TLAPS, WellFoundedInduction

-----------------------------------------------------------------------------
(* The lists of nvtaskset. *)

\* Induction on the numbers, as a fact about sets.
LEMMA LessWellFounded == IsWellFoundedOn({p \in Nat \X Nat : p[1] < p[2]}, Nat)
BY NatLessThanWellFounded DEF OpToRel

\* A set of numbers that has 0, and with a number the next, has them all.
LEMMA FromZeroUp ==
  ASSUME NEW T \in SUBSET Nat, 0 \in T, \A n \in T : n + 1 \in T
  PROVE  T = Nat
<1> DEFINE Rest == Nat \ T
<1> SUFFICES ASSUME Rest # {} PROVE FALSE
  OBVIOUS
<1>1. PICK x \in Rest : \A y \in Rest : ~ (<<y, x>> \in {p \in Nat \X Nat : p[1] < p[2]})
  <2>1. Rest \subseteq Nat
    OBVIOUS
  <2> HIDE DEF Rest
  <2> QED
    BY <2>1, WFMin, LessWellFounded
<1>2. \A y \in Rest : ~ (y < x)
  BY <1>1
<1>3. x # 0 /\ x \in Nat
  OBVIOUS
<1>4. x - 1 \in Nat /\ x - 1 < x
  BY <1>3
<1>5. x - 1 \in T
  BY <1>2, <1>4
<1>6. (x - 1) + 1 \in T
  BY <1>5
<1> QED
  BY <1>3, <1>6

\* compose_list is a recursive function: one exists, and it makes these steps.
ComposeStart(start) == [list |-> <<>>, in_range |-> start, last_enabled |-> -2]

ComposeStep(mask, start, g, w) ==
  g = [n \in 0..w |-> IF n = 0 THEN ComposeStart(start)
                      ELSE ComposeBit(mask, g[n-1], n-1)]

LEMMA ComposedExists ==
  ASSUME NEW mask, NEW start, NEW width \in Nat
  PROVE  \E g : ComposeStep(mask, start, g, width)
<1> DEFINE T == {w \in Nat : \E g : ComposeStep(mask, start, g, w)}
<1>1. 0 \in T
  <2> DEFINE g == [n \in 0..0 |-> ComposeStart(start)]
  <2>1. ComposeStep(mask, start, g, 0)
    BY DEF ComposeStep
  <2> QED
    BY <2>1
<1>2. ASSUME NEW w \in T PROVE w + 1 \in T
  <2>1. PICK g : ComposeStep(mask, start, g, w)
    OBVIOUS
  <2> DEFINE h == [n \in 0..(w+1) |-> IF n = w + 1 THEN ComposeBit(mask, g[w], w) ELSE g[n]]
  <2>2. ASSUME NEW n \in 0..(w+1)
        PROVE  h[n] = IF n = 0 THEN ComposeStart(start)
                      ELSE ComposeBit(mask, h[n-1], n-1)
    <3>1. CASE n = w + 1
      <4>1. h[n] = ComposeBit(mask, g[w], w) /\ n # 0 /\ n - 1 = w
        BY <3>1
      <4>2. h[w] = g[w]
        OBVIOUS
      <4> HIDE DEF h
      <4> QED
        BY <4>1, <4>2
    <3>2. CASE n # w + 1
      <4>1. h[n] = g[n] /\ n \in 0..w
        BY <3>2
      <4>2. n # 0 => h[n-1] = g[n-1]
        BY <4>1
      <4> HIDE DEF h
      <4> QED
        BY <2>1, <4>1, <4>2 DEF ComposeStep
    <3> QED
      BY <3>1, <3>2
  <2>3. h = [n \in 0..(w+1) |-> h[n]]
    OBVIOUS
  <2>4. ComposeStep(mask, start, h, w + 1)
    <3> HIDE DEF h
    <3> QED
      BY <2>2, <2>3 DEF ComposeStep
  <2> HIDE DEF h
  <2> QED
    BY <2>4
<1>3. T = Nat
  <2> HIDE DEF T
  <2>0. T \in SUBSET Nat
    BY DEF T
  <2> QED
    BY <1>1, <1>2, <2>0, FromZeroUp
<1> QED
  BY <1>3

LEMMA ComposedStep ==
  ASSUME NEW mask, NEW start, NEW width \in Nat
  PROVE  /\ Composed(mask, width, start)[0] = ComposeStart(start)
         /\ \A n \in 1..width :
              Composed(mask, width, start)[n] = ComposeBit(mask, Composed(mask, width, start)[n-1], n-1)
<1> DEFINE C == Composed(mask, width, start)
<1>1. C = CHOOSE g : ComposeStep(mask, start, g, width)
  BY DEF Composed, ComposeStep, ComposeStart
<1>2. ComposeStep(mask, start, C, width)
  BY <1>1, ComposedExists
<1> HIDE DEF C
<1>3. C[0] = ComposeStart(start)
  BY <1>2 DEF ComposeStep
<1>4. \A n \in 1..width : C[n] = ComposeBit(mask, C[n-1], n-1)
  BY <1>2 DEF ComposeStep
<1> QED
  BY <1>3, <1>4 DEF C

\* So is parse_list.
ParseStart == [mask |-> {}, from |-> -1, num |-> -1]

ParseStep(text, valid, g, w) ==
  g = [n \in 0..w |-> IF n = 0 THEN ParseStart
                      ELSE ParseToken(valid, g[n-1], text[n])]

LEMMA ParsedExists ==
  ASSUME NEW text, NEW valid, NEW width \in Nat
  PROVE  \E g : ParseStep(text, valid, g, width)
<1> DEFINE T == {w \in Nat : \E g : ParseStep(text, valid, g, w)}
<1>1. 0 \in T
  <2> DEFINE g == [n \in 0..0 |-> ParseStart]
  <2>1. ParseStep(text, valid, g, 0)
    BY DEF ParseStep
  <2> QED
    BY <2>1
<1>2. ASSUME NEW w \in T PROVE w + 1 \in T
  <2>1. PICK g : ParseStep(text, valid, g, w)
    OBVIOUS
  <2> DEFINE h == [n \in 0..(w+1) |-> IF n = w + 1 THEN ParseToken(valid, g[w], text[w+1]) ELSE g[n]]
  <2>2. ASSUME NEW n \in 0..(w+1)
        PROVE  h[n] = IF n = 0 THEN ParseStart
                      ELSE ParseToken(valid, h[n-1], text[n])
    <3>1. CASE n = w + 1
      <4>1. h[n] = ParseToken(valid, g[w], text[n]) /\ n # 0 /\ n - 1 = w
        BY <3>1
      <4>2. h[w] = g[w]
        OBVIOUS
      <4> HIDE DEF h
      <4> QED
        BY <4>1, <4>2
    <3>2. CASE n # w + 1
      <4>1. h[n] = g[n] /\ n \in 0..w
        BY <3>2
      <4>2. n # 0 => h[n-1] = g[n-1]
        BY <4>1
      <4> HIDE DEF h
      <4> QED
        BY <2>1, <4>1, <4>2 DEF ParseStep
    <3> QED
      BY <3>1, <3>2
  <2>3. h = [n \in 0..(w+1) |-> h[n]]
    OBVIOUS
  <2>4. ParseStep(text, valid, h, w + 1)
    <3> HIDE DEF h
    <3> QED
      BY <2>2, <2>3 DEF ParseStep
  <2> HIDE DEF h
  <2> QED
    BY <2>4
<1>3. T = Nat
  <2> HIDE DEF T
  <2>0. T \in SUBSET Nat
    BY DEF T
  <2> QED
    BY <1>1, <1>2, <2>0, FromZeroUp
<1> QED
  BY <1>3

LEMMA ParsedStep ==
  ASSUME NEW text \in Seq(Int), NEW valid
  PROVE  /\ Parsed(text, valid)[0] = ParseStart
         /\ \A n \in 1..Len(text) :
              Parsed(text, valid)[n] = ParseToken(valid, Parsed(text, valid)[n-1], text[n])
<1> DEFINE C == Parsed(text, valid)
<1>0. Len(text) \in Nat
  OBVIOUS
<1>1. C = CHOOSE g : ParseStep(text, valid, g, Len(text))
  BY DEF Parsed, ParseStep, ParseStart
<1>2. ParseStep(text, valid, C, Len(text))
  BY <1>0, <1>1, ParsedExists
<1> HIDE DEF C
<1>3. C[0] = ParseStart
  BY <1>0, <1>2 DEF ParseStep, ParseStart
<1>4. ASSUME NEW n \in 1..Len(text)
      PROVE  C[n] = ParseToken(valid, C[n-1], text[n])
  <2>1. n \in 0..Len(text) /\ n # 0
    BY <1>0
  <2>2. C[n] = IF n = 0 THEN ParseStart
                ELSE ParseToken(valid, C[n-1], text[n])
    BY <1>2, <2>1, Zenon DEF ParseStep
  <2> QED
    BY <2>1, <2>2
<1> QED
  BY <1>3, <1>4 DEF C

\* What is read of a list that may go on; the next token is read on top of it.
Read(list, valid) == Parsed(list, valid)[Len(list)]

LEMMA ReadEmpty == \A valid : Read(<<>>, valid) = ParseStart
<1>1. <<>> \in Seq(Int) /\ Len(<<>>) = 0
  OBVIOUS
<1> QED
  BY <1>1, ParsedStep DEF Read

LEMMA ReadAppend ==
  ASSUME NEW list \in Seq(Int), NEW tok \in Int, NEW valid
  PROVE  Read(Append(list, tok), valid) = ParseToken(valid, Read(list, valid), tok)
<1> DEFINE longer == Append(list, tok)
           P == Parsed(list, valid)
           Q == Parsed(longer, valid)
           T == {n \in Nat : n <= Len(list) => Q[n] = P[n]}
<1>1. longer \in Seq(Int) /\ Len(longer) = Len(list) + 1 /\ Len(list) \in Nat
      /\ longer[Len(list) + 1] = tok /\ \A n \in 1..Len(list) : longer[n] = list[n]
  OBVIOUS
<1>2. P[0] = ParseStart /\ \A n \in 1..Len(list) : P[n] = ParseToken(valid, P[n-1], list[n])
  BY ParsedStep
<1>3. Q[0] = ParseStart /\ \A n \in 1..Len(longer) : Q[n] = ParseToken(valid, Q[n-1], longer[n])
  BY <1>1, ParsedStep
<1> HIDE DEF longer, P, Q
<1>4. 0 \in T
  BY <1>2, <1>3
<1>5. ASSUME NEW n \in T PROVE n + 1 \in T
  <2> SUFFICES ASSUME n + 1 <= Len(list) PROVE Q[n+1] = P[n+1]
    OBVIOUS
  <2>1. Q[n] = P[n] /\ n \in Nat
    BY <1>1
  <2>2. n + 1 \in 1..Len(list) /\ n + 1 \in 1..Len(longer) /\ (n + 1) - 1 = n
    <3>1. Len(list) \in Nat /\ Len(longer) = Len(list) + 1 /\ n \in Nat
      BY <1>1, <2>1
    <3> HIDE DEF T
    <3> QED
      BY <3>1
  <2> QED
    BY <1>1, <1>2, <1>3, <2>1, <2>2
<1>6. T = Nat
  <2>0. T \in SUBSET Nat
    OBVIOUS
  <2> HIDE DEF T
  <2> QED
    BY <1>4, <1>5, <2>0, FromZeroUp
<1>7. Q[Len(list)] = P[Len(list)]
  BY <1>1, <1>6
<1>8. Q[Len(longer)] = ParseToken(valid, Q[Len(list)], tok)
  BY <1>1, <1>3
<1> QED
  BY <1>7, <1>8 DEF Read, longer, P, Q

\* What a token does to a list read so far.
Reading(m, from, num) == [mask |-> m, from |-> from, num |-> num]

LEMMA ReadNumber ==
  ASSUME NEW valid, NEW m, m # Invalid, NEW from \in Int, NEW k \in Nat
  PROVE  ParseToken(valid, Reading(m, from, -1), k) = Reading(m, from, k)
<1> DEFINE s == Reading(m, from, -1)
<1>1. s.mask # Invalid /\ k # Dash /\ k # Comma
  BY DEF Reading, Dash, Comma
<1>2. [s EXCEPT !.num = k] = Reading(m, from, k)
  BY DEF Reading
<1> HIDE DEF s
<1>3. ParseToken(valid, s, k) = [s EXCEPT !.num = k]
  BY <1>1 DEF ParseToken
<1> QED
  BY <1>2, <1>3 DEF s

LEMMA ReadDash ==
  ASSUME NEW valid, NEW m, m # Invalid, NEW k \in Nat
  PROVE  ParseToken(valid, Reading(m, -1, k), Dash) = Reading(m, k, -1)
<1> DEFINE s == Reading(m, -1, k)
<1>1. s.mask = m /\ s.num = k /\ k # -1 /\ Dash # Comma
  BY DEF Reading, Dash, Comma
<1> HIDE DEF s
<1>2. ParseToken(valid, s, Dash) = [mask |-> m, from |-> k, num |-> -1]
  BY <1>1 DEF ParseToken
<1> QED
  BY <1>2 DEF s, Reading

LEMMA ReadItemEnd ==
  ASSUME NEW valid, NEW m, m # Invalid, NEW k \in Nat, k \in valid
  PROVE  ParseToken(valid, Reading(m, -1, k), Comma) = Reading(m \cup {k}, -1, -1)
<1> DEFINE s == Reading(m, -1, k)
<1>1. s.mask = m /\ s.num = k /\ s.from = -1 /\ k # -1 /\ Comma # Dash
  BY DEF Reading, Comma, Dash
<1> HIDE DEF s
<1>2. ParseToken(valid, s, Comma) = [mask |-> m \cup {k}, from |-> -1, num |-> -1]
  BY <1>1 DEF ParseToken
<1> QED
  BY <1>2 DEF s, Reading

LEMMA ReadRangeEnd ==
  ASSUME NEW valid, NEW m, m # Invalid, NEW from \in Nat, NEW k \in Nat, k \in valid, from < k
  PROVE  ParseToken(valid, Reading(m, from, k), Comma) = Reading(m \cup (from..k), -1, -1)
<1> DEFINE s == Reading(m, from, k)
<1>1. s.mask = m /\ s.num = k /\ s.from = from /\ k # -1 /\ from # -1 /\ ~(from >= k) /\ Comma # Dash
  BY DEF Reading, Comma, Dash
<1> HIDE DEF s
<1>2. ParseToken(valid, s, Comma) = [mask |-> m \cup (from..k), from |-> -1, num |-> -1]
  BY <1>1 DEF ParseToken
<1> QED
  BY <1>2 DEF s, Reading

\* The list of the bits below n, as it is read: the items that are closed, and
\* the one that is not.
Listed(mask, c, p, n) ==
  LET bits == mask \cap 0..(n-1)
  IN  /\ c \in [list : Seq(Int), in_range : BOOLEAN, last_enabled : Int]
      /\ c.last_enabled < n
      /\ p \in [mask : SUBSET Nat, from : Int, num : Int]
      /\ c.in_range =>
           /\ c.last_enabled = n - 1 /\ p.num = -1
           /\ p.from \in Nat /\ p.from < n - 1
           /\ n - 2 \in mask /\ n - 1 \in mask
           /\ bits = p.mask \cup (p.from..(n-1))
      /\ ~c.in_range /\ c.last_enabled = n - 1 =>
           /\ n >= 1 /\ p.num = n - 1 /\ p.from = -1
           /\ n - 2 \notin mask
           /\ bits = p.mask \cup {n-1}
           /\ c.list # <<>> /\ Last(c.list) = n - 1
      /\ ~c.in_range /\ c.last_enabled # n - 1 =>
           /\ p.num = -1 /\ p.from = -1
           /\ n - 1 \notin mask
           /\ bits = p.mask
           /\ c.list = <<>> => bits = {}
           /\ c.list # <<>> => Last(c.list) = Comma

\* The token that was appended is the last.
LEMMA LastAppended ==
  ASSUME NEW list \in Seq(Int), NEW token \in Int
  PROVE  /\ Append(list, token) # <<>> /\ Append(list, token) \in Seq(Int)
         /\ Last(Append(list, token)) = token
BY DEF Last

\* A list that is not empty is its front and its last token.
LEMMA FrontAndLast ==
  ASSUME NEW list \in Seq(Int), list # <<>>
  PROVE  Front(list) \in Seq(Int) /\ list = Append(Front(list), Last(list))
<1> DEFINE n == Len(list) - 1
<1>1. n \in Nat /\ Len(list) = n + 1
  OBVIOUS
<1>2. Front(list) = [k \in 1..n |-> list[k]]
  BY <1>1 DEF Front
<1>3. Last(list) = list[n + 1] /\ list[n + 1] \in Int
  BY <1>1 DEF Last
<1>4. \A k \in 1..n : list[k] \in Int
  BY <1>1
<1> HIDE DEF n
<1>5. Front(list) \in Seq(Int) /\ Len(Front(list)) = n /\ \A k \in 1..n : Front(list)[k] = list[k]
  BY <1>1, <1>2, <1>4
<1> QED
  BY <1>1, <1>3, <1>5

\* Every kind of bit keeps that.
LEMMA ReadBit ==
  ASSUME NEW mask \in SUBSET Nat, NEW valid, mask \subseteq valid, NEW n \in Nat,
         NEW c, Listed(mask, c, Read(c.list, valid), n)
  PROVE  LET d == ComposeBit(mask, c, n)
         IN  Listed(mask, d, Read(d.list, valid), n + 1)
<1> DEFINE d == ComposeBit(mask, c, n)
           p == Read(c.list, valid)
           q == Read(d.list, valid)
<1> SUFFICES Listed(mask, d, q, n + 1)
  OBVIOUS
<1>0. /\ c \in [list : Seq(Int), in_range : BOOLEAN, last_enabled : Int]
      /\ p \in [mask : SUBSET Nat, from : Int, num : Int]
      /\ p.mask # Invalid
      /\ c.last_enabled < n
  BY DEF Listed, Invalid
<1>c. c = [list |-> c.list, in_range |-> c.in_range, last_enabled |-> c.last_enabled]
  BY <1>0
<1>p. p = [mask |-> p.mask, from |-> p.from, num |-> p.num]
  BY <1>0
<1>1. n - 1 \in Int /\ n + 1 \in Nat /\ (n + 1) - 1 = n /\ (n + 1) - 2 = n - 1
  OBVIOUS
<1>2. mask \cap 0..n = (mask \cap 0..(n-1)) \cup (mask \cap {n})
  OBVIOUS
<1>3. CASE c.in_range /\ n \in mask
  <2>1. d = [c EXCEPT !.last_enabled = n]
    BY <1>3 DEF ComposeBit
  <2>2. d.list = c.list /\ q = p
    BY <1>0, <2>1
  <2>3. /\ c.last_enabled = n - 1 /\ p.num = -1
        /\ p.from \in Nat /\ p.from < n - 1
        /\ n - 1 \in mask
        /\ mask \cap 0..(n-1) = p.mask \cup (p.from..(n-1))
    BY <1>3 DEF Listed
  <2>4. mask \cap 0..n = p.mask \cup (p.from..n)
    BY <1>2, <1>3, <2>3
  <2>5. d = [list |-> c.list, in_range |-> c.in_range, last_enabled |-> n]
    BY <1>c, <2>1
  <2>6. d \in [list : Seq(Int), in_range : BOOLEAN, last_enabled : Int] /\ d.in_range
        /\ d.last_enabled = n
    BY <1>0, <1>3, <2>5
  <2> HIDE DEF d, p, q
  <2> QED
    BY <1>0, <1>1, <1>3, <2>2, <2>3, <2>4, <2>6 DEF Listed
<1>4. CASE c.in_range /\ n \notin mask
  <2>1. d = [c EXCEPT !.list = Append(@ \o Number(c.last_enabled), Comma), !.in_range = FALSE]
    BY <1>4 DEF ComposeBit
  <2>2. /\ c.last_enabled = n - 1 /\ p.num = -1
        /\ p.from \in Nat /\ p.from < n - 1
        /\ n - 1 \in mask
        /\ mask \cap 0..(n-1) = p.mask \cup (p.from..(n-1))
    BY <1>4 DEF Listed
  <2>3. /\ c.list \in Seq(Int) /\ Comma \in Int /\ n - 1 \in Int
        /\ c.list \o Number(n - 1) = Append(c.list, n - 1)
        /\ Append(c.list, n - 1) \in Seq(Int)
    <3>1. Number(n - 1) = <<n - 1>>
      BY <2>2 DEF Number
    <3> HIDE DEF d, p, q
    <3>2. /\ c.list \in Seq(Int) /\ Comma \in Int /\ n - 1 \in Int
          /\ c.list \o <<n - 1>> = Append(c.list, n - 1)
          /\ Append(c.list, n - 1) \in Seq(Int)
      BY <1>0 DEF Comma
    <3> QED
      BY <3>1, <3>2
  <2>4. d = [list |-> Append(Append(c.list, n - 1), Comma), in_range |-> FALSE, last_enabled |-> n - 1]
    BY <1>0, <2>1, <2>2, <2>3
  <2>5. q = ParseToken(valid, ParseToken(valid, p, n - 1), Comma)
    <3>1. Read(Append(c.list, n - 1), valid) = ParseToken(valid, p, n - 1)
      BY <2>3, ReadAppend
    <3>2. Read(Append(Append(c.list, n - 1), Comma), valid)
            = ParseToken(valid, Read(Append(c.list, n - 1), valid), Comma)
      BY <2>3, ReadAppend
    <3>3. d.list = Append(Append(c.list, n - 1), Comma)
      BY <2>4
    <3> HIDE DEF d
    <3> QED
      BY <3>1, <3>2, <3>3
  <2>6. ParseToken(valid, p, n - 1) = Reading(p.mask, p.from, n - 1)
    <3>1. n - 1 \in Nat /\ p = Reading(p.mask, p.from, -1)
      BY <1>p, <2>2 DEF Reading
    <3> HIDE DEF d, p, q
    <3> QED
      BY <1>0, <2>2, <3>1, ReadNumber
  <2>7. n - 1 \in valid
    BY <2>2
  <2>8r. q = Reading(p.mask \cup (p.from..(n-1)), -1, -1)
    <3>1. n - 1 \in Nat
      BY <2>2
    <3> HIDE DEF d, p, q
    <3> QED
      BY <1>0, <2>2, <2>5, <2>6, <2>7, <3>1, ReadRangeEnd
  <2>8. q = [mask |-> p.mask \cup (p.from..(n-1)), from |-> -1, num |-> -1]
    BY <2>8r DEF Reading
  <2>9. /\ d.list # <<>> /\ Last(d.list) = Comma /\ d.list \in Seq(Int)
    <3>1. d.list = Append(Append(c.list, n - 1), Comma)
      BY <2>4
    <3> DEFINE L == Append(c.list, n - 1)
    <3>2. L \in Seq(Int) /\ Comma \in Int /\ d.list = Append(L, Comma)
      BY <2>3, <3>1
    <3> HIDE DEF d, p, q, L
    <3>3. /\ Append(L, Comma) # <<>> /\ Append(L, Comma) \in Seq(Int)
          /\ Last(Append(L, Comma)) = Comma
      BY <3>2, LastAppended
    <3> QED
      BY <3>2, <3>3
  <2>10. mask \cap 0..n = q.mask /\ q \in [mask : SUBSET Nat, from : Int, num : Int]
    BY <1>2, <1>4, <2>2, <2>8
  <2>11. d.last_enabled = n - 1 /\ ~d.in_range
         /\ d \in [list : Seq(Int), in_range : BOOLEAN, last_enabled : Int]
    BY <1>1, <2>4, <2>9
  <2> HIDE DEF d, p, q
  <2> QED
    BY <1>1, <1>4, <2>8, <2>9, <2>10, <2>11 DEF Listed
<1>5. CASE ~c.in_range /\ c.last_enabled = n - 1 /\ n \in mask
  <2>1. d = [list |-> Append(c.list, Dash), in_range |-> TRUE, last_enabled |-> n]
    BY <1>5 DEF ComposeBit
  <2>2. /\ n >= 1 /\ p.num = n - 1 /\ p.from = -1
        /\ mask \cap 0..(n-1) = p.mask \cup {n-1}
    BY <1>5 DEF Listed
  <2>3. c.list \in Seq(Int) /\ Dash \in Int /\ Append(c.list, Dash) \in Seq(Int)
    BY <1>0 DEF Dash
  <2>4. q = ParseToken(valid, p, Dash)
    BY <2>1, <2>3, ReadAppend
  <2>5r. q = Reading(p.mask, n - 1, -1)
    <3>1. n - 1 \in Nat /\ p = Reading(p.mask, -1, n - 1)
      BY <1>p, <2>2 DEF Reading
    <3> HIDE DEF d, p, q
    <3> QED
      BY <1>0, <2>4, <3>1, ReadDash
  <2>5. q = [mask |-> p.mask, from |-> n - 1, num |-> -1]
    BY <2>5r DEF Reading
  <2>6. n - 1 \in mask
    BY <2>2
  <2>7. mask \cap 0..n = q.mask \cup (q.from..n)
    BY <1>2, <1>5, <2>2, <2>5
  <2>8. /\ d \in [list : Seq(Int), in_range : BOOLEAN, last_enabled : Int]
        /\ q \in [mask : SUBSET Nat, from : Int, num : Int]
        /\ d.in_range /\ d.last_enabled = n /\ q.num = -1 /\ q.from = n - 1 /\ n - 1 \in Nat
    BY <1>0, <2>1, <2>2, <2>3, <2>5
  <2> HIDE DEF d, p, q
  <2> QED
    BY <1>1, <1>5, <2>6, <2>7, <2>8 DEF Listed
<1>6. CASE ~c.in_range /\ c.last_enabled # n - 1 /\ n \in mask
  <2>1. d = [c EXCEPT !.list = Append(@, n), !.last_enabled = n]
    BY <1>6 DEF ComposeBit
  <2>2. /\ p.num = -1 /\ p.from = -1 /\ n - 1 \notin mask
        /\ mask \cap 0..(n-1) = p.mask
    BY <1>6 DEF Listed
  <2>3. c.list \in Seq(Int) /\ n \in Int /\ Append(c.list, n) \in Seq(Int)
    BY <1>0
  <2>4. d = [list |-> Append(c.list, n), in_range |-> FALSE, last_enabled |-> n]
    BY <1>0, <1>6, <2>1
  <2>5. q = ParseToken(valid, p, n)
    BY <2>3, <2>4, ReadAppend
  <2>6r. q = Reading(p.mask, -1, n)
    <3>1. p = Reading(p.mask, -1, -1)
      BY <1>p, <2>2 DEF Reading
    <3> HIDE DEF d, p, q
    <3> QED
      BY <1>0, <2>5, <3>1, ReadNumber
  <2>6. q = [mask |-> p.mask, from |-> -1, num |-> n]
    BY <2>6r DEF Reading
  <2>7. mask \cap 0..n = q.mask \cup {n}
    BY <1>2, <1>6, <2>2, <2>6
  <2>8. /\ d \in [list : Seq(Int), in_range : BOOLEAN, last_enabled : Int]
        /\ q \in [mask : SUBSET Nat, from : Int, num : Int]
        /\ ~d.in_range /\ d.last_enabled = n /\ q.num = n /\ q.from = -1
        /\ d.list # <<>> /\ Last(d.list) = n
    <3>1. /\ d \in [list : Seq(Int), in_range : BOOLEAN, last_enabled : Int]
          /\ ~d.in_range /\ d.last_enabled = n
          /\ d.list # <<>> /\ Last(d.list) = n
      BY <2>3, <2>4, LastAppended
    <3>2. q \in [mask : SUBSET Nat, from : Int, num : Int] /\ q.num = n /\ q.from = -1
      BY <1>0, <2>2, <2>6
    <3> QED
      BY <3>1, <3>2
  <2> HIDE DEF d, p, q
  <2> QED
    BY <1>1, <2>2, <2>7, <2>8 DEF Listed
<1>7. CASE ~c.in_range /\ c.last_enabled = n - 1 /\ n \notin mask
  <2>1. d = [c EXCEPT !.list = Append(@, Comma)]
    BY <1>7 DEF ComposeBit
  <2>2. /\ n >= 1 /\ p.num = n - 1 /\ p.from = -1
        /\ mask \cap 0..(n-1) = p.mask \cup {n-1}
    BY <1>7 DEF Listed
  <2>3. c.list \in Seq(Int) /\ Comma \in Int /\ Append(c.list, Comma) \in Seq(Int)
    BY <1>0 DEF Comma
  <2>4. d = [list |-> Append(c.list, Comma), in_range |-> FALSE, last_enabled |-> n - 1]
    BY <1>0, <1>7, <2>1
  <2>5. q = ParseToken(valid, p, Comma)
    BY <2>3, <2>4, ReadAppend
  <2>6. n - 1 \in valid
    BY <2>2
  <2>7r. q = Reading(p.mask \cup {n-1}, -1, -1)
    <3>1. n - 1 \in Nat /\ p = Reading(p.mask, -1, n - 1)
      BY <1>p, <2>2 DEF Reading
    <3> HIDE DEF d, p, q
    <3> QED
      BY <1>0, <2>5, <2>6, <3>1, ReadItemEnd
  <2>7. q = [mask |-> p.mask \cup {n-1}, from |-> -1, num |-> -1]
    BY <2>7r DEF Reading
  <2>8. mask \cap 0..n = q.mask
    BY <1>2, <1>7, <2>2, <2>7
  <2>9. /\ d \in [list : Seq(Int), in_range : BOOLEAN, last_enabled : Int]
        /\ q \in [mask : SUBSET Nat, from : Int, num : Int]
        /\ ~d.in_range /\ d.last_enabled = n - 1 /\ q.num = -1 /\ q.from = -1
        /\ d.list # <<>> /\ Last(d.list) = Comma
    <3>1. /\ d \in [list : Seq(Int), in_range : BOOLEAN, last_enabled : Int]
          /\ ~d.in_range /\ d.last_enabled = n - 1
      BY <1>1, <2>3, <2>4
    <3>2. q \in [mask : SUBSET Nat, from : Int, num : Int] /\ q.num = -1 /\ q.from = -1
      BY <1>0, <2>2, <2>7
    <3>3. d.list # <<>> /\ Last(d.list) = Comma
      BY <2>3, <2>4, LastAppended
    <3> QED
      BY <3>1, <3>2, <3>3
  <2> HIDE DEF d, p, q
  <2> QED
    BY <1>1, <1>7, <2>8, <2>9 DEF Listed
<1>8. CASE ~c.in_range /\ c.last_enabled # n - 1 /\ n \notin mask
  <2>1. d = c
    BY <1>8 DEF ComposeBit
  <2>2. /\ p.num = -1 /\ p.from = -1
        /\ mask \cap 0..(n-1) = p.mask
        /\ c.list = <<>> => mask \cap 0..(n-1) = {}
        /\ c.list # <<>> => Last(c.list) = Comma
    BY <1>8 DEF Listed
  <2>3. mask \cap 0..n = mask \cap 0..(n-1)
    BY <1>2, <1>8
  <2> HIDE DEF d, p, q
  <2>4. q = p
    BY <2>1 DEF p, q
  <2> QED
    BY <1>0, <1>1, <1>8, <2>1, <2>2, <2>3, <2>4 DEF Listed
<1>9. c.in_range \in BOOLEAN
  BY <1>0
<1> QED
  BY <1>3, <1>4, <1>5, <1>6, <1>7, <1>8, <1>9

\* So it holds of the whole list.
LEMMA ReadComposed ==
  ASSUME NEW mask \in SUBSET Nat, NEW valid, mask \subseteq valid, NEW width \in Nat
  PROVE  LET c == Composed(mask, width, FALSE)[width]
         IN  Listed(mask, c, Read(c.list, valid), width)
<1> DEFINE C == Composed(mask, width, FALSE)
           T == {n \in Nat : n <= width => Listed(mask, C[n], Read(C[n].list, valid), n)}
<1>1. /\ C[0] = [list |-> <<>>, in_range |-> FALSE, last_enabled |-> -2]
      /\ \A n \in 1..width : C[n] = ComposeBit(mask, C[n-1], n-1)
  BY ComposedStep DEF ComposeStart
<1> HIDE DEF C
<1>2. 0 \in T
  <2>1. Read(C[0].list, valid) = ParseStart
    BY <1>1, ReadEmpty
  <2>2. C[0] \in [list : Seq(Int), in_range : BOOLEAN, last_enabled : Int]
        /\ ~C[0].in_range /\ C[0].last_enabled = -2 /\ C[0].list = <<>>
    BY <1>1
  <2>3. mask \cap 0..(0-1) = {} /\ 0 - 1 \notin mask
    OBVIOUS
  <2> QED
    BY <2>1, <2>2, <2>3 DEF Listed, ParseStart
<1>3. ASSUME NEW n \in T PROVE n + 1 \in T
  <2> SUFFICES ASSUME n + 1 <= width
               PROVE  Listed(mask, C[n+1], Read(C[n+1].list, valid), n + 1)
    OBVIOUS
  <2>1. n \in Nat /\ Listed(mask, C[n], Read(C[n].list, valid), n)
    OBVIOUS
  <2>2. C[n+1] = ComposeBit(mask, C[n], n)
    <3>1. n + 1 \in 1..width /\ (n + 1) - 1 = n
      BY <2>1
    <3> QED
      BY <1>1, <3>1
  <2> QED
    BY <2>1, <2>2, ReadBit
<1>4. T = Nat
  <2>0. T \in SUBSET Nat
    OBVIOUS
  <2> HIDE DEF T
  <2> QED
    BY <1>2, <1>3, <2>0, FromZeroUp
<1>5. Listed(mask, C[width], Read(C[width].list, valid), width)
  BY <1>4
<1> QED
  BY <1>5 DEF C

\* A list of a partition is read back as the partition, unless there is nothing
\* in it or its last range has no end.
LEMMA ListsReadBack ==
  ASSUME NEW mask \in SUBSET Nat, NEW valid, mask \subseteq valid, NEW width \in Nat,
         mask \subseteq 0..(width - 1), mask # {}, ~({width - 2, width - 1} \subseteq mask)
  PROVE  parse_list(compose_list(mask, width, FALSE), valid) = mask
<1> DEFINE c == Composed(mask, width, FALSE)[width]
           p == Read(c.list, valid)
           list == compose_list(mask, width, FALSE)
<1>1. Listed(mask, c, p, width)
  BY ReadComposed
<1>2. list = IF c.list # <<>> /\ Last(c.list) = Comma THEN Front(c.list) ELSE c.list
  BY DEF compose_list
<1>3. ASSUME NEW l \in Seq(Int)
      PROVE  parse_list(l, valid) = Read(Append(l, Comma), valid).mask
  <2>1. Len(Append(l, Comma)) = Len(l) + 1
    OBVIOUS
  <2> QED
    BY <2>1 DEF parse_list, Read
<1> HIDE DEF c, p, list
<1>4. mask \cap 0..(width - 1) = mask
  OBVIOUS
<1>5. /\ c.list \in Seq(Int) /\ Comma \in Int
      /\ p \in [mask : SUBSET Nat, from : Int, num : Int]
      /\ c.in_range \in BOOLEAN
      /\ ~c.in_range
      /\ p.mask # Invalid
  BY <1>1 DEF Listed, Comma, Invalid
<1>6. CASE c.last_enabled = width - 1
  <2>1. /\ width >= 1 /\ p.num = width - 1 /\ p.from = -1
        /\ mask = p.mask \cup {width - 1}
        /\ Last(c.list) = width - 1
    BY <1>1, <1>4, <1>5, <1>6 DEF Listed
  <2>2. list = c.list
    BY <1>2, <2>1 DEF Comma
  <2>3. parse_list(list, valid) = ParseToken(valid, p, Comma).mask
    BY <1>3, <1>5, <2>2, ReadAppend DEF p
  <2>4. p = Reading(p.mask, -1, width - 1) /\ width - 1 \in Nat /\ width - 1 \in valid
    BY <1>5, <2>1 DEF Reading
  <2>5. ParseToken(valid, p, Comma) = Reading(p.mask \cup {width - 1}, -1, -1)
    BY <1>5, <2>4, ReadItemEnd
  <2>6. parse_list(list, valid) = p.mask \cup {width - 1}
    BY <2>3, <2>5 DEF Reading
  <2> QED
    BY <2>1, <2>6 DEF list
<1>7. CASE c.last_enabled # width - 1
  <2>1. p.mask = mask /\ c.list # <<>> /\ Last(c.list) = Comma
    BY <1>1, <1>4, <1>5, <1>7 DEF Listed
  <2>2. list = Front(c.list)
    BY <1>2, <2>1
  <2>3. Front(c.list) \in Seq(Int) /\ c.list = Append(Front(c.list), Comma)
    <3> DEFINE L == c.list
    <3>1. L \in Seq(Int) /\ L # <<>> /\ Last(L) = Comma
      BY <1>5, <2>1
    <3> HIDE DEF L
    <3>2. Front(L) \in Seq(Int) /\ L = Append(Front(L), Last(L))
      BY <3>1, FrontAndLast
    <3>3. Front(L) \in Seq(Int) /\ L = Append(Front(L), Comma)
      BY <3>1, <3>2
    <3> QED
      BY <3>3 DEF L
  <2>4. parse_list(list, valid) = Read(c.list, valid).mask
    BY <1>3, <2>2, <2>3
  <2> QED
    BY <2>1, <2>4 DEF p, list
<1> QED
  BY <1>6, <1>7

\* Where fewer numbers are valid, a list is read in the same way or refused, and
\* if it is not refused it holds only these.
Narrow(a, b, valid) ==
  \/ a.mask = Invalid
  \/ /\ a = b /\ a \in [mask : SUBSET Int, from : Int, num : Int]
     /\ a.mask \cap Nat \subseteq valid

LEMMA NarrowToken ==
  ASSUME NEW valid \in SUBSET Nat, \A k \in valid : 0..k \subseteq valid,
         NEW a, NEW b, Narrow(a, b, valid), NEW tok \in Int
  PROVE  Narrow(ParseToken(valid, a, tok), ParseToken(Nat, b, tok), valid)
<1>1. CASE a.mask = Invalid
  BY <1>1 DEF ParseToken, Narrow
<1>2. CASE a.mask # Invalid
  <2>1. a = b /\ a \in [mask : SUBSET Int, from : Int, num : Int] /\ a.mask \cap Nat \subseteq valid
    BY <1>2 DEF Narrow
  <2> DEFINE item == IF a.num = -1 THEN 0 ELSE a.num
             refused == item \notin valid \/ (a.from # -1 /\ a.from >= item)
             closed == [mask |-> a.mask \cup (IF a.from = -1 THEN {item} ELSE a.from..item),
                        from |-> -1, num |-> -1]
  <2>2. item \in Int
    BY <2>1
  <2>3. CASE tok = Dash
    <3>1. ParseToken(valid, a, tok) = [mask |-> a.mask, from |-> item, num |-> -1]
      BY <1>2, <2>3 DEF ParseToken, Dash, Comma
    <3>2. ParseToken(Nat, b, tok) = [mask |-> a.mask, from |-> item, num |-> -1]
      BY <1>2, <2>1, <2>3 DEF ParseToken, Dash, Comma
    <3> HIDE DEF item
    <3> QED
      BY <2>1, <2>2, <3>1, <3>2 DEF Narrow
  <2>4. CASE tok = Comma /\ refused
    <3>1. ParseToken(valid, a, tok) = [a EXCEPT !.mask = Invalid]
      BY <1>2, <2>4 DEF ParseToken, Dash, Comma
    <3>2. ParseToken(valid, a, tok).mask = Invalid
      BY <2>1, <3>1
    <3> QED
      BY <3>2 DEF Narrow
  <2>5. CASE tok = Comma /\ ~refused
    <3>1. ParseToken(valid, a, tok) = closed
      BY <1>2, <2>5 DEF ParseToken, Dash, Comma
    <3>2. item \in Nat /\ 0..item \subseteq valid /\ ~(a.from # -1 /\ a.from >= item)
      BY <2>5
    <3>3. ParseToken(Nat, b, tok) = closed
      BY <1>2, <2>1, <2>5, <3>2 DEF ParseToken, Dash, Comma
    <3>4. closed.mask \subseteq Int /\ closed.mask \cap Nat \subseteq valid
      <4>1. \A k \in Int : k \in a.from..item /\ k \in Nat => k \in valid
        BY <2>1, <3>2
      <4>2. item \in valid
        BY <2>5
      <4>3. a.from \in Int /\ a.from..item \subseteq Int
        BY <2>1, <2>2
      <4> HIDE DEF item
      <4> QED
        BY <2>1, <2>2, <4>1, <4>2, <4>3
    <3>5. closed = [mask |-> closed.mask, from |-> -1, num |-> -1]
      OBVIOUS
    <3> HIDE DEF closed
    <3> QED
      BY <3>1, <3>3, <3>4, <3>5 DEF Narrow
  <2>6. CASE tok # Dash /\ tok # Comma
    <3>1. ParseToken(valid, a, tok) = [a EXCEPT !.num = tok]
      BY <1>2, <2>6 DEF ParseToken
    <3>2. ParseToken(Nat, b, tok) = [a EXCEPT !.num = tok]
      BY <1>2, <2>1, <2>6 DEF ParseToken
    <3>3. [a EXCEPT !.num = tok] = [mask |-> a.mask, from |-> a.from, num |-> tok]
      BY <2>1
    <3> QED
      BY <2>1, <3>1, <3>2, <3>3 DEF Narrow
  <2> QED
    BY <2>3, <2>4, <2>5, <2>6
<1> QED
  BY <1>1, <1>2

LEMMA ReadNarrow ==
  ASSUME NEW valid \in SUBSET Nat, \A k \in valid : 0..k \subseteq valid, NEW text \in Seq(Int)
  PROVE  Narrow(Read(text, valid), Read(text, Nat), valid)
<1> DEFINE P == Parsed(text, valid)
           Q == Parsed(text, Nat)
           T == {n \in Nat : n <= Len(text) => Narrow(P[n], Q[n], valid)}
<1>1. Len(text) \in Nat /\ \A n \in 1..Len(text) : text[n] \in Int
  OBVIOUS
<1>2. P[0] = ParseStart /\ \A n \in 1..Len(text) : P[n] = ParseToken(valid, P[n-1], text[n])
  BY ParsedStep
<1>3. Q[0] = ParseStart /\ \A n \in 1..Len(text) : Q[n] = ParseToken(Nat, Q[n-1], text[n])
  BY ParsedStep
<1> HIDE DEF P, Q
<1>4. 0 \in T
  BY <1>2, <1>3 DEF Narrow, ParseStart
<1>5. ASSUME NEW n \in T PROVE n + 1 \in T
  <2> SUFFICES ASSUME n + 1 <= Len(text) PROVE Narrow(P[n+1], Q[n+1], valid)
    OBVIOUS
  <2>1. Narrow(P[n], Q[n], valid) /\ n \in Nat
    BY <1>1
  <2>2. n + 1 \in 1..Len(text) /\ (n + 1) - 1 = n
    BY <1>1, <2>1
  <2>3. /\ P[n+1] = ParseToken(valid, P[n], text[n+1])
        /\ Q[n+1] = ParseToken(Nat, Q[n], text[n+1])
        /\ text[n+1] \in Int
    BY <1>1, <1>2, <1>3, <2>2
  <2> QED
    BY <2>1, <2>3, NarrowToken
<1>6. T = Nat
  <2>0. T \in SUBSET Nat
    OBVIOUS
  <2> HIDE DEF T
  <2> QED
    BY <1>4, <1>5, <2>0, FromZeroUp
<1>7. Narrow(P[Len(text)], Q[Len(text)], valid)
  BY <1>1, <1>6
<1> QED
  BY <1>7 DEF Read, P, Q

\* compose_list makes a list of numbers, and parse_list reads it to its end.
LEMMA ListTyped ==
  ASSUME NEW mask \in SUBSET Nat, NEW width \in Nat
  PROVE  LET list == compose_list(mask, width, FALSE)
         IN  /\ list \in Seq(Int)
             /\ \A valid : parse_list(list, valid) = Read(Append(list, Comma), valid).mask
<1> DEFINE c == Composed(mask, width, FALSE)[width]
           list == compose_list(mask, width, FALSE)
<1>1. c.list \in Seq(Int)
  <2>1. Listed(mask, c, Read(c.list, Nat), width)
    BY ReadComposed
  <2> HIDE DEF c
  <2> QED
    BY <2>1 DEF Listed
<1>2. list = IF c.list # <<>> /\ Last(c.list) = Comma THEN Front(c.list) ELSE c.list
  BY DEF compose_list
<1> HIDE DEF c
<1>3. list \in Seq(Int)
  <2>1. c.list # <<>> => Front(c.list) \in Seq(Int)
    BY <1>1 DEF Front
  <2> HIDE DEF list
  <2> QED
    BY <1>1, <1>2, <2>1
<1> HIDE DEF list
<1>4. Len(Append(list, Comma)) = Len(list) + 1
  BY <1>3
<1>5. \A valid : parse_list(list, valid) = Read(Append(list, Comma), valid).mask
  BY <1>4 DEF parse_list, Read
<1> QED
  BY <1>3, <1>5 DEF list

\* A list that names a number that is not valid is refused.
LEMMA ListsRefused ==
  ASSUME NEW mask \in SUBSET Nat, NEW valid \in SUBSET Nat, \A k \in valid : 0..k \subseteq valid,
         NEW width \in Nat, mask \subseteq 0..(width - 1), mask # {},
         ~({width - 2, width - 1} \subseteq mask), ~(mask \subseteq valid)
  PROVE  parse_list(compose_list(mask, width, FALSE), valid) = Invalid
<1> DEFINE list == compose_list(mask, width, FALSE)
           text == Append(list, Comma)
<1>1. /\ list \in Seq(Int) /\ text \in Seq(Int)
      /\ parse_list(list, valid) = Read(text, valid).mask
      /\ parse_list(list, Nat) = Read(text, Nat).mask
  <2>1. /\ list \in Seq(Int)
        /\ \A v : parse_list(list, v) = Read(Append(list, Comma), v).mask
    BY ListTyped
  <2> HIDE DEF list
  <2> QED
    BY <2>1 DEF Comma
<1>2. parse_list(list, Nat) = mask
  BY ListsReadBack
<1> HIDE DEF list, text
<1>3. Narrow(Read(text, valid), Read(text, Nat), valid)
  BY <1>1, ReadNarrow
<1>4. Read(text, valid).mask = Invalid
  BY <1>1, <1>2, <1>3 DEF Narrow
<1> QED
  BY <1>1, <1>4 DEF list

\* A list whose last range has no end is refused.
LEMMA OpenListsRefused ==
  ASSUME NEW mask \in SUBSET Nat, NEW valid \in SUBSET Nat, \A k \in valid : 0..k \subseteq valid,
         NEW width \in Nat, {width - 2, width - 1} \subseteq mask
  PROVE  parse_list(compose_list(mask, width, FALSE), valid) = Invalid
<1> DEFINE c == Composed(mask, width, FALSE)[width]
           p == Read(c.list, Nat)
           a == Read(c.list, valid)
           list == compose_list(mask, width, FALSE)
<1>1. Listed(mask, c, p, width)
  BY ReadComposed
<1>2. list = IF c.list # <<>> /\ Last(c.list) = Comma THEN Front(c.list) ELSE c.list
  BY DEF compose_list
<1>3. /\ list \in Seq(Int)
      /\ parse_list(list, valid) = Read(Append(list, Comma), valid).mask
  BY ListTyped
<1>4. c.list \in Seq(Int) => Narrow(a, p, valid)
  BY ReadNarrow
<1> HIDE DEF c, list
<1>5. c.in_range /\ c.list \in Seq(Int) /\ p.from \in Nat /\ p.num = -1 /\ p.mask \subseteq Nat
  <2> HIDE DEF p
  <2>1. width - 1 \in mask /\ width - 2 \in mask
    OBVIOUS
  <2> QED
    BY <1>1, <2>1 DEF Listed
<1>6. ~(c.list # <<>> /\ Last(c.list) = Comma)
  <2> SUFFICES ASSUME c.list # <<>>, Last(c.list) = Comma
               PROVE  FALSE
    OBVIOUS
  <2> DEFINE b == Read(Front(c.list), Nat)
  <2>1. Front(c.list) \in Seq(Int) /\ c.list = Append(Front(c.list), Comma) /\ Comma \in Int
    <3> DEFINE L == c.list
    <3>1. L \in Seq(Int) /\ L # <<>> /\ Last(L) = Comma /\ Comma \in Int
      BY <1>5 DEF Comma
    <3> HIDE DEF L, p, b
    <3>2. Front(L) \in Seq(Int) /\ L = Append(Front(L), Last(L))
      BY <3>1, FrontAndLast
    <3>3. Front(L) \in Seq(Int) /\ L = Append(Front(L), Comma) /\ Comma \in Int
      BY <3>1, <3>2
    <3> QED
      BY <3>3 DEF L
  <2>2. p = ParseToken(Nat, b, Comma)
    BY <2>1, ReadAppend
  <2>3. Narrow(b, b, Nat)
    BY <2>1, ReadNarrow
  <2> HIDE DEF p, b
  <2>4. CASE b.mask = Invalid
    <3>1. p = b
      BY <2>2, <2>4 DEF ParseToken
    <3>2. -1 \in p.mask
      BY <2>4, <3>1 DEF Invalid
    <3> QED
      BY <1>5, <3>2
  <2>5. CASE b.mask # Invalid
    <3>1. b \in [mask : SUBSET Int, from : Int, num : Int]
      BY <2>3, <2>5 DEF Narrow
    <3>2. p = [b EXCEPT !.mask = Invalid] \/ p.from = -1
      BY <2>2, <2>5 DEF ParseToken, Comma, Dash
    <3>3. [b EXCEPT !.mask = Invalid].mask = Invalid
      BY <3>1
    <3>4. -1 \notin p.mask /\ -1 \in Invalid
      BY <1>5 DEF Invalid
    <3>5. p.mask # Invalid
      BY <3>4
    <3>6. p.from = -1
      BY <3>2, <3>3, <3>5
    <3>7. p.from # -1
      BY <1>5
    <3> QED
      BY <3>6, <3>7
  <2> QED
    BY <2>4, <2>5
<1>7. Read(Append(list, Comma), valid) = ParseToken(valid, a, Comma)
  BY <1>2, <1>5, <1>6, ReadAppend DEF Comma
<1>8. ParseToken(valid, a, Comma).mask = Invalid
  <2>1. Narrow(a, p, valid)
    BY <1>4, <1>5
  <2> HIDE DEF a, p
  <2>2. CASE a.mask = Invalid
    BY <2>2 DEF ParseToken
  <2>3. CASE a.mask # Invalid
    <3>1. /\ a \in [mask : SUBSET Int, from : Int, num : Int]
          /\ a.num = -1 /\ a.from \in Nat
      BY <1>5, <2>1, <2>3 DEF Narrow
    <3>2. ParseToken(valid, a, Comma) = [a EXCEPT !.mask = Invalid]
      BY <2>3, <3>1 DEF ParseToken, Comma, Dash
    <3> QED
      BY <3>1, <3>2
  <2> QED
    BY <2>2, <2>3
<1> QED
  BY <1>3, <1>7, <1>8 DEF list

-----------------------------------------------------------------------------

USE DEF Low, Word, Words, Masks, ShortMasks

-----------------------------------------------------------------------------
(* The invariants behind the theorems about SmMask. *)

\* A thread between two stores is in the call that makes them.
PlaceInv ==
  \A t \in Threads :
    /\ pc[t] \in {"subscribe", "enable", "store"} => todo[t].call \in {"global", "next"}
    /\ pc[t] = "stream" => todo[t].call = "stream" /\ word[t] \in StreamWords
    /\ pc[t] \in {"launching", "global"} => word[t] = 0
    /\ pc[t] = "supreme" => word[t] \in TMDWords

\* Until somebody asks for a mask there is none.  At most one thread is in
\* setup, the one that found the flag clear, and the callback has been
\* subscribed once exactly when that thread is past it.
InSetup(t) == pc[t] \in {"subscribe", "enable"}
SetupInv ==
  /\ ~sm_control_setup_called =>
       /\ ~enabled /\ subscribed = 0 /\ g_sm_mask = {}
       /\ \A t \in Threads : ~InSetup(t) /\ pc[t] # "store" /\ g_next_sm_mask[t] = {}
  /\ \A t, u \in Threads : InSetup(t) /\ InSetup(u) => t = u
  /\ \A t \in Threads : InSetup(t) => ~enabled
  /\ \A t \in Threads : pc[t] = "subscribe" => subscribed = 0
  /\ \A t \in Threads : pc[t] = "enable" => subscribed = 1
  /\ enabled => subscribed = 1
  /\ CallbackSet => enabled

ShapeInv == TypeOK /\ PlaceInv /\ SetupInv

LEMMA ShapeInit == Init => ShapeInv
BY TPCsAssumption, LoadingAssumption, SMT
DEF Init, ShapeInv, TypeOK, PlaceInv, SetupInv, InSetup, Calls, Idle, LaunchPlaces

\* Every kind of step keeps the shape.
LEMMA ShapeSet ==
  ASSUME ShapeInv, NEW t \in Threads, Set(t)
  PROVE  ShapeInv'
<1> USE TPCsAssumption, LoadingAssumption
    DEF ShapeInv, TypeOK, PlaceInv, SetupInv, InSetup, LaunchPlaces, Launching,
        library, control, history, GoTo, Finish
<1>1. ASSUME NEW mask \in ShortMasks, NEW call \in {"global", "next"}, BeginSet(t, call, mask)
      PROVE  ShapeInv'
  <2>1. [call |-> call, mask |-> mask] \in Calls
    BY DEF Calls
  <2> QED
    BY <1>1, <2>1 DEF BeginSet
<1>2. CASE Subscribe(t)
  BY <1>2 DEF Subscribe
<1>3. CASE Enable(t)
  BY <1>3 DEF Enable
<1>4. CASE StoreGlobal(t)
  <2>1. todo[t].mask \in ShortMasks
    BY <1>4 DEF StoreGlobal, Calls, Idle
  <2> QED
    BY <1>4, <2>1 DEF StoreGlobal, Calls
<1>5. CASE StoreNext(t)
  <2>1. todo[t].mask \in ShortMasks
    BY <1>5, SMTT(20) DEF StoreNext, Calls, Idle
  <2> QED
    BY <1>5, <2>1 DEF StoreNext, Calls
<1> QED
  BY <1>1, <1>2, <1>3, <1>4, <1>5 DEF Set

LEMMA ShapeSetStream ==
  ASSUME ShapeInv, NEW t \in Threads, SetStream(t)
  PROVE  ShapeInv'
<1> USE TPCsAssumption, LoadingAssumption
    DEF ShapeInv, TypeOK, PlaceInv, SetupInv, InSetup, LaunchPlaces, Launching,
        library, control, history, GoTo, Finish, StreamWords
<1>1. ASSUME NEW s \in Streams, NEW mask \in Masks, BeginSetStreamExt(t, s, mask)
      PROVE  ShapeInv'
  <2>1. [call |-> "stream", stream |-> s, mask |-> mask] \in Calls
    BY DEF Calls
  <2> QED
    BY <1>1, <2>1 DEF BeginSetStreamExt
<1>2. CASE StoreStreamWord(t)
  <2>1. /\ todo[t].stream \in Streams
        /\ todo[t].mask \in Masks
        /\ Idle \in Calls
    BY <1>2 DEF StoreStreamWord, Calls, Idle
  <2>2. Overwrite(hw_mask[todo[t].stream], word[t], todo[t].mask) \in Masks
    BY <2>1 DEF Overwrite
  <2>3. hw_mask' \in [Streams -> Masks]
    BY <1>2, <2>2 DEF StoreStreamWord
  <2>4. CASE pc' = pc
    BY <1>2, <2>1, <2>3, <2>4, SMTT(20) DEF StoreStreamWord
  <2>5. CASE pc' = [pc EXCEPT ![t] = "idle"]
    <3>1. /\ pc' \in [Threads -> {"idle", "subscribe", "enable", "store", "stream"} \cup LaunchPlaces]
          /\ todo' \in [Threads -> Calls]
          /\ word' = word
      BY <1>2, <2>1, <2>5 DEF StoreStreamWord
    <3>2. /\ UNCHANGED <<sm_control_setup_called, enabled, g_sm_mask, g_next_sm_mask, supreme>>
          /\ UNCHANGED <<tmd, setter, subscribed, escaped, asked, due, copied, globals, always, ever>>
          /\ masked' \subseteq Streams
      BY <1>2, <2>1 DEF StoreStreamWord
    <3>3. TypeOK'
      BY <2>3, <3>1, <3>2
    <3>4. PlaceInv'
      <4>1. pc'[t] = "idle" /\ \A u \in Threads \ {t} : pc'[u] = pc[u]
        BY <2>5
      <4>t. \A u \in Threads \ {t} : todo'[u] = todo[u]
        BY <1>2 DEF StoreStreamWord
      <4>2. \A u \in Threads : pc'[u] # "idle" => pc'[u] = pc[u] /\ todo'[u] = todo[u] /\ word'[u] = word[u]
        BY <3>1, <4>1, <4>t
      <4> QED
        BY ONLY ShapeInv, <4>2 DEF ShapeInv, PlaceInv
    <3>5. SetupInv'
      BY <2>5, <3>2
    <3> QED
      BY ONLY <3>3, <3>4, <3>5 DEF ShapeInv
  <2> QED
    BY <1>2, <2>4, <2>5 DEF StoreStreamWord
<1>3. \A mask \in ShortMasks : mask \cup (TPCs \ Low) \in Masks
  BY TPCsAssumption
<1>4. \A mask \in LongMasks : mask \in Masks
  BY TPCsAssumption
<1> QED
  BY <1>1, <1>2, <1>3, <1>4 DEF SetStream, BeginSetStream

LEMMA ShapeKernel ==
  ASSUME ShapeInv, NEW t \in Threads, Kernel(t)
  PROVE  ShapeInv'
<1> USE TPCsAssumption, LoadingAssumption
    DEF ShapeInv, TypeOK, PlaceInv, SetupInv, InSetup, LaunchPlaces, Launching,
        library, control, history, GoTo, Finish, TMDWords
<1>1. ASSUME NEW s \in Streams, Launch(t, s)
      PROVE  ShapeInv'
  <2>1. [call |-> "launch", stream |-> s] \in Calls
    BY DEF Calls
  <2> QED
    BY <1>1, <2>1 DEF Launch
<1>2. CASE Unhooked(t)
  BY <1>2 DEF Unhooked
<1>3. CASE EnterWithNext(t)
  <2>1. tmd' \in [Threads -> Masks]
    BY <1>3 DEF EnterWithNext, Extended
  <2> QED
    BY <1>3, <2>1 DEF EnterWithNext
<1>4. CASE EnterWithStream(t)
  <2>1. tmd' \in [Threads -> Masks]
    BY <1>4 DEF EnterWithStream, Extended
  <2> QED
    BY <1>4, <2>1 DEF EnterWithStream
<1>5. CASE EnterWithGlobal(t)
  <2>1. Overwrite(tmd[t], 0, g_sm_mask) \in Masks
    BY DEF Overwrite
  <2>2. tmd' \in [Threads -> Masks]
    BY <1>5, <2>1 DEF EnterWithGlobal, Extended
  <2> QED
    BY <1>5, <2>2 DEF EnterWithGlobal
<1>6. CASE GlobalUpper(t)
  <2>1. Overwrite(tmd[t], 1, g_sm_mask) \in Masks
    BY DEF Overwrite
  <2> QED
    BY <1>6, <2>1 DEF GlobalUpper
<1>7. CASE ApplySupreme(t)
  <2>1. tmd' \in [Threads -> Masks]
    BY <1>7 DEF ApplySupreme
  <2> QED
    BY <1>7, <2>1 DEF ApplySupreme
<1>8. CASE Upload(t)
  <2>1. Idle \in Calls
    BY DEF Calls
  <2> QED
    BY <1>8, <2>1 DEF Upload
<1> QED
  BY <1>1, <1>2, <1>3, <1>4, <1>5, <1>6, <1>7, <1>8 DEF Kernel

LEMMA ShapeNvtaskset ==
  ASSUME ShapeInv, NEW n \in Setters, Nvtaskset(n)
  PROVE  ShapeInv'
<1> USE TPCsAssumption, LoadingAssumption
    DEF ShapeInv, TypeOK, PlaceInv, SetupInv, InSetup, LaunchPlaces, Launching, ChangeSupreme
<1>1. ASSUME NEW mask \in LongMasks, StoreSupremeLow(n, mask)
      PROVE  ShapeInv'
  BY <1>1 DEF StoreSupremeLow
<1>2. CASE StoreSupremeHigh(n)
  BY <1>2, NoMaskAssumption DEF StoreSupremeHigh
<1> QED
  BY <1>1, <1>2 DEF Nvtaskset

LEMMA ShapeStep == ShapeInv /\ [Next]_vars => ShapeInv'
<1> SUFFICES ASSUME ShapeInv, [Next]_vars
             PROVE  ShapeInv'
  OBVIOUS
<1>1. CASE Next
  BY <1>1, ShapeSet, ShapeSetStream, ShapeKernel, ShapeNvtaskset DEF Next
<1>2. CASE UNCHANGED vars
  BY <1>2 DEF vars, library, control, history, ShapeInv, TypeOK, PlaceInv, SetupInv, InSetup
<1> QED
  BY <1>1, <1>2

LEMMA Shape == Spec => []ShapeInv
BY ShapeInit, ShapeStep, PTL DEF Spec

\* The variables stay within their ranges, for any values of the constants:
\* among others, no word past the TMD's or the stream struct's is written.
THEOREM TypeCorrect == Spec => []TypeOK
BY Shape, PTL DEF ShapeInv

\* However many threads make their first call together, the callback is
\* subscribed once (libsmctrl.c:157-159).
THEOREM SetsUpOnce == Spec => []SetupOnce
<1>1. ShapeInv => SetupOnce
  BY DEF ShapeInv, SetupInv, SetupOnce, TypeOK
<1> QED
  BY <1>1, Shape, PTL

-----------------------------------------------------------------------------
(* The supreme mask *)

\* The supreme mask now in force lies between the TPCs disabled all through a
\* launch and those disabled at some time of it, and the words that the
\* callback has passed hold it already.
SupremeInv ==
  /\ ~Wrapper => supreme = {} /\ \A n \in Setters : setter[n] = NoMask
  /\ \A t \in Threads : Launching(t) => always[t] \subseteq supreme /\ supreme \subseteq ever[t]
  /\ \A t \in Threads : pc[t] = "supreme" =>
       \A tpc \in always[t] : WordOf[tpc] < word[t] => tpc \in tmd[t]
  /\ SupremeHolds

\* A thread that is not in a launch leaves all of it alone.
LEMMA SupremeOutside ==
  ASSUME ShapeInv, SupremeInv, NEW t \in Threads,
         UNCHANGED <<supreme, tmd, setter, always, ever>>,
         ~Launching(t)', \A u \in Threads \ {t} : pc'[u] = pc[u] /\ word'[u] = word[u]
  PROVE  SupremeInv'
BY DEF SupremeInv, SupremeHolds, Launching, LaunchPlaces, ShapeInv, TypeOK

LEMMA SupremeKernel ==
  ASSUME ShapeInv, SupremeInv, NEW t \in Threads, Kernel(t)
  PROVE  SupremeInv'
<1> USE TPCsAssumption, LoadingAssumption
    DEF SupremeInv, SupremeHolds, ShapeInv, TypeOK, PlaceInv, SetupInv, LaunchPlaces,
        Launching, library, control, history, GoTo, Finish, TMDWords
<1>1. ASSUME NEW s \in Streams, Launch(t, s)
      PROVE  SupremeInv'
  BY <1>1 DEF Launch
<1>2. CASE Unhooked(t)
  BY <1>2 DEF Unhooked
<1>3. CASE EnterWithNext(t)
  BY <1>3 DEF EnterWithNext
<1>4. CASE EnterWithStream(t)
  BY <1>4 DEF EnterWithStream
<1>5. CASE EnterWithGlobal(t)
  BY <1>5 DEF EnterWithGlobal
<1>6. CASE GlobalUpper(t)
  BY <1>6 DEF GlobalUpper
<1>7. CASE ApplySupreme(t)
  <2>1. \A tpc \in always[t] : WordOf[tpc] < word[t] + 1 => tpc \in tmd'[t]
    BY <1>7 DEF ApplySupreme
  <2>2. /\ UNCHANGED <<library, todo, setter, history>>
        /\ word' = [word EXCEPT ![t] = @ + 1]
        /\ pc' = [pc EXCEPT ![t] = IF word[t] + 1 \in TMDWords THEN "supreme" ELSE "upload"]
        /\ pc[t] = "supreme"
        /\ \A u \in Threads \ {t} : tmd'[u] = tmd[u]
    BY <1>7 DEF ApplySupreme
  <2> QED
    BY <2>1, <2>2
<1>8. CASE Upload(t)
  BY <1>8 DEF Upload
<1> QED
  BY <1>1, <1>2, <1>3, <1>4, <1>5, <1>6, <1>7, <1>8 DEF Kernel

LEMMA SupremeNvtaskset ==
  ASSUME ShapeInv, SupremeInv, NEW n \in Setters, Nvtaskset(n)
  PROVE  SupremeInv'
<1> USE DEF SupremeInv, SupremeHolds, ShapeInv, TypeOK, LaunchPlaces, Launching, ChangeSupreme
<1>1. ASSUME NEW mask \in LongMasks, StoreSupremeLow(n, mask)
      PROVE  SupremeInv'
  BY <1>1 DEF StoreSupremeLow
<1>2. CASE StoreSupremeHigh(n)
  BY <1>2 DEF StoreSupremeHigh
<1> QED
  BY <1>1, <1>2 DEF Nvtaskset

LEMMA SupremeStep == ShapeInv /\ SupremeInv /\ [Next]_vars => SupremeInv'
<1> SUFFICES ASSUME ShapeInv, SupremeInv, [Next]_vars
             PROVE  SupremeInv'
  OBVIOUS
<1>1. ASSUME NEW t \in Threads, Set(t) \/ SetStream(t)
      PROVE  SupremeInv'
  <2>1. /\ UNCHANGED <<supreme, tmd, setter, always, ever>>
        /\ ~Launching(t)'
        /\ \A u \in Threads \ {t} : pc'[u] = pc[u] /\ word'[u] = word[u]
    BY <1>1
    DEF Set, BeginSet, Subscribe, Enable, StoreGlobal, StoreNext, SetStream, BeginSetStream,
        BeginSetStreamExt, StoreStreamWord, library, control, history, GoTo, Finish,
        Launching, LaunchPlaces, ShapeInv, TypeOK
  <2> QED
    BY <2>1, SupremeOutside
<1>2. CASE UNCHANGED vars
  BY <1>2 DEF vars, library, control, history, SupremeInv, SupremeHolds, Launching
<1> QED
  BY <1>1, <1>2, SupremeKernel, SupremeNvtaskset DEF Next

LEMMA SupremeInit == Init => SupremeInv
BY DEF Init, SupremeInv, SupremeHolds, Launching, LaunchPlaces

\* Whatever masks the process sets, however many nvtaskset processes store new
\* supreme masks in halves meanwhile: a TPC that the supreme mask disabled all
\* through a launch stays disabled in that launch (libsmctrl.c:137-138).
THEOREM SupremePrevails == Spec => []SupremeHolds
<1>1. SupremeInv => SupremeHolds
  BY DEF SupremeInv
<1> QED
  BY <1>1, SupremeInit, SupremeStep, Shape, PTL DEF Spec

-----------------------------------------------------------------------------
(* The precedence of next, stream and global mask *)

\* Word w of a launch comes from one of its candidates.
Agrees(t, w) ==
  \E mask \in Candidates(t) :
    (tmd[t] \cap Word(w)) \ ever[t] = (mask \cap Word(w)) \ ever[t]

AsMask(mask) == IF mask = NoMask THEN {} ELSE mask

\* The next mask is what its thread last asked for, until a launch takes it
\* over; unless the launch's own mask is 0, the words that the callback has
\* written agree with a candidate.
PrecedenceAt(t) ==
  /\ ~Launching(t) => g_next_sm_mask[t] = AsMask(asked[t])
  /\ Launching(t) => asked[t] = NoMask /\ g_sm_mask \in globals[t]
  /\ pc[t] = "launching" =>
       /\ IF copied[t] = NoMask THEN tmd[t] \cap Low = {} ELSE tmd[t] = copied[t]
       /\ g_next_sm_mask[t] = AsMask(due[t])
  /\ pc[t] \in {"global", "supreme", "upload"} => g_next_sm_mask[t] = {}
  /\ pc[t] = "global" => ZeroMask(t) \/ (due[t] = NoMask /\ copied[t] = NoMask /\ Agrees(t, 0))
  /\ pc[t] \in {"supreme", "upload"} => ZeroMask(t) \/ (Agrees(t, 0) /\ Agrees(t, 1))

PrecedenceInv == \A t \in Threads \ escaped : PrecedenceAt(t)

LEMMA PrecedenceInit == Init => PrecedenceInv
BY DEF Init, PrecedenceInv, PrecedenceAt, Launching, LaunchPlaces, AsMask

\* What agrees keeps agreeing while more masks become candidates and more
\* TPCs have been disabled by the supreme mask.
LEMMA AgreesFrame ==
  ASSUME NEW t, NEW w, Agrees(t, w),
         \A mask \in Candidates(t) : mask \in Candidates(t)',
         (tmd[t] \cap Word(w)) \ ever'[t] = (tmd'[t] \cap Word(w)) \ ever'[t],
         ever[t] \subseteq ever'[t]
  PROVE  Agrees(t, w)'
<1>1. PICK mask \in Candidates(t) :
        (tmd[t] \cap Word(w)) \ ever[t] = (mask \cap Word(w)) \ ever[t]
  BY DEF Agrees
<1>2. mask \in Candidates(t)'
  OBVIOUS
<1>3. (tmd'[t] \cap Word(w)) \ ever'[t] = (mask \cap Word(w)) \ ever'[t]
  BY <1>1
<1> QED
  BY <1>2, <1>3 DEF Agrees

\* A thread whose own variables do not change keeps its invariant.
LEMMA PrecedenceFrame ==
  ASSUME NEW t \in Threads, PrecedenceAt(t),
         pc'[t] = pc[t], g_next_sm_mask'[t] = g_next_sm_mask[t], asked'[t] = asked[t],
         due'[t] = due[t], copied'[t] = copied[t], tmd'[t] = tmd[t],
         Launching(t) => globals[t] \subseteq globals'[t] /\ g_sm_mask' \in globals'[t],
         Launching(t) => ever[t] \subseteq ever'[t]
  PROVE  PrecedenceAt(t)'
<1>1. Launching(t)' = Launching(t)
  BY DEF Launching
<1>2. ASSUME NEW w, Agrees(t, w), Launching(t)
      PROVE  Agrees(t, w)'
  <2>1. \A mask \in Candidates(t) : mask \in Candidates(t)'
    BY <1>2 DEF Candidates
  <2> QED
    BY <1>2, <2>1, AgreesFrame
<1> QED
  BY <1>1, <1>2 DEF PrecedenceAt, Launching, LaunchPlaces, ZeroMask

\* Outside a launch only the next mask matters.
LEMMA PrecedenceOutside ==
  ASSUME NEW t \in Threads, ~Launching(t)', g_next_sm_mask'[t] = AsMask(asked'[t])
  PROVE  PrecedenceAt(t)'
BY DEF PrecedenceAt, Launching, LaunchPlaces

LEMMA PrecedenceSet ==
  ASSUME ShapeInv, PrecedenceInv, NEW t \in Threads, Set(t)
  PROVE  PrecedenceInv'
<1> USE DEF ShapeInv, TypeOK, library, control, history, GoTo, Finish
<1>1. CASE StoreNext(t)
  <2>1. todo[t].mask \in ShortMasks
    BY <1>1 DEF StoreNext, Calls, Idle
  <2>2. todo[t].mask # NoMask
    BY <2>1, NoMaskAssumption
  <2>3. PrecedenceAt(t)'
    BY <1>1, <2>2, PrecedenceOutside DEF StoreNext, AsMask, Launching, LaunchPlaces
  <2>4. ASSUME NEW u \in Threads \ {t}, u \notin escaped
        PROVE  PrecedenceAt(u)'
    BY <1>1, <2>4, PrecedenceFrame DEF StoreNext, PrecedenceInv, PrecedenceAt
  <2>5. escaped' = escaped
    BY <1>1 DEF StoreNext
  <2> QED
    BY <2>3, <2>4, <2>5 DEF PrecedenceInv
<1>2. CASE ~StoreNext(t)
  <2>1. /\ ~Launching(t) /\ ~Launching(t)'
        /\ UNCHANGED <<g_next_sm_mask, escaped, asked, due, copied, tmd, ever>>
        /\ \A u \in Threads \ {t} : pc'[u] = pc[u]
        /\ \A u \in Threads : Launching(u) =>
             globals[u] \subseteq globals'[u] /\ (g_sm_mask \in globals[u] => g_sm_mask' \in globals'[u])
    BY <1>2 DEF Set, BeginSet, Subscribe, Enable, StoreGlobal, Launching, LaunchPlaces
  <2>2. t \notin escaped => PrecedenceAt(t)'
    BY <2>1, PrecedenceOutside DEF PrecedenceInv, PrecedenceAt
  <2>3. ASSUME NEW u \in Threads \ {t}, u \notin escaped
        PROVE  PrecedenceAt(u)'
    BY <2>1, <2>3, PrecedenceFrame DEF PrecedenceInv, PrecedenceAt
  <2> QED
    BY <2>1, <2>2, <2>3 DEF PrecedenceInv
<1> QED
  BY <1>1, <1>2

LEMMA PrecedenceSetStream ==
  ASSUME ShapeInv, PrecedenceInv, NEW t \in Threads, SetStream(t)
  PROVE  PrecedenceInv'
<1>1. /\ ~Launching(t) /\ ~Launching(t)'
      /\ UNCHANGED <<g_sm_mask, g_next_sm_mask, escaped, asked, due, copied, globals, tmd, ever>>
      /\ \A u \in Threads \ {t} : pc'[u] = pc[u]
  BY DEF SetStream, BeginSetStream, BeginSetStreamExt, StoreStreamWord, ShapeInv, TypeOK,
         LaunchPlaces, Launching, library, control, history, GoTo, Finish
<1>2. t \notin escaped => PrecedenceAt(t)'
  BY <1>1, PrecedenceOutside DEF PrecedenceInv, PrecedenceAt
<1>3. ASSUME NEW u \in Threads \ {t}, u \notin escaped
      PROVE  PrecedenceAt(u)'
  BY <1>1, <1>3, PrecedenceFrame DEF PrecedenceInv, PrecedenceAt
<1> QED
  BY <1>1, <1>2, <1>3 DEF PrecedenceInv

LEMMA PrecedenceNvtaskset ==
  ASSUME ShapeInv, PrecedenceInv, NEW n \in Setters, Nvtaskset(n)
  PROVE  PrecedenceInv'
<1>1. /\ UNCHANGED <<g_sm_mask, g_next_sm_mask, escaped, asked, due, copied, globals, tmd, pc>>
      /\ \A u \in Threads : Launching(u) => ever[u] \subseteq ever'[u]
  BY DEF Nvtaskset, StoreSupremeLow, StoreSupremeHigh, ChangeSupreme
<1>2. ASSUME NEW u \in Threads \ escaped
      PROVE  PrecedenceAt(u)'
  BY <1>1, PrecedenceFrame DEF PrecedenceInv, PrecedenceAt
<1> QED
  BY <1>1, <1>2 DEF PrecedenceInv

\* What a launch's own steps do to its invariant.
LEMMA PrecedenceLaunch ==
  ASSUME ShapeInv, SupremeInv, NEW t \in Threads, PrecedenceAt(t), Kernel(t),
         t \notin escaped'
  PROVE  PrecedenceAt(t)'
<1> USE NoMaskAssumption
    DEF ShapeInv, TypeOK, SetupInv, LaunchPlaces, Launching, library, control, history,
        GoTo, Finish
<1>1. ASSUME NEW s \in Streams, Launch(t, s)
      PROVE  PrecedenceAt(t)'
  BY <1>1 DEF Launch, PrecedenceAt
<1>2. CASE Unhooked(t)
  <2>1. ~sm_control_setup_called
    BY <1>2 DEF Unhooked
  <2>2. g_sm_mask = {} /\ g_next_sm_mask[t] = {}
    BY <2>1
  <2>3. /\ due[t] \in {NoMask, {}} /\ {} \in globals[t]
        /\ IF copied[t] = NoMask THEN tmd[t] \cap Low = {} ELSE tmd[t] = copied[t]
        /\ asked[t] = NoMask /\ g_sm_mask \in globals[t]
    BY <1>2, <2>2 DEF Unhooked, PrecedenceAt, AsMask
  <2>4. Candidates(t)' = Candidates(t) /\ ZeroMask(t)' = ZeroMask(t)
    BY <1>2 DEF Unhooked, Candidates, ZeroMask
  <2>5. ASSUME ~ZeroMask(t)
        PROVE  \A w \in {0, 1} : Agrees(t, w)
    <3>1. due[t] = NoMask
      BY <2>3, <2>5 DEF ZeroMask
    <3>2. CASE copied[t] = NoMask
      <4>1. {} \in Candidates(t)
        BY <2>3, <3>1, <3>2 DEF Candidates
      <4>2. \A w \in {0, 1} : tmd[t] \cap Word(w) = {} \cap Word(w)
        BY <2>3, <3>2
      <4> QED
        BY <4>1, <4>2 DEF Agrees
    <3>3. CASE copied[t] # NoMask
      <4>1. tmd[t] \in Candidates(t)
        BY <2>3, <3>1, <3>3 DEF Candidates
      <4> QED
        BY <4>1 DEF Agrees
    <3> QED
      BY <3>2, <3>3
  <2>6. ~ZeroMask(t) => \A w \in {0, 1} : Agrees(t, w)'
    BY <1>2, <2>4, <2>5 DEF Unhooked, Agrees
  <2> QED
    BY <1>2, <2>2, <2>3, <2>4, <2>6 DEF Unhooked, PrecedenceAt
<1>3. CASE EnterWithNext(t)
  <2>1. due[t] = g_next_sm_mask[t] /\ due[t] \notin {NoMask, {}}
    BY <1>3 DEF EnterWithNext, PrecedenceAt, AsMask
  <2>2. Candidates(t)' = {due[t]}
    BY <1>3, <2>1 DEF EnterWithNext, Candidates
  <2>3. \A w \in {0, 1} : tmd'[t] \cap Word(w) = due[t] \cap Word(w)
    BY <1>3, <2>1 DEF EnterWithNext, Extended
  <2>4. \A w \in {0, 1} : Agrees(t, w)'
    BY <2>2, <2>3 DEF Agrees
  <2> QED
    BY <1>3, <2>4 DEF EnterWithNext, PrecedenceAt
<1>4. CASE EnterWithStream(t)
  <2>1. due[t] \in {NoMask, {}} /\ copied[t] # NoMask /\ tmd[t] = copied[t]
    BY <1>4 DEF EnterWithStream, PrecedenceAt, AsMask
  <2>2. due[t] = NoMask => Candidates(t)' = {copied[t]}
    BY <1>4, <2>1 DEF EnterWithStream, Candidates
  <2>3. \A w \in {0, 1} : tmd'[t] \cap Word(w) = copied[t] \cap Word(w)
    BY <1>4, <2>1 DEF EnterWithStream, Extended
  <2>4. due[t] = NoMask => \A w \in {0, 1} : Agrees(t, w)'
    <3> SUFFICES ASSUME due[t] = NoMask, NEW w \in {0, 1}
                 PROVE  Agrees(t, w)'
      OBVIOUS
    <3>1. copied[t] \in Candidates(t)'
      BY <2>2
    <3>2. (tmd'[t] \cap Word(w)) \ ever'[t] = (copied[t] \cap Word(w)) \ ever'[t]
      BY <2>3
    <3> QED
      BY ONLY <3>1, <3>2 DEF Agrees
  <2>5. due[t] = {} => ZeroMask(t)'
    BY <1>4 DEF EnterWithStream, ZeroMask
  <2>6. ZeroMask(t)' \/ (Agrees(t, 0)' /\ Agrees(t, 1)')
    <3>1. due[t] = NoMask => Agrees(t, 0)'
      BY <2>4
    <3>2. due[t] = NoMask => Agrees(t, 1)'
      BY <2>4
    <3>3. due[t] = NoMask \/ due[t] = {}
      BY <2>1
    <3> HIDE DEF ShapeInv
    <3> QED
      BY ONLY <2>5, <3>1, <3>2, <3>3
  <2>7. /\ asked'[t] = NoMask /\ g_sm_mask' \in globals'[t]
        /\ g_next_sm_mask'[t] = {} /\ pc'[t] = "supreme"
    BY <1>4 DEF EnterWithStream, PrecedenceAt
  <2> QED
    BY <2>6, <2>7 DEF PrecedenceAt
<1>5. CASE EnterWithGlobal(t)
  <2>1. /\ due[t] \in {NoMask, {}} /\ g_sm_mask \in globals[t]
        /\ copied[t] = NoMask \/ copied[t] \cap Low = {}
    BY <1>5 DEF EnterWithGlobal, PrecedenceAt, AsMask
  <2>2. CASE ZeroMask(t)
    <3>1. ZeroMask(t)'
      BY <1>5, <2>2 DEF EnterWithGlobal, ZeroMask
    <3> QED
      BY <1>5, <3>1 DEF EnterWithGlobal, PrecedenceAt
  <2>3. CASE ~ZeroMask(t)
    <3>1. due[t] = NoMask /\ copied[t] = NoMask
      BY <2>1, <2>3 DEF ZeroMask
    <3>2. g_sm_mask \in Candidates(t)'
      BY <1>5, <2>1, <3>1 DEF EnterWithGlobal, Candidates
    <3>3. tmd'[t] \cap Word(0) = g_sm_mask \cap Word(0)
      BY <1>5 DEF EnterWithGlobal, Extended, Overwrite
    <3>4. Agrees(t, 0)'
      BY <3>2, <3>3 DEF Agrees
    <3> QED
      BY <1>5, <2>1, <3>1, <3>4 DEF EnterWithGlobal, PrecedenceAt
  <2> QED
    BY <2>2, <2>3
<1>6. CASE GlobalUpper(t)
  <2>1. CASE ZeroMask(t)
    <3>1. ZeroMask(t)'
      BY <1>6, <2>1 DEF GlobalUpper, ZeroMask
    <3> QED
      BY <1>6, <3>1 DEF GlobalUpper, PrecedenceAt
  <2>2. CASE ~ZeroMask(t)
    <3>1. due[t] = NoMask /\ copied[t] = NoMask /\ Agrees(t, 0) /\ g_sm_mask \in globals[t]
      BY <1>6, <2>2 DEF GlobalUpper, PrecedenceAt
    <3>2. g_sm_mask \in Candidates(t)'
      BY <1>6, <3>1 DEF GlobalUpper, Candidates
    <3>3. tmd'[t] \cap Word(1) = g_sm_mask \cap Word(1)
      BY <1>6 DEF GlobalUpper, Overwrite
    <3>4. Agrees(t, 1)'
      BY <3>2, <3>3 DEF Agrees
    <3>5. tmd'[t] \cap Word(0) = tmd[t] \cap Word(0)
      BY <1>6 DEF GlobalUpper, Overwrite
    <3>6. Agrees(t, 0)'
      BY <1>6, <3>1, <3>5, AgreesFrame DEF GlobalUpper, Candidates
    <3> QED
      BY <1>6, <3>4, <3>6 DEF GlobalUpper, PrecedenceAt
  <2> QED
    BY <2>1, <2>2
<1>7. CASE ApplySupreme(t)
  <2>1. supreme \subseteq ever[t]
    BY <1>7 DEF ApplySupreme, SupremeInv
  <2>2. tmd'[t] \ ever[t] = tmd[t] \ ever[t]
    BY <1>7, <2>1 DEF ApplySupreme
  <2>3. ~ZeroMask(t) => \A w \in {0, 1} : Agrees(t, w)'
    BY <1>7, <2>2, AgreesFrame DEF ApplySupreme, PrecedenceAt, Candidates
  <2>4. ZeroMask(t)' = ZeroMask(t)
    BY <1>7 DEF ApplySupreme, ZeroMask
  <2> QED
    BY <1>7, <2>3, <2>4 DEF ApplySupreme, PrecedenceAt
<1>8. CASE Upload(t)
  BY <1>8 DEF Upload, PrecedenceAt, AsMask
<1> QED
  BY <1>1, <1>2, <1>3, <1>4, <1>5, <1>6, <1>7, <1>8 DEF Kernel

LEMMA PrecedenceKernel ==
  ASSUME ShapeInv, SupremeInv, PrecedenceInv, NEW t \in Threads, Kernel(t)
  PROVE  PrecedenceInv'
<1>1. /\ g_sm_mask' = g_sm_mask /\ escaped \subseteq escaped'
      /\ \A u \in Threads \ {t} :
           /\ pc'[u] = pc[u] /\ tmd'[u] = tmd[u]
           /\ g_next_sm_mask'[u] = g_next_sm_mask[u]
           /\ asked'[u] = asked[u] /\ due'[u] = due[u] /\ copied'[u] = copied[u]
           /\ globals'[u] = globals[u] /\ ever'[u] = ever[u]
  BY DEF Kernel, Launch, Unhooked, EnterWithNext, EnterWithStream, EnterWithGlobal, GlobalUpper,
         ApplySupreme, Upload, ShapeInv, TypeOK, library, control, history, GoTo, Finish
<1>2. ASSUME NEW u \in Threads \ {t}, u \notin escaped
      PROVE  PrecedenceAt(u)'
  BY <1>1, <1>2, PrecedenceFrame DEF PrecedenceInv, PrecedenceAt
<1> QED
  BY <1>1, <1>2, PrecedenceLaunch DEF PrecedenceInv

LEMMA PrecedenceStep ==
  ShapeInv /\ SupremeInv /\ PrecedenceInv /\ [Next]_vars => PrecedenceInv'
<1> SUFFICES ASSUME ShapeInv, SupremeInv, PrecedenceInv, [Next]_vars
             PROVE  PrecedenceInv'
  OBVIOUS
<1>1. CASE UNCHANGED vars
  BY <1>1, PrecedenceFrame
  DEF vars, library, control, history, PrecedenceInv, PrecedenceAt
<1> QED
  BY <1>1, PrecedenceSet, PrecedenceSetStream, PrecedenceKernel, PrecedenceNvtaskset DEF Next

\* Every launch gets the mask that the documentation promises
\* (libsmctrl.h:16-31): the one its thread asked the next launch to have, else
\* its stream's, else word by word a global one, and nothing is added to it but
\* TPCs of the supreme mask.  Excepted are a launch whose own mask is 0 and a
\* thread one of whose launches the callback missed because another thread was
\* still setting it up; what happens to these is no part of the theorem.
THEOREM PrecedenceRespected == Spec => []HookedPrecedence
<1>1. PrecedenceInv => HookedPrecedence
  BY DEF PrecedenceInv, PrecedenceAt, HookedPrecedence, Respected, Agrees
<1> QED
  BY <1>1, PrecedenceInit, SupremeInit, SupremeStep, PrecedenceStep, Shape, PTL DEF Spec

\* No launch is missed once the callback is set up.
LEMMA NoneEscape ==
  ASSUME CallbackSet
  PROVE  Spec => [](escaped = {})
<1>1. Init => escaped = {}
  BY DEF Init
<1>2. ShapeInv /\ escaped = {} /\ [Next]_vars => (escaped = {})'
  <2> SUFFICES ASSUME ShapeInv, escaped = {}, [Next]_vars
               PROVE  escaped' = {}
    OBVIOUS
  <2>1. enabled
    BY DEF ShapeInv, SetupInv
  <2>2. CASE UNCHANGED vars
    BY <2>2 DEF vars, history
  <2>3. ASSUME NEW t \in Threads, Set(t) \/ SetStream(t)
        PROVE  escaped' = {}
    BY <2>3
    DEF Set, BeginSet, Subscribe, Enable, StoreGlobal, StoreNext, SetStream, BeginSetStream,
        BeginSetStreamExt, StoreStreamWord, history
  <2>4. ASSUME NEW t \in Threads, Kernel(t)
        PROVE  escaped' = {}
    BY <2>1, <2>4
    DEF Kernel, Launch, Unhooked, EnterWithNext, EnterWithStream, EnterWithGlobal, GlobalUpper,
        ApplySupreme, Upload, history
  <2>5. ASSUME NEW n \in Setters, Nvtaskset(n)
        PROVE  escaped' = {}
    BY <2>5 DEF Nvtaskset, StoreSupremeLow, StoreSupremeHigh, ChangeSupreme
  <2> QED
    BY <2>2, <2>3, <2>4, <2>5 DEF Next
<1> QED
  BY <1>1, <1>2, Shape, PTL DEF Spec

\* Where the callback is set up before the threads run, as the constructor of
\* the wrapper or a first call does, no thread is excepted: every launch whose
\* own mask is not 0 gets the mask of the documented precedence
\* (libsmctrl.h:16-31).
THEOREM FirstMaskHonoured ==
  ASSUME CallbackSet
  PROVE  Spec => []FirstMaskApplies
<1>1. HookedPrecedence /\ escaped = {} => FirstMaskApplies
  BY DEF HookedPrecedence, FirstMaskApplies
<1> QED
  BY <1>1, NoneEscape, PrecedenceRespected, PTL

-----------------------------------------------------------------------------
(* The invariant behind the theorems about SupremeControl. *)

\* An nvtaskset between the two halves of its change.
Busy(n) == setter[n] # NoMask

ControlTypeOK ==
  /\ setter \in [Setters -> {NoMask} \cup LongMasks]
  /\ env \in LongMasks /\ region \in Masks
  /\ shared \in BOOLEAN
  /\ loader \in {"start", "created", "sized", "mapped", "half", "ready"}
  /\ disturbed \subseteq Setters
  /\ change \in {NoMask} \cup LongMasks

\* The program starts after the constructor.  The callback reads the region from
\* the moment it is mapped; until then, and where it is not, nothing but the
\* constructor changes what the callback reads.
LoaderInv ==
  /\ Wrapper
  /\ loader # "ready" => \A t \in Threads : pc[t] = "idle"
  /\ loader \in {"mapped", "half"} => shared
  /\ loader \in {"start", "created", "sized"} => ~shared
  /\ shared => supreme = region
  /\ ~shared => supreme = env

\* Changes that overlap are disturbed.  One that is not has the callback's mask
\* half to itself, after the constructor; once it is complete, and until the
\* next begins, the mask is the one it asked for.  Undisturbed, the constructor
\* stores the mask of the environment.
ChangeInv ==
  /\ \A m, n \in Setters : m # n /\ Busy(m) /\ Busy(n) => n \in disturbed
  /\ \A n \in Setters : Busy(n) /\ n \notin disturbed =>
       /\ loader = "ready"
       /\ shared => supreme \cap Low = setter[n] \cap Low
  /\ change # NoMask =>
       /\ loader = "ready"
       /\ \A n \in Setters : ~Busy(n)
       /\ shared => supreme = change
  /\ loader = "half" /\ disturbed = {} => supreme \cap Low = env \cap Low
  /\ loader = "ready" /\ change = NoMask /\ disturbed = {} /\ (\A n \in Setters : ~Busy(n))
       => supreme = env

ControlInv == ShapeInv /\ SupremeInv /\ ControlTypeOK /\ LoaderInv /\ ChangeInv

-----------------------------------------------------------------------------
(* The steps of SmMask within those of the whole. *)

\* A step of SmMask in which a process's half-done change changes is a store of
\* that process.
LEMMA SetterStores ==
  ASSUME TypeOK, Next, NEW n \in Setters, setter'[n] # setter[n]
  PROVE  (\E mask \in LongMasks : StoreSupremeLow(n, mask)) \/ StoreSupremeHigh(n)
<1>1. ASSUME NEW t \in Threads, Set(t) \/ SetStream(t) \/ Kernel(t)
      PROVE  UNCHANGED setter
  BY <1>1
  DEF Set, BeginSet, Subscribe, Enable, StoreGlobal, StoreNext, SetStream, BeginSetStream,
      BeginSetStreamExt, StoreStreamWord, Kernel, Launch, Unhooked, EnterWithNext,
      EnterWithStream, EnterWithGlobal, GlobalUpper, ApplySupreme, Upload
<1>2. PICK m \in Setters : Nvtaskset(m)
  BY <1>1 DEF Next
<1>3. m = n
  BY <1>2 DEF Nvtaskset, StoreSupremeLow, StoreSupremeHigh, TypeOK
<1> QED
  BY <1>2, <1>3 DEF Nvtaskset

\* Any other step leaves the supreme mask alone.
LEMMA ThreadsLeaveSupreme ==
  ASSUME TypeOK, Next, UNCHANGED setter
  PROVE  UNCHANGED supreme
<1>1. ASSUME NEW t \in Threads, Set(t) \/ SetStream(t) \/ Kernel(t)
      PROVE  UNCHANGED supreme
  BY <1>1
  DEF Set, BeginSet, Subscribe, Enable, StoreGlobal, StoreNext, SetStream, BeginSetStream,
      BeginSetStreamExt, StoreStreamWord, Kernel, Launch, Unhooked, EnterWithNext,
      EnterWithStream, EnterWithGlobal, GlobalUpper, ApplySupreme, Upload, library
<1>2. ASSUME NEW n \in Setters, Nvtaskset(n)
      PROVE  FALSE
  <2>1. NoMask \notin LongMasks
    BY TPCsAssumption, NoMaskAssumption
  <2>2. setter'[n] # setter[n]
    BY <1>2, <2>1 DEF Nvtaskset, StoreSupremeLow, StoreSupremeHigh, TypeOK
  <2> QED
    BY <2>2
<1> QED
  BY <1>1, <1>2 DEF Next

\* What a change does to the masks, whichever memory the callback reads.
Starts(n, mask) ==
  /\ setter[n] = NoMask
  /\ setter' = [setter EXCEPT ![n] = mask]
  /\ region' = (region \ Low) \cup (mask \cap Low)
Ends(n) ==
  /\ setter[n] # NoMask
  /\ setter' = [setter EXCEPT ![n] = NoMask]
  /\ region' = (region \cap Low) \cup (setter[n] \ Low)

LEMMA ReachEffect ==
  ASSUME ControlInv, NEW n \in Setters, Reach(n)
  PROVE  /\ (\E mask \in LongMasks : Starts(n, mask)) \/ Ends(n)
         /\ supreme' = IF shared THEN region' ELSE supreme
         /\ UNCHANGED pc
<1>1. CASE shared
  <2>1. Next /\ setter'[n] # setter[n] /\ region' = supreme' /\ supreme = region
    BY <1>1 DEF Reach, ControlInv, LoaderInv
  <2>2. CASE \E mask \in LongMasks : StoreSupremeLow(n, mask)
    BY <1>1, <2>1, <2>2 DEF StoreSupremeLow, ChangeSupreme, Starts
  <2>3. CASE StoreSupremeHigh(n)
    BY <1>1, <2>1, <2>3 DEF StoreSupremeHigh, ChangeSupreme, Ends
  <2> QED
    BY <2>1, <2>2, <2>3, SetterStores DEF ControlInv, ShapeInv
<1>2. CASE ~shared
  BY <1>2 DEF Reach, Starts, Ends, library
<1> QED
  BY <1>1, <1>2 DEF ControlInv, ControlTypeOK

-----------------------------------------------------------------------------
(* What the library's own invariants make of a step of the whole. *)

LEMMA ControlInitHolds == ControlInit => ControlInv
<1> SUFFICES ASSUME ControlInit
             PROVE  ControlInv
  OBVIOUS
<1>1. ShapeInv /\ SupremeInv
  BY ShapeInit, SupremeInit DEF ControlInit
<1>2. ControlTypeOK
  BY TPCsAssumption DEF ControlInit, Init, ControlTypeOK, Masks
<1>3. LoaderInv
  BY DEF ControlInit, Init, LoaderInv
<1>4. ChangeInv
  BY DEF ControlInit, Init, ChangeInv, Busy
<1> QED
  BY <1>1, <1>2, <1>3, <1>4 DEF ControlInv

\* The constructor changes the supreme mask while nobody launches anything.
LEMMA ConstructorLibrary ==
  ASSUME ControlInv, NEW mask \in Masks, SupremeIs(mask), loader # "ready"
  PROVE  ShapeInv' /\ SupremeInv'
<1>1. ShapeInv'
  BY DEF ControlInv, SupremeIs, control, history, ShapeInv, TypeOK, PlaceInv, SetupInv, InSetup
<1>2. \A t \in Threads : pc[t] = "idle" /\ pc'[t] = "idle"
  BY DEF ControlInv, LoaderInv, SupremeIs, control
<1>3. SupremeInv'
  BY <1>2 DEF ControlInv, LoaderInv, SupremeInv, SupremeHolds, Launching, LaunchPlaces
<1> QED
  BY <1>1, <1>3

LEMMA LibraryIdle ==
  ASSUME ControlInv, UNCHANGED vars
  PROVE  ShapeInv' /\ SupremeInv'
BY ShapeStep, SupremeStep DEF ControlInv

LEMMA LibrarySteps ==
  ASSUME ControlInv, Next
  PROVE  ShapeInv' /\ SupremeInv'
BY ShapeStep, SupremeStep DEF ControlInv

LEMMA ChangeLibrary ==
  ASSUME ControlInv, NEW n \in Setters, Change(n)
  PROVE  ShapeInv' /\ SupremeInv'
<1>1. Reach(n)
  BY DEF Change
<1>2. CASE shared
  BY <1>1, <1>2, LibrarySteps DEF Reach
<1>3. CASE ~shared
  <2>1. /\ UNCHANGED <<library, tmd, pc, todo, word, history>>
        /\ setter' \in [Setters -> {NoMask} \cup Masks]
    BY <1>1, <1>3, TPCsAssumption DEF Reach, ControlInv, ControlTypeOK
  <2>2. ShapeInv'
    BY <2>1 DEF ControlInv, library, history, ShapeInv, TypeOK, PlaceInv, SetupInv, InSetup
  <2>3. SupremeInv'
    BY <2>1
    DEF ControlInv, LoaderInv, library, history, SupremeInv, SupremeHolds, Launching, LaunchPlaces
  <2> QED
    BY <2>2, <2>3
<1> QED
  BY <1>2, <1>3 DEF ControlInv, ControlTypeOK

-----------------------------------------------------------------------------
(* The steps of the whole. *)

\* Where the constructor gets to by storing a mask, if only in the pointer the
\* callback reads it through.
Constructs(mask) ==
  /\ SupremeIs(mask)
  /\ \/ /\ loader \in {"start", "created", "sized"} /\ loader' = "ready"
        /\ mask = env /\ UNCHANGED <<shared, region>>
     \/ /\ loader = "sized" /\ loader' = "mapped"
        /\ mask = region /\ shared' = TRUE /\ UNCHANGED region
     \/ /\ loader = "mapped" /\ loader' = "half"
        /\ mask = (supreme \ Low) \cup (env \cap Low)
        /\ region' = mask /\ UNCHANGED shared
     \/ /\ loader = "half" /\ loader' = "ready"
        /\ mask = (supreme \cap Low) \cup (env \ Low)
        /\ region' = mask /\ UNCHANGED shared

LEMMA ConstructorStep ==
  ASSUME ControlInv,
         CreateRegion \/ SizeRegion \/ MapRegion \/ StoreDefaultLow \/ StoreDefaultHigh
  PROVE  ControlInv'
<1>1. loader # "ready" /\ UNCHANGED <<env, tool, disturbed, change>>
  BY DEF CreateRegion, SizeRegion, MapRegion, StoreDefaultLow, StoreDefaultHigh
<1>2. /\ change = NoMask
      /\ \A n \in Setters : Busy(n) => n \in disturbed
      /\ \A t \in Threads : pc[t] = "idle"
  BY <1>1 DEF ControlInv, ChangeInv, LoaderInv
<1>3. env \in Masks /\ region \in Masks /\ supreme \in Masks
  BY TPCsAssumption DEF ControlInv, ControlTypeOK, ShapeInv, TypeOK
<1>4. CASE /\ UNCHANGED <<vars, shared, region>>
           /\ \/ loader = "start" /\ loader' = "created"
              \/ loader = "created" /\ loader' = "sized"
  <2>1. ShapeInv' /\ SupremeInv'
    BY <1>4, LibraryIdle
  <2>2. UNCHANGED <<supreme, setter, pc>>
    BY <1>4 DEF vars, library, control
  <2> QED
    BY <1>1, <1>2, <1>4, <2>1, <2>2
    DEF ControlInv, ControlTypeOK, LoaderInv, ChangeInv, Busy
<1>5. ASSUME NEW mask \in Masks, Constructs(mask)
      PROVE  ControlInv'
  <2>1. ShapeInv' /\ SupremeInv'
    BY <1>1, <1>5, ConstructorLibrary DEF Constructs
  <2>2. supreme' = mask /\ UNCHANGED <<setter, pc>>
    BY <1>5 DEF Constructs, SupremeIs, control
  <2>3. ControlTypeOK'
    BY <1>1, <1>3, <1>5, <2>2 DEF Constructs, ControlInv, ControlTypeOK
  <2>4. LoaderInv'
    BY <1>1, <1>2, <1>5, <2>2 DEF Constructs, ControlInv, LoaderInv
  <2>5. ChangeInv'
    BY <1>1, <1>2, <1>3, <1>5, <2>2
    DEF Constructs, ControlInv, ControlTypeOK, LoaderInv, ChangeInv, Busy, Masks
  <2> QED
    BY <2>1, <2>3, <2>4, <2>5 DEF ControlInv
<1>6. CASE \E mask \in Masks : Constructs(mask)
  BY <1>5, <1>6
<1> QED
  BY <1>3, <1>4, <1>6
  DEF CreateRegion, SizeRegion, MapRegion, StoreDefaultLow, StoreDefaultHigh, KeepPrivate,
      Constructs, SupremeIs, Masks

\* A half of a change.
LEMMA ChangeStep ==
  ASSUME ControlInv, NEW n \in Setters, Change(n)
  PROVE  ControlInv'
<1>1. ShapeInv' /\ SupremeInv'
  BY ChangeLibrary
<1>2. /\ (\E mask \in LongMasks : Starts(n, mask)) \/ Ends(n)
      /\ supreme' = IF shared THEN region' ELSE supreme
      /\ UNCHANGED <<pc, loader, env, shared>>
  BY ReachEffect DEF Change
<1>3. /\ env \in Masks /\ region \in Masks /\ supreme \in Masks
      /\ \A mask \in LongMasks : mask \in Masks /\ mask # NoMask
  BY TPCsAssumption, NoMaskAssumption DEF ControlInv, ControlTypeOK, ShapeInv, TypeOK
<1>4. LoaderInv'
  BY <1>2 DEF ControlInv, LoaderInv
<1>5. ASSUME NEW mask \in LongMasks, Starts(n, mask)
      PROVE  ControlTypeOK' /\ ChangeInv'
  <2> DEFINE others == {m \in Setters \ {n} : Busy(m)}
             meets  == loader # "ready" \/ others # {}
  <2>1. /\ change' = NoMask
        /\ disturbed' = IF meets THEN disturbed \cup others \cup {n} ELSE disturbed \ {n}
    BY <1>5 DEF Change, Starts, Busy
  <2>2. /\ Busy(n)'
        /\ \A m \in Setters \ {n} : Busy(m)' = Busy(m) /\ setter'[m] = setter[m]
        /\ setter'[n] = mask
    BY <1>3, <1>5 DEF Starts, Busy, ControlInv, ControlTypeOK
  <2>3. ControlTypeOK'
    BY <1>2, <1>3, <1>5, <2>1 DEF Starts, ControlInv, ControlTypeOK, Masks
  <2>4. \A m, p \in Setters : m # p /\ Busy(m)' /\ Busy(p)' => p \in disturbed'
    BY <2>1, <2>2 DEF ControlInv, ChangeInv
  <2>5. \A m \in Setters : Busy(m)' /\ m \notin disturbed' =>
          /\ loader' = "ready"
          /\ shared' => supreme' \cap Low = setter'[m] \cap Low
    BY <1>2, <1>3, <1>5, <2>1, <2>2 DEF Starts, ControlInv, ChangeInv, Masks
  <2>6. loader = "half" => disturbed' # {}
    BY <2>1
  <2> QED
    BY <1>2, <2>1, <2>2, <2>3, <2>4, <2>5, <2>6 DEF ChangeInv
<1>6. CASE Ends(n)
  <2>1. /\ change' = IF n \in disturbed THEN NoMask ELSE setter[n]
        /\ UNCHANGED disturbed
    BY <1>6 DEF Change, Ends
  <2>2. /\ Busy(n) /\ ~Busy(n)'
        /\ \A m \in Setters \ {n} : Busy(m)' = Busy(m) /\ setter'[m] = setter[m]
        /\ setter[n] \in LongMasks
    BY <1>6 DEF Ends, Busy, ControlInv, ControlTypeOK
  <2>3. ControlTypeOK'
    BY <1>2, <1>3, <1>6, <2>1, <2>2 DEF Ends, ControlInv, ControlTypeOK, Masks
  <2>4. \A m, p \in Setters : m # p /\ Busy(m)' /\ Busy(p)' => p \in disturbed'
    BY <2>1, <2>2 DEF ControlInv, ChangeInv
  <2>5. \A m \in Setters : Busy(m)' => m \in disturbed'
    BY <2>1, <2>2 DEF ControlInv, ChangeInv
  <2>6. change' # NoMask =>
          /\ loader' = "ready"
          /\ \A m \in Setters : ~Busy(m)'
          /\ shared' => supreme' = change'
    BY <1>2, <1>3, <1>6, <2>1, <2>2 DEF Ends, ControlInv, LoaderInv, ChangeInv, Masks
  <2>7. disturbed' = {} => change' # NoMask /\ loader' = "ready"
    BY <1>2, <1>3, <2>1, <2>2 DEF ControlInv, ChangeInv
  <2> QED
    BY <1>1, <1>4, <2>3, <2>4, <2>5, <2>6, <2>7 DEF ControlInv, ChangeInv
<1> QED
  BY <1>1, <1>2, <1>4, <1>5, <1>6 DEF ControlInv

\* A step of the program, which the constructor let start.
LEMMA RunStep ==
  ASSUME ControlInv, Run
  PROVE  ControlInv'
<1>1. /\ UNCHANGED <<setter, controlVars>>
      /\ Next /\ loader = "ready"
  BY DEF Run
<1>2. ShapeInv' /\ SupremeInv'
  BY <1>1, LibrarySteps
<1>3. UNCHANGED supreme
  BY <1>1, ThreadsLeaveSupreme DEF ControlInv, ShapeInv
<1> QED
  BY <1>1, <1>2, <1>3
  DEF controlVars, ControlInv, ControlTypeOK, LoaderInv, ChangeInv, Busy

\* A step that leaves the masks alone.
LEMMA OtherStep ==
  ASSUME ControlInv, UNCHANGED <<vars, loader, env, shared, region, disturbed, change>>
  PROVE  ControlInv'
<1>1. ShapeInv' /\ SupremeInv'
  BY LibraryIdle
<1>2. UNCHANGED <<supreme, setter, pc>>
  BY DEF vars, library, control
<1> QED
  BY <1>1, <1>2 DEF ControlInv, ControlTypeOK, LoaderInv, ChangeInv, Busy

LEMMA ControlStep == ControlInv /\ [ControlNext]_<<vars, controlVars>> => ControlInv'
<1> SUFFICES ASSUME ControlInv, [ControlNext]_<<vars, controlVars>>
             PROVE  ControlInv'
  OBVIOUS
<1>1. CASE CreateRegion \/ SizeRegion \/ MapRegion \/ StoreDefaultLow \/ StoreDefaultHigh
  BY <1>1, ConstructorStep
<1>2. ASSUME NEW n \in Setters, get_mask_hndl(n) \/ Crash(n) \/ Query(n)
      PROVE  ControlInv'
  BY <1>2, OtherStep DEF get_mask_hndl, Crash, Query
<1>3. ASSUME NEW n \in Setters, Change(n)
      PROVE  ControlInv'
  BY <1>3, ChangeStep
<1>4. CASE Run
  BY <1>4, RunStep
<1>5. CASE UNCHANGED <<vars, controlVars>>
  BY <1>5, OtherStep DEF controlVars
<1> QED
  BY <1>1, <1>2, <1>3, <1>4, <1>5 DEF ControlNext

LEMMA ControlHolds == ControlSpec => []ControlInv
BY ControlInitHolds, ControlStep, PTL DEF ControlSpec

-----------------------------------------------------------------------------
(* The theorems about SupremeControl. *)

\* The callback applies the mask of LIBSMCTRL_MASK or of the last nvtaskset -p,
\* however many of these change it, unless the change met another or the
\* constructor (libsmctrl.c:769), or reached a region that the callback does
\* not read (libsmctrl.c:752).
THEOREM LastMaskApplies == ControlSpec => []SupremeKept
<1>1. ControlInv => SupremeKept
  BY DEF ControlInv, LoaderInv, ChangeInv, Busy, SupremeKept
<1> QED
  BY <1>1, ControlHolds, PTL

\* The mask in force, come to be in this way, is one that no launch escapes
\* (libsmctrl.c:137-138).
THEOREM ControlledMaskPrevails == ControlSpec => []SupremeHolds
<1>1. ControlInv => SupremeHolds
  BY DEF ControlInv, SupremeInv
<1> QED
  BY <1>1, ControlHolds, PTL

\* The list has room for every TPC.
LEMMA BitsBelowWidth == Width \in Nat /\ TPCs \subseteq 0..(Width - 1)
<1>1. PICK t \in TPCs : TPCs = 0..t
  BY BitsAssumption
<1> DEFINE last == CHOOSE v \in TPCs : \A u \in TPCs : u <= v
<1>2. \A u \in TPCs : u <= t
  BY <1>1
<1>3. last \in TPCs /\ \A u \in TPCs : u <= last
  BY <1>1, <1>2
<1>4. Width = 1 + last
  BY DEF Width
<1> HIDE DEF last
<1> QED
  BY <1>1, <1>3, <1>4

\* What nvtaskset -p prints is never read back as another partition, for every
\* number of TPCs up to the bits of a mask, every division into GPCs and every
\* mask (nvtaskset.c:132-239).  It is read back as the same one, or, just where
\* it names a TPC that the GPU does not have or has a range without an end,
\* refused.
THEOREM QueriesReadBack == ControlSpec => []QueryExact
<1>1. QueryExact
  <2> DEFINE set == Enabled(region)
             list == compose_list(set, Width, FALSE)
             open == {Width - 2, Width - 1} \subseteq set
             gpcs == GpcsIn(set, GPCs)
             gpclist == compose_list(gpcs, Width, FALSE)
  <2> SUFFICES ASSUME set # {}
               PROVE  /\ parse_list(list, GpuTPCs) = IF set \subseteq GpuTPCs /\ ~open THEN set ELSE Invalid
                      /\ set = TpcsOf(gpcs, GPCs) =>
                           LET read == parse_list(GpcList(region), DOMAIN GPCs)
                           IN  read \subseteq DOMAIN GPCs /\ TpcsOf(read, GPCs) = set
    BY DEF QueryExact, TpcList
  <2>1. set \in SUBSET Nat /\ set \subseteq 0..(Width - 1)
    <3>1. set \subseteq TPCs
      BY DEF Enabled
    <3> HIDE DEF set
    <3> QED
      BY <3>1, BitsBelowWidth
  <2>2. GpuTPCs \in SUBSET Nat /\ \A k \in GpuTPCs : 0..k \subseteq GpuTPCs
    BY GPCsAssumption DEF GpuTPCs
  <2>3. gpcs \in SUBSET Nat /\ gpcs \subseteq DOMAIN GPCs /\ gpcs \subseteq 0..(Width - 2)
    BY BitsAssumption, BitsBelowWidth DEF GpcsIn
  <2> HIDE DEF set, gpcs
  <2>4. parse_list(list, GpuTPCs) = IF set \subseteq GpuTPCs /\ ~open THEN set ELSE Invalid
    <3>1. CASE open
      BY <2>1, <2>2, <3>1, BitsBelowWidth, OpenListsRefused
    <3>2. CASE ~open /\ set \subseteq GpuTPCs
      BY <2>1, <3>2, BitsBelowWidth, ListsReadBack
    <3>3. CASE ~open /\ ~(set \subseteq GpuTPCs)
      BY <2>1, <2>2, <3>3, BitsBelowWidth, ListsRefused
    <3> QED
      BY <3>1, <3>2, <3>3
  <2>5. ASSUME set = TpcsOf(gpcs, GPCs)
        PROVE  LET read == parse_list(GpcList(region), DOMAIN GPCs)
               IN  read \subseteq DOMAIN GPCs /\ TpcsOf(read, GPCs) = set
    <3>1. GpcList(region) = gpclist
      BY <2>5 DEF GpcList, compose_gpc_list, set, gpcs
    <3>2. gpcs # {}
      BY <2>5 DEF TpcsOf
    <3>3. gpcs \subseteq 0..(Width - 1) /\ ~({Width - 2, Width - 1} \subseteq gpcs)
      BY <2>3, BitsBelowWidth
    <3>4. parse_list(gpclist, DOMAIN GPCs) = gpcs
      BY <2>3, <3>2, <3>3, BitsBelowWidth, ListsReadBack
    <3> QED
      BY <2>3, <2>5, <3>1, <3>4
  <2> QED
    BY <2>4, <2>5
<1> QED
  BY <1>1, PTL
=============================================================================
