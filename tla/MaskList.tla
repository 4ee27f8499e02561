------------------------------ MODULE MaskList ------------------------------
(***************************************************************************)
(* The lists of TPCs or GPCs that nvtaskset (src/libsmctrl/nvtaskset.c)    *)
(* reads and prints, such as 0,2-3.  A list is a sequence of numbers,      *)
(* commas and dashes; the text of a number is left out.                    *)
(***************************************************************************)
EXTENDS Integers, Sequences, SequencesExt

Comma == -3
Dash == -4

\* What "%d" prints: a negative number begins with a dash.
Number(n) == IF n < 0 THEN <<Dash, -n>> ELSE <<n>>

\* Mutant: a range is closed with the number of the bit that ends it.
ComposeBitPastEnd(mask, s, i) ==
  LET on == i \in mask
      follows == s.last_enabled = i - 1
  IN  CASE s.in_range /\ on -> [s EXCEPT !.last_enabled = i]
        [] s.in_range /\ ~on -> [s EXCEPT !.list = @ \o <<i, Comma>>, !.in_range = FALSE]
        [] ~s.in_range /\ on /\ follows -> [list |-> Append(s.list, Dash), in_range |-> TRUE, last_enabled |-> i]
        [] ~s.in_range /\ on /\ ~follows -> [s EXCEPT !.list = Append(@, i), !.last_enabled = i]
        [] ~s.in_range /\ ~on /\ follows -> [s EXCEPT !.list = Append(@, Comma)]
        [] OTHER -> s

\* compose_list over the bits 0 .. width - 1 of mask.  The flag in_range is not
\* initialized: start is what it happens to be.
ComposeBit(mask, s, i) ==
  LET on == i \in mask
      follows == s.last_enabled = i - 1
  IN  CASE s.in_range /\ on -> [s EXCEPT !.last_enabled = i]
        [] s.in_range /\ ~on ->
            [s EXCEPT !.list = Append(@ \o Number(s.last_enabled), Comma), !.in_range = FALSE]
        [] ~s.in_range /\ on /\ follows -> [list |-> Append(s.list, Dash), in_range |-> TRUE, last_enabled |-> i]
        [] ~s.in_range /\ on /\ ~follows -> [s EXCEPT !.list = Append(@, i), !.last_enabled = i]
        [] ~s.in_range /\ ~on /\ follows -> [s EXCEPT !.list = Append(@, Comma)]
        [] OTHER -> s

Composed(mask, width, start) ==
  LET after[n \in 0..width] ==
        IF n = 0 THEN [list |-> <<>>, in_range |-> start, last_enabled |-> -2]
        ELSE ComposeBit(mask, after[n-1], n-1)
  IN  after

compose_list(mask, width, start) ==
  LET list == Composed(mask, width, start)[width].list
  IN  IF list # <<>> /\ Last(list) = Comma THEN Front(list) ELSE list

\* What a list is read as when nvtaskset ends with an error instead.
Invalid == {-1}

\* parse_list: an item is a number, or two of which the second is larger; the
\* text of a missing number is read as 0.  Only the number that ends an item is
\* checked against those the GPU has, valid.
ParseToken(valid, s, tok) ==
  LET item == IF s.num = -1 THEN 0 ELSE s.num
      refused == item \notin valid \/ (s.from # -1 /\ s.from >= item)
  IN  IF s.mask = Invalid THEN s
      ELSE CASE tok = Dash -> [mask |-> s.mask, from |-> item, num |-> -1]
             [] tok = Comma /\ refused -> [s EXCEPT !.mask = Invalid]
             [] tok = Comma /\ ~refused ->
                  [mask |-> s.mask \cup (IF s.from = -1 THEN {item} ELSE s.from..item),
                   from |-> -1, num |-> -1]
             [] OTHER -> [s EXCEPT !.num = tok]

Parsed(text, valid) ==
  LET after[n \in 0..Len(text)] ==
        IF n = 0 THEN [mask |-> {}, from |-> -1, num |-> -1]
        ELSE ParseToken(valid, after[n-1], text[n])
  IN  after

parse_list(list, valid) == Parsed(Append(list, Comma), valid)[Len(list) + 1].mask

\* compose_gpc_list: the GPCs, which share no TPC, all of whose TPCs are in the
\* mask.  It ends with an error if there is anything else in the mask.
GpcsIn(mask, gpcs) == {g \in DOMAIN gpcs : gpcs[g] \subseteq mask}
TpcsOf(set, gpcs) == UNION {gpcs[g] : g \in set}
compose_gpc_list(mask, gpcs, width, start) ==
  IF mask \subseteq TpcsOf(GpcsIn(mask, gpcs), gpcs)
    THEN compose_list(GpcsIn(mask, gpcs), width, start)
    ELSE <<>>
=============================================================================
