----------------------------- MODULE JsonObject -----------------------------
(***************************************************************************)
(* What the programs of the examiner see of a JSON document through cJSON: *)
(* values with a type, and objects as functions from keys to values.       *)
(***************************************************************************)
Num(n)  == [json |-> "number", value |-> n]
Str(s)  == [json |-> "string", value |-> s]
Bool(b) == [json |-> "boolean", value |-> b]
Arr(s)  == [json |-> "array", value |-> s]
Obj(f)  == [json |-> "object", value |-> f]

Keys(o) == DOMAIN o.value
Item(o, k) == o.value[k].value

\* Key k is present with a value of type t.
Required(o, k, t) == k \in Keys(o) /\ o.value[k].json = t

\* Key k is absent, or present with a value of type t.
Optional(o, k, t) == k \in Keys(o) => o.value[k].json = t

ItemOr(o, k, default) == IF k \in Keys(o) THEN Item(o, k) ELSE default
=============================================================================
