---------------------------- MODULE MCOverrides -----------------------------
(***************************************************************************)
(* Instances of Overrides for TLC: one section, keys of one and two parts. *)
(***************************************************************************)
EXTENDS Overrides

Names == {"a", "b"}
Short == {<<"s", x>> : x \in Names}
Long  == {<<"s", x, y>> : x \in Names, y \in Names}
NoTable == {}

Scalars == {[eq |-> TRUE, parts |-> p, table |-> NoTable] : p \in Short \cup Long}
Tables  == {[eq |-> TRUE, parts |-> p, table |-> t] : p \in Short, t \in SUBSET Names \ {{}}}
Malformed ==
    {[eq |-> FALSE, parts |-> <<"s", "a">>, table |-> NoTable],
     [eq |-> TRUE, parts |-> <<"s">>, table |-> NoTable],
     [eq |-> TRUE, parts |-> <<"", "a">>, table |-> NoTable],
     [eq |-> TRUE, parts |-> <<"s", "a", "">>, table |-> NoTable]}

AllOptions == Scalars \cup Tables \cup Malformed

\* No leaf of the files lies under another.
Configs == {c \in SUBSET (Short \cup Long) : \A p, q \in c : ~IsStrictPrefix(p, q)}
=============================================================================
