------------------------------ MODULE Ordering ------------------------------
(***************************************************************************)
(* Python's sorted() on a set whose members the sort key tells apart.        *)
(***************************************************************************)
EXTENDS Naturals, FiniteSets, Sequences

\* The members of S that come before x.
Ahead(S, precedes, x) == {y \in S : <<y, x>> \in precedes}

\* The members of S in the strict total order precedes: x stands where as many come
\* before it.  (Concatenation makes TLC compute the sequence once.)
Sorted(S, precedes) ==
    LET At(k) == CHOOSE x \in S : Cardinality(Ahead(S, precedes, x)) = k - 1
    IN  <<>> \o [k \in 1..Cardinality(S) |-> At(k)]

Ordered(S, Before(_, _)) ==
    LET precedes == {p \in S \X S : Before(p[1], p[2])}
    IN  Sorted(S, precedes)

\* The members of a sequence at some places, in their order.
Picked(sequence, places) ==
    LET order == Ordered(places, <)
    IN  [k \in DOMAIN order |-> sequence[order[k]]]

\* The members of a sequence that meet a condition, in their order.
Filtered(sequence, Meets(_)) == Picked(sequence, {k \in DOMAIN sequence : Meets(sequence[k])})
=============================================================================
