----------------------------- MODULE Selections -----------------------------
(* ORDER BY, with a LIMIT as the pickers of words use it and without, and WHERE. *)
EXTENDS Naturals, FiniteSets

\* The n elements of S with the least keys, all of S when it has no more;
\* equal keys in any order.
Least(n, S, key) ==
  {T \in SUBSET S : /\ Cardinality(T) = IF Cardinality(S) < n THEN Cardinality(S) ELSE n
                    /\ \A x \in T, y \in S \ T : key[x] <= key[y]}

\* The elements of S one after the other, by an order that tells any two of them
\* apart.
Ranked(S, Before(_, _)) ==
  [i \in 1..Cardinality(S) |-> CHOOSE x \in S : Cardinality({y \in S : Before(y, x)}) = i - 1]

\* The elements of a list at some of its places, one after the other.
TakenAt(list, places) ==
  LET order == Ranked(places, <) IN [k \in DOMAIN order |-> list[order[k]]]

\* The elements of a list that pass a test, one after the other.
Filtered(list, Passes(_)) == TakenAt(list, {i \in DOMAIN list : Passes(list[i])})
=============================================================================
