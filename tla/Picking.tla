------------------------------- MODULE Picking -------------------------------
(***************************************************************************)
(* What filter and sort give of an array in JavaScript: its members, named *)
(* by their places.                                                        *)
(***************************************************************************)
EXTENDS Naturals, Sequences, FiniteSets

\* The place that is the nth of a set of places.
Nth(places, n) == CHOOSE i \in places : Cardinality({k \in places : k <= i}) = n

\* filter: what stands at some places of a sequence, in its order.
Picked(s, places) == [n \in 1 .. Cardinality(places) |-> s[Nth(places, n)]]

\* sort: by a number of each member; those of one number stay in their order.
Before(numbers, i, k) == numbers[i] < numbers[k] \/ (numbers[i] = numbers[k] /\ i <= k)
Ordered(s, numbers) ==
  LET rank(i) == Cardinality({k \in DOMAIN s : Before(numbers, k, i)})
  IN  [n \in DOMAIN s |-> s[CHOOSE i \in DOMAIN s : rank(i) = n]]
==============================================================================
