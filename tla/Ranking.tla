------------------------------- MODULE Ranking -------------------------------
(***************************************************************************)
(* Finite sets as lists: what an ORDER BY with a LIMIT or an OFFSET makes  *)
(* of them.  An order is a set of pairs.                                   *)
(***************************************************************************)
EXTENDS Integers, FiniteSets

IsOrder(order, set) ==
  /\ \A a \in set : <<a, a>> \notin order
  /\ \A a, b, c \in set : <<a, b>> \in order /\ <<b, c>> \in order => <<a, c>> \in order
  /\ \A a, b \in set : a # b => <<a, b>> \in order \/ <<b, a>> \in order

\* How many of the set come before c.
Before(set, order, c) == Cardinality({b \in set : <<b, c>> \in order})

Least(m, n) == IF m < n THEN m ELSE n

\* The first of the set, at most limit of them, in order.
Ranked(set, order, limit) ==
  [i \in 1..Least(Cardinality(set), limit) |-> CHOOSE c \in set : Before(set, order, c) = i - 1]
=============================================================================
