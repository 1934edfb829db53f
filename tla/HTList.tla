-------------------------------- MODULE HTList --------------------------------
(***************************************************************************)
(* Part of a list (HTList.c): the library takes objects out of its lists,  *)
(* or goes over them and leaves some out, and keeps the order of the rest. *)
(***************************************************************************)
EXTENDS Integers, Sequences, FiniteSets

\* The place that position i of a list has when only those in K are left.
UpTo(K, i)  == {j \in K : j <= i}
Place(K, i) == Cardinality(UpTo(K, i))

Nth(K, k)   == CHOOSE i \in K : Place(K, i) = k

\* What is at the positions in K, numbered anew.
Sublist(s, K) == [k \in 1..Cardinality(K) |-> s[Nth(K, k)]]
==============================================================================
