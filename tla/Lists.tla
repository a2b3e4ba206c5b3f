-------------------------------- MODULE Lists --------------------------------
(***************************************************************************)
(* Numbers in ascending order, and what of a list belongs to a set: what   *)
(* SortSeq and SelectSeq do, in a form that has no operator as a parameter *)
(* and can be proved about.                                                *)
(***************************************************************************)
EXTENDS Naturals, Sequences, FiniteSets

(* How many of S are not above i, and the number that has n such.          *)
Rank(S, i) == Cardinality({j \in S : j <= i})
Nth(S, n) == CHOOSE i \in S : Rank(S, i) = n

Ascending(S) == [n \in 1..Cardinality(S) |-> Nth(S, n)]

(* The elements of s that are in T, in the order of s.                     *)
Selected(s, T) ==
  LET places == Ascending({i \in 1..Len(s) : s[i] \in T})
  IN  [n \in 1..Len(places) |-> s[places[n]]]
=============================================================================
