------------------------------ MODULE Listings ------------------------------
(***************************************************************************)
(* Lists of the members of a finite set.  They are defined by how many     *)
(* members come before each, without recursion, so that AnswerProofs can   *)
(* say what they contain.                                                  *)
(***************************************************************************)
EXTENDS Naturals, FiniteSets, Sequences

\* The numbers of S in order.
Rank(S, i) == Cardinality({j \in S : j <= i})
Ascending(S) == [k \in 1 .. Cardinality(S) |-> CHOOSE i \in S : Rank(S, i) = k]

\* Where x first is in a list that has it.
First(list, x) ==
  CHOOSE i \in DOMAIN list : list[i] = x /\ \A j \in DOMAIN list : list[j] = x => i <= j

\* Those members of a list that are in S, once each, in the order in which they
\* first appear.
InOrder(list, S) ==
  LET places == Ascending({First(list, x) : x \in S})
  IN [k \in DOMAIN places |-> list[places[k]]]
=============================================================================
