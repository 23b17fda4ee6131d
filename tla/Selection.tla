------------------------------- MODULE Selection -------------------------------
(***************************************************************************)
(* The elements of a sequence that belong to a set, in their order.  The   *)
(* SelectSeq of Sequences is a recursion, which the proof system cannot    *)
(* follow; here each element is found by how many there are up to it.      *)
(***************************************************************************)
EXTENDS Integers, Sequences, FiniteSets

\* The places of a sequence that hold one of the elements M, and how many there are.
Places(s, M) == {i \in DOMAIN s : s[i] \in M}
Count(s, M) == Cardinality(Places(s, M))

RankOf(s, M, i) == Cardinality({j \in Places(s, M) : j <= i})
Selected(s, M) == [k \in 1..Count(s, M) |-> s[CHOOSE i \in Places(s, M) : RankOf(s, M, i) = k]]
===============================================================================
