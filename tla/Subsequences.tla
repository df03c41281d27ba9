----------------------------- MODULE Subsequences -----------------------------
(***************************************************************************)
(* The entries of a sequence at some of its places: what SelectSeq returns *)
(* for the places of the entries that pass its test, defined without       *)
(* recursion, so that it can be reasoned about (see QueueFacts).           *)
(***************************************************************************)
EXTENDS Naturals, FiniteSets, Sequences

\* The k-th place of K.
Place(K, k) == CHOOSE i \in K : Cardinality({j \in K : j <= i}) = k

\* The entries of s at the places K, in their order.
Subsequence(s, K) == [k \in 1 .. Cardinality(K) |-> s[Place(K, k)]]
=============================================================================
