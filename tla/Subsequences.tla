----------------------------- MODULE Subsequences -----------------------------
(***************************************************************************)
(* What is left of a sequence when some of its elements are taken out: the *)
(* filters of the code, Array.prototype.filter above all.  Sequences has   *)
(* SelectSeq for it; here the elements that stay are named by their rank,  *)
(* a definition that proofs can expand.                                    *)
(***************************************************************************)
EXTENDS Naturals, Sequences, FiniteSets

(* The place of i among the members of the set. *)
Rank(i, S) == Cardinality({j \in S : j <= i})

(* The elements of the set I of numbers, in rising order. *)
InOrder(I) == [k \in 1 .. Cardinality(I) |-> CHOOSE i \in I : Rank(i, I) = k]

(* The elements of s that are in S, in the order they have in s. *)
Among(s, S) ==
    LET kept == InOrder({i \in DOMAIN s : s[i] \in S})
    IN  [k \in DOMAIN kept |-> s[kept[k]]]
=============================================================================
