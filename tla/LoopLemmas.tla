----------------------------- MODULE LoopLemmas -----------------------------
(***************************************************************************)
(* What the proofs about the loops of the C code rest on: the first match  *)
(* of a search, and the least index at which something goes wrong, which   *)
(* takes the place of an induction.                                        *)
(***************************************************************************)
EXTENDS Integers, Sequences, TLAPS, WellFoundedInduction

\* The well-ordering of the naturals, for the C loops that stop at the first
\* match.
LEMMA LeastElement ==
    ASSUME NEW S \in SUBSET Nat, S # {}
    PROVE  \E k \in S : \A j \in S : k <= j
<1>1. PICK k \in S : \A j \in S : ~ (<<j, k>> \in OpToRel(<, Nat))
      BY WFMin, NatLessThanWellFounded
<1>2. \A j \in S : ~ (j < k)
      BY <1>1 DEF OpToRel
<1> QED BY <1>2

\* If an array holds a matching entry, the loop finds the first one.
LEMMA FirstMatch ==
    ASSUME NEW n \in Nat, NEW M \in SUBSET (1..n), M # {}
    PROVE  \E m \in M : \A j \in 1..(m - 1) : j \notin M
<1>1. PICK m \in M : \A j \in M : m <= j
      BY LeastElement
<1> QED BY <1>1
=============================================================================
