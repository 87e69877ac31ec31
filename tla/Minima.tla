------------------------------- MODULE Minima -------------------------------
(***************************************************************************)
(* Least numbers and minimal sets.  The proofs about what is defined by    *)
(* recursion (sums, running sums, order statistics) take a least           *)
(* counterexample to a set instead of an induction on a predicate.         *)
(***************************************************************************)
EXTENDS FiniteSetTheorems, TLAPS

\* A set of numbers that is not empty has a least element.
LEMMA LeastNumber ==
  ASSUME NEW C \in SUBSET Nat, C # {}
  PROVE  \E n \in C : \A m \in C : n <= m
<1>1. PICK n \in C : \A m \in C : <<m, n>> \notin OpToRel(<, Nat)
  BY NatLessThanWellFounded, WFMin
<1>2. ASSUME NEW m \in C PROVE n <= m
  <2>1. <<m, n>> \in Nat \X Nat
    OBVIOUS
  <2>2. ~(m < n)
    BY <1>1, <2>1 DEF OpToRel
  <2> QED
    BY <2>2
<1> QED
  BY <1>2

\* Induction, for a set.
LEMMA AllNumbers ==
  ASSUME NEW C, 0 \in C, \A n \in Nat : n \in C => n + 1 \in C
  PROVE  \A n \in Nat : n \in C
<1> SUFFICES ASSUME ~ \A n \in Nat : n \in C PROVE FALSE
  OBVIOUS
<1> DEFINE D == {n \in Nat : n \notin C}
<1>1. PICK n \in D : \A m \in D : n <= m
  BY LeastNumber
<1>2. n # 0 /\ n - 1 \in Nat /\ n - 1 \notin D
  BY <1>1
<1>3. n - 1 \in C /\ (n - 1) + 1 = n
  BY <1>2
<1> QED
  BY <1>2, <1>3, <1>1

\* Among sets of elements of a finite set there is one that contains no other.
LEMMA MinimalSubset ==
  ASSUME NEW S, IsFiniteSet(S), NEW C \in SUBSET SUBSET S, C # {}
  PROVE  \E T \in C : \A U \in C : U \subseteq T => U = T
<1>1. C \subseteq FiniteSubsetsOf(S)
  BY FS_FiniteSubsetsOfFinite
<1>2. PICK T \in C : \A U \in C : <<U, T>> \notin StrictSubsetOrdering(S)
  BY <1>1, FS_StrictSubsetOrderingWellFounded, WFMin
<1>3. ASSUME NEW U \in C, U \subseteq T, U # T PROVE FALSE
  <2>1. <<U, T>> \in (SUBSET S) \X (SUBSET S)
    OBVIOUS
  <2> QED
    BY <2>1, <1>2, <1>3 DEF StrictSubsetOrdering
<1> QED
  BY <1>3

\* Induction, for the sets of elements of a finite set: C has all of them if it
\* has each of which it has all smaller ones.
LEMMA AllSubsets ==
  ASSUME NEW S, IsFiniteSet(S), NEW C,
         \A T \in SUBSET S :
           (\A U \in SUBSET T : U # T => U \in C) => T \in C
  PROVE  \A T \in SUBSET S : T \in C
<1> SUFFICES ASSUME ~ \A T \in SUBSET S : T \in C PROVE FALSE
  OBVIOUS
<1> DEFINE D == {T \in SUBSET S : T \notin C}
<1>1. PICK T \in D : \A U \in D : U \subseteq T => U = T
  <2>1. D \in SUBSET SUBSET S /\ D # {}
    OBVIOUS
  <2> HIDE DEF D
  <2> QED
    BY <2>1, MinimalSubset
<1>2. \A U \in SUBSET T : U # T => U \in C
  BY <1>1
<1> QED
  BY <1>1, <1>2
=============================================================================
