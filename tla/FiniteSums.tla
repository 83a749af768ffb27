----------------------------- MODULE FiniteSums -----------------------------
(***************************************************************************)
(* Sums of natural numbers over a finite set, as SumFunction computes them *)
(* (one element after the other, in the order CHOOSE takes them).  The     *)
(* proofs about the relays need three facts: a sum is a natural number, it *)
(* is zero when every term is, and when one term changes the sum changes   *)
(* by as much.                                                             *)
(*                                                                         *)
(* The library's induction rules take a predicate as a parameter, which no *)
(* backend can instantiate.  Here the predicate is a set, and induction is *)
(* the absence of a least counterexample (theorem WFMin of                 *)
(* WellFoundedInduction); UpTo is that rule for the numbers up to n.       *)
(***************************************************************************)
EXTENDS Integers, FiniteSets, FiniteSetsExt, FiniteSetTheorems, TLAPS

(* A nonempty set of natural numbers has a least element. *)
LEMMA LeastNat ==
  ASSUME NEW T \in SUBSET Nat, T # {}
  PROVE  \E x \in T : \A y \in T : x <= y
  <1>1. PICK x \in T : \A y \in T : ~ (<<y, x>> \in OpToRel(<, Nat))
    BY WFMin, NatLessThanWellFounded
  <1>2. \A y \in T : ~ (y < x)
    BY <1>1 DEF OpToRel
  <1> QED  BY <1>2

(* Induction up to n: G has every number to n if it has 0 and, with each   *)
(* other one below n, the next.                                            *)
LEMMA UpTo ==
  ASSUME NEW n \in Nat, NEW G, 0 \in G, \A k \in 0 .. (n - 1) : k \in G => k + 1 \in G
  PROVE  \A k \in 0 .. n : k \in G
  <1> DEFINE B == {k \in 0 .. n : k \notin G}
  <1> SUFFICES ASSUME B # {} PROVE FALSE
    OBVIOUS
  <1>1. B \in SUBSET Nat
    OBVIOUS
  <1>2. PICK k \in B : \A j \in B : k <= j
    <2> HIDE DEF B
    <2> QED  BY <1>1, LeastNat
  <1>3. k # 0 /\ k - 1 \in 0 .. (n - 1) /\ k - 1 \notin B
    BY <1>2
  <1> QED  BY <1>2, <1>3

(* Induction on the subsets of a finite set: G is all of them if it has    *)
(* each one whose proper subsets it has.                                   *)
LEMMA SubsetInduction ==
  ASSUME NEW S, IsFiniteSet(S), NEW G \in SUBSET (SUBSET S),
         \A s \in SUBSET S : (\A r \in SUBSET s : r # s => r \in G) => s \in G
  PROVE  G = SUBSET S
  <1> DEFINE B == (SUBSET S) \ G
  <1> SUFFICES ASSUME B # {} PROVE FALSE
    OBVIOUS
  <1>1. IsWellFoundedOn(StrictSubsetOrdering(S), SUBSET S)
    <2>1. FiniteSubsetsOf(S) = SUBSET S
      BY FS_FiniteSubsetsOfFinite
    <2>2. IsWellFoundedOn(StrictSubsetOrdering(S), FiniteSubsetsOf(S))
      BY FS_StrictSubsetOrderingWellFounded
    <2> QED  BY <2>1, <2>2
  <1>2. PICK s \in B : \A r \in B : ~ (<<r, s>> \in StrictSubsetOrdering(S))
    <2>1. B \subseteq SUBSET S
      OBVIOUS
    <2> HIDE DEF B
    <2> QED  BY <1>1, <2>1, WFMin
  <1>3. \A r \in SUBSET s : r # s => r \in G
    BY <1>2 DEF StrictSubsetOrdering
  <1> QED  BY <1>2, <1>3

-----------------------------------------------------------------------------
(* One step of the fold: g is the sum so far, on smaller sets. *)
Pick(s) == CHOOSE x \in s : TRUE
Rec(f, g, s) == IF s = {} THEN 0 ELSE f[Pick(s)] + g[s \ {Pick(s)}]

Level(S, k) == {s \in SUBSET S : Cardinality(s) <= k}

(* CHOOSE takes a member of a nonempty set. *)
LEMMA PickIn == ASSUME NEW s, s # {} PROVE Pick(s) \in s
  BY DEF Pick

(* The recursion has a solution, built up by the size of the subsets. *)
LEMMA SumExists ==
  ASSUME NEW S, IsFiniteSet(S), NEW f
  PROVE  \E g : g = [s \in SUBSET S |-> Rec(f, g, s)]
  <1> DEFINE Good == {k \in Nat : \E g : g = [s \in Level(S, k) |-> Rec(f, g, s)]}
             B == Nat \ Good
  <1>0. \A s \in SUBSET S : IsFiniteSet(s) /\ Cardinality(s) \in Nat
    BY FS_Subset, FS_CardinalityType
  <1>1. 0 \in Good
    <2> DEFINE g == [s \in Level(S, 0) |-> 0]
    <2>1. \A s \in Level(S, 0) : s = {}
      BY <1>0, FS_EmptySet DEF Level
    <2>2. g = [s \in Level(S, 0) |-> Rec(f, g, s)]
      BY <2>1 DEF Rec
    <2> HIDE DEF g
    <2> QED  BY <2>2
  <1>2. ASSUME NEW k \in Nat, k \in Good PROVE k + 1 \in Good
    <2>1. PICK g : g = [s \in Level(S, k) |-> Rec(f, g, s)]
      BY <1>2
    <2> DEFINE h == [s \in Level(S, k + 1) |-> Rec(f, g, s)]
    <2>2. \A s \in Level(S, k + 1) : s # {} => s \ {Pick(s)} \in Level(S, k)
      BY <1>0, PickIn, FS_RemoveElement DEF Level
    <2>3. \A s \in Level(S, k) : s \in Level(S, k + 1) /\ h[s] = g[s]
      <3>1. \A s \in Level(S, k) : s \in Level(S, k + 1)
        BY <1>0 DEF Level
      <3> QED  BY <2>1, <3>1
    <2>4. \A s \in Level(S, k + 1) : h[s] = Rec(f, h, s)
      BY <2>2, <2>3 DEF Rec
    <2>5. h = [s \in Level(S, k + 1) |-> Rec(f, h, s)]
      BY <2>4
    <2> HIDE DEF h
    <2> QED  BY <2>5
  <1>3. Good = Nat
    <2> SUFFICES ASSUME B # {} PROVE FALSE
      OBVIOUS
    <2>1. PICK k \in B : \A j \in B : k <= j
      BY LeastNat
    <2>2. k # 0 /\ k - 1 \in Nat /\ k - 1 \notin B
      BY <1>1, <2>1
    <2>3. k - 1 \in Good /\ k = (k - 1) + 1
      BY <2>2
    <2> HIDE DEF Good
    <2> QED  BY <1>2, <2>1, <2>2, <2>3
  <1>4. Level(S, Cardinality(S)) = SUBSET S
    BY <1>0, FS_Subset DEF Level
  <1>5. Cardinality(S) \in Good
    BY <1>0, <1>3
  <1> QED  BY <1>4, <1>5

(* SumFunction is that solution at the whole set. *)
LEMMA SumRecursion ==
  ASSUME NEW S, IsFiniteSet(S), NEW f, DOMAIN f = S
  PROVE  \E g : /\ g = [s \in SUBSET S |-> Rec(f, g, s)]
                /\ SumFunction(f) = g[S]
  <1> DEFINE g == CHOOSE g : g = [s \in SUBSET S |-> Rec(f, g, s)]
  <1>1. g = [s \in SUBSET S |-> Rec(f, g, s)]
    BY SumExists
  <1>2. SumFunction(f) = g[S]
    BY DEF SumFunction, SumFunctionOnSet, FoldFunctionOnSet, MapThenFoldSet, Rec, Pick
  <1> HIDE DEF g
  <1> QED  BY <1>1, <1>2

-----------------------------------------------------------------------------
(* A sum of zeros is zero. *)
LEMMA SumZero ==
  ASSUME NEW S, IsFiniteSet(S), NEW f \in [S -> Nat], \A x \in S : f[x] = 0
  PROVE  SumFunction(f) = 0
  <1>1. PICK g : /\ g = [s \in SUBSET S |-> Rec(f, g, s)]
                 /\ SumFunction(f) = g[S]
    BY SumRecursion
  <1> DEFINE G == {s \in SUBSET S : g[s] = 0}
  <1>2. ASSUME NEW s \in SUBSET S, \A r \in SUBSET s : r # s => r \in G
        PROVE  s \in G
    <2>1. CASE s = {}
      BY <1>1, <2>1 DEF Rec
    <2>2. CASE s # {}
      <3>1. Pick(s) \in s /\ s \ {Pick(s)} \in G
        BY <1>2, <2>2, PickIn
      <3>2. g[s] = f[Pick(s)] + g[s \ {Pick(s)}]
        BY <1>1, <2>2 DEF Rec
      <3> QED  BY <3>1, <3>2
    <2> QED  BY <2>1, <2>2
  <1>3. G = SUBSET S
    <2>1. G \in SUBSET (SUBSET S)
      OBVIOUS
    <2> HIDE DEF G
    <2> QED  BY <1>2, <2>1, SubsetInduction
  <1> QED  BY <1>1, <1>3

(* A term changes, and the sum by as much. *)
LEMMA SumUpdate ==
  ASSUME NEW S, IsFiniteSet(S), NEW f \in [S -> Nat], NEW h \in [S -> Nat],
         NEW e \in S, \A x \in S \ {e} : h[x] = f[x]
  PROVE  /\ SumFunction(f) \in Nat
         /\ SumFunction(h) = SumFunction(f) + h[e] - f[e]
  <1>1. PICK g : /\ g = [s \in SUBSET S |-> Rec(f, g, s)]
                 /\ SumFunction(f) = g[S]
    BY SumRecursion
  <1>2. PICK k : /\ k = [s \in SUBSET S |-> Rec(h, k, s)]
                 /\ SumFunction(h) = k[S]
    BY SumRecursion
  <1> DEFINE G == {s \in SUBSET S :
                     /\ g[s] \in Nat
                     /\ k[s] = g[s] + (IF e \in s THEN h[e] - f[e] ELSE 0)}
  <1>3. ASSUME NEW s \in SUBSET S, \A r \in SUBSET s : r # s => r \in G
        PROVE  s \in G
    <2>1. CASE s = {}
      BY <1>1, <1>2, <2>1 DEF Rec
    <2>2. CASE s # {}
      <3>1. Pick(s) \in s /\ s \ {Pick(s)} \in G
        BY <1>3, <2>2, PickIn
      <3>2. /\ g[s] = f[Pick(s)] + g[s \ {Pick(s)}]
            /\ k[s] = h[Pick(s)] + k[s \ {Pick(s)}]
        BY <1>1, <1>2, <2>2 DEF Rec
      <3>3. f[Pick(s)] \in Nat /\ h[Pick(s)] \in Nat /\ f[e] \in Nat /\ h[e] \in Nat
        BY <3>1
      <3>4. CASE Pick(s) = e
        BY <3>1, <3>2, <3>3, <3>4
      <3>5. CASE Pick(s) # e
        BY <3>1, <3>2, <3>3, <3>5
      <3> QED  BY <3>4, <3>5
    <2> QED  BY <2>1, <2>2
  <1>4. G = SUBSET S
    <2>1. G \in SUBSET (SUBSET S)
      OBVIOUS
    <2> HIDE DEF G
    <2> QED  BY <1>3, <2>1, SubsetInduction
  <1> QED  BY <1>1, <1>2, <1>4

(* A sum of natural numbers is one. *)
LEMMA SumType ==
  ASSUME NEW S, IsFiniteSet(S), NEW f \in [S -> Nat]
  PROVE  SumFunction(f) \in Nat
  <1>1. CASE S = {}
    <2>1. \A x \in S : f[x] = 0
      BY <1>1
    <2>2. SumFunction(f) = 0
      BY <2>1, SumZero
    <2> QED  BY <2>2
  <1>2. ASSUME NEW e \in S PROVE SumFunction(f) \in Nat
    BY SumUpdate
  <1> QED  BY <1>1, <1>2
=============================================================================
