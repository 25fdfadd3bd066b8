---------------------------- MODULE InductionLemmas ----------------------------
(***************************************************************************)
(* Induction over natural numbers and the folds of the community modules,  *)
(* as facts about sets: a fact about every number is proved by looking at  *)
(* the least one of which it does not hold.                                *)
(***************************************************************************)
EXTENDS Integers, FiniteSetsExt, WellFoundedInduction, TLAPS

LEMMA LeastNumber ==
  ASSUME NEW T, T \subseteq Nat, T # {}
  PROVE  \E x \in T : \A y \in T : x <= y
<1> DEFINE R == OpToRel(<, Nat)
<1>1. IsWellFoundedOn(R, Nat)
  BY NatLessThanWellFounded
<1>2. \A x, y \in Nat : y < x => <<y, x>> \in R
  BY DEF OpToRel
<1> HIDE DEF R
<1>3. PICK x \in T : \A y \in T : ~ (<<y, x>> \in R)
  BY <1>1, WFMin
<1>4. ASSUME NEW y \in T PROVE x <= y
  <2>1. x \in Nat /\ y \in Nat
    OBVIOUS
  <2>2. ~ (y < x)
    BY <1>2, <1>3, <2>1
  <2>3. QED
    BY <2>1, <2>2
<1>5. QED
  BY <1>4

LEMMA GreatestNumber ==
  ASSUME NEW n \in Nat, NEW T, T \subseteq 0 .. n, T # {}
  PROVE  Max(T) \in T /\ \A y \in T : y <= Max(T)
<1> DEFINE U == {n - y : y \in T}
<1>1. U \subseteq Nat
  <2>1. \A y \in T : n - y \in Nat
    OBVIOUS
  <2>2. QED
    BY <2>1
<1>2. U # {} /\ \A y \in T : n - y \in U /\ y \in 0 .. n
  OBVIOUS
<1>3. \A u \in U : \E x \in T : u = n - x
  OBVIOUS
<1> HIDE DEF U
<1>4. PICK u \in U : \A y \in U : u <= y
  BY <1>1, <1>2, LeastNumber
<1>5. PICK x \in T : u = n - x
  BY <1>3
<1>6. \A y \in T : x >= y
  BY <1>2, <1>4, <1>5
<1>7. PICK m : m = Max(T)
  OBVIOUS
<1>8. m \in T /\ \A y \in T : m >= y
  BY <1>6, <1>7 DEF Max
<1>9. \A y \in T : y <= m
  BY <1>2, <1>8
<1>10. QED
  BY <1>7, <1>8, <1>9

LEMMA Induction ==
  ASSUME NEW n \in Nat, NEW T, 0 \in T,
         \A k \in 1 .. n : k - 1 \in T => k \in T
  PROVE  \A k \in 0 .. n : k \in T
<1> DEFINE U == {k \in 0 .. n : k \notin T}
<1> SUFFICES ASSUME U # {} PROVE FALSE
  OBVIOUS
<1>1. U \subseteq Nat
  OBVIOUS
<1>2. PICK k \in U : \A j \in U : k <= j
  BY <1>1, LeastNumber
<1>3. k \in 1 .. n /\ k - 1 \in 0 .. n /\ ~ (k <= k - 1)
  BY <1>2
<1>4. k - 1 \in T
  BY <1>2, <1>3
<1>5. QED
  BY <1>2, <1>3, <1>4

(* A fold takes the elements of a sequence from the back to the front.     *)
LEMMA InitialInterval ==
  ASSUME NEW n \in Nat, NEW k \in 1 .. n
  PROVE  /\ 1 .. k # {} /\ 1 .. k \in SUBSET (1 .. n)
         /\ Max(1 .. k) = k /\ (1 .. k) \ {k} = 1 .. k - 1
<1>1. 1 .. k # {} /\ 1 .. k \subseteq 0 .. n /\ 1 .. k \in SUBSET (1 .. n) /\ k \in 1 .. k
  OBVIOUS
<1>2. Max(1 .. k) \in 1 .. k /\ \A y \in 1 .. k : y <= Max(1 .. k)
  BY <1>1, GreatestNumber
<1>3. Max(1 .. k) = k
  <2>1. k <= Max(1 .. k)
    BY <1>1, <1>2
  <2>2. QED
    BY <1>2, <2>1
<1>4. (1 .. k) \ {k} = 1 .. k - 1
  OBVIOUS
<1>5. QED
  BY <1>1, <1>3, <1>4

(* What the fold of the community modules computes is well defined: F is   *)
(* one step, from a member of A and the place of an element.               *)
FoldOf(g, n, base, F) ==
  \A t \in SUBSET (1 .. n) :
    g[t] = IF t = {} THEN base ELSE F[<<g[t \ {Max(t)}], Max(t)>>]

LEMMA FoldExists ==
  ASSUME NEW n \in Nat, NEW A, NEW base \in A, NEW F \in [A \X (1 .. n) -> A]
  PROVE  \E g \in [SUBSET (1 .. n) -> A] : FoldOf(g, n, base, F)
<1> DEFINE T == {k \in 0 .. n : \E g \in [SUBSET (1 .. k) -> A] : FoldOf(g, k, base, F)}
<1>1. 0 \in T
  <2> DEFINE g == [t \in SUBSET (1 .. 0) |-> base]
  <2>1. g \in [SUBSET (1 .. 0) -> A] /\ \A t \in SUBSET (1 .. 0) : t = {} /\ g[t] = base
    OBVIOUS
  <2>2. FoldOf(g, 0, base, F)
    BY <2>1 DEF FoldOf
  <2>3. QED
    BY <2>1, <2>2
<1>2. ASSUME NEW k \in 1 .. n, k - 1 \in T
      PROVE  k \in T
  <2>1. PICK g0 \in [SUBSET (1 .. k - 1) -> A] : FoldOf(g0, k - 1, base, F)
    BY <1>2
  <2> DEFINE g == [t \in SUBSET (1 .. k) |->
                     IF k \in t THEN F[<<g0[t \ {k}], k>>] ELSE g0[t]]
  <2>2. ASSUME NEW t \in SUBSET (1 .. k)
        PROVE  t \ {k} \in SUBSET (1 .. k - 1) /\ (k \notin t => t \in SUBSET (1 .. k - 1))
    OBVIOUS
  <2>3. g \in [SUBSET (1 .. k) -> A]
    <3> SUFFICES ASSUME NEW t \in SUBSET (1 .. k)
                 PROVE  (IF k \in t THEN F[<<g0[t \ {k}], k>>] ELSE g0[t]) \in A
      OBVIOUS
    <3>1. CASE k \in t
      <4>1. g0[t \ {k}] \in A
        BY <2>2
      <4>2. QED
        BY <3>1, <4>1
    <3>2. CASE k \notin t
      BY <2>2, <3>2
    <3>3. QED
      BY <3>1, <3>2
  <2>4. \A t \in SUBSET (1 .. k) : /\ k \in t => g[t] = F[<<g0[t \ {k}], k>>]
                                   /\ k \notin t => g[t] = g0[t]
    OBVIOUS
  <2> HIDE DEF g
  <2>5. FoldOf(g, k, base, F)
    <3> SUFFICES ASSUME NEW t \in SUBSET (1 .. k)
                 PROVE  g[t] = IF t = {} THEN base ELSE F[<<g[t \ {Max(t)}], Max(t)>>]
      BY DEF FoldOf
    <3>1. CASE k \in t
      <4>1. t # {} /\ t \subseteq 0 .. n
        BY <3>1
      <4>2. Max(t) \in t /\ \A y \in t : y <= Max(t)
        BY <4>1, GreatestNumber
      <4>3. Max(t) = k
        <5>1. Max(t) \in 1 .. k /\ k <= Max(t)
          BY <3>1, <4>2
        <5>2. QED
          BY <5>1
      <4>4. t \ {k} \in SUBSET (1 .. k) /\ k \notin t \ {k}
        OBVIOUS
      <4>5. g[t \ {k}] = g0[t \ {k}]
        BY <2>4, <4>4
      <4>6. g[t] = F[<<g[t \ {k}], k>>]
        BY <2>4, <3>1, <4>5
      <4>7. QED
        BY <4>1, <4>3, <4>6
    <3>2. CASE k \notin t
      <4>1. t \in SUBSET (1 .. k - 1) /\ g[t] = g0[t]
        BY <2>2, <2>4, <3>2
      <4>2. g0[t] = IF t = {} THEN base ELSE F[<<g0[t \ {Max(t)}], Max(t)>>]
        BY <2>1, <4>1 DEF FoldOf
      <4>3. CASE t = {}
        BY <4>1, <4>2, <4>3
      <4>4. CASE t # {}
        <5>1. t \ {Max(t)} \in SUBSET (1 .. k) /\ k \notin t \ {Max(t)}
          BY <3>2
        <5>2. g[t \ {Max(t)}] = g0[t \ {Max(t)}]
          BY <2>4, <5>1
        <5>3. QED
          BY <4>1, <4>2, <4>4, <5>2
      <4>5. QED
        BY <4>3, <4>4
    <3>3. QED
      BY <3>1, <3>2
  <2>6. QED
    BY <2>3, <2>5
<1>3. \A k \in 0 .. n : k \in T
  <2> HIDE DEF T
  <2>1. \A k \in 1 .. n : k - 1 \in T => k \in T
    BY <1>2
  <2>2. QED
    BY <1>1, <2>1, Induction
<1>4. n \in 0 .. n
  OBVIOUS
<1>5. n \in T
  BY <1>3, <1>4
<1>6. QED
  BY <1>5
================================================================================
