---------------------------- MODULE NaturalSets ----------------------------
(***************************************************************************)
(* Facts about sets of naturals: the nearest redzone on either side of a   *)
(* probe exists if there is one on that side at all.                       *)
(***************************************************************************)
EXTENDS Naturals, TLAPS, WellFoundedInduction

(* Every nonempty set of naturals has a least member.                      *)
LEMMA LeastNatural ==
  ASSUME NEW T \in SUBSET Nat, T # {}
  PROVE  \E m \in T : \A k \in T : m <= k
<1>1. PICK m \in T : \A k \in T : ~ (<<k, m>> \in OpToRel(<, Nat))
  BY NatLessThanWellFounded, WFMin, Zenon
<1>2. \A k \in T : m <= k
  <2> TAKE k \in T
  <2>1. m \in Nat /\ k \in Nat
    OBVIOUS
  <2>2. ~ (k < m)
    BY <1>1, <2>1 DEF OpToRel
  <2> QED BY <2>1, <2>2
<1> QED BY <1>2

(* A set of naturals with a member up to n has a largest member up to n:   *)
(* the one at the least distance from n.                                   *)
LEMMA LargestBelow ==
  ASSUME NEW T \in SUBSET Nat, NEW n \in Nat, NEW k \in T, k <= n
  PROVE  \E m \in T : m <= n /\ \A j \in T : j <= n => j <= m
<1> DEFINE D == {d \in Nat : \E j \in T : j <= n /\ d = n - j}
<1>1. n - k \in D
  <2>1. k \in Nat
    OBVIOUS
  <2>2. n - k \in Nat
    BY <2>1
  <2> QED BY <2>2
<1>2. PICK d \in D : \A e \in D : d <= e
  <2>1. D \in SUBSET Nat /\ D # {}
    BY <1>1
  <2> HIDE DEF D
  <2> QED BY <2>1, LeastNatural
<1>3. PICK m \in T : m <= n /\ d = n - m
  BY <1>2
<1>4. ASSUME NEW j \in T, j <= n
      PROVE  j <= m
  <2>1. j \in Nat /\ m \in Nat /\ d \in Nat
    BY <1>2
  <2>2. n - j \in Nat
    BY <2>1, <1>4
  <2>3. n - j \in D
    BY <2>2, <1>4
  <2>4. d <= n - j
    BY <2>3, <1>2
  <2> QED BY <2>1, <2>4, <1>3
<1> QED BY <1>3, <1>4

(* A set that holds 0 and with each number the next one holds them all.    *)
LEMMA SetInduction ==
  ASSUME NEW T, 0 \in T, \A d \in Nat : d \in T => d + 1 \in T
  PROVE  Nat \subseteq T
<1> DEFINE U == Nat \ T
<1>1. ASSUME U # {}
      PROVE  FALSE
  <2>1. PICK d \in U : \A e \in U : d <= e
    <3>1. U \in SUBSET Nat
      OBVIOUS
    <3> HIDE DEF U
    <3> QED BY <3>1, <1>1, LeastNatural
  <2>2. d \in Nat /\ d # 0
    BY <2>1
  <2>3. PICK c \in Nat : d = c + 1
    <3>1. d - 1 \in Nat /\ d = (d - 1) + 1
      BY <2>2
    <3> QED BY <3>1
  <2>4. c \notin U
    BY <2>1, <2>3
  <2> QED BY <2>1, <2>3, <2>4
<1> QED BY <1>1


=============================================================================
