------------------------- MODULE RedzoneStoreProofs -------------------------
(***************************************************************************)
(* Theorems about the redzone store, for all addresses, sizes and widths.  *)
(***************************************************************************)
EXTENDS RedzoneStore, NaturalSets, TLAPS

-----------------------------------------------------------------------------
(* The store's operations keep a map from addresses to sizes               *)

IsStore(f) == \E S \in SUBSET Addr : f \in [S -> Sizes]

(* A store maps natural addresses to sizes that are naturals.              *)
LEMMA StoreDomain ==
  ASSUME NEW f, IsStore(f)
  PROVE  DOMAIN f \in SUBSET Nat /\ \A k \in DOMAIN f : f[k] \in Sizes /\ f[k] \in Nat
BY AddrAssumption, SizesAssumption DEF IsStore

(* Inserting a redzone at a new address yields a store again.              *)
LEMMA InsertKeepsStore ==
  ASSUME NEW f, IsStore(f), NEW start \in Addr, NEW size \in Sizes
  PROVE  IsStore([k \in DOMAIN f \cup {start} |-> IF k = start THEN size ELSE f[k]])
<1>1. PICK S \in SUBSET Addr : f \in [S -> Sizes]
  BY DEF IsStore
<1>2. S \cup {start} \in SUBSET Addr
  OBVIOUS
<1>3. [k \in S \cup {start} |-> IF k = start THEN size ELSE f[k]]
        \in [S \cup {start} -> Sizes]
  BY <1>1
<1>4. DOMAIN f = S
  BY <1>1
<1> QED BY <1>2, <1>3, <1>4 DEF IsStore

(* Taking any redzones out of a store leaves a store.                      *)
LEMMA WithoutKeepsStore ==
  ASSUME NEW f, IsStore(f), NEW gone
  PROVE  IsStore(Without(f, gone))
<1>1. PICK S \in SUBSET Addr : f \in [S -> Sizes]
  BY DEF IsStore
<1>2. S \ gone \in SUBSET Addr
  OBVIOUS
<1>3. [k \in S \ gone |-> f[k]] \in [S \ gone -> Sizes]
  BY <1>1
<1>4. DOMAIN f = S
  BY <1>1
<1> QED BY <1>2, <1>3, <1>4 DEF IsStore, Without

(* The store without redzones, as after a reset, is a store.               *)
LEMMA EmptyIsStore == IsStore([k \in {} |-> 0])
<1>1. [k \in {} |-> 0] \in [{} -> Sizes]
  OBVIOUS
<1> QED BY <1>1 DEF IsStore

(* Whatever is inserted, removed or swept, a redzone starts at an address  *)
(* and has one of the sizes given to InsertRedzone.                        *)
THEOREM StoreTypeCorrect == Spec => []TypeOK
<1> USE DEF TypeOK
<1>1. Init => TypeOK
  BY EmptyIsStore DEF Init, IsStore
<1>2. TypeOK /\ [Next]_zones => TypeOK'
  <2> SUFFICES ASSUME TypeOK, [Next]_zones
               PROVE  TypeOK'
    OBVIOUS
  <2>0. IsStore(zones)
    BY DEF IsStore
  <2>1. ASSUME NEW start \in Addr, NEW size \in Sizes, InsertRedzone(start, size)
        PROVE  TypeOK'
    <3>1. CASE start \in DOMAIN zones
      BY <2>1, <3>1 DEF InsertRedzone
    <3>2. CASE start \notin DOMAIN zones
      BY <2>0, <2>1, <3>2, InsertKeepsStore DEF InsertRedzone, IsStore
    <3> QED BY <3>1, <3>2
  <2>2. ASSUME NEW start \in Addr, RemoveRedzone(start)
        PROVE  TypeOK'
    BY <2>0, <2>2, WithoutKeepsStore DEF RemoveRedzone, IsStore
  <2>3. ASSUME NEW start \in Addr, NEW end \in Addr, remove_between(start, end)
        PROVE  TypeOK'
    BY <2>0, <2>3, WithoutKeepsStore DEF remove_between, IsStore
  <2>4. CASE reset
    BY <2>4, EmptyIsStore DEF reset, IsStore
  <2>5. CASE UNCHANGED zones
    BY <2>5
  <2> QED BY <2>1, <2>2, <2>3, <2>4, <2>5 DEF Next
<1> QED BY <1>1, <1>2, PTL DEF Spec

-----------------------------------------------------------------------------
(* The two neighbours of the probe decide                                  *)

(* A neighbour the check objects to is itself touched by the access.       *)
LEMMA NeighbourIsTouched ==
  ASSUME NEW f, IsStore(f), NEW probe \in Nat, NEW width \in Nat,
         NeighbourCheck(f, probe, width), width # 0
  PROVE  Poisoned(f, probe, width)
<1>1. CASE \E l \in DOMAIN f : IsLeftPar(f, l, probe) /\ l + f[l] > probe
  <2>1. PICK l \in DOMAIN f : IsLeftPar(f, l, probe) /\ l + f[l] > probe
    BY <1>1
  <2>2. l \in Nat /\ f[l] \in Nat /\ l <= probe
    BY <2>1, StoreDomain DEF IsLeftPar
  <2>3. l < probe + width /\ probe < l + f[l]
    BY <2>1, <2>2
  <2> QED BY <2>3 DEF Poisoned
<1>2. CASE \E r \in DOMAIN f : IsRightPar(f, r, probe) /\ r < probe + width
  <2>1. PICK r \in DOMAIN f : IsRightPar(f, r, probe) /\ r < probe + width
    BY <1>2
  <2>2. r \in Nat /\ f[r] \in Nat /\ r > probe
    BY <2>1, StoreDomain DEF IsRightPar
  <2>3. probe < r + f[r]
    BY <2>2
  <2> QED BY <2>1, <2>3 DEF Poisoned
<1> QED BY <1>1, <1>2 DEF NeighbourCheck

(* A touched redzone to the left of the probe need not be the nearest one, *)
(* but the nearest one reaches at least as far if all have one size; one   *)
(* to the right is never nearer than the nearest one.                      *)
LEMMA TouchedIsNoticed ==
  ASSUME NEW f, IsStore(f), UniformSizes, NEW probe \in Nat, NEW width \in Nat,
         Poisoned(f, probe, width)
  PROVE  NeighbourCheck(f, probe, width)
<1>1. PICK k \in DOMAIN f : k < probe + width /\ probe < k + f[k]
  BY DEF Poisoned
<1>2. DOMAIN f \in SUBSET Nat /\ k \in Nat /\ f[k] \in Nat
  BY StoreDomain
<1>3. CASE k <= probe
  <2>1. PICK l \in DOMAIN f : l <= probe /\ \A j \in DOMAIN f : j <= probe => j <= l
    BY <1>2, <1>3, LargestBelow
  <2>2. f[l] = f[k]
    BY StoreDomain DEF UniformSizes
  <2>3. l \in Nat /\ k <= l
    BY <1>2, <1>3, <2>1
  <2>4. l + f[l] > probe
    BY <1>1, <1>2, <2>2, <2>3
  <2>5. IsLeftPar(f, l, probe)
    BY <2>1 DEF IsLeftPar
  <2> QED BY <2>4, <2>5 DEF NeighbourCheck
<1>4. CASE k > probe
  <2> DEFINE T == {j \in DOMAIN f : j > probe}
  <2>1. T \in SUBSET Nat /\ k \in T
    BY <1>2, <1>4
  <2>2. PICK r \in T : \A j \in T : r <= j
    <3> HIDE DEF T
    <3> QED BY <2>1, LeastNatural
  <2>3. r \in DOMAIN f /\ IsRightPar(f, r, probe)
    BY <2>2 DEF IsRightPar
  <2>4. r < probe + width
    <3>1. r \in Nat /\ r <= k
      BY <2>1, <2>2
    <3> QED BY <3>1, <1>1, <1>2
  <2> QED BY <2>3, <2>4 DEF NeighbourCheck
<1> QED BY <1>2, <1>3, <1>4

(* After any sequence of calls, if all redzones have one size, CheckPoison *)
(* looks at enough: the neighbours of the probe.                           *)
THEOREM StoreNeighboursSuffice == Spec => []NeighboursSuffice
<1>1. TypeOK => NeighboursSuffice
  <2> SUFFICES ASSUME TypeOK, UniformSizes, NEW probe \in Addr, NEW width \in Widths
               PROVE  NeighbourCheck(zones, probe, width) <=> Poisoned(zones, probe, width)
    BY DEF NeighboursSuffice
  <2>1. IsStore(zones)
    BY DEF TypeOK, IsStore
  <2>2. probe \in Nat /\ width \in Nat /\ width # 0
    BY AddrAssumption, WidthsAssumption
  <2> QED BY <2>1, <2>2, NeighbourIsTouched, TouchedIsNoticed
<1> QED BY <1>1, StoreTypeCorrect, PTL

=============================================================================
