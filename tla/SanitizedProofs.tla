-------------------------- MODULE SanitizedProofs --------------------------
(***************************************************************************)
(* Theorems about the instrumented program, for every stack, heap, set of  *)
(* layouts, redzone size and set of widths.                                *)
(***************************************************************************)
EXTENDS Sanitized, NaturalSets, TLAPS

-----------------------------------------------------------------------------
(* Bytes and layouts *)

(* The bytes of a range are those from its start to below its end.         *)
LEMMA BytesMember ==
  ASSUME NEW s \in Nat, NEW n \in Nat, NEW a
  PROVE  a \in Bytes(s, n) <=> a \in Nat /\ s <= a /\ a < s + n
BY DEF Bytes

(* A byte of a set of redzones is a byte of one of them.                   *)
LEMMA ZoneBytesMember ==
  ASSUME NEW starts, NEW a
  PROVE  a \in ZoneBytes(starts) <=> \E z \in starts : a \in Bytes(z, RZ)
BY DEF ZoneBytes

(* A nonempty range holds the byte it starts at.                           *)
LEMMA StartIsByte ==
  ASSUME NEW z \in Nat, NEW n \in Nat \ {0}
  PROVE  z \in Bytes(z, n)
BY BytesMember

AnyObject == Objects(Nat, StackShapes \cup HeapShapes)

(* An object's redzones and fields lie inside it and apart.                *)
LEMMA LayoutFacts ==
  ASSUME NEW o \in AnyObject
  PROVE  /\ o.base \in Nat /\ o.shape.size \in Nat \ {0}
         /\ o.base \in Region(o)
         /\ Redzones(o) \subseteq Nat
         /\ Redzones(o) \subseteq ZoneBytes(Redzones(o))
         /\ ZoneBytes(Redzones(o)) \subseteq Region(o)
         /\ At(o, o.shape.fields) \cap ZoneBytes(Redzones(o)) = {}
<1> DEFINE s == o.shape
           offsets == s.zones \cup s.kept
<1>1. o.base \in Nat /\ IsShape(s)
  BY ShapesAssumption DEF AnyObject, Objects
<1>2. /\ s.size \in Nat \ {0} /\ offsets \subseteq Nat /\ s.fields \subseteq Nat
      /\ ZoneBytes(offsets) \subseteq 0 .. s.size - 1
      /\ ZoneBytes(offsets) \cap s.fields = {}
  BY <1>1 DEF IsShape
<1>3. RZ \in Nat \ {0}
  BY WidthsAssumption
<1> HIDE DEF s
<1>4. Redzones(o) = {o.base + k : k \in offsets}
  BY DEF Redzones, At, s
<1>5. ASSUME NEW a \in ZoneBytes(Redzones(o))
      PROVE  \E d \in ZoneBytes(offsets) : a = o.base + d
  <2>1. PICK k \in offsets : a \in Bytes(o.base + k, RZ)
    BY <1>4, ZoneBytesMember
  <2>2. k \in Nat /\ o.base + k \in Nat
    BY <1>1, <1>2
  <2>3. a \in Nat /\ o.base + k <= a /\ a < o.base + k + RZ
    BY <1>3, <2>1, <2>2, BytesMember
  <2>4. a - o.base \in Nat /\ k <= a - o.base /\ a - o.base < k + RZ
    BY <1>1, <1>3, <2>2, <2>3
  <2>5. a - o.base \in Bytes(k, RZ)
    BY <1>3, <2>2, <2>4, BytesMember
  <2>6. a - o.base \in ZoneBytes(offsets)
    BY <2>5, ZoneBytesMember
  <2>7. a = o.base + (a - o.base)
    BY <1>1, <2>3
  <2> QED BY <2>6, <2>7
<1>6. Redzones(o) \subseteq Nat
  BY <1>1, <1>2, <1>4
<1>7. Redzones(o) \subseteq ZoneBytes(Redzones(o))
  BY <1>3, <1>6, StartIsByte, ZoneBytesMember
<1>8. \A d \in 0 .. s.size - 1 : o.base + d \in Region(o)
  BY <1>1, <1>2 DEF Region, Bytes, s
<1>9. ZoneBytes(Redzones(o)) \subseteq Region(o)
  BY <1>2, <1>5, <1>8
<1>10. o.base \in Region(o)
  BY <1>1, <1>2 DEF Region, Bytes, s
<1>11. At(o, s.fields) \cap ZoneBytes(Redzones(o)) = {}
  <2> SUFFICES ASSUME NEW k \in s.fields, o.base + k \in ZoneBytes(Redzones(o))
               PROVE  FALSE
    BY DEF At
  <2>1. PICK d \in ZoneBytes(offsets) : o.base + k = o.base + d
    BY <1>5
  <2>2. d \in 0 .. s.size - 1
    BY <1>2
  <2>3. d \in Nat /\ k \in Nat
    BY <1>2, <2>2
  <2>4. d = k
    BY <1>1, <2>1, <2>3
  <2> QED BY <1>2, <2>4
<1> QED BY <1>1, <1>2, <1>6, <1>7, <1>9, <1>10, <1>11 DEF s

(* An object's fields lie inside it.                                       *)
LEMMA FieldsInside ==
  ASSUME NEW o \in AnyObject
  PROVE  At(o, o.shape.fields) \subseteq Region(o)
<1>1. o.base \in Nat /\ o.shape.size \in Nat /\ o.shape.fields \subseteq 0 .. o.shape.size - 1
  BY ShapesAssumption DEF AnyObject, Objects, IsShape
<1> QED BY <1>1 DEF At, Region, Bytes

(* An object that ends where another starts, or below, does not overlap    *)
(* it.                                                                     *)
LEMMA BelowIsApart ==
  ASSUME NEW o \in AnyObject, NEW q \in AnyObject, o.base + o.shape.size <= q.base
  PROVE  Region(o) \cap Region(q) = {}
<1>1. o.base \in Nat /\ o.shape.size \in Nat /\ q.base \in Nat /\ q.shape.size \in Nat
  BY LayoutFacts
<1>2. ASSUME NEW a \in Region(o), a \in Region(q)
      PROVE  FALSE
  BY <1>1, <1>2, BytesMember DEF Region
<1> QED BY <1>2

(* A range that malloc may return overlaps no other block.                 *)
LEMMA VacantIsApart ==
  ASSUME NEW o \in AnyObject, NEW others \in SUBSET AnyObject, Vacant(o, others),
         NEW b \in others
  PROVE  Region(o) \cap Region(b) = {}
<1>1. o.base + o.shape.size < b.base \/ b.base + b.shape.size < o.base
  BY DEF Vacant
<1>2. o.base \in Nat /\ o.shape.size \in Nat /\ b.base \in Nat /\ b.shape.size \in Nat
  BY LayoutFacts
<1>3. o.base + o.shape.size <= b.base \/ b.base + b.shape.size <= o.base
  BY <1>1, <1>2
<1> QED BY <1>3, BelowIsApart

(* The redzones of an object in memory lie in memory, all their bytes too. *)
LEMMA PlacedZones ==
  ASSUME NEW o \in AnyObject, Region(o) \subseteq Addr
  PROVE  Redzones(o) \subseteq Addr /\ ZoneBytes(Redzones(o)) \subseteq Addr
BY LayoutFacts

(* Stack and heap objects are objects.                                     *)
LEMMA ObjectTypes ==
  /\ Objects(StackAddr, StackShapes) \subseteq AnyObject
  /\ Objects(HeapAddr, HeapShapes) \subseteq AnyObject
BY AddrAssumption DEF Objects, AnyObject

(* Live objects are objects, and they lie in memory.                       *)
LEMMA LiveFacts ==
  ASSUME TypeOK
  PROVE  /\ frames \subseteq AnyObject /\ blocks \subseteq AnyObject /\ Live \subseteq AnyObject
         /\ \A o \in Live : Region(o) \subseteq Addr
BY ObjectTypes DEF TypeOK, Placed, Live, Addr

-----------------------------------------------------------------------------
(* Type correctness *)

(* A program remains of its kind.                                          *)
LEMMA MovesStay == [Next]_vars => moves' = moves
BY DEF Next, vars

(* A program starts with nothing allocated and no redzones.                *)
LEMMA TypeInit == Init => TypeOK
BY DEF Init, TypeOK, Placed, Apart, Live

(* Entering a function keeps the types.                                    *)
LEMMA TypeEnter ==
  ASSUME TypeOK, NEW shape \in StackShapes, NEW base \in StackAddr, Enter(shape, base),
         moves' = moves
  PROVE  TypeOK'
<1> DEFINE o == [base |-> base, shape |-> shape]
<1>1. o \in Objects(StackAddr, StackShapes) /\ o \in AnyObject
  BY ObjectTypes DEF Objects
<1>2. Region(o) \subseteq StackAddr /\ frames' = frames \cup {o} /\ blocks' = blocks
  BY DEF Enter
<1>3. zones' = zones \cup Redzones(o) /\ coloured' = coloured \cup ZoneBytes(Redzones(o))
  BY DEF Enter, __rdzone_add
<1>4. UNCHANGED <<status, innocent, damaged>>
  BY DEF Enter
<1>5. \A f \in frames : o.base + o.shape.size <= f.base
  BY DEF Enter
<1> HIDE DEF o
<1>6. \A q \in Live : Region(o) \cap Region(q) = {}
  <2>1. \A f \in frames : Region(o) \cap Region(f) = {}
    BY <1>1, <1>5, LiveFacts, BelowIsApart
  <2>2. \A b \in blocks : Region(o) \cap Region(b) = {}
    BY <1>2, AddrAssumption DEF TypeOK, Placed
  <2> QED BY <2>1, <2>2 DEF Live
<1>7. Live' = Live \cup {o}
  BY <1>2 DEF Live
<1>8. Apart'
  BY <1>6, <1>7 DEF Apart, TypeOK
<1>9. Placed'
  BY <1>2 DEF Placed, TypeOK
<1>10. Redzones(o) \subseteq Addr /\ ZoneBytes(Redzones(o)) \subseteq Addr
  BY <1>1, <1>2, PlacedZones DEF Addr
<1> QED BY <1>1, <1>2, <1>3, <1>4, <1>8, <1>9, <1>10 DEF TypeOK

(* Taking a block from vacant memory keeps the types.                      *)
LEMMA TypeAllocate ==
  ASSUME TypeOK, NEW o \in Objects(HeapAddr, HeapShapes),
         NEW kept \in SUBSET blocks, Vacant(o, kept),
         blocks' = kept \cup {o}, zones' = zones \cup Redzones(o),
         coloured' \subseteq coloured \cup Region(o),
         UNCHANGED <<frames, status, innocent, damaged, moves>>
  PROVE  TypeOK'
<1>1. o \in AnyObject /\ Region(o) \subseteq HeapAddr
  BY ObjectTypes DEF Vacant
<1>2. Redzones(o) \subseteq Addr
  BY <1>1, PlacedZones DEF Addr
<1>3. \A q \in frames \cup kept : Region(o) \cap Region(q) = {}
  <2>1. \A f \in frames : Region(o) \cap Region(f) = {}
    BY <1>1, AddrAssumption DEF TypeOK, Placed
  <2>2. \A b \in kept : Region(o) \cap Region(b) = {}
    BY <1>1, LiveFacts, VacantIsApart
  <2> QED BY <2>1, <2>2
<1>4. Live' = (frames \cup kept) \cup {o}
  BY DEF Live
<1>5. \A q1, q2 \in frames \cup kept : q1 # q2 => Region(q1) \cap Region(q2) = {}
  BY DEF TypeOK, Apart, Live
<1>6. Apart'
  BY <1>3, <1>4, <1>5 DEF Apart
<1>7. Placed'
  BY <1>1 DEF Placed, TypeOK
<1>8. coloured' \subseteq Addr
  BY <1>1 DEF TypeOK, Addr
<1> QED BY <1>2, <1>6, <1>7, <1>8 DEF TypeOK

(* Steps that add no object and no redzone keep the types.                 *)
LEMMA TypeShrink ==
  ASSUME TypeOK, frames' \subseteq frames, blocks' \subseteq blocks,
         zones' \subseteq zones, coloured' \subseteq Addr,
         status' \in {"run", "report", "crash"},
         innocent' \in BOOLEAN, damaged' \in BOOLEAN, moves' = moves
  PROVE  TypeOK'
<1>1. Live' \subseteq Live
  BY DEF Live
<1>2. Placed' /\ Apart'
  BY <1>1 DEF TypeOK, Placed, Apart
<1> QED BY <1>2 DEF TypeOK

(* The contents that a Realloc moves fit in the new block.                 *)
LEMMA MovedInside ==
  ASSUME NEW o \in AnyObject, NEW n \in Nat
  PROVE  At(o, {i \in 0 .. n - 1 : i < o.shape.size}) \subseteq Region(o)
<1>1. o.base \in Nat /\ o.shape.size \in Nat
  BY LayoutFacts
<1> QED BY <1>1 DEF At, Region, Bytes

(* The block of a Realloc keeps clear of the blocks that stay.             *)
LEMMA VacantKept ==
  ASSUME NEW b, NEW o, NEW base, Vacant(o, IF base = b.base THEN blocks \ {b} ELSE blocks)
  PROVE  Vacant(o, blocks \ {b})
BY DEF Vacant

(* No step of the program lets live objects overlap or leave memory.       *)
LEMMA TypeStep == TypeOK /\ [Next]_vars => TypeOK'
<1> SUFFICES ASSUME TypeOK, [Next]_vars, moves' = moves
             PROVE  TypeOK'
  BY MovesStay
<1>0. TypeOK
  OBVIOUS
<1>1. ASSUME NEW shape \in StackShapes, NEW base \in StackAddr, Enter(shape, base)
      PROVE  TypeOK'
  BY <1>1, TypeEnter
<1>2. ASSUME NEW f \in frames, Return(f)
      PROVE  TypeOK'
  BY <1>2, TypeShrink DEF TypeOK, Return, __rdzone_rm
<1>3. ASSUME NEW f \in frames, Longjmp(f)
      PROVE  TypeOK'
  BY <1>3, TypeShrink DEF TypeOK, Longjmp
<1>4. ASSUME NEW shape \in HeapShapes, NEW base \in HeapAddr, Malloc(shape, base)
      PROVE  TypeOK'
  <2> DEFINE o == [base |-> base, shape |-> shape]
  <2>1. o \in Objects(HeapAddr, HeapShapes) /\ o \in AnyObject
    BY ObjectTypes DEF Objects
  <2>2. /\ Vacant(o, blocks) /\ blocks' = blocks \cup {o}
        /\ zones' = zones \cup Redzones(o)
        /\ coloured' = coloured \cup ZoneBytes(Redzones(o))
        /\ UNCHANGED <<frames, status, innocent, damaged>>
    BY <1>4 DEF Malloc, __rdzone_add
  <2> HIDE DEF o
  <2>3. coloured' \subseteq coloured \cup Region(o)
    BY <2>1, <2>2, LayoutFacts
  <2> QED BY <2>1, <2>2, <2>3, TypeAllocate
<1>5. ASSUME NEW shape \in HeapShapes, NEW base \in HeapAddr, Calloc(shape, base)
      PROVE  TypeOK'
  <2> DEFINE o == [base |-> base, shape |-> shape]
  <2>1. o \in Objects(HeapAddr, HeapShapes) /\ o \in AnyObject
    BY ObjectTypes DEF Objects
  <2>2. /\ Vacant(o, blocks) /\ blocks' = blocks \cup {o}
        /\ zones' = zones \cup Redzones(o)
        /\ coloured' = (coloured \ Region(o)) \cup ZoneBytes(Redzones(o))
        /\ UNCHANGED <<frames, status, innocent, damaged>>
    BY <1>5 DEF Calloc
  <2> HIDE DEF o
  <2>3. coloured' \subseteq coloured \cup Region(o)
    BY <2>1, <2>2, LayoutFacts
  <2> QED BY <2>1, <2>2, <2>3, TypeAllocate
<1>6. ASSUME NEW b \in blocks, NEW shape \in HeapShapes, NEW base \in HeapAddr,
             Realloc(b, shape, base)
      PROVE  TypeOK'
  <2> DEFINE o == [base |-> base, shape |-> shape]
             moved == {i \in 0 .. b.shape.size - 1 : i < shape.size}
  <2>1. o \in Objects(HeapAddr, HeapShapes) /\ o \in AnyObject
    BY ObjectTypes DEF Objects
  <2>2. /\ Vacant(o, IF base = b.base THEN blocks \ {b} ELSE blocks)
        /\ blocks' = (blocks \ {b}) \cup {o}
        /\ zones' = zones \cup Redzones(o)
        /\ coloured' \subseteq coloured \cup At(o, moved) \cup ZoneBytes(Redzones(o))
        /\ UNCHANGED <<frames, status, innocent, damaged>>
    BY <1>6 DEF Realloc, At
  <2>3. At(o, moved) \subseteq Region(o)
    <3>1. b.shape.size \in Nat /\ o.shape = shape
      BY LiveFacts, LayoutFacts
    <3>2. At(o, {i \in 0 .. b.shape.size - 1 : i < o.shape.size}) \subseteq Region(o)
      BY <2>1, <3>1, MovedInside
    <3> QED BY <3>1, <3>2
  <2> HIDE DEF o, moved
  <2>4. coloured' \subseteq coloured \cup Region(o)
    BY <2>1, <2>2, <2>3, LayoutFacts
  <2>5. Vacant(o, blocks \ {b})
    BY <2>2, VacantKept
  <2> QED BY <2>1, <2>2, <2>4, <2>5, TypeAllocate
<1>7. ASSUME NEW shape \in HeapShapes, MallocFails(shape)
      PROVE  TypeOK'
  BY <1>7, TypeShrink DEF TypeOK, MallocFails
<1>8. ASSUME NEW b \in blocks, FreeUntraced(b)
      PROVE  TypeOK'
  BY <1>8, TypeShrink DEF TypeOK, FreeUntraced, Freed
<1>9. ASSUME NEW b \in blocks, NEW shape \in HeapShapes, FreeTraced(b, shape)
      PROVE  TypeOK'
  BY <1>9, TypeShrink DEF TypeOK, FreeTraced, Freed, __rdzone_rm_between
<1>10. ASSUME NEW p \in Addr, NEW w \in Widths,
              Reported(p, w) \/ Load(p, w) \/ StoreTo(p, w) \/ LibcWrite(p, w)
       PROVE  TypeOK'
  <2>1. innocent' \in BOOLEAN /\ damaged' \in BOOLEAN
    <3>1. (innocent /\ Legal(p, w)) \in BOOLEAN /\ (damaged \/ Touches(p, w)) \in BOOLEAN
      OBVIOUS
    <3>2. /\ innocent' = (innocent /\ Legal(p, w))
          /\ damaged' = damaged \/ damaged' = (damaged \/ Touches(p, w))
      BY <1>10 DEF Reported, Load, StoreTo, LibcWrite, Passed
    <3> QED BY <3>1, <3>2, <1>0, Zenon DEF TypeOK
  <2>2. /\ UNCHANGED <<zones, frames, blocks>>
        /\ status' = "report" \/ status' = status
        /\ Bytes(p, w) \subseteq Addr
        /\ coloured' = coloured \/ Written(p, w)
    BY <1>10 DEF Reported, Load, StoreTo, LibcWrite, Passed
  <2>3. coloured' \subseteq Addr /\ status' \in {"run", "report", "crash"}
    BY <2>2 DEF TypeOK, Written
  <2> QED BY <2>1, <2>2, <2>3, TypeShrink
<1>11. CASE UNCHANGED vars
  BY <1>11, TypeShrink DEF TypeOK, vars
<1> QED BY <1>1, <1>2, <1>3, <1>4, <1>5, <1>6, <1>7, <1>8, <1>9, <1>10, <1>11 DEF Next, Step

(* Memory and redzones stay within the address space, and no two live      *)
(* objects overlap, so that no redzone lies in another object's fields.    *)
THEOREM TypeCorrect == Spec => []TypeOK
BY TypeInit, TypeStep, PTL DEF Spec

-----------------------------------------------------------------------------
(* The steps that add an object, seen alike                                *)

Adds(o, others) ==
  /\ o \in AnyObject /\ others \subseteq Live
  /\ \A q \in others : Region(o) \cap Region(q) = {}
  /\ Live' = others \cup {o}
  /\ zones' = zones \cup Redzones(o)
  /\ coloured \subseteq coloured' \cup Region(o)
  /\ ZoneBytes(Redzones(o)) \subseteq coloured'
  /\ UNCHANGED <<status, innocent, damaged>>

(* Entering a function adds an object.                                     *)
LEMMA EnterAdds ==
  ASSUME TypeOK, NEW shape \in StackShapes, NEW base \in StackAddr, Enter(shape, base)
  PROVE  Adds([base |-> base, shape |-> shape], Live)
<1> DEFINE o == [base |-> base, shape |-> shape]
<1>1. o \in Objects(StackAddr, StackShapes) /\ o \in AnyObject
  BY ObjectTypes DEF Objects
<1>2. /\ Region(o) \subseteq StackAddr /\ frames' = frames \cup {o} /\ blocks' = blocks
      /\ zones' = zones \cup Redzones(o) /\ coloured' = coloured \cup ZoneBytes(Redzones(o))
      /\ UNCHANGED <<status, innocent, damaged>>
  BY DEF Enter, __rdzone_add
<1>3. \A f \in frames : o.base + o.shape.size <= f.base
  BY DEF Enter
<1> HIDE DEF o
<1>4. \A f \in frames : Region(o) \cap Region(f) = {}
  BY <1>1, <1>3, LiveFacts, BelowIsApart
<1>5. \A b \in blocks : Region(o) \cap Region(b) = {}
  BY <1>2, AddrAssumption DEF TypeOK, Placed
<1>6. Live' = Live \cup {o}
  BY <1>2 DEF Live
<1>7. Adds(o, Live)
  BY <1>1, <1>2, <1>4, <1>5, <1>6 DEF Adds, Live
<1> QED BY <1>7 DEF o

(* A block taken from vacant memory adds an object to those that stay.     *)
LEMMA AllocateAdds ==
  ASSUME TypeOK, NEW o \in Objects(HeapAddr, HeapShapes),
         NEW kept \in SUBSET blocks, Vacant(o, kept),
         blocks' = kept \cup {o}, zones' = zones \cup Redzones(o),
         coloured \subseteq coloured' \cup Region(o),
         ZoneBytes(Redzones(o)) \subseteq coloured',
         UNCHANGED <<frames, status, innocent, damaged>>
  PROVE  Adds(o, frames \cup kept)
<1>1. o \in AnyObject /\ Region(o) \subseteq HeapAddr
  BY ObjectTypes DEF Vacant
<1>2. \A f \in frames : Region(o) \cap Region(f) = {}
  BY <1>1, AddrAssumption DEF TypeOK, Placed
<1>3. \A b \in kept : Region(o) \cap Region(b) = {}
  BY <1>1, LiveFacts, VacantIsApart
<1>4. Live' = (frames \cup kept) \cup {o}
  BY DEF Live
<1> QED BY <1>1, <1>2, <1>3, <1>4 DEF Adds, Live

(* Malloc and Calloc add an object.                                        *)
LEMMA MallocAdds ==
  ASSUME TypeOK, NEW shape \in HeapShapes, NEW base \in HeapAddr,
         Malloc(shape, base) \/ Calloc(shape, base)
  PROVE  Adds([base |-> base, shape |-> shape], Live)
<1> DEFINE o == [base |-> base, shape |-> shape]
<1>1. o \in Objects(HeapAddr, HeapShapes)
  BY DEF Objects
<1>2. /\ Vacant(o, blocks) /\ blocks' = blocks \cup {o}
      /\ zones' = zones \cup Redzones(o)
      /\ \/ coloured' = coloured \cup ZoneBytes(Redzones(o))
         \/ coloured' = (coloured \ Region(o)) \cup ZoneBytes(Redzones(o))
      /\ UNCHANGED <<frames, status, innocent, damaged>>
  BY DEF Malloc, Calloc, __rdzone_add
<1> HIDE DEF o
<1>3. Adds(o, frames \cup blocks)
  BY <1>1, <1>2, AllocateAdds
<1> QED BY <1>3 DEF o, Live

(* Realloc replaces one block by another.                                  *)
LEMMA ReallocAdds ==
  ASSUME TypeOK, NEW b \in blocks, NEW shape \in HeapShapes, NEW base \in HeapAddr,
         Realloc(b, shape, base)
  PROVE  Adds([base |-> base, shape |-> shape], frames \cup (blocks \ {b}))
<1> DEFINE o == [base |-> base, shape |-> shape]
           moved == {i \in 0 .. b.shape.size - 1 : i < shape.size}
<1>1. o \in Objects(HeapAddr, HeapShapes) /\ o \in AnyObject
  BY ObjectTypes DEF Objects
<1>2. /\ Vacant(o, IF base = b.base THEN blocks \ {b} ELSE blocks)
      /\ blocks' = (blocks \ {b}) \cup {o}
      /\ zones' = zones \cup Redzones(o)
      /\ coloured \subseteq coloured' \cup At(o, moved)
      /\ ZoneBytes(Redzones(o)) \subseteq coloured'
      /\ UNCHANGED <<frames, status, innocent, damaged>>
  BY DEF Realloc
<1>3. At(o, moved) \subseteq Region(o)
  <2>1. b.shape.size \in Nat /\ o.shape = shape
    BY LiveFacts, LayoutFacts
  <2>2. At(o, {i \in 0 .. b.shape.size - 1 : i < o.shape.size}) \subseteq Region(o)
    BY <1>1, <2>1, MovedInside
  <2> QED BY <2>1, <2>2
<1> HIDE DEF o, moved
<1>4. coloured \subseteq coloured' \cup Region(o)
  BY <1>2, <1>3
<1>5. Vacant(o, blocks \ {b})
  BY <1>2, VacantKept
<1>6. Adds(o, frames \cup (blocks \ {b}))
  BY <1>1, <1>2, <1>4, <1>5, AllocateAdds
<1> QED BY <1>6 DEF o

-----------------------------------------------------------------------------
(* Redzones of live objects keep their colour *)

(* The live redzones are those of the live objects.                        *)
LEMMA LiveZoneMember ==
  ASSUME NEW z
  PROVE  z \in LiveZones <=> \E o \in Live : z \in Redzones(o)
BY DEF LiveZones

(* A byte of a live object's redzone lies inside that object.              *)
LEMMA LiveZoneByte ==
  ASSUME TypeOK, NEW a \in ZoneBytes(LiveZones)
  PROVE  \E o \in Live : a \in ZoneBytes(Redzones(o)) /\ a \in Region(o)
<1>1. PICK z \in LiveZones : a \in Bytes(z, RZ)
  BY ZoneBytesMember
<1>2. PICK o \in Live : z \in Redzones(o)
  BY <1>1, LiveZoneMember
<1>3. a \in ZoneBytes(Redzones(o))
  BY <1>1, <1>2, ZoneBytesMember
<1> QED BY <1>2, <1>3, LiveFacts, LayoutFacts

(* Adding an object colours its redzones and touches only its own bytes.   *)
LEMMA PaintedAdds ==
  ASSUME TypeOK, Painted, NEW o, NEW others, Adds(o, others)
  PROVE  Painted'
<1> SUFFICES ASSUME ~damaged', NEW a \in ZoneBytes(zones \cap LiveZones)'
             PROVE  a \in coloured'
  BY DEF Painted
<1>1. PICK z \in (zones \cap LiveZones)' : a \in Bytes(z, RZ)
  BY DEF ZoneBytes
<1>2. PICK q \in others \cup {o} : z \in Redzones(q)
  BY <1>1 DEF LiveZones, Adds
<1>3. CASE z \in Redzones(o)
  BY <1>1, <1>3, ZoneBytesMember DEF Adds
<1>4. CASE z \notin Redzones(o)
  <2>1. q \in others /\ z \in zones
    BY <1>1, <1>2, <1>4 DEF Adds
  <2>2. q \in Live /\ z \in LiveZones /\ Region(o) \cap Region(q) = {}
    BY <1>2, <2>1, LiveZoneMember DEF Adds
  <2>3. a \in coloured
    BY <1>1, <2>1, <2>2, ZoneBytesMember DEF Painted, Adds
  <2>4. a \in Region(q)
    BY <1>1, <1>2, <2>2, ZoneBytesMember, LiveFacts, LayoutFacts
  <2> QED BY <2>2, <2>3, <2>4 DEF Adds
<1> QED BY <1>3, <1>4

(* Steps that add no redzone and take no colour from a live one keep the   *)
(* live redzones painted.                                                  *)
LEMMA PaintedShrink ==
  ASSUME Painted, Live' \subseteq Live, zones' \subseteq zones, damaged => damaged',
         ~damaged' => \A a \in ZoneBytes(LiveZones') : a \in coloured => a \in coloured'
  PROVE  Painted'
<1> SUFFICES ASSUME ~damaged', NEW a \in ZoneBytes(zones \cap LiveZones)'
             PROVE  a \in coloured'
  BY DEF Painted
<1>1. PICK z \in (zones \cap LiveZones)' : a \in Bytes(z, RZ)
  BY DEF ZoneBytes
<1>2. z \in zones /\ z \in LiveZones
  BY <1>1 DEF LiveZones
<1>3. a \in coloured
  BY <1>1, <1>2, ZoneBytesMember DEF Painted
<1>4. a \in ZoneBytes(LiveZones')
  BY <1>1, ZoneBytesMember
<1> QED BY <1>3, <1>4

(* The byte a free overwrites belongs to no object that stays.             *)
LEMMA FreedIsDead ==
  ASSUME TypeOK, NEW b \in blocks, Freed(b), NEW a \in ZoneBytes(LiveZones')
  PROVE  a # b.base
<1>1. Live' = frames \cup (blocks \ {b})
  BY DEF Freed, Live
<1>2. PICK q \in Live' : \E z \in Redzones(q) : a \in Bytes(z, RZ)
  BY DEF ZoneBytes, LiveZones
<1>3. q \in Live /\ b \in Live /\ q \in AnyObject /\ b \in AnyObject
  BY <1>1, <1>2, LiveFacts DEF Live
<1>4. a \in Region(q) /\ b.base \in Region(b)
  BY <1>2, <1>3, ZoneBytesMember, LayoutFacts
<1>5. Region(q) \cap Region(b) = {}
  <2>1. CASE q \in frames
    BY <2>1, AddrAssumption DEF TypeOK, Placed
  <2>2. CASE q \in blocks \ {b}
    BY <1>3, <2>2 DEF TypeOK, Apart
  <2> QED BY <1>1, <2>1, <2>2
<1> QED BY <1>4, <1>5

(* No step takes colour from a registered redzone of a live object.        *)
LEMMA PaintedStep == TypeOK /\ Painted /\ [Next]_vars => Painted'
<1> SUFFICES ASSUME TypeOK, Painted, [Next]_vars
             PROVE  Painted'
  OBVIOUS
<1>1. ASSUME NEW shape \in StackShapes, NEW base \in StackAddr, Enter(shape, base)
      PROVE  Painted'
  BY <1>1, EnterAdds, PaintedAdds
<1>2. ASSUME NEW f \in frames, Return(f) \/ Longjmp(f)
      PROVE  Painted'
  <2>1. /\ Live' \subseteq Live /\ zones' \subseteq zones
        /\ coloured' = coloured /\ damaged' = damaged
    BY <1>2 DEF Return, Longjmp, __rdzone_rm, Live
  <2> QED BY <2>1, PaintedShrink
<1>3. ASSUME NEW shape \in HeapShapes, NEW base \in HeapAddr,
             Malloc(shape, base) \/ Calloc(shape, base)
      PROVE  Painted'
  BY <1>3, MallocAdds, PaintedAdds
<1>4. ASSUME NEW b \in blocks, NEW shape \in HeapShapes, NEW base \in HeapAddr,
             Realloc(b, shape, base)
      PROVE  Painted'
  BY <1>4, ReallocAdds, PaintedAdds
<1>5. ASSUME NEW shape \in HeapShapes, MallocFails(shape)
      PROVE  Painted'
  <2>1. Live' = Live /\ zones' = zones /\ coloured' = coloured /\ damaged' = damaged
    BY <1>5 DEF MallocFails, Live
  <2> QED BY <2>1, PaintedShrink
<1>6. ASSUME NEW b \in blocks, NEW shape \in HeapShapes, FreeTraced(b, shape)
      PROVE  Painted'
  <2>1. Freed(b) /\ zones' \subseteq zones
    BY <1>6 DEF FreeTraced, __rdzone_rm_between
  <2>2. /\ Live' \subseteq Live /\ damaged' = damaged
        /\ coloured \ {b.base} \subseteq coloured'
    BY <2>1 DEF Freed, Live
  <2>3. \A a \in ZoneBytes(LiveZones') : a \in coloured => a \in coloured'
    BY <2>1, <2>2, FreedIsDead
  <2> QED BY <2>1, <2>2, <2>3, PaintedShrink
<1>7. ASSUME NEW b \in blocks, FreeUntraced(b)
      PROVE  Painted'
  <2>1. Freed(b) /\ zones' = zones
    BY <1>7 DEF FreeUntraced
  <2>2. /\ Live' \subseteq Live /\ damaged' = damaged
        /\ coloured \ {b.base} \subseteq coloured'
    BY <2>1 DEF Freed, Live
  <2>3. \A a \in ZoneBytes(LiveZones') : a \in coloured => a \in coloured'
    BY <2>1, <2>2, FreedIsDead
  <2> QED BY <2>1, <2>2, <2>3, PaintedShrink
<1>8. ASSUME NEW p \in Addr, NEW w \in Widths, Reported(p, w) \/ Load(p, w)
      PROVE  Painted'
  <2>1. Live' = Live /\ zones' = zones /\ coloured' = coloured /\ damaged' = damaged
    BY <1>8 DEF Reported, Load, Passed, Live
  <2> QED BY <2>1, PaintedShrink
<1>9. ASSUME NEW p \in Addr, NEW w \in Widths, StoreTo(p, w) \/ LibcWrite(p, w)
      PROVE  Painted'
  <2>1. /\ Live' = Live /\ LiveZones' = LiveZones /\ zones' = zones
        /\ Written(p, w) /\ damaged' = (damaged \/ Touches(p, w))
    BY <1>9 DEF StoreTo, LibcWrite, Passed, Live, LiveZones
  <2>2. coloured \ Bytes(p, w) \subseteq coloured'
    BY <2>1 DEF Written
  <2>3. ~damaged' => Bytes(p, w) \cap ZoneBytes(LiveZones') = {}
    BY <2>1 DEF Touches
  <2> QED BY <2>1, <2>2, <2>3, PaintedShrink
<1>10. CASE UNCHANGED vars
  <2>1. Live' = Live /\ zones' = zones /\ coloured' = coloured /\ damaged' = damaged
    BY <1>10 DEF vars, Live
  <2> QED BY <2>1, PaintedShrink
<1> QED BY <1>1, <1>2, <1>3, <1>4, <1>5, <1>6, <1>7, <1>8, <1>9, <1>10 DEF Next, Step

(* Whatever the program does, the bytes of registered redzones of live     *)
(* objects stay coloured until a write that was let through hits one.      *)
THEOREM PaintedCorrect == Spec => []Painted
<1>1. Init => Painted
  BY DEF Init, Painted, ZoneBytes
<1> QED BY <1>1, TypeCorrect, PaintedStep, PTL DEF Spec

-----------------------------------------------------------------------------
(* Redzones of live objects stay registered where no free sweeps           *)

(* No redzone of one live object is a redzone of another.                  *)
LEMMA ZonesApart ==
  ASSUME TypeOK, NEW o \in Live, NEW q \in Live, o # q
  PROVE  Redzones(o) \cap Redzones(q) = {}
<1>1. Region(o) \cap Region(q) = {}
  BY DEF TypeOK, Apart
<1>2. Redzones(o) \subseteq Region(o) /\ Redzones(q) \subseteq Region(q)
  BY LiveFacts, LayoutFacts
<1> QED BY <1>1, <1>2

(* No step but a sweeping free unregisters a redzone of a live object.     *)
LEMMA GuardedStep == TypeOK /\ Guarded /\ [Next]_vars => Guarded'
<1> SUFFICES ASSUME TypeOK, "trace" \notin moves, LiveZones \subseteq zones, [Next]_vars
             PROVE  LiveZones' \subseteq zones'
  BY MovesStay DEF Guarded
<1> DEFINE Goal == LiveZones' \subseteq zones'
<1>0. ASSUME NEW o, NEW others, Adds(o, others)
      PROVE  Goal
  BY <1>0 DEF Adds, LiveZones
<1>1. ASSUME NEW shape \in StackShapes, NEW base \in StackAddr, Enter(shape, base)
      PROVE  Goal
  BY <1>0, <1>1, EnterAdds
<1>2. ASSUME NEW f \in frames, Return(f)
      PROVE  Goal
  <2>1. /\ Live' \subseteq Live /\ zones' = zones \ At(f, f.shape.zones)
        /\ frames' = frames \ {f} /\ blocks' = blocks
    BY <1>2 DEF Return, __rdzone_rm, Live
  <2>2. At(f, f.shape.zones) \subseteq Redzones(f)
    BY DEF At, Redzones
  <2>3. f \notin blocks
    <3>1. f \in Live /\ f.base \in Region(f)
      BY LiveFacts, LayoutFacts DEF Live
    <3> QED BY <3>1, AddrAssumption DEF TypeOK, Placed
  <2>4. SUFFICES ASSUME NEW q \in Live', NEW z \in Redzones(q)
                 PROVE  z \in zones'
    BY DEF LiveZones
  <2>5. q \in Live /\ f \in Live /\ q # f
    BY <2>1, <2>3 DEF Live
  <2>6. z \in zones /\ z \notin Redzones(f)
    BY <2>5, ZonesApart, LiveZoneMember
  <2> QED BY <2>1, <2>2, <2>6
<1>3. ASSUME NEW f \in frames, Longjmp(f)
      PROVE  Goal
  BY <1>3 DEF Longjmp, LiveZones, Live
<1>4. ASSUME NEW shape \in HeapShapes, NEW base \in HeapAddr,
             Malloc(shape, base) \/ Calloc(shape, base)
      PROVE  Goal
  BY <1>0, <1>4, MallocAdds
<1>5. ASSUME NEW b \in blocks, NEW shape \in HeapShapes, NEW base \in HeapAddr,
             Realloc(b, shape, base)
      PROVE  Goal
  BY <1>0, <1>5, ReallocAdds
<1>6. ASSUME NEW shape \in HeapShapes, MallocFails(shape)
      PROVE  Goal
  BY <1>6 DEF MallocFails, LiveZones, Live
<1>7. ASSUME NEW b \in blocks, FreeUntraced(b)
      PROVE  Goal
  BY <1>7 DEF FreeUntraced, Freed, LiveZones, Live
<1>8. ASSUME NEW b \in blocks, NEW shape \in HeapShapes, FreeTraced(b, shape)
      PROVE  Goal
  BY <1>8 DEF FreeTraced
<1>9. ASSUME NEW p \in Addr, NEW w \in Widths,
             Reported(p, w) \/ Load(p, w) \/ StoreTo(p, w) \/ LibcWrite(p, w)
      PROVE  Goal
  BY <1>9 DEF Reported, Load, StoreTo, LibcWrite, Passed, LiveZones, Live
<1>10. CASE UNCHANGED vars
  BY <1>10 DEF vars, LiveZones, Live
<1> QED BY <1>1, <1>2, <1>3, <1>4, <1>5, <1>6, <1>7, <1>8, <1>9, <1>10 DEF Next, Step

(* In a program none of whose frees sweeps, every redzone of every live    *)
(* object is registered.                                                   *)
THEOREM GuardedCorrect == Spec => []Guarded
<1>1. Init => Guarded
  BY DEF Init, Guarded, LiveZones, Live
<1> QED BY <1>1, TypeCorrect, GuardedStep, PTL DEF Spec

-----------------------------------------------------------------------------
(* An access into a redzone is caught *)

(* Redzones start at natural addresses.                                    *)
LEMMA ZonesAreNaturals == ASSUME TypeOK PROVE zones \subseteq Nat
BY AddrAssumption DEF TypeOK, Addr

(* A probe inside a registered redzone is noticed at any width: the        *)
(* nearest redzone to its left starts no earlier and is as large.          *)
LEMMA InsideIsNoticed ==
  ASSUME TypeOK, NEW z \in zones, NEW p \in Bytes(z, RZ), NEW width
  PROVE  Store!NeighbourCheck(Registered, p, width)
<1>1. zones \in SUBSET Nat /\ z \in Nat /\ RZ \in Nat
  BY ZonesAreNaturals, WidthsAssumption
<1>2. p \in Nat /\ z <= p /\ p < z + RZ
  BY <1>1, BytesMember
<1>3. PICK l \in zones : l <= p /\ \A k \in zones : k <= p => k <= l
  BY <1>1, <1>2, LargestBelow
<1>4. l \in Nat /\ z <= l
  BY <1>1, <1>2, <1>3
<1>5. l + RZ > p
  BY <1>1, <1>2, <1>4
<1>6. DOMAIN Registered = zones /\ Registered[l] = RZ
  BY <1>3 DEF Registered
<1>7. Store!IsLeftPar(Registered, l, p)
  BY <1>3, <1>6 DEF Store!IsLeftPar
<1> QED BY <1>3, <1>5, <1>6, <1>7 DEF Store!NeighbourCheck

(* In a program none of whose frees sweeps, an access that starts in a     *)
(* redzone of a live object is reported, unless a write that was let       *)
(* through has hit a redzone before.                                       *)
THEOREM CaughtCorrect == Spec => []Caught
<1>1. TypeOK /\ Painted /\ Guarded => Caught
  <2> SUFFICES ASSUME TypeOK, Painted, Guarded, "trace" \notin moves, ~damaged,
                      NEW p \in ZoneBytes(LiveZones), NEW w \in Widths
               PROVE  Reports(p, w)
    BY DEF Caught
  <2>1. PICK z \in LiveZones : p \in Bytes(z, RZ)
    BY ZoneBytesMember
  <2>2. z \in zones
    BY <2>1 DEF Guarded
  <2>3. p \in coloured
    BY <2>1, <2>2, ZoneBytesMember DEF Painted
  <2>4. Store!NeighbourCheck(Registered, p, w % WidthModulus)
    BY <2>1, <2>2, InsideIsNoticed
  <2> QED BY <2>3, <2>4 DEF Reports
<1> QED BY <1>1, TypeCorrect, PaintedCorrect, GuardedCorrect, PTL

-----------------------------------------------------------------------------
(* Tidy programs are not stopped *)

(* A width that wraps gets smaller.                                        *)
LEMMA WidthWraps ==
  ASSUME NEW w \in Widths
  PROVE  w \in Nat \ {0} /\ w % WidthModulus \in Nat /\ w % WidthModulus <= w
<1>1. w \in Nat \ {0} /\ WidthModulus \in Nat \ {0}
  BY WidthsAssumption
<1>2. w % WidthModulus \in Nat /\ w % WidthModulus < WidthModulus
  BY <1>1
<1>3. CASE w < WidthModulus
  <2>1. w % WidthModulus = w
    BY <1>1, <1>3
  <2> QED BY <1>1, <2>1
<1>4. CASE WidthModulus <= w
  BY <1>1, <1>2, <1>4
<1> QED BY <1>1, <1>2, <1>3, <1>4

(* What is reported touches a registered redzone.                          *)
LEMMA ReportedTouches ==
  ASSUME TypeOK, NEW p \in Addr, NEW w \in Widths, Reports(p, w)
  PROVE  \E z \in zones : Bytes(p, w) \cap Bytes(z, RZ) # {}
<1> DEFINE n == w % WidthModulus
<1>1. p \in Nat /\ w \in Nat \ {0} /\ n \in Nat /\ n <= w /\ RZ \in Nat \ {0}
  BY WidthWraps, WidthsAssumption, AddrAssumption DEF Addr
<1>2. zones \subseteq Nat /\ DOMAIN Registered = zones /\ \A k \in zones : Registered[k] = RZ
  BY ZonesAreNaturals DEF Registered
<1>3. Store!NeighbourCheck(Registered, p, n)
  BY DEF Reports
<1> HIDE DEF n
<1>4. CASE \E l \in zones : Store!IsLeftPar(Registered, l, p) /\ l + RZ > p
  <2>1. PICK l \in zones : l <= p /\ l + RZ > p
    BY <1>4 DEF Store!IsLeftPar
  <2>2. p \in Bytes(p, w) /\ p \in Bytes(l, RZ)
    BY <1>1, <1>2, <2>1, BytesMember
  <2> QED BY <2>2
<1>5. CASE \E r \in zones : Store!IsRightPar(Registered, r, p) /\ r < p + n
  <2>1. PICK r \in zones : r > p /\ r < p + n
    BY <1>5 DEF Store!IsRightPar
  <2>2. r \in Nat /\ r < p + w
    BY <1>1, <1>2, <2>1
  <2>3. r \in Bytes(p, w) /\ r \in Bytes(r, RZ)
    BY <1>1, <2>1, <2>2, BytesMember
  <2> QED BY <2>3
<1> QED BY <1>2, <1>3, <1>4, <1>5 DEF Store!NeighbourCheck

(* A legal access touches no redzone of a live object.                     *)
LEMMA LegalIsClear ==
  ASSUME TypeOK, NEW p, NEW w, Legal(p, w)
  PROVE  Bytes(p, w) \cap ZoneBytes(LiveZones) = {}
<1> SUFFICES ASSUME NEW a \in Bytes(p, w), a \in ZoneBytes(LiveZones)
             PROVE  FALSE
  OBVIOUS
<1>1. PICK q \in Live : a \in ZoneBytes(Redzones(q)) /\ a \in Region(q)
  BY LiveZoneByte
<1>2. CASE \E o \in Live : Bytes(p, w) \subseteq At(o, o.shape.fields)
  <2>1. PICK o \in Live : a \in At(o, o.shape.fields)
    BY <1>2
  <2>2. a \in Region(o)
    BY <2>1, FieldsInside, LiveFacts
  <2>3. o = q
    BY <1>1, <2>2 DEF TypeOK, Apart
  <2> QED BY <1>1, <2>1, <2>3, LiveFacts, LayoutFacts
<1>3. CASE Bytes(p, w) \subseteq StackAddr /\ \A o \in frames : Bytes(p, w) \cap Region(o) = {}
  <2>1. a \in StackAddr /\ q \notin frames
    BY <1>1, <1>3
  <2>2. q \in blocks /\ Region(q) \subseteq HeapAddr
    BY <2>1 DEF Live, TypeOK, Placed
  <2> QED BY <1>1, <2>1, <2>2, AddrAssumption
<1> QED BY <1>2, <1>3 DEF Legal

(* In a tidy program the registered redzones are those of live objects.    *)
NoStale == Tidy => zones \subseteq LiveZones

(* Adding an object beside the live ones leaves no stale redzone.          *)
LEMMA NoStaleAdds ==
  ASSUME NoStale, NEW o, Adds(o, Live), moves' = moves
  PROVE  NoStale'
BY DEF NoStale, Adds, LiveZones, Tidy

(* In a tidy program no step leaves the redzone of a dead object behind.   *)
LEMMA NoStaleStep == TypeOK /\ NoStale /\ [Next]_vars => NoStale'
<1> SUFFICES ASSUME TypeOK, NoStale, Tidy, [Next]_vars, moves' = moves
             PROVE  zones' \subseteq LiveZones'
  BY MovesStay DEF NoStale, Tidy
<1> DEFINE Goal == zones' \subseteq LiveZones'
<1>0. zones \subseteq LiveZones
  BY DEF NoStale
<1>1. ASSUME NEW shape \in StackShapes, NEW base \in StackAddr, Enter(shape, base)
      PROVE  Goal
  BY <1>1, EnterAdds, NoStaleAdds DEF NoStale, Tidy
<1>2. ASSUME NEW f \in frames, Return(f)
      PROVE  Goal
  <2>1. f.shape.kept \subseteq f.shape.zones
    BY DEF Tidy, TypeOK, Objects
  <2>2. Redzones(f) = At(f, f.shape.zones)
    BY <2>1 DEF Redzones, At
  <2>3. zones' = zones \ Redzones(f) /\ frames' = frames \ {f} /\ blocks' = blocks
    BY <1>2, <2>2 DEF Return, __rdzone_rm
  <2>4. SUFFICES ASSUME NEW z \in zones'
                 PROVE  z \in LiveZones'
    OBVIOUS
  <2>5. PICK q \in Live : z \in Redzones(q)
    BY <1>0, <2>3, LiveZoneMember
  <2>6. q # f
    BY <2>3, <2>5
  <2>7. q \in Live'
    BY <2>3, <2>5, <2>6 DEF Live
  <2> QED BY <2>5, <2>7 DEF LiveZones
<1>3. ASSUME NEW f \in frames, Longjmp(f)
      PROVE  Goal
  BY <1>3 DEF Longjmp, Tidy
<1>4. ASSUME NEW shape \in HeapShapes, NEW base \in HeapAddr,
             Malloc(shape, base) \/ Calloc(shape, base)
      PROVE  Goal
  BY <1>4, MallocAdds, NoStaleAdds DEF NoStale, Tidy
<1>5. ASSUME NEW b \in blocks, NEW shape \in HeapShapes, NEW base \in HeapAddr,
             Realloc(b, shape, base)
      PROVE  Goal
  BY <1>5 DEF Realloc, Tidy
<1>6. ASSUME NEW shape \in HeapShapes, MallocFails(shape)
      PROVE  Goal
  BY <1>6 DEF MallocFails, Tidy
<1>7. ASSUME NEW b \in blocks, FreeUntraced(b)
      PROVE  Goal
  <2>1. ~Instrumented(b.shape) /\ zones' = zones
    BY <1>7 DEF FreeUntraced, Tidy
  <2>2. frames' = frames /\ blocks' = blocks \ {b}
    BY <1>7 DEF FreeUntraced, Freed
  <2>3. Redzones(b) = {}
    BY <2>1 DEF Instrumented, Redzones, At
  <2>4. SUFFICES ASSUME NEW z \in zones
                 PROVE  z \in LiveZones'
    BY <2>1
  <2>5. PICK q \in Live : z \in Redzones(q)
    BY <1>0, LiveZoneMember
  <2>6. q \in Live'
    BY <2>2, <2>3, <2>5 DEF Live
  <2> QED BY <2>5, <2>6 DEF LiveZones
<1>8. ASSUME NEW b \in blocks, NEW shape \in HeapShapes, FreeTraced(b, shape)
      PROVE  Goal
  BY <1>8 DEF FreeTraced, Tidy
<1>9. ASSUME NEW p \in Addr, NEW w \in Widths,
             Reported(p, w) \/ Load(p, w) \/ StoreTo(p, w) \/ LibcWrite(p, w)
      PROVE  Goal
  BY <1>0, <1>9 DEF Reported, Load, StoreTo, LibcWrite, Passed, LiveZones, Live
<1>10. CASE UNCHANGED vars
  BY <1>0, <1>10 DEF vars, LiveZones, Live
<1> QED BY <1>1, <1>2, <1>3, <1>4, <1>5, <1>6, <1>7, <1>8, <1>9, <1>10 DEF Next, Step

(* Without stale redzones, a reported access is never a legal one.         *)
LEMMA SafeStep == TypeOK /\ NoStale /\ SafeTidy /\ [Next]_vars => SafeTidy'
<1> SUFFICES ASSUME TypeOK, NoStale, SafeTidy, Tidy, [Next]_vars
             PROVE  status' # "run" => ~innocent'
  BY MovesStay DEF SafeTidy, Tidy
<1> DEFINE Goal == status' # "run" => ~innocent'
<1>0. status # "run" => ~innocent
  BY DEF SafeTidy
<1>1. ASSUME UNCHANGED <<status, innocent>>
      PROVE  Goal
  BY <1>0, <1>1
<1>2. ASSUME NEW p \in Addr, NEW w \in Widths, Reported(p, w)
      PROVE  Goal
  <2>1. Reports(p, w) /\ innocent' = (innocent /\ Legal(p, w))
    BY <1>2 DEF Reported
  <2>2. PICK z \in zones : Bytes(p, w) \cap Bytes(z, RZ) # {}
    BY <2>1, ReportedTouches
  <2>3. z \in LiveZones
    BY DEF NoStale
  <2>4. Bytes(p, w) \cap ZoneBytes(LiveZones) # {}
    BY <2>2, <2>3, ZoneBytesMember
  <2>5. ~Legal(p, w)
    BY <2>4, LegalIsClear
  <2> QED BY <2>1, <2>5
<1>3. ASSUME NEW p \in Addr, NEW w \in Widths, Load(p, w) \/ StoreTo(p, w) \/ LibcWrite(p, w)
      PROVE  Goal
  BY <1>3 DEF Load, StoreTo, LibcWrite, Passed
<1>4. ASSUME NEW shape \in HeapShapes, MallocFails(shape)
      PROVE  Goal
  BY <1>4 DEF MallocFails, Tidy
<1>5. ASSUME NEW shape \in StackShapes, NEW base \in StackAddr, Enter(shape, base)
      PROVE  Goal
  BY <1>1, <1>5 DEF Enter
<1>6. ASSUME NEW f \in frames, Return(f) \/ Longjmp(f)
      PROVE  Goal
  BY <1>1, <1>6 DEF Return, Longjmp
<1>7. ASSUME NEW shape \in HeapShapes, NEW base \in HeapAddr,
             \/ Malloc(shape, base)
             \/ Calloc(shape, base)
             \/ \E b \in blocks : Realloc(b, shape, base)
      PROVE  Goal
  BY <1>1, <1>7 DEF Malloc, Calloc, Realloc
<1>8. ASSUME NEW b \in blocks, FreeUntraced(b) \/ \E shape \in HeapShapes : FreeTraced(b, shape)
      PROVE  Goal
  BY <1>1, <1>8 DEF FreeUntraced, FreeTraced, Freed
<1>9. CASE UNCHANGED vars
  BY <1>1, <1>9 DEF vars
<1> QED BY <1>2, <1>3, <1>4, <1>5, <1>6, <1>7, <1>8, <1>9 DEF Next, Step

(* A tidy program that stays within its own data is never stopped.         *)
THEOREM SafeTidyCorrect == Spec => []SafeTidy
<1>1. Init => NoStale /\ SafeTidy
  BY DEF Init, NoStale, SafeTidy
<1> QED BY <1>1, TypeCorrect, NoStaleStep, SafeStep, PTL DEF Spec

-----------------------------------------------------------------------------
(* What sweeps may unregister                                              *)

(* Between two blocks there is a header.                                   *)
Headers ==
  \A b, c \in blocks :
    b # c => b.base + b.shape.size < c.base \/ c.base + c.shape.size < b.base

LEMMA HeadersAdd ==
  ASSUME Headers, NEW o, NEW others \in SUBSET blocks, Vacant(o, others),
         blocks' = others \cup {o}
  PROVE  Headers'
BY DEF Headers, Vacant

(* The allocator keeps blocks apart.                                       *)
LEMMA HeadersStep == Headers /\ [Next]_vars => Headers'
<1> SUFFICES ASSUME Headers, [Next]_vars PROVE Headers'
  OBVIOUS
<1>1. ASSUME blocks' \subseteq blocks PROVE Headers'
  BY <1>1 DEF Headers
<1>2. ASSUME NEW shape \in HeapShapes, NEW base \in HeapAddr,
             Malloc(shape, base) \/ Calloc(shape, base)
      PROVE  Headers'
  BY <1>2, HeadersAdd DEF Malloc, Calloc
<1>3. ASSUME NEW b \in blocks, NEW shape \in HeapShapes, NEW base \in HeapAddr,
             Realloc(b, shape, base)
      PROVE  Headers'
  <2> DEFINE o == [base |-> base, shape |-> shape]
  <2>1. /\ Vacant(o, IF base = b.base THEN blocks \ {b} ELSE blocks)
        /\ blocks' = (blocks \ {b}) \cup {o}
    BY <1>3 DEF Realloc
  <2> HIDE DEF o
  <2>2. Vacant(o, blocks \ {b})
    BY <2>1, VacantKept
  <2> QED BY <2>1, <2>2, HeadersAdd
<1>4. ASSUME NEW b \in blocks, FreeUntraced(b) \/ \E shape \in HeapShapes : FreeTraced(b, shape)
      PROVE  Headers'
  BY <1>1, <1>4 DEF FreeUntraced, FreeTraced, Freed
<1>5. ASSUME \/ \E shape \in StackShapes, base \in StackAddr : Enter(shape, base)
             \/ \E f \in frames : Return(f) \/ Longjmp(f)
             \/ \E shape \in HeapShapes : MallocFails(shape)
             \/ \E p \in Addr, w \in Widths :
                  Reported(p, w) \/ Load(p, w) \/ StoreTo(p, w) \/ LibcWrite(p, w)
             \/ UNCHANGED vars
      PROVE  Headers'
  <2>1. blocks' = blocks
    BY <1>5 DEF Enter, Return, Longjmp, MallocFails, Reported, Load, StoreTo, LibcWrite, Passed, vars
  <2> QED BY <1>1, <2>1
<1> QED BY <1>2, <1>3, <1>4, <1>5 DEF Next, Step

(* The header behind a block keeps its sweep away from the next block.     *)
LEMMA SweepStaysInside ==
  ASSUME TypeOK, Headers, NEW b \in blocks, NEW c \in blocks, b # c,
         NEW z \in Redzones(c), z \in b.base .. SweepEnd(b.base, b.shape.swept)
  PROVE  FALSE
<1>1. b \in AnyObject /\ c \in AnyObject
  BY LiveFacts
<1>2. b.shape.swept \in Nat /\ b.shape.swept <= b.shape.size
  BY <1>1, ShapesAssumption DEF AnyObject, Objects, IsShape
<1>3. b.base \in Nat /\ b.shape.size \in Nat /\ c.base \in Nat /\ c.shape.size \in Nat
  BY <1>1, LayoutFacts
<1>4. z \in Region(c)
  BY <1>1, LayoutFacts
<1>5. z \in Nat /\ c.base <= z /\ z < c.base + c.shape.size
  BY <1>3, <1>4, BytesMember DEF Region
<1>6. b.base <= z /\ z <= b.base + b.shape.size
  BY <1>2, <1>3, <1>5 DEF SweepEnd
<1> QED BY <1>3, <1>5, <1>6 DEF Headers

(***************************************************************************)
(* The range of a sweep never reaches a redzone of another block, although *)
(* it includes the first byte behind its own.                              *)
(***************************************************************************)
THEOREM SweepsInsideCorrect == Spec => []SweepsInside
<1>1. Init => Headers
  BY DEF Init, Headers
<1>2. TypeOK /\ Headers => SweepsInside
  BY SweepStaysInside DEF SweepsInside
<1> QED BY <1>1, <1>2, TypeCorrect, HeadersStep, PTL DEF Spec

(* Steps that unregister at most redzones of an object that goes.          *)
LEMMA OthersKeepTheirs ==
  ASSUME TypeOK, NEW o \in Live, NEW q \in Live, o # q,
         NEW gone, gone \subseteq Redzones(q), zones \ gone \subseteq zones'
  PROVE  Redzones(o) \cap zones \subseteq zones'
BY ZonesApart

(* A sweep starts at the block that is freed.                              *)
LEMMA SweepIsAbove ==
  ASSUME TypeOK, NEW b \in blocks, NEW o \in Live, o # b, ~ (b.base < o.base),
         NEW shape, __rdzone_rm_between(b.base, shape.swept)
  PROVE  Redzones(o) \cap zones \subseteq zones'
<1>1. \A z \in zones : z \notin zones' => z >= b.base
  <2>1. PICK gone \in Store!SweepOutcomes(Registered, b.base, SweepEnd(b.base, shape.swept)) :
          zones' = zones \ gone
    BY DEF __rdzone_rm_between
  <2>2. \A k \in gone : k >= b.base
    BY <2>1 DEF Store!SweepOutcomes
  <2> QED BY <2>1, <2>2
<1>2. b \in Live /\ b \in AnyObject /\ o \in AnyObject
  BY LiveFacts DEF Live
<1>3. Region(b) \cap Region(o) = {}
  BY <1>2 DEF TypeOK, Apart
<1>4. /\ b.base \in Nat /\ o.base \in Nat /\ o.shape.size \in Nat \ {0}
      /\ b.base \in Region(b) /\ Redzones(o) \subseteq Region(o)
  BY <1>2, LayoutFacts
<1>5. o.base + o.shape.size <= b.base
  <2>1. b.base \notin Region(o)
    BY <1>3, <1>4
  <2>2. ~ (o.base <= b.base /\ b.base < o.base + o.shape.size)
    BY <1>4, <2>1, BytesMember DEF Region
  <2> QED BY <1>4, <2>2
<1>6. \A z \in Redzones(o) : z \in Nat /\ z < b.base
  BY <1>4, <1>5, BytesMember DEF Region
<1> QED BY <1>1, <1>4, <1>6

(* The property, as an action.                                             *)
Spares ==
  \A o \in Live \cap Live' :
    \/ Redzones(o) \cap zones \subseteq zones'
    \/ "trace" \in moves /\ \E b \in blocks \ blocks' : b.base < o.base

LEMMA SparesStep == TypeOK /\ [Next]_vars => Spares \/ UNCHANGED vars
<1> SUFFICES ASSUME TypeOK, Next, NEW o \in Live, o \in Live'
             PROVE  \/ Redzones(o) \cap zones \subseteq zones'
                    \/ "trace" \in moves /\ \E b \in blocks \ blocks' : b.base < o.base
  BY DEF Spares
<1> DEFINE Kept == Redzones(o) \cap zones \subseteq zones'
<1>1. ASSUME NEW shape \in StackShapes, NEW base \in StackAddr, Enter(shape, base)
      PROVE  Kept
  BY <1>1 DEF Enter, __rdzone_add
<1>2. ASSUME NEW f \in frames, Return(f)
      PROVE  Kept
  <2>1. /\ zones' = zones \ At(f, f.shape.zones)
        /\ frames' = frames \ {f} /\ blocks' = blocks
    BY <1>2 DEF Return, __rdzone_rm
  <2>2. At(f, f.shape.zones) \subseteq Redzones(f)
    BY DEF At, Redzones
  <2>3. f \in Live /\ o # f
    <3>1. f \in Live /\ f.base \in Region(f)
      BY LiveFacts, LayoutFacts DEF Live
    <3>2. f \notin blocks
      BY <3>1, AddrAssumption DEF TypeOK, Placed
    <3> QED BY <2>1, <3>1, <3>2 DEF Live
  <2> QED BY <2>1, <2>2, <2>3, OthersKeepTheirs
<1>3. ASSUME NEW f \in frames, Longjmp(f)
      PROVE  Kept
  BY <1>3 DEF Longjmp
<1>4. ASSUME NEW shape \in HeapShapes, NEW base \in HeapAddr,
             Malloc(shape, base) \/ Calloc(shape, base) \/ \E b \in blocks : Realloc(b, shape, base)
      PROVE  Kept
  BY <1>4 DEF Malloc, Calloc, Realloc, __rdzone_add
<1>5. ASSUME NEW shape \in HeapShapes, MallocFails(shape)
      PROVE  Kept
  BY <1>5 DEF MallocFails
<1>6. ASSUME NEW b \in blocks, FreeUntraced(b)
      PROVE  Kept
  BY <1>6 DEF FreeUntraced
<1>7. ASSUME NEW b \in blocks, NEW shape \in HeapShapes, FreeTraced(b, shape), ~Kept
      PROVE  "trace" \in moves /\ b \in blocks \ blocks' /\ b.base < o.base
  <2>1. /\ "trace" \in moves /\ blocks' = blocks \ {b} /\ frames' = frames
        /\ __rdzone_rm_between(b.base, shape.swept)
    BY <1>7 DEF FreeTraced, Freed
  <2>2. o # b
    <3>1. b \in Live /\ b.base \in Region(b)
      BY LiveFacts, LayoutFacts DEF Live
    <3>2. b \notin frames
      BY <3>1, AddrAssumption DEF TypeOK, Placed
    <3> QED BY <2>1, <3>2 DEF Live
  <2>3. b.base < o.base
    BY <1>7, <2>1, <2>2, SweepIsAbove
  <2> QED BY <2>1, <2>3
<1>8. ASSUME NEW p \in Addr, NEW w \in Widths,
             Reported(p, w) \/ Load(p, w) \/ StoreTo(p, w) \/ LibcWrite(p, w)
      PROVE  Kept
  BY <1>8 DEF Reported, Load, StoreTo, LibcWrite, Passed
<1> QED BY <1>1, <1>2, <1>3, <1>4, <1>5, <1>6, <1>7, <1>8 DEF Next, Step

(***************************************************************************)
(* In no step does a live object lose a redzone, unless a block below it   *)
(* is freed and swept.                                                     *)
(***************************************************************************)
THEOREM SparesBelowCorrect == Spec => SparesBelow
<1>1. TypeOK /\ [Next]_vars => [Spares]_vars
  BY SparesStep
<1> QED BY <1>1, TypeCorrect, PTL DEF Spec, SparesBelow, Spares

=============================================================================
