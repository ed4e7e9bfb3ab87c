------------------------ MODULE LibraryWrapperProofs ------------------------
(***************************************************************************)
(* Theorems about library calls, for every number of structs and           *)
(* arguments, every layout and every width modulus.                        *)
(***************************************************************************)
EXTENDS LibraryWrapper, TLAPS

-----------------------------------------------------------------------------
(* Layouts *)

(* Every byte belongs to exactly one field, and lies within it.            *)
LEMMA FieldOfByte ==
  ASSUME NEW l \in Layouts, NEW b \in Byte
  PROVE  /\ FieldOf(l, b) \in l.fields
         /\ b \in Within(FieldOf(l, b))
         /\ IsField(FieldOf(l, b))
         /\ b \in Nat
         /\ b - FieldOf(l, b).at \in 0 .. FieldOf(l, b).len - 1
<1> DEFINE f == FieldOf(l, b)
<1>1. IsLayout(l)
  BY LayoutsAssumption
<1>2. \E g \in l.fields : b \in Within(g)
  BY <1>1 DEF IsLayout
<1>3. f \in l.fields /\ b \in Within(f)
  BY <1>2 DEF FieldOf
<1>4. IsField(f)
  BY <1>1, <1>3 DEF IsLayout
<1>5. b \in Nat
  BY SizesAssumption DEF Byte
<1> HIDE DEF f
<1>6. b - f.at \in 0 .. f.len - 1
  BY <1>3, <1>4, <1>5 DEF IsField, Within
<1> QED BY <1>3, <1>4, <1>5, <1>6 DEF f

(* The program finds a byte in the room of its field.                      *)
LEMMA HomeInRoom ==
  ASSUME NEW l \in Layouts, NEW b \in Byte
  PROVE  Home(l, b) \in Room(FieldOf(l, b)) /\ Home(l, b) \in 0 .. l.size - 1
<1> DEFINE f == FieldOf(l, b)
           k == b - f.at
<1>1. f \in l.fields /\ IsField(f) /\ k \in 0 .. f.len - 1
  BY FieldOfByte
<1>2. Room(f) \subseteq 0 .. l.size - 1
  BY <1>1, LayoutsAssumption DEF IsLayout
<1>3. Home(l, b) = f.inflated + f.home[k]
  BY DEF Home
<1> HIDE DEF f, k
<1>4. f.home[k] \in 0 .. f.room - 1 /\ f.inflated \in Nat /\ f.room \in Nat
  BY <1>1 DEF IsField
<1>5. f.inflated + f.home[k] \in Room(f)
  BY <1>4 DEF Room
<1> QED BY <1>2, <1>3, <1>5 DEF f

(* Two bytes are never found at the same place.                            *)
LEMMA HomeInjective ==
  ASSUME NEW l \in Layouts, NEW a \in Byte, NEW b \in Byte, Home(l, a) = Home(l, b)
  PROVE  a = b
<1> DEFINE f == FieldOf(l, a)
           g == FieldOf(l, b)
           j == a - f.at
           k == b - g.at
<1>1. /\ f \in l.fields /\ IsField(f) /\ j \in 0 .. f.len - 1 /\ a \in Nat
      /\ g \in l.fields /\ IsField(g) /\ k \in 0 .. g.len - 1 /\ b \in Nat
  BY FieldOfByte
<1>2. Home(l, a) \in Room(f) /\ Home(l, b) \in Room(g)
  BY HomeInRoom
<1>3. f = g
  BY <1>1, <1>2, LayoutsAssumption DEF IsLayout
<1>4. Home(l, a) = f.inflated + f.home[j] /\ Home(l, b) = g.inflated + g.home[k]
  BY DEF Home
<1>5. j = a - f.at /\ k = b - g.at
  OBVIOUS
<1> HIDE DEF f, g, j, k
<1>6. f.home[j] \in Nat /\ f.home[k] \in Nat /\ f.inflated \in Nat /\ f.at \in Nat
  <2>1. f.home \in [0 .. f.len - 1 -> 0 .. f.room - 1] /\ f.inflated \in Nat /\ f.at \in Nat
    BY <1>1 DEF IsField
  <2>2. f.home[j] \in 0 .. f.room - 1 /\ f.home[k] \in 0 .. f.room - 1
    BY <1>1, <1>3, <2>1
  <2> QED BY <2>1, <2>2
<1>7. f.home[j] = f.home[k]
  <2>1. f.inflated + f.home[j] = f.inflated + f.home[k]
    BY <1>3, <1>4
  <2>2. \A i, m, n \in Nat : i + m = i + n => m = n
    OBVIOUS
  <2> QED BY <1>6, <2>1, <2>2
<1>8. j = k
  BY <1>1, <1>3, <1>7 DEF IsField
<1> QED BY <1>1, <1>3, <1>5, <1>6, <1>8

(* What is copied is read from the struct.                                 *)
LEMMA SourceInStruct ==
  ASSUME NEW l \in Layouts, NEW b \in Byte
  PROVE  Source(l, b) \in 0 .. l.size - 1
<1> DEFINE f == FieldOf(l, b)
           k == b - f.at
<1>1. f \in l.fields /\ IsField(f) /\ k \in 0 .. f.len - 1
  BY FieldOfByte
<1>2. Room(f) \subseteq 0 .. l.size - 1
  BY <1>1, LayoutsAssumption DEF IsLayout
<1>3. Source(l, b) = f.inflated + k
  BY DEF Source
<1> HIDE DEF f, k
<1>4. f.inflated + k \in Room(f)
  BY <1>1 DEF IsField, Room
<1> QED BY <1>2, <1>3, <1>4

(* Where no struct is nested, bytes are copied from and to where the       *)
(* program finds them.                                                     *)
LEMMA SourceIsHome ==
  ASSUME NEW l \in Layouts, ~Nests(l), NEW b \in Byte
  PROVE  Source(l, b) = Home(l, b)
<1>1. /\ FieldOf(l, b) \in l.fields
      /\ b - FieldOf(l, b).at \in 0 .. FieldOf(l, b).len - 1
  BY FieldOfByte
<1>2. FieldOf(l, b).home[b - FieldOf(l, b).at] = b - FieldOf(l, b).at
  BY <1>1 DEF Nests
<1> QED BY <1>2 DEF Source, Home

(* Where no field is wide, all bytes are copied.                           *)
LEMMA AllCopied ==
  ASSUME NEW l \in Layouts, ~Wide(l)
  PROVE  Copied(l) = Byte
<1>1. ASSUME NEW b \in Byte
      PROVE  b - FieldOf(l, b).at < createSizeof(FieldOf(l, b))
  <2> DEFINE f == FieldOf(l, b)
             k == b - f.at
  <2>1. f \in l.fields /\ IsField(f) /\ k \in 0 .. f.len - 1
    BY FieldOfByte
  <2>2. ~ (f.len >= WidthModulus)
    BY <2>1 DEF Wide
  <2> HIDE DEF f, k
  <2>3. f.len \in Nat /\ k < f.len
    BY <2>1 DEF IsField
  <2>4. f.len % WidthModulus = f.len
    BY <2>2, <2>3, SizesAssumption
  <2>5. k < createSizeof(f)
    BY <2>3, <2>4 DEF createSizeof
  <2> QED BY <2>5 DEF f, k
<1> QED BY <1>1 DEF Copied

(* A deflated struct holds what was copied.                                *)
LEMMA DeflatedType ==
  ASSUME TypeOK, NEW s \in Struct, NEW c \in Deflated(s)
  PROVE  /\ c \in [Byte -> Value]
         /\ \A b \in Copied(layout) : c[b] = mem[s][Source(layout, b)]
<1>1. PICK junk \in [Byte -> Value] :
        c = [b \in Byte |-> IF b \in Copied(layout) THEN mem[s][Source(layout, b)]
                            ELSE junk[b]]
  BY DEF Deflated
<1>2. mem[s] \in [0 .. layout.size - 1 -> Value] /\ layout \in Layouts
  BY DEF TypeOK
<1>3. \A b \in Byte : Source(layout, b) \in 0 .. layout.size - 1
  BY <1>2, SourceInStruct
<1>4. Copied(layout) \subseteq Byte
  BY DEF Copied
<1> QED BY <1>1, <1>2, <1>3, <1>4

(* A struct that was written back differs where bytes are copied to only.  *)
LEMMA InflatedType ==
  ASSUME TypeOK, NEW s \in Struct, NEW c \in [Byte -> Value]
  PROVE  /\ Inflated(s, c) \in [0 .. layout.size - 1 -> Value]
         /\ \A k \in 0 .. layout.size - 1 :
              k \notin Sources(layout) => Inflated(s, c)[k] = mem[s][k]
<1>1. mem[s] \in [0 .. layout.size - 1 -> Value]
  BY DEF TypeOK
<1>2. ASSUME NEW k \in 0 .. layout.size - 1, k \in Sources(layout)
      PROVE  c[CHOOSE b \in Copied(layout) : Source(layout, b) = k] \in Value
  <2>1. \E b \in Copied(layout) : Source(layout, b) = k
    BY <1>2 DEF Sources
  <2>2. (CHOOSE b \in Copied(layout) : Source(layout, b) = k) \in Copied(layout)
    BY <2>1
  <2> QED BY <2>2 DEF Copied
<1> QED BY <1>1, <1>2 DEF Inflated

(* A struct without nested structs and wide fields is written back whole.  *)
LEMMA InflatedWhole ==
  ASSUME TypeOK, ~Nests(layout), ~Wide(layout),
         NEW s \in Struct, NEW c \in [Byte -> Value], NEW b \in Byte
  PROVE  Inflated(s, c)[Home(layout, b)] = c[b]
<1> DEFINE k == Home(layout, b)
           a == CHOOSE x \in Copied(layout) : Source(layout, x) = k
<1>1. layout \in Layouts
  BY DEF TypeOK
<1>2. Copied(layout) = Byte /\ Source(layout, b) = k
  BY <1>1, AllCopied, SourceIsHome
<1>3. k \in Sources(layout) /\ k \in 0 .. layout.size - 1
  BY <1>1, <1>2, HomeInRoom DEF Sources
<1>4. a \in Byte /\ Source(layout, a) = k
  BY <1>2
<1>5. Source(layout, a) = Home(layout, a)
  BY <1>1, <1>4, SourceIsHome
<1>6. a = b
  BY <1>1, <1>4, <1>5, HomeInjective
<1>7. Inflated(s, c)[k] = c[a]
  BY <1>3 DEF Inflated
<1> QED BY <1>6, <1>7

-----------------------------------------------------------------------------
(* Type correctness *)

(* Every step keeps the types, and copies pending exactly while they are   *)
(* the structs' current state.                                             *)
LEMMA TypeStep ==
  ASSUME TypeOK, [Next]_vars
  PROVE  TypeOK'
<1> USE DEF TypeOK, PCs
<1>1. CASE UNCHANGED vars
  BY <1>1 DEF vars
<1>2. ASSUME NEW s \in Struct, NEW b \in Byte, NEW v \in Value,
             Write(s, b, v), layout' = layout
      PROVE  TypeOK'
  <2>1. Home(layout, b) \in 0 .. layout.size - 1
    BY HomeInRoom
  <2> QED BY <1>2, <2>1 DEF Write
<1>3. ASSUME NEW as \in [Param -> Struct \cup {NULL}], Call(as), layout' = layout
      PROVE  TypeOK'
  <2>1. deflated' \in 0 .. Arity
    BY <1>3, SizesAssumption DEF Call
  <2> QED BY <1>3, <2>1 DEF Call
<1>4. ASSUME NEW p \in Param, Deflate(p), layout' = layout
      PROVE  TypeOK'
  <2>1. args[p] \in Struct
    BY <1>4 DEF Deflate
  <2>2. PICK c \in Deflated(args[p]) : copy' = [copy EXCEPT ![p] = c]
    BY <1>4 DEF Deflate
  <2>3. c \in [Byte -> Value]
    BY <2>1, DeflatedType
  <2>4. copy' \in [Param -> [Byte -> Value]]
    BY <2>2, <2>3
  <2>5. deflated' \in 0 .. Arity
    BY <1>4, SizesAssumption DEF Deflate, Param
  <2> QED BY <1>4, <2>4, <2>5 DEF Deflate
<1>5. ASSUME NEW p \in Param, DeflateNull(p), layout' = layout
      PROVE  TypeOK'
  <2>1. copy' \in [Param -> [Byte -> Value]]
    BY <1>5 DEF DeflateNull
  <2>2. deflated' \in 0 .. Arity
    BY <1>5, SizesAssumption DEF DeflateNull, Param
  <2> QED BY <1>5, <2>1, <2>2 DEF DeflateNull
<1>6. ASSUME Enter, layout' = layout
      PROVE  TypeOK'
  BY <1>6 DEF Enter
<1>7. ASSUME NEW p \in Param, NEW b \in Byte, LibRead(p, b), layout' = layout
      PROVE  TypeOK'
  <2>1. seen' \in Value
    BY <1>7 DEF LibRead
  <2> QED BY <1>7, <2>1 DEF LibRead
<1>8. ASSUME NEW p \in Param, NEW b \in Byte, NEW v \in Value,
             LibWrite(p, b, v), layout' = layout
      PROVE  TypeOK'
  <2>1. copy' \in [Param -> [Byte -> Value]]
    BY <1>8 DEF LibWrite
  <2> QED BY <1>8, <2>1 DEF LibWrite
<1>9. ASSUME NEW r \in {"none", "null", "live"}, LibReturn(r), layout' = layout
      PROVE  TypeOK'
  BY <1>9 DEF LibReturn
<1>10. ASSUME NEW p \in Param, WriteBack(p), layout' = layout
       PROVE  TypeOK'
  <2>1. mem' \in [Struct -> [0 .. layout.size - 1 -> Value]]
    <3>1. CASE args[p] = NULL
      BY <1>10, <3>1 DEF WriteBack
    <3>2. CASE args[p] # NULL
      <4>1. args[p] \in Struct /\ copy[p] \in [Byte -> Value]
        BY <3>2
      <4>2. Inflated(args[p], copy[p]) \in [0 .. layout.size - 1 -> Value]
        BY <4>1, InflatedType
      <4> QED BY <1>10, <3>2, <4>1, <4>2 DEF WriteBack
    <3> QED BY <3>1, <3>2
  <2> QED BY <1>10, <2>1 DEF WriteBack
<1>11. ASSUME Return, layout' = layout
       PROVE  TypeOK'
  BY <1>11 DEF Return
<1> QED BY <1>1, <1>2, <1>3, <1>4, <1>5, <1>6, <1>7, <1>8, <1>9, <1>10, <1>11
        DEF Next, Step

(* The first state has the types.                                          *)
LEMMA TypeInit ==
  ASSUME Init
  PROVE  TypeOK
BY SizesAssumption, ValuesAssumption DEF Init, TypeOK, PCs

(* Structs keep their layouts, and copies are pending while they are       *)
(* current.                                                                *)
THEOREM TypeCorrect == Spec => []TypeOK
<1>1. Init => TypeOK
  BY TypeInit
<1>2. TypeOK /\ [Next]_vars => TypeOK'
  BY TypeStep
<1> QED BY <1>1, <1>2, PTL DEF Spec

-----------------------------------------------------------------------------
(* Redzones *)

(* Neither the program's own accesses nor a write-back change a redzone.   *)
LEMMA ZonesStep ==
  ASSUME TypeOK, ZonesIntact, [Next]_vars
  PROVE  ZonesIntact'
<1> SUFFICES ASSUME ~Nests(layout'), NEW s \in Struct, NEW z \in Zones(layout')
             PROVE  mem'[s][z] = COLOR
  BY DEF ZonesIntact
<1>1. layout' = layout /\ layout \in Layouts
  BY DEF TypeOK, Next, vars
<1>2. mem[s][z] = COLOR /\ z \in 0 .. layout.size - 1
  BY <1>1 DEF ZonesIntact, Zones
<1>3. \A b \in Byte : z # Home(layout, b)
  BY <1>1 DEF Zones
<1>4. ASSUME NEW t \in Struct, NEW b \in Byte, NEW v \in Value, Write(t, b, v)
      PROVE  mem'[s][z] = COLOR
  <2>1. Home(layout, b) \in 0 .. layout.size - 1
    BY <1>1, HomeInRoom
  <2>2. mem'[s] = IF s = t THEN [mem[s] EXCEPT ![Home(layout, b)] = v] ELSE mem[s]
    BY <1>4 DEF Write, TypeOK
  <2>3. mem[s] \in [0 .. layout.size - 1 -> Value]
    BY DEF TypeOK
  <2> QED BY <1>2, <1>3, <2>1, <2>2, <2>3
<1>5. ASSUME NEW p \in Param, WriteBack(p), args[p] # NULL
      PROVE  mem'[s][z] = COLOR
  <2>1. args[p] \in Struct /\ copy[p] \in [Byte -> Value]
    BY <1>5 DEF TypeOK
  <2>2. z \notin Sources(layout)
    <3>1. ASSUME NEW b \in Copied(layout), z = Source(layout, b)
          PROVE  FALSE
      <4>1. b \in Byte
        BY DEF Copied
      <4> QED BY <1>1, <1>3, <3>1, <4>1, SourceIsHome
    <3> QED BY <3>1 DEF Sources
  <2>3. Inflated(args[p], copy[p])[z] = mem[args[p]][z]
    BY <1>2, <2>1, <2>2, InflatedType
  <2>4. mem'[s] = IF s = args[p] THEN Inflated(args[p], copy[p]) ELSE mem[s]
    BY <1>5, <2>1 DEF WriteBack, TypeOK
  <2> QED BY <1>2, <2>3, <2>4
<1>6. CASE mem' = mem
  BY <1>2, <1>6
<1> QED BY <1>4, <1>5, <1>6
        DEF Next, Step, vars, Call, Deflate, DeflateNull, Enter, LibRead, LibWrite,
            LibReturn, WriteBack, Return

(* Copying back spares the redzones of structs that nest no structs.       *)
THEOREM ZonesIntactCorrect == Spec => []ZonesIntact
<1>1. Init => ZonesIntact
  BY DEF Init, ZonesIntact
<1>2. TypeOK /\ ZonesIntact /\ [Next]_vars => ZonesIntact'
  BY ZonesStep
<1> QED BY <1>1, <1>2, TypeCorrect, PTL DEF Spec

-----------------------------------------------------------------------------
(* Transparency *)

(* The copies made so far hold what the program's structs hold.            *)
Current ==
  PlainUse /\ pc = "deflate" =>
    \A p \in 1 .. deflated : \A b \in Byte : copy[p][b] = mem[args[p]][Home(layout, b)]

(* A plain call makes whole copies.                                        *)
LEMMA CurrentStep ==
  ASSUME TypeOK, Current, [Next]_vars
  PROVE  Current'
<1> SUFFICES ASSUME PlainUse', pc' = "deflate", NEW p \in 1 .. deflated', NEW b \in Byte
             PROVE  copy'[p][b] = mem'[args'[p]][Home(layout', b)]
  BY DEF Current
<1>1. layout' = layout /\ layout \in Layouts /\ ~Nests(layout) /\ ~Wide(layout)
  BY DEF TypeOK, Next, vars, PlainUse
<1>2. ASSUME NEW q \in Param, Deflate(q)
      PROVE  copy'[p][b] = mem'[args'[p]][Home(layout', b)]
  <2>1. PlainUse /\ pc = "deflate"
    BY <1>1, <1>2 DEF PlainUse, PlainCall, Deflate
  <2>2. args[q] \in Struct /\ mem' = mem /\ args' = args
    BY <1>2 DEF Deflate, TypeOK
  <2>3. PICK c \in Deflated(args[q]) : copy' = [copy EXCEPT ![q] = c]
    BY <1>2 DEF Deflate
  <2>4. p \in Param /\ (p = q \/ p \in 1 .. deflated)
    BY <1>2, SizesAssumption DEF Deflate, TypeOK, Param
  <2>5. CASE p = q
    <3>1. c[b] = mem[args[q]][Source(layout, b)]
      BY <1>1, <2>2, AllCopied, DeflatedType
    <3>2. Source(layout, b) = Home(layout, b)
      BY <1>1, SourceIsHome
    <3>3. copy'[p] = c
      BY <2>3, <2>5 DEF TypeOK
    <3> QED BY <1>1, <2>2, <2>5, <3>1, <3>2, <3>3
  <2>6. CASE p # q
    <3>1. copy'[p] = copy[p]
      BY <2>3, <2>4, <2>6 DEF TypeOK
    <3> QED BY <1>1, <2>1, <2>2, <2>4, <2>6, <3>1 DEF Current
  <2> QED BY <2>5, <2>6
<1>3. ASSUME NEW as \in [Param -> Struct \cup {NULL}], Call(as)
      PROVE  copy'[p][b] = mem'[args'[p]][Home(layout', b)]
  <2>1. deflated' = 0
    BY <1>3 DEF Call
  <2> QED BY <2>1
<1>4. ASSUME NEW q \in Param, DeflateNull(q)
      PROVE  copy'[p][b] = mem'[args'[p]][Home(layout', b)]
  <2>1. args'[q] = NULL
    BY <1>4 DEF DeflateNull
  <2>2. args'[q] # NULL
    BY DEF PlainUse, PlainCall
  <2> QED BY <2>1, <2>2
<1>5. CASE UNCHANGED vars
  <2>1. PlainUse /\ pc = "deflate" /\ deflated' = deflated /\ copy' = copy /\ mem' = mem
        /\ args' = args
    BY <1>5 DEF vars, PlainUse, PlainCall
  <2> QED BY <1>1, <2>1 DEF Current
<1>6. pc' # "deflate" \/ UNCHANGED vars
      \/ (\E q \in Param : Deflate(q) \/ DeflateNull(q))
      \/ (\E as \in [Param -> Struct \cup {NULL}] : Call(as))
  BY DEF Next, Step, Write, Enter, LibRead, LibWrite, LibReturn, WriteBack, Return
<1> QED BY <1>2, <1>3, <1>4, <1>5, <1>6

(* While nothing is pending the structs are what the memory holds.         *)
LEMMA ContentsNothingPending ==
  ASSUME pending = {}
  PROVE  Contents = [s \in Struct |-> [b \in Byte |-> mem[s][Home(layout, b)]]]
BY DEF Contents

(* In a plain call a struct whose copy is pending is what the copy holds.  *)
LEMMA ContentsPending ==
  ASSUME TypeOK, PlainCall, NEW p \in pending, NEW b \in Byte
  PROVE  args[p] \in Struct /\ Contents[args[p]][b] = copy[p][b]
<1>1. p \in Param /\ args[p] \in Struct
  BY DEF TypeOK, PlainCall
<1>2. \A q \in pending : args[q] = args[p] => q = p
  BY <1>1 DEF TypeOK, PlainCall
<1>3. (CHOOSE q \in pending : args[q] = args[p]) = p
  BY <1>2
<1> QED BY <1>1, <1>3 DEF Contents

(* A step of the program or the library is the same step of the original   *)
(* program, and what the wrapper does in between is not seen.              *)
LEMMA TransparentStep ==
  ASSUME TypeOK, TypeOK', Current, PlainUse, [Next]_vars
  PROVE  Original!Next \/ UNCHANGED Original!vars
<1>1. layout' = layout /\ layout \in Layouts /\ ~Nests(layout) /\ ~Wide(layout)
  BY DEF TypeOK, Next, vars, PlainUse
<1>2. ASSUME NEW s \in Struct, NEW b \in Byte, NEW v \in Value, Write(s, b, v)
      PROVE  Original!Write(s, b, v)
  <2>1. pending = {} /\ pending' = {}
    BY <1>2 DEF TypeOK, Write
  <2>2. \A t \in Struct : mem[t] \in [0 .. layout.size - 1 -> Value]
    BY DEF TypeOK
  <2>3. \A t \in Struct :
          mem'[t] = IF t = s THEN [mem[s] EXCEPT ![Home(layout, b)] = v] ELSE mem[t]
    BY <1>2 DEF Write, TypeOK
  <2>4. Home(layout, b) \in 0 .. layout.size - 1
    BY <1>1, HomeInRoom
  <2>5. \A t \in Struct, a \in Byte :
          mem'[t][Home(layout, a)] =
            IF t = s /\ a = b THEN v ELSE mem[t][Home(layout, a)]
    <3> TAKE t \in Struct, a \in Byte
    <3>1. Home(layout, a) \in 0 .. layout.size - 1
      BY <1>1, HomeInRoom
    <3>2. Home(layout, a) = Home(layout, b) => a = b
      BY <1>1, HomeInjective
    <3> QED BY <2>2, <2>3, <2>4, <3>1, <3>2
  <2>6. Contents' = [t \in Struct |-> [a \in Byte |-> mem'[t][Home(layout, a)]]]
    BY <1>1, <2>1 DEF Contents
  <2>7. Contents = [t \in Struct |-> [a \in Byte |-> mem[t][Home(layout, a)]]]
    BY <2>1, ContentsNothingPending
  <2>8. Contents' = [Contents EXCEPT ![s][b] = v]
    <3>1. \A t \in Struct, a \in Byte :
            Contents'[t][a] = IF t = s /\ a = b THEN v ELSE Contents[t][a]
      BY <2>5, <2>6, <2>7
    <3>2. Contents' = [t \in Struct |-> [a \in Byte |-> Contents'[t][a]]]
          /\ Contents = [t \in Struct |-> [a \in Byte |-> Contents[t][a]]]
      BY DEF Contents
    <3> QED BY <3>1, <3>2
  <2> QED BY <1>2, <2>8 DEF Write, Where, Original!Write
<1>3. ASSUME NEW as \in [Param -> Struct \cup {NULL}], Call(as)
      PROVE  Original!Call(as)
  <2>1. pending = {} /\ pending' = {} /\ mem' = mem
    BY <1>3 DEF TypeOK, Call
  <2>2. Contents' = Contents
    BY <1>1, <2>1 DEF Contents
  <2> QED BY <1>3, <2>2 DEF Call, Where, Original!Call
<1>4. ASSUME NEW p \in Param, Deflate(p)
      PROVE  UNCHANGED Original!vars
  <2>1. pending = {} /\ pending' = {} /\ mem' = mem
    BY <1>4 DEF TypeOK, Deflate
  <2>2. Contents' = Contents
    BY <1>1, <2>1 DEF Contents
  <2> QED BY <1>4, <2>2 DEF Deflate, Where, Original!vars
<1>5. ASSUME NEW p \in Param, DeflateNull(p)
      PROVE  FALSE
  BY <1>5 DEF DeflateNull, PlainUse, PlainCall
<1>6. ASSUME Enter
      PROVE  UNCHANGED Original!vars
  <2>1. pending = {} /\ pending' = Param /\ mem' = mem /\ args' = args /\ copy' = copy
        /\ deflated = Arity /\ pc = "deflate" /\ pc' = "library" /\ returned' = returned
    BY <1>6 DEF TypeOK, Enter
  <2>2. PlainCall /\ PlainCall'
    BY <2>1 DEF PlainUse, PlainCall
  <2>3. \A p \in Param : \A b \in Byte : copy[p][b] = mem[args[p]][Home(layout, b)]
    BY <2>1 DEF Current, Param
  <2>4. \A s \in Struct, b \in Byte : Contents'[s][b] = mem[s][Home(layout, b)]
    <3> TAKE s \in Struct, b \in Byte
    <3>1. CASE \E p \in Param : args[p] = s
      <4> DEFINE p == CHOOSE p \in Param : args[p] = s
      <4>1. p \in Param /\ args[p] = s
        BY <3>1
      <4>2. Contents'[s][b] = copy[p][b]
        BY <2>1, <3>1 DEF Contents
      <4> QED BY <2>3, <4>1, <4>2
    <3>2. CASE ~ \E p \in Param : args[p] = s
      BY <1>1, <2>1, <3>2 DEF Contents
    <3> QED BY <3>1, <3>2
  <2>5. Contents = [s \in Struct |-> [b \in Byte |-> mem[s][Home(layout, b)]]]
    BY <2>1, ContentsNothingPending
  <2>6. Contents' = [s \in Struct |-> [b \in Byte |-> Contents'[s][b]]]
    BY DEF Contents
  <2>7. Contents' = Contents
    BY <2>4, <2>5, <2>6
  <2> QED BY <1>6, <2>7 DEF Enter, Where, Original!vars
<1>7. ASSUME NEW p \in Param, NEW b \in Byte, LibRead(p, b)
      PROVE  Original!LibRead(p, b)
  <2>1. PlainCall /\ p \in pending
    BY <1>7 DEF LibRead, PlainUse, TypeOK
  <2>2. args[p] # NULL
    BY <2>1 DEF PlainCall
  <2>3. seen' = Contents[args[p]][b]
    BY <1>7, <2>1, ContentsPending DEF LibRead
  <2>4. Contents' = Contents
    BY <1>1, <1>7 DEF LibRead, Contents
  <2> QED BY <1>7, <2>2, <2>3, <2>4 DEF LibRead, Where, Original!LibRead
<1>8. ASSUME NEW p \in Param, NEW b \in Byte, NEW v \in Value, LibWrite(p, b, v)
      PROVE  Original!LibWrite(p, b, v)
  <2>1. PlainCall /\ pending = Param /\ pending' = Param /\ args' = args /\ mem' = mem
        /\ copy' = [copy EXCEPT ![p][b] = v]
    BY <1>8 DEF LibWrite, PlainUse, TypeOK
  <2>2. args[p] \in Struct
    BY <2>1 DEF PlainCall, TypeOK
  <2>3. \A s \in Struct, a \in Byte :
          Contents'[s][a] = IF s = args[p] /\ a = b THEN v ELSE Contents[s][a]
    <3> TAKE s \in Struct, a \in Byte
    <3>1. CASE \E q \in Param : args[q] = s
      <4> DEFINE q == CHOOSE q \in Param : args[q] = s
      <4>1. q \in Param /\ args[q] = s
        BY <3>1
      <4>2. Contents'[s][a] = copy'[q][a] /\ Contents[s][a] = copy[q][a]
        BY <2>1, <3>1 DEF Contents
      <4> HIDE DEF q
      <4>3. copy'[q][a] = IF q = p /\ a = b THEN v ELSE copy[q][a]
        BY <2>1, <4>1 DEF TypeOK
      <4>4. q = p <=> s = args[p]
        BY <2>1, <4>1 DEF PlainCall
      <4> QED BY <4>2, <4>3, <4>4
    <3>2. CASE ~ \E q \in Param : args[q] = s
      BY <1>1, <2>1, <3>2 DEF Contents
    <3> QED BY <3>1, <3>2
  <2>4. Contents' = [s \in Struct |-> [a \in Byte |-> Contents'[s][a]]]
        /\ Contents = [s \in Struct |-> [a \in Byte |-> Contents[s][a]]]
    BY DEF Contents
  <2>5. Contents' = [Contents EXCEPT ![args[p]][b] = v]
    BY <2>2, <2>3, <2>4
  <2>6. args[p] # NULL
    BY <2>1 DEF PlainCall
  <2> QED BY <1>8, <2>5, <2>6 DEF LibWrite, Where, Original!LibWrite
<1>9. ASSUME NEW r \in {"none", "null", "live"}, LibReturn(r)
      PROVE  UNCHANGED Original!vars
  <2>1. Contents' = Contents
    BY <1>1, <1>9 DEF LibReturn, Contents
  <2> QED BY <1>9, <2>1 DEF LibReturn, Where, Original!vars
<1>10. ASSUME NEW p \in Param, WriteBack(p)
       PROVE  UNCHANGED Original!vars
  <2>1. PlainCall /\ p \in pending /\ pending' = pending \ {p} /\ args' = args
        /\ copy' = copy /\ pc' = pc
    BY <1>10 DEF WriteBack, PlainUse
  <2>2. args[p] \in Struct /\ copy[p] \in [Byte -> Value]
    BY <2>1 DEF PlainCall, TypeOK
  <2>3. mem' = [mem EXCEPT ![args[p]] = Inflated(args[p], copy[p])]
    BY <1>10, <2>1 DEF WriteBack, PlainCall
  <2>4. \A s \in Struct, b \in Byte : Contents'[s][b] = Contents[s][b]
    <3> TAKE s \in Struct, b \in Byte
    <3>1. CASE s = args[p]
      <4>1. ~ \E q \in pending' : args'[q] = s
        BY <2>1, <3>1 DEF PlainCall, TypeOK
      <4>2. Contents'[s][b] = mem'[s][Home(layout, b)]
        BY <1>1, <2>1, <4>1 DEF Contents
      <4>3. mem'[s] = Inflated(s, copy[p])
        BY <2>2, <2>3, <3>1 DEF TypeOK
      <4>4. Inflated(s, copy[p])[Home(layout, b)] = copy[p][b]
        BY <1>1, <2>2, InflatedWhole
      <4>5. Contents[s][b] = copy[p][b]
        BY <2>1, <3>1, ContentsPending
      <4> QED BY <4>2, <4>3, <4>4, <4>5
    <3>2. CASE s # args[p] /\ \E q \in pending : args[q] = s
      <4>1. PICK q \in pending : args[q] = s
        BY <3>2
      <4>2. Contents[s][b] = copy[q][b]
        BY <2>1, <4>1, ContentsPending
      <4>3. PlainCall' /\ q \in pending'
        BY <1>10, <2>1, <3>2, <4>1 DEF PlainCall, WriteBack
      <4>4. (CHOOSE r \in pending' : args'[r] = s) = q
        <5>1. \A r \in pending' : args'[r] = s => r = q
          BY <2>1, <4>1, <4>3 DEF PlainCall, TypeOK
        <5> QED BY <2>1, <4>1, <4>3, <5>1
      <4>5. Contents'[s][b] = copy'[q][b]
        BY <2>1, <4>1, <4>3, <4>4 DEF Contents
      <4> QED BY <2>1, <4>2, <4>5
    <3>3. CASE s # args[p] /\ ~ \E q \in pending : args[q] = s
      <4>1. mem'[s] = mem[s]
        BY <2>3, <3>3 DEF TypeOK
      <4>2. Contents'[s][b] = mem'[s][Home(layout, b)]
        BY <1>1, <2>1, <3>3 DEF Contents
      <4>3. Contents[s][b] = mem[s][Home(layout, b)]
        BY <3>3 DEF Contents
      <4> QED BY <4>1, <4>2, <4>3
    <3> QED BY <3>1, <3>2, <3>3
  <2>5. Contents' = [s \in Struct |-> [a \in Byte |-> Contents'[s][a]]]
        /\ Contents = [s \in Struct |-> [a \in Byte |-> Contents[s][a]]]
    BY DEF Contents
  <2>6. Contents' = Contents
    BY <2>4, <2>5
  <2> QED BY <1>10, <2>1, <2>6 DEF WriteBack, Where, Original!vars
<1>11. ASSUME Return
       PROVE  Original!Return("none")
  <2>1. returned = "none"
    BY <1>11 DEF Return, PlainUse, PlainCall
  <2>2. pc = "writeback" /\ pc' = "program" /\ result' = "none" /\ pending = {}
        /\ pending' = {} /\ mem' = mem
    BY <1>11, <2>1 DEF Return
  <2>3. Contents' = Contents
    BY <1>1, <2>2 DEF Contents
  <2> QED BY <1>11, <2>2, <2>3 DEF Return, Where, Original!Return
<1>12. ASSUME UNCHANGED vars
       PROVE  UNCHANGED Original!vars
  <2>1. Contents' = Contents
    BY <1>12 DEF vars, Contents
  <2> QED BY <1>12, <2>1 DEF vars, Where, Original!vars
<1>13. CASE \E s \in Struct, b \in Byte, v \in Value : Write(s, b, v)
  BY <1>2, <1>13 DEF Original!Next
<1>14. CASE \E as \in [Param -> Struct \cup {NULL}] : Call(as)
  BY <1>3, <1>14 DEF Original!Next
<1>15. CASE \E p \in Param, b \in Byte : LibRead(p, b) \/ \E v \in Value : LibWrite(p, b, v)
  BY <1>7, <1>8, <1>15 DEF Original!Next
<1>16. CASE Return
  BY <1>11, <1>16 DEF Original!Next, Original!Results
<1>17. CASE \E p \in Param : Deflate(p) \/ DeflateNull(p) \/ WriteBack(p)
  BY <1>4, <1>5, <1>10, <1>17
<1>18. CASE Enter
  BY <1>6, <1>18
<1>19. CASE \E r \in {"none", "null", "live"} : LibReturn(r)
  BY <1>9, <1>19
<1>20. CASE UNCHANGED vars
  BY <1>12, <1>20
<1> QED BY <1>13, <1>14, <1>15, <1>16, <1>17, <1>18, <1>19, <1>20 DEF Next, Step

(* Plain calls behave as calls of the function itself.                     *)
THEOREM PlainTransparentCorrect == Spec => PlainTransparent
<1>1. Init => TypeOK /\ Current
  BY TypeInit DEF Init, Current
<1>2. TypeOK /\ Current /\ [Next]_vars => TypeOK' /\ Current'
  BY TypeStep, CurrentStep
<1>3. TypeOK /\ Current /\ [Next]_vars
        => [PlainUse => Original!Next \/ UNCHANGED Original!vars]_vars
  BY TypeStep, TransparentStep
<1> QED BY <1>1, <1>2, <1>3, PTL DEF Spec, PlainTransparent

=============================================================================
