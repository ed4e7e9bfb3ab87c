------------------------- MODULE StructLayoutProofs -------------------------
(***************************************************************************)
(* Proofs about the compile-time half, for all struct types, redzone sizes *)
(* and depths of nesting.  The recursive functions of StructLayout are     *)
(* shown to satisfy their equations; then follow the layout of structs,    *)
(* what a path of indices leads to, and how both change under inflation;   *)
(* and at last the calls of insert_rdzone_init, by an invariant that says  *)
(* which parts of the object they have been made for.                      *)
(***************************************************************************)
EXTENDS StructLayout, NaturalSets, TLAPS

-----------------------------------------------------------------------------
(* Types.  A recursive function satisfies its equation if one of them      *)
(* does: for each there is its equation as an operator and the instance of *)
(* Recursion that says so.                                                 *)

NoPar == {0}

UpTo(d) == 0 .. d

(* The numbers up to d, as a chain.                                        *)
LEMMA UpToChain ==
  /\ \A d \in Nat : UpTo(d) \subseteq UpTo(d + 1)
  /\ UpTo(0) = {0}
  /\ \A d \in Nat : \A x \in UpTo(d + 1) : x = 0 \/ x - 1 \in UpTo(d)
BY DEF UpTo

TypesDef(f, e, p) == TypesOver(IF e = 0 THEN {} ELSE f[e - 1])

TypesRec == INSTANCE Recursion WITH Level <- UpTo, Par <- NoPar, Def <- TypesDef

(* The types of at most d levels are the last value of a function that     *)
(* satisfies its equation.                                                 *)
LEMMA TypesSolved ==
  ASSUME NEW d \in Nat
  PROVE  \E f : /\ f = [e \in 0 .. d |-> TypesDef(f, e, 0)]
                /\ TypesUpTo(d) = f[d]
<1>1. TypesRec!Grows
  BY UpToChain DEF TypesRec!Grows
<1>2. TypesRec!AsksBelow
  <2>1. \A f, g : \A x \in UpTo(0) : TypesDef(f, x, 0) = TypesDef(g, x, 0)
    BY UpToChain DEF TypesDef
  <2>2. ASSUME NEW e \in Nat, NEW f, NEW g, \A y \in UpTo(e) : f[y] = g[y], NEW x \in UpTo(e + 1)
        PROVE  TypesDef(f, x, 0) = TypesDef(g, x, 0)
    <3>1. CASE x = 0
      BY <3>1 DEF TypesDef
    <3>2. CASE x # 0
      <4>1. f[x - 1] = g[x - 1]
        BY <2>2, <3>2, UpToChain
      <4> QED BY <4>1, <3>2 DEF TypesDef
    <3> QED BY <3>1, <3>2
  <2> QED BY <2>1, <2>2 DEF TypesRec!AsksBelow, NoPar
<1>3. \E f : f = [e \in 0 .. d |-> TypesDef(f, e, 0)]
  BY <1>1, <1>2, TypesRec!FunctionExists DEF NoPar, UpTo
<1> DEFINE f == CHOOSE f : f = [e \in 0 .. d |-> TypesDef(f, e, 0)]
<1>4. f = [e \in 0 .. d |-> TypesDef(f, e, 0)]
  BY <1>3, Zenon
<1>5. TypesUpTo(d) = f[d]
  BY DEF TypesUpTo, TypesDef
<1> QED BY <1>4, <1>5

(* The types of no level, and those of one level more.                     *)
LEMMA TypesEquation ==
  /\ TypesUpTo(0) = TypesOver({})
  /\ \A d \in Nat : TypesUpTo(d + 1) = TypesOver(TypesUpTo(d))
<1>1. TypesUpTo(0) = TypesOver({})
  <2>1. PICK f : f = [e \in 0 .. 0 |-> TypesDef(f, e, 0)] /\ TypesUpTo(0) = f[0]
    BY TypesSolved
  <2>2. 0 \in 0 .. 0
    OBVIOUS
  <2>3. f[0] = TypesDef(f, 0, 0)
    BY <2>1, <2>2
  <2> QED BY <2>1, <2>3 DEF TypesDef
<1>2. ASSUME NEW d \in Nat
      PROVE  TypesUpTo(d + 1) = TypesOver(TypesUpTo(d))
  <2>1. PICK f : f = [e \in 0 .. d |-> TypesDef(f, e, 0)] /\ TypesUpTo(d) = f[d]
    BY TypesSolved
  <2>2. PICK g : g = [e \in 0 .. d + 1 |-> TypesDef(g, e, 0)] /\ TypesUpTo(d + 1) = g[d + 1]
    BY TypesSolved
  <2>3. \A e \in 0 .. d : f[e] = TypesDef(f, e, 0)
    BY <2>1
  <2>4. \A e \in 0 .. d + 1 : g[e] = TypesDef(g, e, 0)
    BY <2>2
  <2> DEFINE T == {e \in Nat : e <= d => f[e] = g[e]}
  <2>5. 0 \in T
    <3>1. 0 \in 0 .. d /\ 0 \in 0 .. d + 1
      OBVIOUS
    <3>2. f[0] = TypesOver({}) /\ g[0] = TypesOver({})
      BY <3>1, <2>3, <2>4 DEF TypesDef
    <3> QED BY <3>2
  <2>6. ASSUME NEW e \in Nat, e \in T
        PROVE  e + 1 \in T
    <3>1. SUFFICES ASSUME e + 1 <= d
                   PROVE  f[e + 1] = g[e + 1]
      OBVIOUS
    <3>2. e + 1 \in 0 .. d /\ e + 1 \in 0 .. d + 1 /\ e + 1 # 0 /\ (e + 1) - 1 = e /\ e <= d
      BY <3>1
    <3>3. f[e + 1] = TypesOver(f[e])
      BY <3>2, <2>3 DEF TypesDef
    <3>4. g[e + 1] = TypesOver(g[e])
      BY <3>2, <2>4 DEF TypesDef
    <3> QED BY <2>6, <3>2, <3>3, <3>4
  <2>7. Nat \subseteq T
    <3> HIDE DEF T
    <3> QED BY <2>5, <2>6, SetInduction
  <2>8. f[d] = g[d]
    BY <2>7
  <2>9. d + 1 \in 0 .. d + 1 /\ d + 1 # 0 /\ (d + 1) - 1 = d
    OBVIOUS
  <2>10. g[d + 1] = TypesOver(g[d])
    BY <2>4, <2>9 DEF TypesDef
  <2> QED BY <2>1, <2>2, <2>8, <2>10
<1> QED BY <1>1, <1>2

(* Each kind of type, with its parts from a given set.                     *)
IsInt(t) == t.kind = "int" /\ t.bytes \in Bytes /\ t = IntType(t.bytes)

IsArrayOf(t, parts) ==
  t.kind = "array" /\ t.num \in Nat \ {0} /\ t.elem \in parts /\ t = ArrayType(t.num, t.elem)

IsStructOf(t, parts) ==
  /\ t.kind = "struct" /\ t.fields \in Seq(parts) /\ Len(t.fields) \in Nat \ {0}
  /\ DOMAIN t.fields = 1 .. Len(t.fields) /\ \A i \in 1 .. Len(t.fields) : t.fields[i] \in parts
  /\ t = StructType(t.fields)

(* A type is of one of three kinds.                                        *)
LEMMA Kinds ==
  ASSUME NEW parts, NEW t \in TypesOver(parts)
  PROVE  IsInt(t) \/ IsArrayOf(t, parts) \/ IsStructOf(t, parts)
<1>1. CASE t \in {IntType(n) : n \in Bytes}
  BY <1>1 DEF IsInt, IntType
<1>2. CASE t \in [kind : {"array"}, num : Nat \ {0}, elem : parts]
  BY <1>2 DEF IsArrayOf, ArrayType
<1>3. CASE t \in [kind : {"struct"}, fields : Seq(parts) \ {<<>>}]
  <2>1. t.kind = "struct" /\ t.fields \in Seq(parts) /\ t.fields # <<>> /\ t = StructType(t.fields)
    BY <1>3 DEF StructType
  <2>2. Len(t.fields) \in Nat /\ DOMAIN t.fields = 1 .. Len(t.fields)
        /\ \A i \in 1 .. Len(t.fields) : t.fields[i] \in parts
    BY <2>1
  <2>3. Len(t.fields) # 0
    BY <2>1
  <2> QED BY <2>1, <2>2, <2>3 DEF IsStructOf
<1> QED BY <1>1, <1>2, <1>3 DEF TypesOver

(* And whatever is of such a kind is a type.                               *)
LEMMA KindsAreTypes ==
  ASSUME NEW parts
  PROVE  /\ \A n \in Bytes : IntType(n) \in TypesOver(parts)
         /\ \A n \in Nat \ {0}, e \in parts : ArrayType(n, e) \in TypesOver(parts)
         /\ \A s \in Seq(parts) : s # <<>> => StructType(s) \in TypesOver(parts)
BY DEF TypesOver, ArrayType, StructType

(* More parts make more types.                                             *)
LEMMA TypesOverMonotone ==
  ASSUME NEW P, NEW Q, P \subseteq Q
  PROVE  TypesOver(P) \subseteq TypesOver(Q)
<1> SUFFICES ASSUME NEW t \in TypesOver(P)
             PROVE  t \in TypesOver(Q)
  OBVIOUS
<1>1. CASE IsInt(t)
  BY <1>1, KindsAreTypes DEF IsInt
<1>2. CASE IsArrayOf(t, P)
  BY <1>2, KindsAreTypes DEF IsArrayOf
<1>3. CASE IsStructOf(t, P)
  <2>1. t.fields \in Seq(Q) /\ t.fields # <<>>
    BY <1>3 DEF IsStructOf
  <2> QED BY <2>1, <1>3, KindsAreTypes DEF IsStructOf
<1> QED BY <1>1, <1>2, <1>3, Kinds

(* More levels admit more types.                                           *)
LEMMA TypesGrow ==
  \A d \in Nat : TypesUpTo(d) \subseteq TypesUpTo(d + 1)
<1> DEFINE T == {d \in Nat : TypesUpTo(d) \subseteq TypesUpTo(d + 1)}
<1>1. 0 \in T
  BY TypesEquation, TypesOverMonotone
<1>2. ASSUME NEW d \in Nat, d \in T
      PROVE  d + 1 \in T
  <2>1. TypesOver(TypesUpTo(d)) \subseteq TypesOver(TypesUpTo(d + 1))
    BY <1>2, TypesOverMonotone
  <2>2. d + 1 \in Nat
    OBVIOUS
  <2> QED BY <2>1, <2>2, TypesEquation
<1>3. Nat \subseteq T
  <2> HIDE DEF T
  <2> QED BY <1>1, <1>2, SetInduction
<1> QED BY <1>3

(* So the types of at most d levels are among those of at most e >= d.     *)
LEMMA TypesMonotone ==
  ASSUME NEW d \in Nat, NEW e \in Nat, d <= e
  PROVE  TypesUpTo(d) \subseteq TypesUpTo(e)
<1> DEFINE T == {i \in Nat : TypesUpTo(d) \subseteq TypesUpTo(d + i)}
<1>1. 0 \in T
  OBVIOUS
<1>2. ASSUME NEW i \in Nat, i \in T
      PROVE  i + 1 \in T
  <2>1. TypesUpTo(d + i) \subseteq TypesUpTo(d + i + 1)
    <3>1. d + i \in Nat
      OBVIOUS
    <3> QED BY <3>1, TypesGrow
  <2>2. d + i + 1 = d + (i + 1)
    OBVIOUS
  <2> QED BY <1>2, <2>1, <2>2
<1>3. Nat \subseteq T
  <2> HIDE DEF T
  <2> QED BY <1>1, <1>2, SetInduction
<1>4. e - d \in Nat /\ d + (e - d) = e
  OBVIOUS
<1>5. e - d \in T
  BY <1>3, <1>4
<1> QED BY <1>4, <1>5

(* The kinds of a type of d levels.  Only integers have no level.          *)
LEMMA TypeKinds ==
  /\ \A t \in TypesUpTo(0) : IsInt(t)
  /\ \A d \in Nat : \A t \in TypesUpTo(d + 1) :
       IsInt(t) \/ IsArrayOf(t, TypesUpTo(d)) \/ IsStructOf(t, TypesUpTo(d))
  /\ \A t \in Type : IsInt(t) \/ IsArrayOf(t, Type) \/ IsStructOf(t, Type)
<1>1. ASSUME NEW t \in TypesUpTo(0)
      PROVE  IsInt(t)
  <2>1. ~ IsArrayOf(t, {})
    BY DEF IsArrayOf
  <2>2. ~ IsStructOf(t, {})
    BY DEF IsStructOf
  <2> QED BY <2>1, <2>2, Kinds, TypesEquation
<1>2. \A d \in Nat : \A t \in TypesUpTo(d + 1) :
        IsInt(t) \/ IsArrayOf(t, TypesUpTo(d)) \/ IsStructOf(t, TypesUpTo(d))
  BY Kinds, TypesEquation
<1>3. Type \subseteq TypesOver(Type)
  BY TypesGrow, TypesEquation, DepthAssumption DEF Type
<1>4. \A t \in Type : IsInt(t) \/ IsArrayOf(t, Type) \/ IsStructOf(t, Type)
  BY <1>3, Kinds
<1> QED BY <1>1, <1>2, <1>4

(* Types of few levels are types.                                          *)
LEMMA FewLevels ==
  ASSUME NEW d \in Nat, d <= Depth
  PROVE  TypesUpTo(d) \subseteq Type
BY TypesMonotone, DepthAssumption DEF Type

(***************************************************************************)
(* Induction over types: a set that holds the integers, and every type     *)
(* whose elements or fields it holds, holds every type.                    *)
(***************************************************************************)
LEMMA TypeInduction ==
  ASSUME NEW T,
         \A t \in Type : IsInt(t) => t \in T,
         \A t \in Type : IsArrayOf(t, Type) /\ t.elem \in T => t \in T,
         \A t \in Type : IsStructOf(t, Type) /\ (\A i \in 1 .. Len(t.fields) : t.fields[i] \in T)
                           => t \in T
  PROVE  Type \subseteq T
<1> DEFINE L == {d \in Nat : d <= Depth => TypesUpTo(d) \subseteq T}
<1>1. 0 \in L
  <2>1. TypesUpTo(0) \subseteq Type
    BY FewLevels, DepthAssumption
  <2> QED BY <2>1, TypeKinds
<1>2. ASSUME NEW d \in Nat, d \in L
      PROVE  d + 1 \in L
  <2>1. SUFFICES ASSUME d + 1 <= Depth, NEW t \in TypesUpTo(d + 1)
                 PROVE  t \in T
    OBVIOUS
  <2>2. d <= Depth /\ TypesUpTo(d) \subseteq T /\ t \in Type /\ TypesUpTo(d) \subseteq Type
    BY <1>2, <2>1, FewLevels, DepthAssumption
  <2>3. CASE IsInt(t)
    BY <2>2, <2>3
  <2>4. CASE IsArrayOf(t, TypesUpTo(d))
    <3>1. IsArrayOf(t, Type) /\ t.elem \in T
      BY <2>2, <2>4 DEF IsArrayOf
    <3> QED BY <2>2, <3>1
  <2>5. CASE IsStructOf(t, TypesUpTo(d))
    <3>1. t.fields \in Seq(Type)
      BY <2>2, <2>5 DEF IsStructOf
    <3>2. IsStructOf(t, Type) /\ \A i \in 1 .. Len(t.fields) : t.fields[i] \in T
      BY <2>2, <2>5, <3>1 DEF IsStructOf
    <3> QED BY <2>2, <3>2
  <2> QED BY <2>1, <2>3, <2>4, <2>5, TypeKinds
<1>3. Nat \subseteq L
  <2> HIDE DEF L
  <2> QED BY <1>1, <1>2, SetInduction
<1>4. Depth \in L
  BY <1>3, DepthAssumption
<1> QED BY <1>4, DepthAssumption DEF Type

-----------------------------------------------------------------------------
(* The recursive functions over types.                                     *)

AlignDef(f, u, p) ==
  CASE u.kind = "int"   -> u.bytes
    [] u.kind = "array" -> f[u.elem]
    [] OTHER            -> Max({f[u.fields[i]] : i \in DOMAIN u.fields})

AlignRec == INSTANCE Recursion WITH Level <- TypesUpTo, Par <- NoPar, Def <- AlignDef

(* The alignment of a type is that of its parts.                           *)
LEMMA AlignEquation ==
  ASSUME NEW t \in Type
  PROVE  /\ IsInt(t) => Align(t) = t.bytes
         /\ IsArrayOf(t, Type) => Align(t) = Align(t.elem)
         /\ IsStructOf(t, Type) => Align(t) = Max({Align(t.fields[i]) : i \in DOMAIN t.fields})
<1>1. AlignRec!Grows
  BY TypesGrow DEF AlignRec!Grows
<1>2. AlignRec!AsksBelow
  <2>1. \A f, g : \A x \in TypesUpTo(0) : AlignDef(f, x, 0) = AlignDef(g, x, 0)
    BY TypeKinds DEF AlignDef, IsInt
  <2>2. ASSUME NEW d \in Nat, NEW f, NEW g, \A y \in TypesUpTo(d) : f[y] = g[y],
               NEW x \in TypesUpTo(d + 1)
        PROVE  AlignDef(f, x, 0) = AlignDef(g, x, 0)
    <3>1. CASE IsInt(x)
      BY <3>1 DEF AlignDef, IsInt
    <3>2. CASE IsArrayOf(x, TypesUpTo(d))
      BY <2>2, <3>2 DEF AlignDef, IsArrayOf
    <3>3. CASE IsStructOf(x, TypesUpTo(d))
      <4>1. {f[x.fields[i]] : i \in DOMAIN x.fields} = {g[x.fields[i]] : i \in DOMAIN x.fields}
        BY <2>2, <3>3 DEF IsStructOf
      <4> QED BY <4>1, <3>3 DEF AlignDef, IsStructOf
    <3> QED BY <3>1, <3>2, <3>3, TypeKinds
  <2> QED BY <2>1, <2>2 DEF AlignRec!AsksBelow, NoPar
<1>3. \E f : f = [u \in Type |-> AlignDef(f, u, 0)]
  BY <1>1, <1>2, AlignRec!FunctionExists, DepthAssumption DEF NoPar, Type
<1> DEFINE f == CHOOSE f : f = [u \in Type |-> AlignDef(f, u, 0)]
<1>4. f = [u \in Type |-> AlignDef(f, u, 0)]
  BY <1>3, Zenon
<1>5. \A u \in Type : Align(u) = f[u]
  BY DEF Align, AlignDef
<1>6. \A u \in Type : f[u] = AlignDef(f, u, 0)
  <2> HIDE DEF f
  <2> QED BY <1>4
<1> HIDE DEF f
<1>7. ASSUME IsInt(t)
      PROVE  Align(t) = t.bytes
  BY <1>5, <1>6, <1>7 DEF AlignDef, IsInt
<1>8. ASSUME IsArrayOf(t, Type)
      PROVE  Align(t) = Align(t.elem)
  BY <1>5, <1>6, <1>8 DEF AlignDef, IsArrayOf
<1>9. ASSUME IsStructOf(t, Type)
      PROVE  Align(t) = Max({Align(t.fields[i]) : i \in DOMAIN t.fields})
  <2>1. {f[t.fields[i]] : i \in DOMAIN t.fields} = {Align(t.fields[i]) : i \in DOMAIN t.fields}
    BY <1>5, <1>9 DEF IsStructOf
  <2>2. f[t] = Max({f[t.fields[i]] : i \in DOMAIN t.fields})
    BY <1>6, <1>9 DEF AlignDef, IsStructOf
  <2> QED BY <2>1, <2>2, <1>5
<1> QED BY <1>7, <1>8, <1>9

SizeDef(f, u, p) ==
  CASE u.kind = "int"   -> u.bytes
    [] u.kind = "array" -> u.num * f[u.elem]
    [] OTHER -> LET sizes == [i \in DOMAIN u.fields |-> f[u.fields[i]]]
                IN  RoundUp(End(Aligns(u), sizes, Len(sizes)), Align(u))

SizeRec == INSTANCE Recursion WITH Level <- TypesUpTo, Par <- NoPar, Def <- SizeDef

(* The size of a type is that of its parts, with padding.                  *)
LEMMA SizeEquation ==
  ASSUME NEW t \in Type
  PROVE  /\ IsInt(t) => AllocSize(t) = t.bytes
         /\ IsArrayOf(t, Type) => AllocSize(t) = t.num * AllocSize(t.elem)
         /\ IsStructOf(t, Type) =>
              AllocSize(t) = RoundUp(End(Aligns(t), Sizes(t), Len(Sizes(t))), Align(t))
<1>1. SizeRec!Grows
  BY TypesGrow DEF SizeRec!Grows
<1>2. SizeRec!AsksBelow
  <2>1. \A f, g : \A x \in TypesUpTo(0) : SizeDef(f, x, 0) = SizeDef(g, x, 0)
    BY TypeKinds DEF SizeDef, IsInt
  <2>2. ASSUME NEW d \in Nat, NEW f, NEW g, \A y \in TypesUpTo(d) : f[y] = g[y],
               NEW x \in TypesUpTo(d + 1)
        PROVE  SizeDef(f, x, 0) = SizeDef(g, x, 0)
    <3>1. CASE IsInt(x)
      BY <3>1 DEF SizeDef, IsInt
    <3>2. CASE IsArrayOf(x, TypesUpTo(d))
      BY <2>2, <3>2 DEF SizeDef, IsArrayOf
    <3>3. CASE IsStructOf(x, TypesUpTo(d))
      <4>1. [i \in DOMAIN x.fields |-> f[x.fields[i]]] = [i \in DOMAIN x.fields |-> g[x.fields[i]]]
        BY <2>2, <3>3 DEF IsStructOf
      <4> QED BY <4>1, <3>3 DEF SizeDef, IsStructOf
    <3> QED BY <3>1, <3>2, <3>3, TypeKinds
  <2> QED BY <2>1, <2>2 DEF SizeRec!AsksBelow, NoPar
<1>3. \E f : f = [u \in Type |-> SizeDef(f, u, 0)]
  BY <1>1, <1>2, SizeRec!FunctionExists, DepthAssumption DEF NoPar, Type
<1> DEFINE f == CHOOSE f : f = [u \in Type |-> SizeDef(f, u, 0)]
<1>4. f = [u \in Type |-> SizeDef(f, u, 0)]
  BY <1>3, Zenon
<1>5. \A u \in Type : AllocSize(u) = f[u]
  BY DEF AllocSize, SizeDef
<1>6. \A u \in Type : f[u] = SizeDef(f, u, 0)
  <2> HIDE DEF f
  <2> QED BY <1>4
<1> HIDE DEF f
<1>7. ASSUME IsInt(t)
      PROVE  AllocSize(t) = t.bytes
  BY <1>5, <1>6, <1>7 DEF SizeDef, IsInt
<1>8. ASSUME IsArrayOf(t, Type)
      PROVE  AllocSize(t) = t.num * AllocSize(t.elem)
  <2>1. f[t] = t.num * f[t.elem]
    BY <1>6, <1>8 DEF SizeDef, IsArrayOf
  <2> QED BY <1>5, <1>8, <2>1 DEF IsArrayOf
<1>9. ASSUME IsStructOf(t, Type)
      PROVE  AllocSize(t) = RoundUp(End(Aligns(t), Sizes(t), Len(Sizes(t))), Align(t))
  <2>1. [i \in DOMAIN t.fields |-> f[t.fields[i]]] = Sizes(t)
    BY <1>5, <1>9 DEF IsStructOf, Sizes
  <2>2. f[t] = LET sizes == [i \in DOMAIN t.fields |-> f[t.fields[i]]]
               IN  RoundUp(End(Aligns(t), sizes, Len(sizes)), Align(t))
    BY <1>6, <1>9 DEF SizeDef, IsStructOf
  <2> QED BY <2>1, <2>2, <1>5
<1> QED BY <1>7, <1>8, <1>9

InflateDef(f, u, p) ==
  CASE u.kind = "int"   -> u
    [] u.kind = "array" -> ArrayType(u.num, f[u.elem])
    [] OTHER -> StructType([i \in 1 .. 2 * Len(u.fields) + 1 |->
                              IF i % 2 = 1 THEN Redzone ELSE f[u.fields[i \div 2]]])

InflateRec == INSTANCE Recursion WITH Level <- TypesUpTo, Par <- NoPar, Def <- InflateDef

(* The field of the inflated struct behind i / 2 fields of the struct.     *)
LEMMA Halves ==
  ASSUME NEW n \in Nat, NEW i \in 1 .. 2 * n + 1, i % 2 # 1
  PROVE  i \div 2 \in 1 .. n /\ i = 2 * (i \div 2)
OBVIOUS

(* Inflation of a type inflates its parts.                                 *)
LEMMA InflateEquation ==
  ASSUME NEW t \in Type
  PROVE  /\ IsInt(t) => Inflate(t) = t
         /\ IsArrayOf(t, Type) => Inflate(t) = ArrayType(t.num, Inflate(t.elem))
         /\ IsStructOf(t, Type) =>
              Inflate(t) =
                StructType([i \in 1 .. 2 * Len(t.fields) + 1 |->
                              IF i % 2 = 1 THEN Redzone ELSE Inflate(t.fields[i \div 2])])
<1>1. InflateRec!Grows
  BY TypesGrow DEF InflateRec!Grows
<1>2. InflateRec!AsksBelow
  <2>1. \A f, g : \A x \in TypesUpTo(0) : InflateDef(f, x, 0) = InflateDef(g, x, 0)
    BY TypeKinds DEF InflateDef, IsInt
  <2>2. ASSUME NEW d \in Nat, NEW f, NEW g, \A y \in TypesUpTo(d) : f[y] = g[y],
               NEW x \in TypesUpTo(d + 1)
        PROVE  InflateDef(f, x, 0) = InflateDef(g, x, 0)
    <3>1. CASE IsInt(x)
      BY <3>1 DEF InflateDef, IsInt
    <3>2. CASE IsArrayOf(x, TypesUpTo(d))
      BY <2>2, <3>2 DEF InflateDef, IsArrayOf
    <3>3. CASE IsStructOf(x, TypesUpTo(d))
      <4>1. \A i \in 1 .. 2 * Len(x.fields) + 1 : i % 2 # 1 => x.fields[i \div 2] \in TypesUpTo(d)
        BY <3>3, Halves DEF IsStructOf
      <4>2. \A i \in 1 .. 2 * Len(x.fields) + 1 :
              (IF i % 2 = 1 THEN Redzone ELSE f[x.fields[i \div 2]])
                = (IF i % 2 = 1 THEN Redzone ELSE g[x.fields[i \div 2]])
        BY <2>2, <4>1
      <4>3. [i \in 1 .. 2 * Len(x.fields) + 1 |-> IF i % 2 = 1 THEN Redzone ELSE f[x.fields[i \div 2]]]
            = [i \in 1 .. 2 * Len(x.fields) + 1 |-> IF i % 2 = 1 THEN Redzone ELSE g[x.fields[i \div 2]]]
        BY <4>2, Zenon
      <4>4. x.kind # "int" /\ x.kind # "array"
        BY <3>3 DEF IsStructOf
      <4> QED BY <4>3, <4>4, Zenon DEF InflateDef
    <3> QED BY <3>1, <3>2, <3>3, TypeKinds
  <2> QED BY <2>1, <2>2 DEF InflateRec!AsksBelow, NoPar
<1>3. \E f : f = [u \in Type |-> InflateDef(f, u, 0)]
  BY <1>1, <1>2, InflateRec!FunctionExists, DepthAssumption DEF NoPar, Type
<1> DEFINE f == CHOOSE f : f = [u \in Type |-> InflateDef(f, u, 0)]
<1>4. f = [u \in Type |-> InflateDef(f, u, 0)]
  BY <1>3, Zenon
<1>5. \A u \in Type : Inflate(u) = f[u]
  BY DEF Inflate, InflateDef
<1>6. \A u \in Type : f[u] = InflateDef(f, u, 0)
  <2> HIDE DEF f
  <2> QED BY <1>4
<1> HIDE DEF f
<1>7. ASSUME IsInt(t)
      PROVE  Inflate(t) = t
  BY <1>5, <1>6, <1>7 DEF InflateDef, IsInt
<1>8. ASSUME IsArrayOf(t, Type)
      PROVE  Inflate(t) = ArrayType(t.num, Inflate(t.elem))
  <2>1. f[t] = ArrayType(t.num, f[t.elem])
    BY <1>6, <1>8 DEF InflateDef, IsArrayOf
  <2> QED BY <1>5, <1>8, <2>1 DEF IsArrayOf
<1>9. ASSUME IsStructOf(t, Type)
      PROVE  Inflate(t) =
               StructType([i \in 1 .. 2 * Len(t.fields) + 1 |->
                             IF i % 2 = 1 THEN Redzone ELSE Inflate(t.fields[i \div 2])])
  <2>1. \A i \in 1 .. 2 * Len(t.fields) + 1 : i % 2 # 1 => t.fields[i \div 2] \in Type
    BY <1>9, Halves DEF IsStructOf
  <2>2. \A i \in 1 .. 2 * Len(t.fields) + 1 :
          (IF i % 2 = 1 THEN Redzone ELSE f[t.fields[i \div 2]])
            = (IF i % 2 = 1 THEN Redzone ELSE Inflate(t.fields[i \div 2]))
    BY <1>5, <2>1
  <2>3. [i \in 1 .. 2 * Len(t.fields) + 1 |-> IF i % 2 = 1 THEN Redzone ELSE f[t.fields[i \div 2]]]
        = [i \in 1 .. 2 * Len(t.fields) + 1 |-> IF i % 2 = 1 THEN Redzone ELSE Inflate(t.fields[i \div 2])]
    BY <2>2, Zenon
  <2>4. t.kind # "int" /\ t.kind # "array"
    BY <1>9 DEF IsStructOf
  <2>5. f[t] = StructType([i \in 1 .. 2 * Len(t.fields) + 1 |->
                             IF i % 2 = 1 THEN Redzone ELSE f[t.fields[i \div 2]]])
    BY <1>6, <2>4, Zenon DEF InflateDef
  <2> QED BY <2>3, <2>5, <1>5, Zenon
<1> QED BY <1>7, <1>8, <1>9

HoldsDef(f, u, p) ==
  CASE u.kind = "int"   -> FALSE
    [] u.kind = "array" -> IsStruct(u.elem) /\ \E i \in DOMAIN u.elem.fields :
                                                 IsNested(u.elem.fields[i])
    [] OTHER            -> \E i \in DOMAIN u.fields : f[u.fields[i]]

HoldsRec == INSTANCE Recursion WITH Level <- TypesUpTo, Par <- NoPar, Def <- HoldsDef

(* A struct holds an array of structs with structs if a field of it does.  *)
LEMMA HoldsEquation ==
  ASSUME NEW t \in Type
  PROVE  /\ IsInt(t) => ~ HoldsUnsupported(t)
         /\ IsArrayOf(t, Type) =>
              (HoldsUnsupported(t) <=>
                 IsStruct(t.elem) /\ \E i \in DOMAIN t.elem.fields : IsNested(t.elem.fields[i]))
         /\ IsStructOf(t, Type) =>
              (HoldsUnsupported(t) <=> \E i \in DOMAIN t.fields : HoldsUnsupported(t.fields[i]))
<1>1. HoldsRec!Grows
  BY TypesGrow DEF HoldsRec!Grows
<1>2. HoldsRec!AsksBelow
  <2>1. \A f, g : \A x \in TypesUpTo(0) : HoldsDef(f, x, 0) = HoldsDef(g, x, 0)
    BY TypeKinds DEF HoldsDef, IsInt
  <2>2. ASSUME NEW d \in Nat, NEW f, NEW g, \A y \in TypesUpTo(d) : f[y] = g[y],
               NEW x \in TypesUpTo(d + 1)
        PROVE  HoldsDef(f, x, 0) = HoldsDef(g, x, 0)
    <3>1. CASE IsInt(x)
      BY <3>1 DEF HoldsDef, IsInt
    <3>2. CASE IsArrayOf(x, TypesUpTo(d))
      BY <2>2, <3>2 DEF HoldsDef, IsArrayOf
    <3>3. CASE IsStructOf(x, TypesUpTo(d))
      <4>1. \A i \in DOMAIN x.fields : f[x.fields[i]] = g[x.fields[i]]
        BY <2>2, <3>3 DEF IsStructOf
      <4>2. x.kind # "int" /\ x.kind # "array"
        BY <3>3 DEF IsStructOf
      <4>3. HoldsDef(f, x, 0) = \E i \in DOMAIN x.fields : f[x.fields[i]]
        BY <4>2 DEF HoldsDef
      <4>4. HoldsDef(g, x, 0) = \E i \in DOMAIN x.fields : g[x.fields[i]]
        BY <4>2 DEF HoldsDef
      <4>5. (\E i \in DOMAIN x.fields : f[x.fields[i]]) = (\E i \in DOMAIN x.fields : g[x.fields[i]])
        BY <4>1
      <4> QED BY <4>3, <4>4, <4>5
    <3> QED BY <3>1, <3>2, <3>3, TypeKinds
  <2> QED BY <2>1, <2>2 DEF HoldsRec!AsksBelow, NoPar
<1>3. \E f : f = [u \in Type |-> HoldsDef(f, u, 0)]
  BY <1>1, <1>2, HoldsRec!FunctionExists, DepthAssumption DEF NoPar, Type
<1> DEFINE f == CHOOSE f : f = [u \in Type |-> HoldsDef(f, u, 0)]
<1>4. f = [u \in Type |-> HoldsDef(f, u, 0)]
  BY <1>3, Zenon
<1>5. \A u \in Type : HoldsUnsupported(u) = f[u]
  BY DEF HoldsUnsupported, HoldsDef
<1>6. \A u \in Type : f[u] = HoldsDef(f, u, 0)
  <2> HIDE DEF f
  <2> QED BY <1>4
<1> HIDE DEF f
<1>7. ASSUME IsInt(t)
      PROVE  ~ HoldsUnsupported(t)
  BY <1>5, <1>6, <1>7 DEF HoldsDef, IsInt
<1>8. ASSUME IsArrayOf(t, Type)
      PROVE  HoldsUnsupported(t) <=>
               IsStruct(t.elem) /\ \E i \in DOMAIN t.elem.fields : IsNested(t.elem.fields[i])
  BY <1>5, <1>6, <1>8 DEF HoldsDef, IsArrayOf
<1>9. ASSUME IsStructOf(t, Type)
      PROVE  HoldsUnsupported(t) <=> \E i \in DOMAIN t.fields : HoldsUnsupported(t.fields[i])
  <2>1. \A i \in DOMAIN t.fields : f[t.fields[i]] = HoldsUnsupported(t.fields[i])
    BY <1>5, <1>9 DEF IsStructOf
  <2>2. f[t] = \E i \in DOMAIN t.fields : f[t.fields[i]]
    BY <1>6, <1>9 DEF HoldsDef, IsStructOf
  <2> QED BY <2>1, <2>2, <1>5
<1> QED BY <1>7, <1>8, <1>9

-----------------------------------------------------------------------------
(* Sizes, alignments and offsets                                           *)

(* Rounding up gives the next multiple.                                    *)
LEMMA RoundUpFacts ==
  ASSUME NEW n \in Nat, NEW a \in Nat \ {0}
  PROVE  /\ RoundUp(n, a) \in Nat /\ n <= RoundUp(n, a) /\ RoundUp(n, a) < n + a
         /\ RoundUp(n, a) % a = 0
<1>1. RoundUp(n, a) \in Nat /\ n <= RoundUp(n, a) /\ RoundUp(n, a) < n + a
  BY DEF RoundUp
<1>2. RoundUp(n, a) % a = 0
  <2>1. (n + a - 1) \div a \in Nat
    BY DEF RoundUp
  <2>2. \A k \in Nat : (k * a) % a = 0
    OBVIOUS
  <2> QED BY <2>1, <2>2 DEF RoundUp
<1> QED BY <1>1, <1>2

(* What is a multiple is a product, and the other way round.               *)
LEMMA Multiples ==
  ASSUME NEW a \in Nat \ {0}, NEW b \in Nat
  PROVE  b % a = 0 <=> \E k \in Nat : b = k * a
<1>1. ASSUME b % a = 0
      PROVE  \E k \in Nat : b = k * a
  BY <1>1
<1>2. \A k \in Nat : (k * a) % a = 0
  OBVIOUS
<1> QED BY <1>1, <1>2

(* Sums and multiples of multiples are multiples.                          *)
LEMMA MultiplesAdd ==
  ASSUME NEW a \in Nat \ {0}, NEW b \in Nat, NEW c \in Nat, b % a = 0, c % a = 0
  PROVE  (b + c) % a = 0
<1>1. PICK k \in Nat : b = k * a
  BY Multiples
<1>2. PICK l \in Nat : c = l * a
  BY Multiples
<1>3. b + c = (k + l) * a
  BY <1>1, <1>2
<1>4. \A m \in Nat : (m * a) % a = 0
  OBVIOUS
<1>5. k + l \in Nat
  OBVIOUS
<1> QED BY <1>3, <1>4, <1>5

(* A multiple of a multiple is one.                                        *)
LEMMA MultiplesTransitive ==
  ASSUME NEW a \in Nat \ {0}, NEW b \in Nat \ {0}, NEW c \in Nat, b % a = 0, c % b = 0
  PROVE  c % a = 0
<1>1. PICK k \in Nat : b = k * a
  BY Multiples
<1>2. PICK l \in Nat : c = l * b
  BY Multiples
<1>3. c = (l * k) * a
  BY <1>1, <1>2
<1>4. l * k \in Nat
  OBVIOUS
<1> QED BY <1>3, <1>4, Multiples

(* A multiple, taken k times, is one.                                      *)
LEMMA MultiplesTimes ==
  ASSUME NEW a \in Nat \ {0}, NEW b \in Nat, b % a = 0, NEW k \in Nat
  PROVE  k * b \in Nat /\ (k * b) % a = 0
<1>1. PICK l \in Nat : b = l * a
  BY Multiples
<1>2. k * b = (k * l) * a
  BY <1>1
<1>3. k * l \in Nat /\ k * b \in Nat
  OBVIOUS
<1> QED BY <1>2, <1>3, Multiples

(* The elements of an array lie one behind the other.                      *)
LEMMA Products ==
  ASSUME NEW s \in Nat
  PROVE  /\ \A k \in Nat : k * s \in Nat
         /\ \A k, l \in Nat : k < l => k * s + s <= l * s
OBVIOUS

(* A nonempty finite sequence of numbers has a largest one.                *)
LEMMA LargestOf ==
  ASSUME NEW a, NEW n \in Nat \ {0}, \A i \in 1 .. n : a[i] \in Nat
  PROVE  \E i \in 1 .. n : \A j \in 1 .. n : a[j] <= a[i]
<1> DEFINE T == {m \in Nat : m + 1 <= n => \E i \in 1 .. m + 1 : \A j \in 1 .. m + 1 : a[j] <= a[i]}
<1>1. 0 \in T
  OBVIOUS
<1>2. ASSUME NEW m \in Nat, m \in T
      PROVE  m + 1 \in T
  <2>1. SUFFICES ASSUME m + 2 <= n
                 PROVE  \E i \in 1 .. m + 2 : \A j \in 1 .. m + 2 : a[j] <= a[i]
    OBVIOUS
  <2>2. PICK i \in 1 .. m + 1 : \A j \in 1 .. m + 1 : a[j] <= a[i]
    BY <1>2, <2>1
  <2>3. a[i] \in Nat /\ a[m + 2] \in Nat /\ i \in 1 .. m + 2 /\ m + 2 \in 1 .. m + 2
    BY <2>1
  <2>4. CASE a[m + 2] <= a[i]
    BY <2>2, <2>3, <2>4
  <2>5. CASE ~ (a[m + 2] <= a[i])
    <3>1. \A j \in 1 .. m + 2 : a[j] <= a[m + 2]
      <4> TAKE j \in 1 .. m + 2
      <4>1. CASE j = m + 2
        BY <4>1, <2>3
      <4>2. CASE j # m + 2
        <5>1. j \in 1 .. m + 1 /\ a[j] \in Nat
          BY <4>2, <2>1
        <5> QED BY <5>1, <2>2, <2>3, <2>5
      <4> QED BY <4>1, <4>2
    <3> QED BY <3>1, <2>3
  <2> QED BY <2>4, <2>5
<1>3. Nat \subseteq T
  <2> HIDE DEF T
  <2> QED BY <1>1, <1>2, SetInduction
<1>4. n - 1 \in T /\ (n - 1) + 1 = n
  BY <1>3
<1> QED BY <1>4

(* Alignments are those of integers, and a struct is aligned for all its   *)
(* fields.                                                                 *)
LEMMA AlignFacts ==
  ASSUME NEW t \in Type
  PROVE  /\ Align(t) \in Bytes /\ Align(t) \in Nat \ {0}
         /\ IsArrayOf(t, Type) => Align(t) = Align(t.elem)
         /\ IsStructOf(t, Type) => \A i \in 1 .. Len(t.fields) : Align(t) % Align(t.fields[i]) = 0
<1> DEFINE T == {u \in Type : Align(u) \in Bytes}
<1>1. ASSUME NEW u \in Type, IsStructOf(u, Type), \A i \in 1 .. Len(u.fields) : u.fields[i] \in T
      PROVE  /\ Align(u) \in Bytes
             /\ \A i \in 1 .. Len(u.fields) : Align(u.fields[i]) <= Align(u)
  <2> DEFINE a == [i \in 1 .. Len(u.fields) |-> Align(u.fields[i])]
             S == {Align(u.fields[i]) : i \in DOMAIN u.fields}
  <2>1. \A i \in 1 .. Len(u.fields) : a[i] \in Nat /\ a[i] = Align(u.fields[i]) /\ a[i] \in Bytes
    BY <1>1, BytesAssumption
  <2>2. Len(u.fields) \in Nat \ {0} /\ DOMAIN u.fields = 1 .. Len(u.fields)
    BY <1>1 DEF IsStructOf
  <2>3. \E i \in 1 .. Len(u.fields) : \A j \in 1 .. Len(u.fields) : a[j] <= a[i]
    <3> HIDE DEF a
    <3> QED BY <2>1, <2>2, LargestOf
  <2>4. \E x \in S : \A y \in S : x >= y
    BY <2>1, <2>2, <2>3
  <2>5. Max(S) \in S /\ \A y \in S : Max(S) >= y
    <3> HIDE DEF S
    <3> QED BY <2>4 DEF Max
  <2>6. Align(u) = Max(S)
    BY <1>1, AlignEquation
  <2> HIDE DEF a
  <2> QED BY <2>1, <2>2, <2>5, <2>6
<1>2. \A u \in Type : IsInt(u) => u \in T
  BY AlignEquation DEF IsInt
<1>3. \A u \in Type : IsArrayOf(u, Type) /\ u.elem \in T => u \in T
  BY AlignEquation
<1>4. \A u \in Type : IsStructOf(u, Type) /\ (\A i \in 1 .. Len(u.fields) : u.fields[i] \in T)
                        => u \in T
  BY <1>1
<1>5. Type \subseteq T
  <2> HIDE DEF T
  <2> QED BY <1>2, <1>3, <1>4, TypeInduction
<1>6. Align(t) \in Bytes /\ Align(t) \in Nat \ {0}
  BY <1>5, BytesAssumption
<1>7. ASSUME IsStructOf(t, Type), NEW i \in 1 .. Len(t.fields)
      PROVE  Align(t) % Align(t.fields[i]) = 0
  <2>1. \A j \in 1 .. Len(t.fields) : t.fields[j] \in T
    BY <1>5, <1>7 DEF IsStructOf
  <2>2. Align(t.fields[i]) <= Align(t) /\ Align(t.fields[i]) \in Bytes
    BY <1>1, <1>7, <2>1
  <2> QED BY <1>6, <2>2, BytesAssumption
<1> QED BY <1>6, <1>7, AlignEquation

EndDef(f, j, p) == IF j = 0 THEN 0 ELSE RoundUp(f[j - 1], p.aligns[j]) + p.sizes[j]

EndRec == INSTANCE Recursion
            WITH Level <- UpTo, Par <- [aligns : Seq(Nat), sizes : Seq(Nat)], Def <- EndDef

(* A field ends its size behind where it starts: where the one in front of *)
(* it ends, rounded up.                                                    *)
LEMMA EndEquation ==
  ASSUME NEW aligns \in Seq(Nat), NEW sizes \in Seq(Nat)
  PROVE  /\ End(aligns, sizes, 0) = 0
         /\ \A i \in 1 .. Len(sizes) :
              End(aligns, sizes, i) = RoundUp(End(aligns, sizes, i - 1), aligns[i]) + sizes[i]
<1> DEFINE p == [aligns |-> aligns, sizes |-> sizes]
<1>1. EndRec!Grows
  BY UpToChain DEF EndRec!Grows
<1>2. EndRec!AsksBelow
  <2> SUFFICES ASSUME NEW q \in [aligns : Seq(Nat), sizes : Seq(Nat)]
               PROVE  /\ \A f, g : \A x \in UpTo(0) : EndDef(f, x, q) = EndDef(g, x, q)
                      /\ \A d \in Nat : \A f, g :
                           (\A y \in UpTo(d) : f[y] = g[y]) =>
                             \A x \in UpTo(d + 1) : EndDef(f, x, q) = EndDef(g, x, q)
    BY DEF EndRec!AsksBelow
  <2>1. \A f, g : \A x \in UpTo(0) : EndDef(f, x, q) = EndDef(g, x, q)
    BY UpToChain DEF EndDef
  <2>2. ASSUME NEW e \in Nat, NEW f, NEW g, \A y \in UpTo(e) : f[y] = g[y], NEW x \in UpTo(e + 1)
        PROVE  EndDef(f, x, q) = EndDef(g, x, q)
    <3>1. CASE x = 0
      BY <3>1 DEF EndDef
    <3>2. CASE x # 0
      <4>1. f[x - 1] = g[x - 1]
        BY <2>2, <3>2, UpToChain
      <4> QED BY <4>1, <3>2 DEF EndDef
    <3> QED BY <3>1, <3>2
  <2> QED BY <2>1, <2>2
<1>3. Len(sizes) \in Nat /\ p \in [aligns : Seq(Nat), sizes : Seq(Nat)]
  OBVIOUS
<1>4. \E f : f = [j \in 0 .. Len(sizes) |-> EndDef(f, j, p)]
  <2> HIDE DEF p
  <2> QED BY <1>1, <1>2, <1>3, EndRec!FunctionExists DEF UpTo
<1> DEFINE f == CHOOSE f : f = [j \in 0 .. Len(sizes) |-> EndDef(f, j, p)]
<1>5. f = [j \in 0 .. Len(sizes) |-> EndDef(f, j, p)]
  BY <1>4, Zenon
<1>6. \A i : End(aligns, sizes, i) = f[i]
  BY DEF End, EndDef
<1>7. \A j \in 0 .. Len(sizes) : f[j] = EndDef(f, j, p)
  <2> HIDE DEF f
  <2> QED BY <1>5
<1> HIDE DEF f
<1>8. f[0] = 0
  BY <1>3, <1>7 DEF EndDef
<1>9. \A i \in 1 .. Len(sizes) : f[i] = RoundUp(f[i - 1], aligns[i]) + sizes[i]
  BY <1>3, <1>7 DEF EndDef
<1> QED BY <1>6, <1>8, <1>9

(* Fields lie in order, each at a multiple of its alignment.               *)
LEMMA EndFacts ==
  ASSUME NEW aligns \in Seq(Nat), NEW sizes \in Seq(Nat), Len(aligns) = Len(sizes),
         \A i \in 1 .. Len(aligns) : aligns[i] # 0
  PROVE  /\ \A i \in 0 .. Len(sizes) : End(aligns, sizes, i) \in Nat
         /\ \A i \in 1 .. Len(sizes) :
              /\ End(aligns, sizes, i - 1) <= End(aligns, sizes, i) - sizes[i]
              /\ End(aligns, sizes, i) - sizes[i] \in Nat
              /\ (End(aligns, sizes, i) - sizes[i]) % aligns[i] = 0
         /\ \A i, j \in 0 .. Len(sizes) :
              i <= j => End(aligns, sizes, i) <= End(aligns, sizes, j)
<1> DEFINE e(i) == End(aligns, sizes, i)
<1>1. /\ Len(sizes) \in Nat
      /\ \A i \in 1 .. Len(sizes) : aligns[i] \in Nat \ {0} /\ sizes[i] \in Nat
  OBVIOUS
<1>2. e(0) = 0 /\ \A i \in 1 .. Len(sizes) : e(i) = RoundUp(e(i - 1), aligns[i]) + sizes[i]
  BY EndEquation
<1> HIDE DEF e
<1>3. \A i \in 0 .. Len(sizes) : e(i) \in Nat
  <2> DEFINE T == {i \in Nat : i <= Len(sizes) => e(i) \in Nat}
  <2>1. 0 \in T
    BY <1>2
  <2>2. ASSUME NEW i \in Nat, i \in T
        PROVE  i + 1 \in T
    <3>1. SUFFICES ASSUME i + 1 <= Len(sizes)
                   PROVE  e(i + 1) \in Nat
      OBVIOUS
    <3>2. e(i) \in Nat /\ i + 1 \in 1 .. Len(sizes) /\ (i + 1) - 1 = i
      BY <2>2, <3>1, <1>1
    <3>3. RoundUp(e(i), aligns[i + 1]) \in Nat
      BY <3>2, <1>1, RoundUpFacts
    <3>4. e(i + 1) = RoundUp(e(i), aligns[i + 1]) + sizes[i + 1]
      BY <3>2, <1>2
    <3> QED BY <1>1, <3>2, <3>3, <3>4
  <2>3. Nat \subseteq T
    <3> HIDE DEF T
    <3> QED BY <2>1, <2>2, SetInduction
  <2> QED BY <2>3
<1>4. ASSUME NEW i \in 1 .. Len(sizes)
      PROVE  e(i - 1) <= e(i) - sizes[i] /\ e(i) - sizes[i] \in Nat
             /\ (e(i) - sizes[i]) % aligns[i] = 0
  <2>1. e(i - 1) \in Nat /\ aligns[i] \in Nat \ {0} /\ sizes[i] \in Nat
    BY <1>1, <1>3
  <2>2. /\ RoundUp(e(i - 1), aligns[i]) \in Nat
        /\ e(i - 1) <= RoundUp(e(i - 1), aligns[i])
        /\ RoundUp(e(i - 1), aligns[i]) % aligns[i] = 0
    BY <2>1, RoundUpFacts
  <2>3. e(i) - sizes[i] = RoundUp(e(i - 1), aligns[i])
    BY <1>2, <2>1, <2>2
  <2> QED BY <2>2, <2>3
<1>5. ASSUME NEW i \in 0 .. Len(sizes), NEW j \in 0 .. Len(sizes), i <= j
      PROVE  e(i) <= e(j)
  <2> DEFINE T == {d \in Nat : i + d <= Len(sizes) => e(i) <= e(i + d)}
  <2>1. 0 \in T
    BY <1>3
  <2>2. ASSUME NEW d \in Nat, d \in T
        PROVE  d + 1 \in T
    <3>1. SUFFICES ASSUME i + (d + 1) <= Len(sizes)
                   PROVE  e(i) <= e(i + (d + 1))
      OBVIOUS
    <3>2. /\ e(i) <= e(i + d) /\ i + (d + 1) \in 1 .. Len(sizes) /\ (i + (d + 1)) - 1 = i + d
          /\ i + d \in 0 .. Len(sizes) /\ i + (d + 1) \in 0 .. Len(sizes)
      BY <2>2, <3>1, <1>1
    <3>3. e(i + d) <= e(i + (d + 1)) - sizes[i + (d + 1)] /\ sizes[i + (d + 1)] \in Nat
      BY <1>1, <1>4, <3>2
    <3>4. e(i) \in Nat /\ e(i + d) \in Nat /\ e(i + (d + 1)) \in Nat
      BY <1>3, <3>2
    <3>5. \A a, b, c, s \in Nat : a <= b /\ b <= c - s => a <= c
      OBVIOUS
    <3> QED BY <3>2, <3>3, <3>4, <3>5
  <2>3. Nat \subseteq T
    <3> HIDE DEF T
    <3> QED BY <2>1, <2>2, SetInduction
  <2>4. j - i \in Nat /\ i + (j - i) = j /\ i + (j - i) <= Len(sizes)
    BY <1>1, <1>5
  <2>5. j - i \in T
    BY <2>3, <2>4
  <2> QED BY <2>4, <2>5
<1> QED BY <1>3, <1>4, <1>5 DEF e

(* The lists of the alignments and sizes of the fields.                    *)
LEMMA FieldLists ==
  ASSUME NEW t, IsStructOf(t, Type), \A i \in 1 .. Len(t.fields) : AllocSize(t.fields[i]) \in Nat
  PROVE  /\ Aligns(t) \in Seq(Nat) /\ Sizes(t) \in Seq(Nat)
         /\ Len(Aligns(t)) = Len(t.fields) /\ Len(Sizes(t)) = Len(t.fields)
         /\ Len(t.fields) \in Nat \ {0}
         /\ \A i \in 1 .. Len(t.fields) :
              /\ Aligns(t)[i] = Align(t.fields[i]) /\ Sizes(t)[i] = AllocSize(t.fields[i])
              /\ Align(t.fields[i]) \in Nat \ {0}
<1>1. /\ Len(t.fields) \in Nat \ {0} /\ DOMAIN t.fields = 1 .. Len(t.fields)
      /\ \A i \in 1 .. Len(t.fields) : t.fields[i] \in Type
  BY DEF IsStructOf
<1>2. \A i \in 1 .. Len(t.fields) : Align(t.fields[i]) \in Nat \ {0}
  BY <1>1, AlignFacts
<1>3. Aligns(t) \in [1 .. Len(t.fields) -> Nat]
  BY <1>1, <1>2 DEF Aligns
<1>4. Sizes(t) \in [1 .. Len(t.fields) -> Nat]
  BY <1>1 DEF Sizes
<1>5. Aligns(t) \in Seq(Nat) /\ Len(Aligns(t)) = Len(t.fields)
  <2>1. \A n \in Nat : \A a \in [1 .. n -> Nat] : a \in Seq(Nat) /\ Len(a) = n
    OBVIOUS
  <2> QED BY <2>1, <1>1, <1>3
<1>6. Sizes(t) \in Seq(Nat) /\ Len(Sizes(t)) = Len(t.fields)
  <2>1. \A n \in Nat : \A a \in [1 .. n -> Nat] : a \in Seq(Nat) /\ Len(a) = n
    OBVIOUS
  <2> QED BY <2>1, <1>1, <1>4
<1> QED BY <1>1, <1>2, <1>5, <1>6 DEF Aligns, Sizes

(* Where the fields of a struct end, behind the last one.                  *)
LEMMA FieldEnds ==
  ASSUME NEW t, IsStructOf(t, Type),
         \A i \in 1 .. Len(t.fields) : AllocSize(t.fields[i]) \in Nat \ {0}
  PROVE  LET n == Len(t.fields)
             e == End(Aligns(t), Sizes(t), n)
         IN  /\ Sizes(t) \in Seq(Nat) /\ Len(Sizes(t)) = n /\ n \in Nat \ {0}
             /\ Sizes(t)[n] \in Nat \ {0} /\ e \in Nat /\ e - Sizes(t)[n] \in Nat
<1>1. \A i \in 1 .. Len(t.fields) : AllocSize(t.fields[i]) \in Nat
  OBVIOUS
<1>2. /\ Aligns(t) \in Seq(Nat) /\ Sizes(t) \in Seq(Nat)
      /\ Len(Aligns(t)) = Len(t.fields) /\ Len(Sizes(t)) = Len(t.fields)
      /\ Len(t.fields) \in Nat \ {0}
      /\ \A i \in 1 .. Len(t.fields) :
           /\ Aligns(t)[i] = Align(t.fields[i]) /\ Sizes(t)[i] = AllocSize(t.fields[i])
           /\ Align(t.fields[i]) \in Nat \ {0}
  BY <1>1, FieldLists
<1> DEFINE A == Aligns(t)
           S == Sizes(t)
           n == Len(t.fields)
<1>3. /\ A \in Seq(Nat) /\ S \in Seq(Nat) /\ Len(A) = Len(S) /\ Len(S) = n /\ n \in Nat \ {0}
      /\ n \in 0 .. Len(S) /\ n \in 1 .. Len(S)
  BY <1>2
<1>4. \A i \in 1 .. Len(A) : A[i] # 0
  BY <1>2
<1>5. S[n] \in Nat \ {0}
  BY <1>2, <1>3
<1> HIDE DEF A, S, n
<1>6. \A i \in 0 .. Len(S) : End(A, S, i) \in Nat
  BY <1>3, <1>4, EndFacts
<1>7. \A i \in 1 .. Len(S) : End(A, S, i) - S[i] \in Nat
  BY <1>3, <1>4, EndFacts
<1>8. End(A, S, n) \in Nat /\ End(A, S, n) - S[n] \in Nat
  BY <1>3, <1>6, <1>7
<1> QED BY <1>3, <1>5, <1>8 DEF A, S, n

(* Every type has room, in multiples of its alignment.                     *)
LEMMA SizeFacts ==
  ASSUME NEW t \in Type
  PROVE  AllocSize(t) \in Nat \ {0} /\ AllocSize(t) % Align(t) = 0
<1> DEFINE T == {u \in Type : AllocSize(u) \in Nat \ {0} /\ AllocSize(u) % Align(u) = 0}
<1>1. ASSUME NEW u \in Type, IsInt(u)
      PROVE  u \in T
  <2>1. AllocSize(u) = u.bytes /\ Align(u) = u.bytes /\ u.bytes \in Nat \ {0}
    BY <1>1, SizeEquation, AlignEquation, BytesAssumption DEF IsInt
  <2>2. \A b \in Nat \ {0} : b % b = 0
    OBVIOUS
  <2> QED BY <2>1, <2>2
<1>2. ASSUME NEW u \in Type, IsArrayOf(u, Type), u.elem \in T
      PROVE  u \in T
  <2>1. /\ AllocSize(u) = u.num * AllocSize(u.elem) /\ Align(u) = Align(u.elem)
        /\ u.num \in Nat \ {0} /\ Align(u) \in Nat \ {0}
    BY <1>2, SizeEquation, AlignFacts DEF IsArrayOf
  <2>2. AllocSize(u.elem) \in Nat \ {0} /\ AllocSize(u.elem) % Align(u.elem) = 0
    BY <1>2
  <2>3. \A a, b \in Nat \ {0} : a * b \in Nat \ {0}
    OBVIOUS
  <2>4. AllocSize(u) \in Nat \ {0}
    BY <2>1, <2>2, <2>3
  <2>5. (u.num * AllocSize(u.elem)) % Align(u.elem) = 0
    BY <2>1, <2>2, MultiplesTimes
  <2> QED BY <2>1, <2>4, <2>5
<1>3. ASSUME NEW u \in Type, IsStructOf(u, Type), \A i \in 1 .. Len(u.fields) : u.fields[i] \in T
      PROVE  u \in T
  <2> DEFINE n == Len(u.fields)
             e == End(Aligns(u), Sizes(u), n)
             a == Align(u)
  <2>1. \A i \in 1 .. Len(u.fields) : AllocSize(u.fields[i]) \in Nat \ {0}
    BY <1>3
  <2>2. /\ Sizes(u) \in Seq(Nat) /\ Len(Sizes(u)) = n /\ n \in Nat \ {0}
        /\ Sizes(u)[n] \in Nat \ {0} /\ e \in Nat /\ e - Sizes(u)[n] \in Nat
    BY <1>3, <2>1, FieldEnds
  <2>3. e > 0
    BY <2>2
  <2>4. a \in Nat \ {0} /\ AllocSize(u) = RoundUp(e, a)
    BY <1>3, <2>2, SizeEquation, AlignFacts
  <2> HIDE DEF e, a, n
  <2>5. RoundUp(e, a) \in Nat /\ e <= RoundUp(e, a) /\ RoundUp(e, a) % a = 0
    BY <2>2, <2>4, RoundUpFacts
  <2>6. AllocSize(u) \in Nat \ {0} /\ AllocSize(u) % a = 0
    BY <2>2, <2>3, <2>4, <2>5
  <2> QED BY <2>6 DEF a
<1>4. Type \subseteq T
  <2> HIDE DEF T
  <2> QED BY <1>1, <1>2, <1>3, TypeInduction
<1> QED BY <1>4

(* The fields of a struct lie in it, in order, each where it is aligned,   *)
(* the first one at its start.                                             *)
LEMMA OffsetFacts ==
  ASSUME NEW t \in Type, IsStructOf(t, Type), NEW k \in 0 .. Len(t.fields) - 1
  PROVE  /\ Offset(t, k) \in Nat
         /\ Offset(t, k) % Align(t.fields[k + 1]) = 0
         /\ Offset(t, k) + AllocSize(t.fields[k + 1]) <= AllocSize(t)
         /\ \A l \in 0 .. Len(t.fields) - 1 :
              k < l => Offset(t, k) + AllocSize(t.fields[k + 1]) <= Offset(t, l)
         /\ Offset(t, 0) = 0
<1> DEFINE n == Len(t.fields)
           e(i) == End(Aligns(t), Sizes(t), i)
<1>1. \A i \in 1 .. n : AllocSize(t.fields[i]) \in Nat \ {0}
  BY SizeFacts DEF IsStructOf
<1>2. /\ Aligns(t) \in Seq(Nat) /\ Sizes(t) \in Seq(Nat)
      /\ Len(Aligns(t)) = n /\ Len(Sizes(t)) = n /\ n \in Nat \ {0}
      /\ \A i \in 1 .. n : Aligns(t)[i] = Align(t.fields[i]) /\ Sizes(t)[i] = AllocSize(t.fields[i])
      /\ \A i \in 1 .. n : Align(t.fields[i]) \in Nat \ {0}
  BY <1>1, FieldLists
<1>3. /\ \A i \in 0 .. n : e(i) \in Nat
      /\ \A i \in 1 .. n : /\ e(i - 1) <= e(i) - Sizes(t)[i] /\ e(i) - Sizes(t)[i] \in Nat
                           /\ (e(i) - Sizes(t)[i]) % Aligns(t)[i] = 0
      /\ \A i, j \in 0 .. n : i <= j => e(i) <= e(j)
  BY <1>2, EndFacts
<1>4. AllocSize(t) = RoundUp(e(n), Align(t)) /\ Align(t) \in Nat \ {0}
  BY <1>2, SizeEquation, AlignFacts
<1>5. e(n) <= AllocSize(t) /\ e(n) \in Nat /\ AllocSize(t) \in Nat
  BY <1>2, <1>3, <1>4, RoundUpFacts
<1>6. e(0) = 0 /\ e(1) = RoundUp(e(0), Aligns(t)[1]) + Sizes(t)[1]
  BY <1>2, EndEquation
<1>7. \A l : Offset(t, l) = e(l + 1) - AllocSize(t.fields[l + 1])
  BY DEF Offset
<1> HIDE DEF e
<1>8. \A l \in 0 .. n - 1 : /\ l + 1 \in 1 .. n /\ (l + 1) - 1 = l /\ l \in 0 .. n
                            /\ l + 1 \in 0 .. n /\ n \in 0 .. n
  BY <1>2
<1>9. \A l \in 0 .. n - 1 : /\ Offset(t, l) = e(l + 1) - Sizes(t)[l + 1]
                            /\ Sizes(t)[l + 1] = AllocSize(t.fields[l + 1])
  BY <1>2, <1>7, <1>8
<1>10. Offset(t, k) \in Nat /\ Offset(t, k) % Align(t.fields[k + 1]) = 0
  BY <1>2, <1>3, <1>8, <1>9
<1>11. Offset(t, k) + AllocSize(t.fields[k + 1]) = e(k + 1)
  BY <1>1, <1>3, <1>7, <1>8
<1>12. Offset(t, k) + AllocSize(t.fields[k + 1]) <= AllocSize(t)
  <2>1. e(k + 1) <= e(n) /\ e(k + 1) \in Nat
    BY <1>2, <1>3, <1>8
  <2> QED BY <1>5, <1>11, <2>1
<1>13. ASSUME NEW l \in 0 .. n - 1, k < l
       PROVE  Offset(t, k) + AllocSize(t.fields[k + 1]) <= Offset(t, l)
  <2>1. k + 1 \in 0 .. n /\ l \in 0 .. n /\ l + 1 \in 1 .. n /\ (l + 1) - 1 = l /\ k + 1 <= l
    BY <1>2, <1>13
  <2>2. e(k + 1) <= e(l) /\ e(k + 1) \in Nat /\ e(l) \in Nat
    BY <1>3, <2>1
  <2>3. e((l + 1) - 1) <= e(l + 1) - Sizes(t)[l + 1] /\ e(l + 1) - Sizes(t)[l + 1] \in Nat
    BY <1>3, <2>1
  <2>4. e(l) <= Offset(t, l) /\ Offset(t, l) \in Nat
    BY <1>9, <2>1, <2>3
  <2> QED BY <1>11, <2>2, <2>4
<1>14. Offset(t, 0) = 0
  <2>1. 0 \in 0 .. n - 1 /\ 1 \in 1 .. n /\ 0 + 1 = 1
    BY <1>2
  <2>2. Aligns(t)[1] \in Nat \ {0} /\ Sizes(t)[1] \in Nat
    BY <1>2, <2>1
  <2>3. RoundUp(0, Aligns(t)[1]) = 0
    <3>1. /\ RoundUp(0, Aligns(t)[1]) \in Nat /\ RoundUp(0, Aligns(t)[1]) < 0 + Aligns(t)[1]
          /\ RoundUp(0, Aligns(t)[1]) % Aligns(t)[1] = 0
      BY <2>2, RoundUpFacts
    <3>2. \A a \in Nat \ {0}, b \in Nat : b < a /\ b % a = 0 => b = 0
      OBVIOUS
    <3> QED BY <3>1, <3>2, <2>2
  <2>4. e(1) = Sizes(t)[1]
    BY <1>6, <2>2, <2>3
  <2> QED BY <1>9, <2>1, <2>2, <2>4
<1> QED BY <1>10, <1>12, <1>13, <1>14

(* The parts of a type.                                                    *)
LEMMA PartFacts ==
  ASSUME NEW t \in Type, NEW k \in Indices(t)
  PROVE  /\ k \in Nat /\ Part(t, k) \in Type /\ PartAt(t, k) \in Nat
         /\ PartAt(t, k) + AllocSize(Part(t, k)) <= AllocSize(t)
         /\ \A l \in Indices(t) : k < l => PartAt(t, k) + AllocSize(Part(t, k)) <= PartAt(t, l)
         /\ PartAt(t, k) % Align(Part(t, k)) = 0
         /\ Align(t) % Align(Part(t, k)) = 0
<1>1. CASE IsInt(t)
  BY <1>1 DEF IsInt, Indices
<1>2. CASE IsArrayOf(t, Type)
  <2> DEFINE s == AllocSize(t.elem)
  <2>1. /\ Indices(t) = 0 .. t.num - 1 /\ t.num \in Nat \ {0} /\ t.elem \in Type
        /\ \A l : Part(t, l) = t.elem /\ PartAt(t, l) = l * s
    BY <1>2 DEF IsArrayOf, Indices, Part, PartAt
  <2>2. s \in Nat \ {0} /\ s % Align(t.elem) = 0 /\ Align(t.elem) \in Nat \ {0}
    BY <2>1, SizeFacts, AlignFacts
  <2>3. AllocSize(t) = t.num * s /\ Align(t) = Align(t.elem)
    BY <1>2, SizeEquation, AlignEquation
  <2> HIDE DEF s
  <2>4. k * s \in Nat /\ (k * s) % Align(t.elem) = 0
    BY <2>1, <2>2, MultiplesTimes
  <2>5. k \in Nat /\ k * s + s <= t.num * s
    BY <2>1, <2>2, Products
  <2>6. \A l \in Indices(t) : k < l => k * s + s <= l * s
    BY <2>1, <2>2, Products
  <2>7. \A b \in Nat \ {0} : b % b = 0
    OBVIOUS
  <2> QED BY <2>1, <2>2, <2>3, <2>4, <2>5, <2>6, <2>7 DEF s
<1>3. CASE IsStructOf(t, Type)
  <2>1. /\ Indices(t) = 0 .. Len(t.fields) - 1 /\ Len(t.fields) \in Nat \ {0}
        /\ \A l : Part(t, l) = t.fields[l + 1] /\ PartAt(t, l) = Offset(t, l)
        /\ \A i \in 1 .. Len(t.fields) : t.fields[i] \in Type
    BY <1>3 DEF IsStructOf, Indices, Part, PartAt
  <2>2. k \in Nat /\ k + 1 \in 1 .. Len(t.fields)
    BY <2>1
  <2>3. Align(t) % Align(t.fields[k + 1]) = 0
    BY <1>3, <2>2, AlignFacts
  <2> QED BY <1>3, <2>1, <2>2, <2>3, OffsetFacts
<1> QED BY <1>1, <1>2, <1>3, TypeKinds

-----------------------------------------------------------------------------
(* Inflation                                                               *)

(* The types whose inflation is a type.                                    *)
Inflatable == TypesUpTo(Depth - 1)

(* The index in the inflated type of a part of the type.                   *)
Index(t, k) == IF t.kind = "array" THEN k ELSE 2 * k + 1

(* A redzone is a type of RZ bytes.                                        *)
LEMMA RedzoneFacts ==
  /\ Redzone \in TypesUpTo(1) /\ Redzone \in Type /\ Redzone.kind = "array"
  /\ AllocSize(Redzone) = RZ
<1>1. IntType(1) \in TypesUpTo(0)
  BY TypesEquation, KindsAreTypes, BytesAssumption
<1>2. Redzone \in TypesUpTo(0 + 1)
  BY <1>1, TypesEquation, KindsAreTypes, RedzoneAssumption DEF Redzone
<1>3. TypesUpTo(1) \subseteq Type /\ TypesUpTo(0) \subseteq Type
  BY FewLevels, DepthAssumption
<1>4. IsArrayOf(Redzone, Type)
  BY <1>1, <1>3, RedzoneAssumption DEF IsArrayOf, Redzone, ArrayType
<1>5. IsInt(IntType(1))
  BY BytesAssumption DEF IsInt, IntType
<1>6. AllocSize(Redzone) = RZ * AllocSize(IntType(1)) /\ AllocSize(IntType(1)) = 1
  <2>1. Redzone.num = RZ /\ Redzone.elem = IntType(1) /\ IntType(1).bytes = 1
    BY DEF Redzone, ArrayType, IntType
  <2> QED BY <1>1, <1>2, <1>3, <1>4, <1>5, <2>1, SizeEquation
<1> QED BY <1>2, <1>3, <1>4, <1>6, RedzoneAssumption DEF IsArrayOf

(* An inflated struct has its fields at the odd indices.                   *)
LEMMA InflatedFields ==
  ASSUME NEW t \in Type, IsStructOf(t, Type)
  PROVE  /\ Inflate(t).kind = "struct" /\ Inflate(t) = StructType(Inflate(t).fields)
         /\ Len(Inflate(t).fields) = 2 * Len(t.fields) + 1
         /\ DOMAIN Inflate(t).fields = 1 .. 2 * Len(t.fields) + 1
         /\ \A i \in 1 .. 2 * Len(t.fields) + 1 :
              Inflate(t).fields[i] = IF i % 2 = 1 THEN Redzone ELSE Inflate(t.fields[i \div 2])
         /\ Inflate(t).fields = [i \in 1 .. 2 * Len(t.fields) + 1 |-> Inflate(t).fields[i]]
<1> DEFINE fs == [i \in 1 .. 2 * Len(t.fields) + 1 |->
                    IF i % 2 = 1 THEN Redzone ELSE Inflate(t.fields[i \div 2])]
<1>1. Inflate(t) = StructType(fs)
  BY InflateEquation
<1>2. Len(t.fields) \in Nat
  BY DEF IsStructOf
<1>3. /\ DOMAIN fs = 1 .. 2 * Len(t.fields) + 1
      /\ \A i \in 1 .. 2 * Len(t.fields) + 1 :
           fs[i] = IF i % 2 = 1 THEN Redzone ELSE Inflate(t.fields[i \div 2])
      /\ fs = [i \in 1 .. 2 * Len(t.fields) + 1 |-> fs[i]]
  OBVIOUS
<1> HIDE DEF fs
<1>4. Len(fs) = 2 * Len(t.fields) + 1
  BY <1>2, <1>3
<1>5. Inflate(t).kind = "struct" /\ Inflate(t).fields = fs
  BY <1>1 DEF StructType
<1> QED BY <1>1, <1>3, <1>4, <1>5

(* Inflation adds at most one level.                                       *)
LEMMA InflateLevel ==
  \A d \in Nat : d + 1 <= Depth => \A t \in TypesUpTo(d) : Inflate(t) \in TypesUpTo(d + 1)
<1> DEFINE T == {d \in Nat : d + 1 <= Depth =>
                               \A t \in TypesUpTo(d) : Inflate(t) \in TypesUpTo(d + 1)}
<1>1. 0 \in T
  <2> SUFFICES ASSUME NEW t \in TypesUpTo(0)
               PROVE  Inflate(t) \in TypesUpTo(0 + 1)
    OBVIOUS
  <2>1. IsInt(t) /\ t \in Type
    BY TypeKinds, FewLevels, DepthAssumption
  <2> QED BY <2>1, InflateEquation, TypesGrow
<1>2. ASSUME NEW d \in Nat, d \in T
      PROVE  d + 1 \in T
  <2> SUFFICES ASSUME (d + 1) + 1 <= Depth, NEW t \in TypesUpTo(d + 1)
               PROVE  Inflate(t) \in TypesUpTo((d + 1) + 1)
    OBVIOUS
  <2>1. /\ d + 1 \in Nat /\ d + 1 <= Depth
        /\ TypesUpTo(d) \subseteq Type /\ t \in Type
        /\ TypesUpTo((d + 1) + 1) = TypesOver(TypesUpTo(d + 1))
    BY FewLevels, TypesEquation, DepthAssumption
  <2>2. \A u \in TypesUpTo(d) : Inflate(u) \in TypesUpTo(d + 1)
    BY <1>2, <2>1
  <2>3. CASE IsInt(t)
    BY <2>1, <2>3, InflateEquation, TypesGrow
  <2>4. CASE IsArrayOf(t, TypesUpTo(d))
    <3>1. IsArrayOf(t, Type) /\ t.num \in Nat \ {0} /\ Inflate(t.elem) \in TypesUpTo(d + 1)
      BY <2>1, <2>2, <2>4 DEF IsArrayOf
    <3>2. Inflate(t) = ArrayType(t.num, Inflate(t.elem))
      BY <2>1, <3>1, InflateEquation
    <3>3. ArrayType(t.num, Inflate(t.elem)) \in TypesOver(TypesUpTo(d + 1))
      BY <3>1, KindsAreTypes
    <3> QED BY <2>1, <3>2, <3>3
  <2>5. CASE IsStructOf(t, TypesUpTo(d))
    <3>1. IsStructOf(t, Type)
      BY <2>1, <2>5 DEF IsStructOf
    <3> DEFINE fs == Inflate(t).fields
               n == 2 * Len(t.fields) + 1
    <3>2. Redzone \in TypesUpTo(d + 1)
      <4>1. 1 <= d + 1
        OBVIOUS
      <4> QED BY <4>1, <2>1, RedzoneFacts, TypesMonotone
    <3>3. \A i \in 1 .. n : fs[i] \in TypesUpTo(d + 1)
      <4> TAKE i \in 1 .. n
      <4>1. CASE i % 2 = 1
        BY <2>1, <4>1, <3>1, <3>2, InflatedFields
      <4>2. CASE i % 2 # 1
        <5>1. i \div 2 \in 1 .. Len(t.fields)
          BY <4>2, <3>1, Halves DEF IsStructOf
        <5>2. t.fields[i \div 2] \in TypesUpTo(d)
          BY <5>1, <2>5 DEF IsStructOf
        <5> QED BY <2>1, <4>2, <5>2, <2>2, <3>1, InflatedFields
      <4> QED BY <4>1, <4>2
    <3>4. n \in Nat \ {0} /\ DOMAIN fs = 1 .. n /\ Inflate(t) = StructType(fs)
          /\ fs = [i \in 1 .. n |-> fs[i]]
      <4>1. n \in Nat \ {0}
        BY <3>1 DEF IsStructOf
      <4>2. Inflate(t) = StructType(fs) /\ DOMAIN fs = 1 .. n /\ fs = [i \in 1 .. n |-> fs[i]]
        BY <2>1, <3>1, InflatedFields
      <4> QED BY <4>1, <4>2
    <3> HIDE DEF fs, n
    <3>5. fs \in [1 .. n -> TypesUpTo(d + 1)]
      BY <3>3, <3>4
    <3>6. fs \in Seq(TypesUpTo(d + 1))
      BY <3>4, <3>5
    <3>7. fs # <<>>
      BY <3>4
    <3> QED BY <2>1, <3>4, <3>6, <3>7, KindsAreTypes
  <2> QED BY <2>3, <2>4, <2>5, TypeKinds
<1>3. Nat \subseteq T
  <2> HIDE DEF T
  <2> QED BY <1>1, <1>2, SetInduction
<1> QED BY <1>3

(* The parts of an inflatable type are inflatable; it is a type, and its   *)
(* inflation is one.                                                       *)
LEMMA InflatableFacts ==
  /\ Inflatable \subseteq Type
  /\ \A t \in Inflatable :
       /\ Inflate(t) \in Type
       /\ IsInt(t) \/ IsArrayOf(t, Inflatable) \/ IsStructOf(t, Inflatable)
       /\ IsArrayOf(t, Inflatable) => IsArrayOf(t, Type)
       /\ IsStructOf(t, Inflatable) => IsStructOf(t, Type)
<1>1. Depth - 1 \in Nat /\ (Depth - 1) + 1 <= Depth /\ Depth - 1 <= Depth /\ (Depth - 1) + 1 = Depth
  BY DepthAssumption
<1>2. Inflatable \subseteq Type
  BY <1>1, FewLevels DEF Inflatable
<1>3. \A t \in Inflatable : Inflate(t) \in Type
  BY <1>1, InflateLevel DEF Inflatable, Type
<1>4. PICK e \in Nat : Depth - 1 = e + 1
  <2>1. Depth - 2 \in Nat /\ Depth - 1 = (Depth - 2) + 1
    BY DepthAssumption
  <2> QED BY <2>1
<1>5. TypesUpTo(e) \subseteq Inflatable
  BY <1>1, <1>4, TypesGrow DEF Inflatable
<1>6. ASSUME NEW t \in Inflatable
      PROVE  IsInt(t) \/ IsArrayOf(t, Inflatable) \/ IsStructOf(t, Inflatable)
  <2>1. IsInt(t) \/ IsArrayOf(t, TypesUpTo(e)) \/ IsStructOf(t, TypesUpTo(e))
    BY <1>4, TypeKinds DEF Inflatable
  <2>2. IsArrayOf(t, TypesUpTo(e)) => IsArrayOf(t, Inflatable)
    BY <1>5 DEF IsArrayOf
  <2>3. IsStructOf(t, TypesUpTo(e)) => IsStructOf(t, Inflatable)
    BY <1>5 DEF IsStructOf
  <2> QED BY <2>1, <2>2, <2>3
<1>7. \A t \in Inflatable : /\ IsArrayOf(t, Inflatable) => IsArrayOf(t, Type)
                            /\ IsStructOf(t, Inflatable) => IsStructOf(t, Type)
  BY <1>2 DEF IsArrayOf, IsStructOf
<1> QED BY <1>2, <1>3, <1>6, <1>7

(* Inflation and taking a part commute, and what is no part is a redzone.  *)
LEMMA InflatedParts ==
  ASSUME NEW t \in Inflatable
  PROVE  /\ Inflate(t).kind = t.kind
         /\ \A k \in Indices(t) :
              /\ k \in Nat /\ Part(t, k) \in Inflatable
              /\ Index(t, k) \in Indices(Inflate(t))
              /\ Part(Inflate(t), Index(t, k)) = Inflate(Part(t, k))
         /\ t.kind = "struct" =>
              /\ IsStructOf(Inflate(t), Type)
              /\ Len(Inflate(t).fields) = 2 * Len(t.fields) + 1
              /\ redzone_offsets(Inflate(t)) = {2 * i : i \in 0 .. Len(t.fields)}
              /\ \A y \in redzone_offsets(Inflate(t)) :
                   y \in Indices(Inflate(t)) /\ Part(Inflate(t), y) = Redzone
              /\ \A k \in Indices(t) : Index(t, k) \notin redzone_offsets(Inflate(t))
<1>1. CASE IsInt(t)
  <2>1. t.kind = "int" /\ Indices(t) = {}
    BY <1>1 DEF IsInt, Indices
  <2> QED BY <1>1, <2>1, InflateEquation, InflatableFacts
<1>2. CASE IsArrayOf(t, Inflatable)
  <2>1. Inflate(t) = ArrayType(t.num, Inflate(t.elem))
    BY <1>2, InflateEquation, InflatableFacts
  <2>2. Inflate(t).kind = "array" /\ Inflate(t).num = t.num /\ Inflate(t).elem = Inflate(t.elem)
        /\ t.kind = "array"
    BY <1>2, <2>1 DEF ArrayType, IsArrayOf
  <2> QED BY <1>2, <2>2 DEF IsArrayOf, Indices, Part, Index
<1>3. CASE IsStructOf(t, Inflatable)
  <2> DEFINE n == Len(t.fields)
             u == Inflate(t)
  <2>1. t \in Type /\ IsStructOf(t, Type) /\ u \in Type /\ t.kind = "struct"
        /\ n \in Nat \ {0} /\ \A i \in 1 .. n : t.fields[i] \in Inflatable
    BY <1>3, InflatableFacts DEF IsStructOf
  <2>2. /\ u.kind = "struct" /\ Len(u.fields) = 2 * n + 1
        /\ \A i \in 1 .. 2 * n + 1 :
             u.fields[i] = IF i % 2 = 1 THEN Redzone ELSE Inflate(t.fields[i \div 2])
    BY <2>1, InflatedFields
  <2>3. IsStructOf(u, Type)
    BY <2>1, <2>2, TypeKinds DEF IsInt, IsArrayOf
  <2>4. Indices(t) = 0 .. n - 1 /\ Indices(u) = 0 .. 2 * n
    BY <2>1, <2>2 DEF Indices
  <2> HIDE DEF u, n
  <2>5. ASSUME NEW k \in Indices(t)
        PROVE  /\ k \in Nat /\ Part(t, k) \in Inflatable
               /\ Index(t, k) \in Indices(u)
               /\ Part(u, Index(t, k)) = Inflate(Part(t, k))
               /\ Index(t, k) \notin redzone_offsets(u)
    <3>1. k \in Nat /\ k + 1 \in 1 .. n /\ Index(t, k) = 2 * k + 1
      BY <2>1, <2>4 DEF Index
    <3>2. 2 * k + 1 \in 0 .. 2 * n /\ 2 * k + 2 \in 1 .. 2 * n + 1 /\ (2 * k + 1) + 1 = 2 * k + 2
          /\ (2 * k + 2) % 2 # 1 /\ (2 * k + 2) \div 2 = k + 1 /\ (2 * k + 1) % 2 # 0
      BY <2>1, <2>4
    <3>3. Part(t, k) = t.fields[k + 1] /\ Part(u, 2 * k + 1) = u.fields[2 * k + 2]
      BY <2>1, <2>2, <3>2 DEF Part
    <3>4. u.fields[2 * k + 2] = Inflate(t.fields[k + 1])
      BY <2>2, <3>2
    <3>5. 2 * k + 1 \notin redzone_offsets(u)
      BY <3>2 DEF redzone_offsets
    <3> QED BY <2>1, <2>4, <3>1, <3>2, <3>3, <3>4, <3>5
  <2>6. redzone_offsets(u) = {2 * i : i \in 0 .. n}
    <3>1. redzone_offsets(u) = {i \in 0 .. 2 * n : i % 2 = 0}
      BY <2>1, <2>2 DEF redzone_offsets
    <3>2. ASSUME NEW i \in 0 .. 2 * n, i % 2 = 0
          PROVE  i \in {2 * j : j \in 0 .. n}
      <4>1. i \div 2 \in 0 .. n /\ i = 2 * (i \div 2)
        BY <2>1, <3>2
      <4> QED BY <4>1
    <3>3. \A j \in 0 .. n : 2 * j \in 0 .. 2 * n /\ (2 * j) % 2 = 0
      BY <2>1
    <3> QED BY <3>1, <3>2, <3>3
  <2>7. ASSUME NEW y \in redzone_offsets(u)
        PROVE  y \in Indices(u) /\ Part(u, y) = Redzone
    <3>1. y \in 0 .. 2 * n /\ y % 2 = 0
      BY <2>1, <2>2 DEF redzone_offsets
    <3>2. y + 1 \in 1 .. 2 * n + 1 /\ (y + 1) % 2 = 1
      BY <2>1, <3>1
    <3> QED BY <2>2, <2>4, <3>1, <3>2 DEF Part
  <2> QED BY <2>1, <2>2, <2>3, <2>5, <2>6, <2>7 DEF u, n
<1> QED BY <1>1, <1>2, <1>3, InflatableFacts

-----------------------------------------------------------------------------
(* Paths of indices                                                        *)

Walks == [type : Type, path : Seq(Nat)]

TypesOnDef(f, i, w) == IF i = 0 THEN w.type ELSE Part(f[i - 1], w.path[i])

TypesOnRec == INSTANCE Recursion WITH Level <- UpTo, Par <- Walks, Def <- TypesOnDef

(* Every index of a path leads from a type to one of its parts.            *)
LEMMA TypesOnEquation ==
  ASSUME NEW t \in Type, NEW p \in Seq(Nat)
  PROVE  /\ TypesOn(t, p)[0] = t
         /\ \A i \in 1 .. Len(p) : TypesOn(t, p)[i] = Part(TypesOn(t, p)[i - 1], p[i])
<1> DEFINE w == [type |-> t, path |-> p]
<1>1. TypesOnRec!Grows
  BY UpToChain DEF TypesOnRec!Grows
<1>2. TypesOnRec!AsksBelow
  <2> SUFFICES ASSUME NEW q \in Walks
               PROVE  /\ \A f, g : \A x \in UpTo(0) : TypesOnDef(f, x, q) = TypesOnDef(g, x, q)
                      /\ \A d \in Nat : \A f, g :
                           (\A y \in UpTo(d) : f[y] = g[y]) =>
                             \A x \in UpTo(d + 1) : TypesOnDef(f, x, q) = TypesOnDef(g, x, q)
    BY DEF TypesOnRec!AsksBelow
  <2>1. \A f, g : \A x \in UpTo(0) : TypesOnDef(f, x, q) = TypesOnDef(g, x, q)
    BY UpToChain DEF TypesOnDef
  <2>2. ASSUME NEW e \in Nat, NEW f, NEW g, \A y \in UpTo(e) : f[y] = g[y], NEW x \in UpTo(e + 1)
        PROVE  TypesOnDef(f, x, q) = TypesOnDef(g, x, q)
    <3>1. CASE x = 0
      BY <3>1 DEF TypesOnDef
    <3>2. CASE x # 0
      <4>1. f[x - 1] = g[x - 1]
        BY <2>2, <3>2, UpToChain
      <4> QED BY <4>1, <3>2 DEF TypesOnDef
    <3> QED BY <3>1, <3>2
  <2> QED BY <2>1, <2>2
<1>3. Len(p) \in Nat /\ w \in Walks
  BY DEF Walks
<1>4. \E f : f = [i \in 0 .. Len(p) |-> TypesOnDef(f, i, w)]
  <2> HIDE DEF w
  <2> QED BY <1>1, <1>2, <1>3, TypesOnRec!FunctionExists DEF UpTo
<1> DEFINE f == CHOOSE f : f = [i \in 0 .. Len(p) |-> TypesOnDef(f, i, w)]
<1>5. f = [i \in 0 .. Len(p) |-> TypesOnDef(f, i, w)]
  BY <1>4, Zenon
<1>6. TypesOn(t, p) = f
  BY DEF TypesOn, TypesOnDef
<1>7. \A i \in 0 .. Len(p) : f[i] = TypesOnDef(f, i, w)
  <2> HIDE DEF f
  <2> QED BY <1>5
<1> HIDE DEF f
<1>8. f[0] = t
  BY <1>3, <1>7 DEF TypesOnDef
<1>9. \A i \in 1 .. Len(p) : f[i] = Part(f[i - 1], p[i])
  BY <1>3, <1>7 DEF TypesOnDef
<1> QED BY <1>6, <1>8, <1>9

OffsetsOnDef(f, i, w) ==
  IF i = 0 THEN 0 ELSE f[i - 1] + PartAt(TypesOn(w.type, w.path)[i - 1], w.path[i])

OffsetsOnRec == INSTANCE Recursion WITH Level <- UpTo, Par <- Walks, Def <- OffsetsOnDef

(* And by the offset of that part.                                         *)
LEMMA OffsetsOnEquation ==
  ASSUME NEW t \in Type, NEW p \in Seq(Nat)
  PROVE  /\ OffsetsOn(t, p)[0] = 0
         /\ \A i \in 1 .. Len(p) :
              OffsetsOn(t, p)[i] = OffsetsOn(t, p)[i - 1] + PartAt(TypesOn(t, p)[i - 1], p[i])
<1> DEFINE w == [type |-> t, path |-> p]
<1>1. OffsetsOnRec!Grows
  BY UpToChain DEF OffsetsOnRec!Grows
<1>2. OffsetsOnRec!AsksBelow
  <2> SUFFICES ASSUME NEW q \in Walks
               PROVE  /\ \A f, g : \A x \in UpTo(0) : OffsetsOnDef(f, x, q) = OffsetsOnDef(g, x, q)
                      /\ \A d \in Nat : \A f, g :
                           (\A y \in UpTo(d) : f[y] = g[y]) =>
                             \A x \in UpTo(d + 1) : OffsetsOnDef(f, x, q) = OffsetsOnDef(g, x, q)
    BY DEF OffsetsOnRec!AsksBelow
  <2>1. \A f, g : \A x \in UpTo(0) : OffsetsOnDef(f, x, q) = OffsetsOnDef(g, x, q)
    BY UpToChain DEF OffsetsOnDef
  <2>2. ASSUME NEW e \in Nat, NEW f, NEW g, \A y \in UpTo(e) : f[y] = g[y], NEW x \in UpTo(e + 1)
        PROVE  OffsetsOnDef(f, x, q) = OffsetsOnDef(g, x, q)
    <3>1. CASE x = 0
      BY <3>1 DEF OffsetsOnDef
    <3>2. CASE x # 0
      <4>1. f[x - 1] = g[x - 1]
        BY <2>2, <3>2, UpToChain
      <4> QED BY <4>1, <3>2 DEF OffsetsOnDef
    <3> QED BY <3>1, <3>2
  <2> QED BY <2>1, <2>2
<1>3. Len(p) \in Nat /\ w \in Walks
  BY DEF Walks
<1>4. \E f : f = [i \in 0 .. Len(p) |-> OffsetsOnDef(f, i, w)]
  <2> HIDE DEF w
  <2> QED BY <1>1, <1>2, <1>3, OffsetsOnRec!FunctionExists DEF UpTo
<1> DEFINE f == CHOOSE f : f = [i \in 0 .. Len(p) |-> OffsetsOnDef(f, i, w)]
<1>5. f = [i \in 0 .. Len(p) |-> OffsetsOnDef(f, i, w)]
  BY <1>4, Zenon
<1>6. OffsetsOn(t, p) = f
  BY DEF OffsetsOn, OffsetsOnDef
<1>7. \A i \in 0 .. Len(p) : f[i] = OffsetsOnDef(f, i, w)
  <2> HIDE DEF f
  <2> QED BY <1>5
<1> HIDE DEF f
<1>8. f[0] = 0
  BY <1>3, <1>7 DEF OffsetsOnDef
<1>9. \A i \in 1 .. Len(p) : f[i] = f[i - 1] + PartAt(TypesOn(t, p)[i - 1], p[i])
  BY <1>3, <1>7 DEF OffsetsOnDef
<1> QED BY <1>6, <1>8, <1>9

(* A path that takes each time an index the type has.                      *)
Valid(t, p) ==
  /\ p \in Seq(Nat)
  /\ \A i \in 1 .. Len(p) : p[i] \in Indices(TypesOn(t, p)[i - 1])

(* Where a path leads to.                                                  *)
LEMMA WalkFacts ==
  ASSUME NEW t \in Type, NEW p, Valid(t, p)
  PROVE  /\ p \in Seq(Nat) /\ Len(p) \in Nat
         /\ \A i \in 0 .. Len(p) : TypesOn(t, p)[i] \in Type /\ OffsetsOn(t, p)[i] \in Nat
         /\ TypeAt(t, p) \in Type /\ Gep(t, p) \in Nat
         /\ \A i \in 1 .. Len(p) :
              /\ p[i] \in Nat /\ p[i] \in Indices(TypesOn(t, p)[i - 1])
              /\ TypesOn(t, p)[i - 1] \in Type /\ OffsetsOn(t, p)[i - 1] \in Nat
              /\ TypesOn(t, p)[i] = Part(TypesOn(t, p)[i - 1], p[i])
              /\ OffsetsOn(t, p)[i] = OffsetsOn(t, p)[i - 1] + PartAt(TypesOn(t, p)[i - 1], p[i])
<1> DEFINE ty(i) == TypesOn(t, p)[i]
           at(i) == OffsetsOn(t, p)[i]
<1>1. p \in Seq(Nat) /\ Len(p) \in Nat /\ \A i \in 1 .. Len(p) : p[i] \in Indices(ty(i - 1))
  BY DEF Valid
<1>2. /\ ty(0) = t /\ at(0) = 0
      /\ \A i \in 1 .. Len(p) : /\ ty(i) = Part(ty(i - 1), p[i])
                                /\ at(i) = at(i - 1) + PartAt(ty(i - 1), p[i])
  BY <1>1, TypesOnEquation, OffsetsOnEquation
<1> HIDE DEF ty, at
<1> DEFINE T == {i \in Nat : i <= Len(p) => ty(i) \in Type /\ at(i) \in Nat}
<1>3. 0 \in T
  BY <1>2
<1>4. ASSUME NEW i \in Nat, i \in T
      PROVE  i + 1 \in T
  <2>1. SUFFICES ASSUME i + 1 <= Len(p)
                 PROVE  ty(i + 1) \in Type /\ at(i + 1) \in Nat
    OBVIOUS
  <2>2. ty(i) \in Type /\ at(i) \in Nat /\ i + 1 \in 1 .. Len(p) /\ (i + 1) - 1 = i
    BY <1>1, <1>4, <2>1
  <2>3. /\ p[i + 1] \in Indices(ty(i)) /\ ty(i + 1) = Part(ty(i), p[i + 1])
        /\ at(i + 1) = at(i) + PartAt(ty(i), p[i + 1])
    BY <1>1, <1>2, <2>2
  <2>4. Part(ty(i), p[i + 1]) \in Type /\ PartAt(ty(i), p[i + 1]) \in Nat
    BY <2>2, <2>3, PartFacts
  <2> QED BY <2>2, <2>3, <2>4
<1>5. Nat \subseteq T
  <2> HIDE DEF T
  <2> QED BY <1>3, <1>4, SetInduction
<1>6. \A i \in 0 .. Len(p) : ty(i) \in Type /\ at(i) \in Nat
  BY <1>5
<1>7. ty(Len(p)) \in Type /\ at(Len(p)) \in Nat
  BY <1>1, <1>6
<1>8. \A i \in 1 .. Len(p) : i - 1 \in 0 .. Len(p) /\ p[i] \in Nat
  BY <1>1
<1> QED BY <1>1, <1>2, <1>6, <1>7, <1>8 DEF ty, at, TypeAt, Gep

(* Paths that begin alike lead to the same at first.                       *)
LEMMA WalksAgree ==
  ASSUME NEW t \in Type, NEW p \in Seq(Nat), NEW q \in Seq(Nat), NEW n \in Nat,
         n <= Len(p), n <= Len(q), \A i \in 1 .. n : p[i] = q[i]
  PROVE  \A i \in 0 .. n : /\ TypesOn(t, p)[i] = TypesOn(t, q)[i]
                           /\ OffsetsOn(t, p)[i] = OffsetsOn(t, q)[i]
<1> DEFINE T == {i \in Nat : i <= n => /\ TypesOn(t, p)[i] = TypesOn(t, q)[i]
                                       /\ OffsetsOn(t, p)[i] = OffsetsOn(t, q)[i]}
<1>1. 0 \in T
  BY TypesOnEquation, OffsetsOnEquation
<1>2. ASSUME NEW i \in Nat, i \in T
      PROVE  i + 1 \in T
  <2>1. SUFFICES ASSUME i + 1 <= n
                 PROVE  /\ TypesOn(t, p)[i + 1] = TypesOn(t, q)[i + 1]
                        /\ OffsetsOn(t, p)[i + 1] = OffsetsOn(t, q)[i + 1]
    OBVIOUS
  <2>2. /\ TypesOn(t, p)[i] = TypesOn(t, q)[i] /\ OffsetsOn(t, p)[i] = OffsetsOn(t, q)[i]
        /\ i + 1 \in 1 .. Len(p) /\ i + 1 \in 1 .. Len(q) /\ (i + 1) - 1 = i /\ i + 1 \in 1 .. n
    BY <1>2, <2>1
  <2>3. p[i + 1] = q[i + 1]
    BY <2>2
  <2>4. /\ TypesOn(t, p)[i + 1] = Part(TypesOn(t, p)[i], p[i + 1])
        /\ OffsetsOn(t, p)[i + 1] = OffsetsOn(t, p)[i] + PartAt(TypesOn(t, p)[i], p[i + 1])
    BY <2>2, TypesOnEquation, OffsetsOnEquation
  <2>5. /\ TypesOn(t, q)[i + 1] = Part(TypesOn(t, q)[i], q[i + 1])
        /\ OffsetsOn(t, q)[i + 1] = OffsetsOn(t, q)[i] + PartAt(TypesOn(t, q)[i], q[i + 1])
    BY <2>2, TypesOnEquation, OffsetsOnEquation
  <2> QED BY <2>2, <2>3, <2>4, <2>5
<1>3. Nat \subseteq T
  <2> HIDE DEF T
  <2> QED BY <1>1, <1>2, SetInduction
<1> QED BY <1>3

(* A path stays within every part it has passed.                           *)
LEMMA WalksInside ==
  ASSUME NEW t \in Type, NEW p, Valid(t, p), NEW i \in 0 .. Len(p)
  PROVE  /\ OffsetsOn(t, p)[i] <= Gep(t, p)
         /\ Gep(t, p) + AllocSize(TypeAt(t, p))
              <= OffsetsOn(t, p)[i] + AllocSize(TypesOn(t, p)[i])
<1> DEFINE ty(j) == TypesOn(t, p)[j]
           at(j) == OffsetsOn(t, p)[j]
           size(j) == AllocSize(ty(j))
<1>1. /\ Len(p) \in Nat
      /\ \A j \in 0 .. Len(p) : ty(j) \in Type /\ at(j) \in Nat /\ size(j) \in Nat
      /\ \A j \in 1 .. Len(p) : /\ p[j] \in Indices(ty(j - 1)) /\ ty(j - 1) \in Type
                                /\ ty(j) = Part(ty(j - 1), p[j])
                                /\ at(j) = at(j - 1) + PartAt(ty(j - 1), p[j])
  BY WalkFacts, SizeFacts
<1>2. Gep(t, p) = at(Len(p)) /\ AllocSize(TypeAt(t, p)) = size(Len(p))
  BY DEF Gep, TypeAt
<1>3. ASSUME NEW j \in 1 .. Len(p)
      PROVE  at(j - 1) <= at(j) /\ at(j) + size(j) <= at(j - 1) + size(j - 1)
  <2>1. /\ PartAt(ty(j - 1), p[j]) \in Nat
        /\ PartAt(ty(j - 1), p[j]) + AllocSize(Part(ty(j - 1), p[j])) <= AllocSize(ty(j - 1))
    BY <1>1, PartFacts
  <2>2. /\ at(j - 1) \in Nat /\ at(j) \in Nat /\ size(j) \in Nat /\ size(j - 1) \in Nat
        /\ at(j) = at(j - 1) + PartAt(ty(j - 1), p[j])
        /\ size(j) = AllocSize(Part(ty(j - 1), p[j])) /\ size(j - 1) = AllocSize(ty(j - 1))
    BY <1>1
  <2> QED BY <2>1, <2>2
<1> HIDE DEF ty, at, size
<1> DEFINE T == {d \in Nat : i + d <= Len(p) =>
                   at(i) <= at(i + d) /\ at(i + d) + size(i + d) <= at(i) + size(i)}
<1>4. 0 \in T
  BY <1>1
<1>5. ASSUME NEW d \in Nat, d \in T
      PROVE  d + 1 \in T
  <2>1. SUFFICES ASSUME i + (d + 1) <= Len(p)
                 PROVE  /\ at(i) <= at(i + (d + 1))
                        /\ at(i + (d + 1)) + size(i + (d + 1)) <= at(i) + size(i)
    OBVIOUS
  <2>2. /\ i + (d + 1) \in 1 .. Len(p) /\ (i + (d + 1)) - 1 = i + d /\ i + d \in 0 .. Len(p)
        /\ i + (d + 1) \in 0 .. Len(p) /\ i \in 0 .. Len(p) /\ i + d <= Len(p)
    BY <1>1, <2>1
  <2>3. at(i) <= at(i + d) /\ at(i + d) + size(i + d) <= at(i) + size(i)
    BY <1>5, <2>2
  <2>4. at(i + d) <= at(i + (d + 1)) /\ at(i + (d + 1)) + size(i + (d + 1)) <= at(i + d) + size(i + d)
    BY <1>3, <2>2
  <2>5. /\ at(i) \in Nat /\ at(i + d) \in Nat /\ at(i + (d + 1)) \in Nat
        /\ size(i) \in Nat /\ size(i + d) \in Nat /\ size(i + (d + 1)) \in Nat
    BY <1>1, <2>2
  <2> QED BY <2>3, <2>4, <2>5
<1>6. Nat \subseteq T
  <2> HIDE DEF T
  <2> QED BY <1>4, <1>5, SetInduction
<1>7. Len(p) - i \in Nat /\ i + (Len(p) - i) = Len(p)
  BY <1>1
<1>8. Len(p) - i \in T
  BY <1>6, <1>7
<1>9. at(i) <= at(Len(p)) /\ at(Len(p)) + size(Len(p)) <= at(i) + size(i)
  BY <1>1, <1>7, <1>8
<1> QED BY <1>2, <1>9 DEF at, size, ty

(* Paths that part ways lead to different bytes, in their order.           *)
LEMMA WalksApart ==
  ASSUME NEW t \in Type, NEW a, NEW b, Valid(t, a), Valid(t, b),
         NEW j \in 1 .. Len(a), j <= Len(b),
         \A i \in 1 .. j - 1 : a[i] = b[i], a[j] < b[j]
  PROVE  Gep(t, a) + AllocSize(TypeAt(t, a)) <= Gep(t, b)
<1>1. a \in Seq(Nat) /\ b \in Seq(Nat) /\ Len(a) \in Nat /\ Len(b) \in Nat
  BY WalkFacts
<1>2. j \in Nat /\ j - 1 \in Nat /\ j - 1 <= Len(a) /\ j - 1 <= Len(b) /\ j \in 1 .. Len(b)
      /\ j \in 0 .. Len(a) /\ j \in 0 .. Len(b) /\ j - 1 \in 0 .. j - 1
  BY <1>1
<1> DEFINE u == TypesOn(t, a)[j - 1]
           o == OffsetsOn(t, a)[j - 1]
<1>3. u = TypesOn(t, b)[j - 1] /\ o = OffsetsOn(t, b)[j - 1]
  BY <1>1, <1>2, WalksAgree
<1>4. /\ u \in Type /\ o \in Nat /\ a[j] \in Indices(u) /\ b[j] \in Indices(u)
      /\ TypesOn(t, a)[j] = Part(u, a[j]) /\ OffsetsOn(t, a)[j] = o + PartAt(u, a[j])
      /\ OffsetsOn(t, b)[j] = o + PartAt(u, b[j])
  BY <1>2, <1>3, WalkFacts
<1> HIDE DEF u, o
<1>5. /\ PartAt(u, a[j]) + AllocSize(Part(u, a[j])) <= PartAt(u, b[j])
      /\ PartAt(u, a[j]) \in Nat /\ PartAt(u, b[j]) \in Nat /\ Part(u, a[j]) \in Type
  BY <1>4, PartFacts
<1>6. AllocSize(Part(u, a[j])) \in Nat
  BY <1>5, SizeFacts
<1>7. /\ Gep(t, a) + AllocSize(TypeAt(t, a)) <= (o + PartAt(u, a[j])) + AllocSize(Part(u, a[j]))
      /\ o + PartAt(u, b[j]) <= Gep(t, b)
  <2>1. Gep(t, a) + AllocSize(TypeAt(t, a))
          <= OffsetsOn(t, a)[j] + AllocSize(TypesOn(t, a)[j])
    BY <1>2, WalksInside
  <2>2. OffsetsOn(t, b)[j] <= Gep(t, b)
    BY <1>2, WalksInside
  <2> QED BY <2>1, <2>2, <1>4
<1>8. Gep(t, a) \in Nat /\ Gep(t, b) \in Nat /\ AllocSize(TypeAt(t, a)) \in Nat
  BY WalkFacts, SizeFacts
<1> QED BY <1>4, <1>5, <1>6, <1>7, <1>8


-----------------------------------------------------------------------------
(* Paths in two pieces                                                     *)

IsSplit(r, p, q) ==
  /\ r \in Seq(Nat) /\ p \in Seq(Nat) /\ q \in Seq(Nat)
  /\ Len(r) = Len(p) + Len(q)
  /\ \A i \in 1 .. Len(p) : r[i] = p[i]
  /\ \A i \in 1 .. Len(q) : r[Len(p) + i] = q[i]

(* How a path is split or put together.                                    *)
LEMMA Splits ==
  ASSUME NEW p \in Seq(Nat)
  PROVE  /\ \A q \in Seq(Nat) : IsSplit(p \o q, p, q)
         /\ \A k \in Nat : IsSplit(Append(p, k), p, <<k>>)
         /\ \A n \in 0 .. Len(p) : /\ IsSplit(p, SubSeq(p, 1, n), SubSeq(p, n + 1, Len(p)))
                                   /\ Len(SubSeq(p, 1, n)) = n
<1>1. ASSUME NEW q \in Seq(Nat)
      PROVE  IsSplit(p \o q, p, q)
  BY DEF IsSplit
<1>2. ASSUME NEW k \in Nat
      PROVE  IsSplit(Append(p, k), p, <<k>>)
  <2>1. Append(p, k) \in Seq(Nat) /\ <<k>> \in Seq(Nat) /\ Len(<<k>>) = 1
        /\ Len(Append(p, k)) = Len(p) + 1
    OBVIOUS
  <2>2. \A i \in 1 .. Len(p) : Append(p, k)[i] = p[i]
    OBVIOUS
  <2>3. Append(p, k)[Len(p) + 1] = k /\ <<k>>[1] = k
    OBVIOUS
  <2>4. \A i \in 1 .. 1 : i = 1
    OBVIOUS
  <2> QED BY <2>1, <2>2, <2>3, <2>4 DEF IsSplit
<1>3. ASSUME NEW n \in 0 .. Len(p)
      PROVE  /\ IsSplit(p, SubSeq(p, 1, n), SubSeq(p, n + 1, Len(p)))
             /\ Len(SubSeq(p, 1, n)) = n
  <2>1. /\ SubSeq(p, 1, n) \in Seq(Nat) /\ Len(SubSeq(p, 1, n)) = n
        /\ \A i \in 1 .. n : SubSeq(p, 1, n)[i] = p[i]
    OBVIOUS
  <2>2. /\ SubSeq(p, n + 1, Len(p)) \in Seq(Nat) /\ Len(SubSeq(p, n + 1, Len(p))) = Len(p) - n
        /\ \A i \in 1 .. Len(p) - n : SubSeq(p, n + 1, Len(p))[i] = p[n + i]
    OBVIOUS
  <2>3. Len(p) = n + (Len(p) - n)
    OBVIOUS
  <2> QED BY <2>1, <2>2, <2>3 DEF IsSplit
<1> QED BY <1>1, <1>2, <1>3

(* A path goes on from where its first piece leads to.                     *)
LEMMA SplitWalk ==
  ASSUME NEW t \in Type, NEW r, NEW p, NEW q, IsSplit(r, p, q)
  PROVE  /\ Valid(t, r) <=> Valid(t, p) /\ Valid(TypeAt(t, p), q)
         /\ \A i \in 0 .. Len(p) : TypesOn(t, r)[i] = TypesOn(t, p)[i]
         /\ Valid(t, r) =>
              /\ \A i \in 0 .. Len(q) : TypesOn(t, r)[Len(p) + i] = TypesOn(TypeAt(t, p), q)[i]
              /\ TypeAt(t, r) = TypeAt(TypeAt(t, p), q)
              /\ Gep(t, r) = Gep(t, p) + Gep(TypeAt(t, p), q)
<1> DEFINE u == TypeAt(t, p)
           n == Len(p)
           m == Len(q)
<1>1. /\ r \in Seq(Nat) /\ p \in Seq(Nat) /\ q \in Seq(Nat) /\ n \in Nat /\ m \in Nat
      /\ Len(r) = n + m
      /\ \A i \in 1 .. n : r[i] = p[i]
      /\ \A i \in 1 .. m : r[n + i] = q[i]
  BY DEF IsSplit
<1>2. u = TypesOn(t, p)[n] /\ Gep(t, p) = OffsetsOn(t, p)[n]
  BY DEF TypeAt, Gep
<1> HIDE DEF u, n, m
<1>3. \A i \in 0 .. n : TypesOn(t, r)[i] = TypesOn(t, p)[i] /\ OffsetsOn(t, r)[i] = OffsetsOn(t, p)[i]
  <2>1. n <= Len(r) /\ n <= Len(p)
    BY <1>1 DEF n
  <2> QED BY <1>1, <2>1, WalksAgree
<1>4. ASSUME Valid(t, r)
      PROVE  Valid(t, p)
  <2>1. \A i \in 1 .. Len(p) : /\ r[i] \in Indices(TypesOn(t, r)[i - 1]) /\ r[i] = p[i]
                               /\ TypesOn(t, r)[i - 1] = TypesOn(t, p)[i - 1]
    <3> TAKE i \in 1 .. Len(p)
    <3>1. i \in 1 .. n /\ i \in 1 .. Len(r) /\ i - 1 \in 0 .. n
      BY <1>1 DEF n
    <3> QED BY <1>1, <1>3, <1>4, <3>1 DEF Valid
  <2> QED BY <1>1, <2>1 DEF Valid
<1>5. ASSUME Valid(t, p)
      PROVE  /\ u \in Type
             /\ \A i \in 0 .. m : TypesOn(t, r)[n + i] = TypesOn(u, q)[i]
             /\ Valid(t, r) <=> Valid(u, q)
  <2>1. u \in Type
    BY <1>5, WalkFacts DEF u
  <2> DEFINE T == {i \in Nat : i <= m => TypesOn(t, r)[n + i] = TypesOn(u, q)[i]}
  <2>2. 0 \in T
    BY <1>1, <1>2, <1>3, <2>1, TypesOnEquation
  <2>3. ASSUME NEW i \in Nat, i \in T
        PROVE  i + 1 \in T
    <3>1. SUFFICES ASSUME i + 1 <= m
                   PROVE  TypesOn(t, r)[n + (i + 1)] = TypesOn(u, q)[i + 1]
      OBVIOUS
    <3>2. /\ n + (i + 1) \in 1 .. Len(r) /\ (n + (i + 1)) - 1 = n + i /\ i <= m
          /\ i + 1 \in 1 .. m /\ (i + 1) - 1 = i
      BY <1>1, <3>1
    <3>3. TypesOn(t, r)[n + i] = TypesOn(u, q)[i] /\ r[n + (i + 1)] = q[i + 1]
      BY <1>1, <2>3, <3>2
    <3>4. TypesOn(t, r)[n + (i + 1)] = Part(TypesOn(t, r)[n + i], r[n + (i + 1)])
      <4>1. \A j \in 1 .. Len(r) : TypesOn(t, r)[j] = Part(TypesOn(t, r)[j - 1], r[j])
        BY <1>1, TypesOnEquation
      <4> QED BY <3>2, <4>1
    <3>5. TypesOn(u, q)[i + 1] = Part(TypesOn(u, q)[i], q[i + 1])
      BY <1>1, <2>1, <3>2, TypesOnEquation DEF m
    <3> QED BY <3>3, <3>4, <3>5
  <2>4. Nat \subseteq T
    <3> HIDE DEF T
    <3> QED BY <2>2, <2>3, SetInduction
  <2>5. \A i \in 0 .. m : TypesOn(t, r)[n + i] = TypesOn(u, q)[i]
    BY <2>4, <1>1
  <2> HIDE DEF T
  <2>6. ASSUME Valid(t, r), NEW i \in 1 .. Len(q)
        PROVE  q[i] \in Indices(TypesOn(u, q)[i - 1])
    <3>1. i \in 1 .. m /\ n + i \in 1 .. Len(r) /\ (n + i) - 1 = n + (i - 1) /\ i - 1 \in 0 .. m
      BY <1>1 DEF m
    <3>2. r[n + i] \in Indices(TypesOn(t, r)[n + (i - 1)])
      BY <2>6, <3>1 DEF Valid
    <3> QED BY <1>1, <2>5, <3>1, <3>2
  <2>7. ASSUME Valid(u, q), NEW i \in 1 .. Len(r)
        PROVE  r[i] \in Indices(TypesOn(t, r)[i - 1])
    <3>1. CASE i <= n
      <4>1. i \in 1 .. n /\ i \in 1 .. Len(p) /\ i - 1 \in 0 .. n
        BY <3>1, <1>1 DEF n
      <4>2. p[i] \in Indices(TypesOn(t, p)[i - 1])
        BY <1>5, <4>1 DEF Valid
      <4> QED BY <1>1, <1>3, <4>1, <4>2
    <3>2. CASE ~ (i <= n)
      <4>1. PICK j \in 1 .. m : i = n + j
        <5>1. i - n \in 1 .. m /\ i = n + (i - n)
          BY <3>2, <1>1
        <5> QED BY <5>1
      <4>2. j \in 1 .. Len(q) /\ j - 1 \in 0 .. m /\ i - 1 = n + (j - 1)
        BY <4>1, <1>1 DEF m
      <4>3. q[j] \in Indices(TypesOn(u, q)[j - 1])
        BY <2>7, <4>2 DEF Valid
      <4> QED BY <1>1, <2>5, <4>1, <4>2, <4>3
    <3> QED BY <3>1, <3>2
  <2> QED BY <1>1, <2>1, <2>5, <2>6, <2>7 DEF Valid
<1>6. ASSUME Valid(t, r), Valid(t, p), Valid(u, q)
      PROVE  TypeAt(t, r) = TypeAt(u, q) /\ Gep(t, r) = Gep(t, p) + Gep(u, q)
  <2>1. u \in Type /\ \A i \in 0 .. m : TypesOn(t, r)[n + i] = TypesOn(u, q)[i]
    BY <1>5, <1>6
  <2> DEFINE T == {i \in Nat : i <= m => OffsetsOn(t, r)[n + i] = Gep(t, p) + OffsetsOn(u, q)[i]}
  <2>2. 0 \in T
    <3>1. OffsetsOn(t, r)[n + 0] = Gep(t, p) /\ Gep(t, p) \in Nat
      BY <1>1, <1>2, <1>3, <1>6, WalkFacts
    <3>2. OffsetsOn(u, q)[0] = 0
      BY <1>1, <2>1, OffsetsOnEquation
    <3> QED BY <3>1, <3>2
  <2>3. ASSUME NEW i \in Nat, i \in T
        PROVE  i + 1 \in T
    <3>1. SUFFICES ASSUME i + 1 <= m
                   PROVE  OffsetsOn(t, r)[n + (i + 1)] = Gep(t, p) + OffsetsOn(u, q)[i + 1]
      OBVIOUS
    <3>2. /\ n + (i + 1) \in 1 .. Len(r) /\ (n + (i + 1)) - 1 = n + i /\ i <= m
          /\ i + 1 \in 1 .. m /\ (i + 1) - 1 = i /\ i + 1 \in 1 .. Len(q) /\ i \in 0 .. m
      <4>1. n \in Nat /\ m \in Nat /\ Len(q) = m /\ Len(r) = n + m
        BY <1>1 DEF m
      <4>2. i <= m /\ i \in 0 .. m /\ i + 1 \in 1 .. m /\ i + 1 \in 1 .. Len(q)
        BY <3>1, <4>1
      <4>3. n + (i + 1) \in 1 .. n + m
        BY <3>1, <4>1
      <4>4. (n + (i + 1)) - 1 = n + i /\ (i + 1) - 1 = i
        BY <4>1
      <4> QED BY <4>1, <4>2, <4>3, <4>4
    <3>3. /\ OffsetsOn(t, r)[n + i] = Gep(t, p) + OffsetsOn(u, q)[i] /\ r[n + (i + 1)] = q[i + 1]
          /\ TypesOn(t, r)[n + i] = TypesOn(u, q)[i]
      BY <1>1, <2>1, <2>3, <3>2
    <3>4. OffsetsOn(t, r)[n + (i + 1)]
            = OffsetsOn(t, r)[n + i] + PartAt(TypesOn(t, r)[n + i], r[n + (i + 1)])
      BY <1>6, <3>2, WalkFacts
    <3>5. /\ OffsetsOn(u, q)[i + 1] = OffsetsOn(u, q)[i] + PartAt(TypesOn(u, q)[i], q[i + 1])
          /\ q[i + 1] \in Indices(TypesOn(u, q)[i]) /\ TypesOn(u, q)[i] \in Type
          /\ OffsetsOn(u, q)[i] \in Nat
      BY <1>6, <2>1, <3>2, WalkFacts
    <3>6. PartAt(TypesOn(u, q)[i], q[i + 1]) \in Nat /\ Gep(t, p) \in Nat
      BY <1>6, <3>5, PartFacts, WalkFacts
    <3> QED BY <3>3, <3>4, <3>5, <3>6
  <2>4. Nat \subseteq T
    <3> HIDE DEF T
    <3> QED BY <2>2, <2>3, SetInduction
  <2>5. OffsetsOn(t, r)[n + m] = Gep(t, p) + OffsetsOn(u, q)[m]
    BY <2>4, <1>1
  <2>6. TypesOn(t, r)[n + m] = TypesOn(u, q)[m]
    BY <2>1, <1>1
  <2> HIDE DEF T
  <2>7. Len(r) = n + m /\ Len(q) = m
    BY <1>1 DEF m
  <2> QED BY <2>5, <2>6, <2>7 DEF TypeAt, Gep
<1> QED BY <1>3, <1>4, <1>5, <1>6 DEF u, n, m

(* A path of no index and of one.                                          *)
LEMMA ShortPaths ==
  ASSUME NEW t \in Type
  PROVE  /\ Valid(t, <<>>) /\ TypeAt(t, <<>>) = t /\ Gep(t, <<>>) = 0
         /\ \A k \in Indices(t) :
              Valid(t, <<k>>) /\ TypeAt(t, <<k>>) = Part(t, k) /\ Gep(t, <<k>>) = PartAt(t, k)
         /\ \A k : Valid(t, <<k>>) => k \in Indices(t)
<1>1. /\ <<>> \in Seq(Nat) /\ Len(<<>>) = 0
      /\ TypesOn(t, <<>>)[0] = t /\ OffsetsOn(t, <<>>)[0] = 0
  <2>1. <<>> \in Seq(Nat) /\ Len(<<>>) = 0
    OBVIOUS
  <2> QED BY <2>1, TypesOnEquation, OffsetsOnEquation
<1>2. Valid(t, <<>>) /\ TypeAt(t, <<>>) = t /\ Gep(t, <<>>) = 0
  BY <1>1 DEF Valid, TypeAt, Gep
<1>3. ASSUME NEW k \in Indices(t)
      PROVE  Valid(t, <<k>>) /\ TypeAt(t, <<k>>) = Part(t, k) /\ Gep(t, <<k>>) = PartAt(t, k)
  <2>1. k \in Nat /\ PartAt(t, k) \in Nat
    BY PartFacts
  <2>2. <<k>> \in Seq(Nat) /\ Len(<<k>>) = 1 /\ <<k>>[1] = k /\ 1 \in 1 .. Len(<<k>>) /\ 1 - 1 = 0
    BY <2>1
  <2>3. /\ TypesOn(t, <<k>>)[0] = t /\ OffsetsOn(t, <<k>>)[0] = 0
        /\ TypesOn(t, <<k>>)[1] = Part(TypesOn(t, <<k>>)[1 - 1], <<k>>[1])
        /\ OffsetsOn(t, <<k>>)[1]
             = OffsetsOn(t, <<k>>)[1 - 1] + PartAt(TypesOn(t, <<k>>)[1 - 1], <<k>>[1])
    <3> DEFINE w == <<k>>
    <3>1. w \in Seq(Nat) /\ 1 \in 1 .. Len(w)
      BY <2>2
    <3> HIDE DEF w
    <3>2. TypesOn(t, w)[0] = t /\ TypesOn(t, w)[1] = Part(TypesOn(t, w)[1 - 1], w[1])
      BY <3>1, TypesOnEquation
    <3>3. /\ OffsetsOn(t, w)[0] = 0
          /\ OffsetsOn(t, w)[1] = OffsetsOn(t, w)[1 - 1] + PartAt(TypesOn(t, w)[1 - 1], w[1])
      BY <3>1, OffsetsOnEquation
    <3> QED BY <3>2, <3>3 DEF w
  <2>4. TypesOn(t, <<k>>)[1] = Part(t, k) /\ OffsetsOn(t, <<k>>)[1] = PartAt(t, k)
    BY <2>1, <2>2, <2>3
  <2>5. \A i \in 1 .. Len(<<k>>) : i = 1
    BY <2>2
  <2> QED BY <2>2, <2>3, <2>4, <2>5 DEF Valid, TypeAt, Gep
<1>4. ASSUME NEW k, Valid(t, <<k>>)
      PROVE  k \in Indices(t)
  <2>1. <<k>> \in Seq(Nat) /\ Len(<<k>>) = 1 /\ <<k>>[1] = k /\ 1 \in 1 .. Len(<<k>>) /\ 1 - 1 = 0
    BY <1>4 DEF Valid
  <2>2. <<k>>[1] \in Indices(TypesOn(t, <<k>>)[1 - 1]) /\ TypesOn(t, <<k>>)[0] = t
    BY <1>4, <2>1, TypesOnEquation DEF Valid
  <2> QED BY <2>1, <2>2
<1> QED BY <1>2, <1>3, <1>4

(* One index more.                                                         *)
LEMMA Steps ==
  ASSUME NEW t \in Type, NEW p, Valid(t, p), NEW k \in Indices(TypeAt(t, p))
  PROVE  /\ Valid(t, Append(p, k)) /\ k \in Nat
         /\ TypeAt(t, Append(p, k)) = Part(TypeAt(t, p), k)
         /\ Gep(t, Append(p, k)) = Gep(t, p) + PartAt(TypeAt(t, p), k)
<1>1. p \in Seq(Nat) /\ TypeAt(t, p) \in Type /\ k \in Nat
  BY WalkFacts, PartFacts
<1>2. IsSplit(Append(p, k), p, <<k>>)
  BY <1>1, Splits
<1>3. /\ Valid(TypeAt(t, p), <<k>>) /\ TypeAt(TypeAt(t, p), <<k>>) = Part(TypeAt(t, p), k)
      /\ Gep(TypeAt(t, p), <<k>>) = PartAt(TypeAt(t, p), k)
  BY <1>1, ShortPaths
<1> QED BY <1>1, <1>2, <1>3, SplitWalk

(* The pieces of a path.                                                   *)
LEMMA Pieces ==
  ASSUME NEW t \in Type, NEW p, Valid(t, p), NEW n \in 0 .. Len(p)
  PROVE  /\ Valid(t, SubSeq(p, 1, n)) /\ Len(SubSeq(p, 1, n)) = n
         /\ TypeAt(t, SubSeq(p, 1, n)) = TypesOn(t, p)[n]
         /\ Valid(TypesOn(t, p)[n], SubSeq(p, n + 1, Len(p)))
         /\ TypeAt(TypesOn(t, p)[n], SubSeq(p, n + 1, Len(p))) = TypeAt(t, p)
         /\ n < Len(p) => SubSeq(p, 1, n + 1) = Append(SubSeq(p, 1, n), p[n + 1])
<1> DEFINE a == SubSeq(p, 1, n)
           b == SubSeq(p, n + 1, Len(p))
<1>1. p \in Seq(Nat) /\ IsSplit(p, a, b) /\ Len(a) = n
  BY WalkFacts, Splits
<1>2. n < Len(p) => SubSeq(p, 1, n + 1) = Append(SubSeq(p, 1, n), p[n + 1])
  BY <1>1
<1> HIDE DEF a, b
<1>3. /\ Valid(t, a) /\ Valid(TypeAt(t, a), b) /\ TypeAt(t, p) = TypeAt(TypeAt(t, a), b)
      /\ \A i \in 0 .. Len(a) : TypesOn(t, p)[i] = TypesOn(t, a)[i]
  BY <1>1, SplitWalk
<1>4. TypeAt(t, a) = TypesOn(t, p)[n]
  BY <1>1, <1>3 DEF TypeAt
<1> QED BY <1>1, <1>2, <1>3, <1>4 DEF a, b

(* Induction over the paths of a type.                                     *)
LEMMA PathInduction ==
  ASSUME NEW t \in Type, NEW T, <<>> \in T,
         \A p \in T : \A k \in Indices(TypeAt(t, p)) : Valid(t, p) => Append(p, k) \in T
  PROVE  \A p : Valid(t, p) => p \in T
<1> SUFFICES ASSUME NEW p, Valid(t, p)
             PROVE  p \in T
  OBVIOUS
<1>1. p \in Seq(Nat) /\ Len(p) \in Nat
  BY WalkFacts
<1> DEFINE L == {n \in Nat : n <= Len(p) => SubSeq(p, 1, n) \in T}
<1>2. 0 \in L
  <2>1. SubSeq(p, 1, 0) = <<>>
    BY <1>1
  <2> QED BY <2>1
<1>3. ASSUME NEW n \in Nat, n \in L
      PROVE  n + 1 \in L
  <2>1. SUFFICES ASSUME n + 1 <= Len(p)
                 PROVE  SubSeq(p, 1, n + 1) \in T
    OBVIOUS
  <2>2. n \in 0 .. Len(p) /\ n < Len(p) /\ n + 1 \in 1 .. Len(p) /\ (n + 1) - 1 = n
    BY <1>1, <2>1
  <2>3. /\ Valid(t, SubSeq(p, 1, n)) /\ TypeAt(t, SubSeq(p, 1, n)) = TypesOn(t, p)[n]
        /\ SubSeq(p, 1, n + 1) = Append(SubSeq(p, 1, n), p[n + 1])
    BY <2>2, Pieces
  <2>4. p[n + 1] \in Indices(TypesOn(t, p)[n]) /\ SubSeq(p, 1, n) \in T
    BY <1>3, <2>2, WalkFacts
  <2> QED BY <2>3, <2>4
<1>4. Nat \subseteq L
  <2> HIDE DEF L
  <2> QED BY <1>2, <1>3, SetInduction
<1>5. SubSeq(p, 1, Len(p)) = p
  BY <1>1
<1>6. SubSeq(p, 1, Len(p)) \in T
  <2>1. \A n \in Nat : n <= Len(p) => SubSeq(p, 1, n) \in T
    BY <1>4
  <2>2. Len(p) <= Len(p)
    BY <1>1
  <2> QED BY <1>1, <2>1, <2>2
<1> QED BY <1>5, <1>6, Zenon

(* Every index goes down one level.                                        *)
LEMMA PathLevels ==
  ASSUME NEW d \in Nat, d <= Depth, NEW t \in TypesUpTo(d), NEW p, Valid(t, p)
  PROVE  Len(p) <= d /\ TypeAt(t, p) \in TypesUpTo(d - Len(p))
<1>1. t \in Type
  BY FewLevels
<1> DEFINE T == {q \in Seq(Nat) : Len(q) <= d /\ TypeAt(t, q) \in TypesUpTo(d - Len(q))}
<1>2. <<>> \in T
  <2>1. <<>> \in Seq(Nat) /\ Len(<<>>) = 0 /\ TypeAt(t, <<>>) = t
    BY <1>1, ShortPaths
  <2>2. d - 0 = d
    OBVIOUS
  <2> QED BY <2>1, <2>2
<1>3. ASSUME NEW q \in T, NEW k \in Indices(TypeAt(t, q)), Valid(t, q)
      PROVE  Append(q, k) \in T
  <2> DEFINE u == TypeAt(t, q)
             e == d - Len(q)
  <2>1. u \in TypesUpTo(e) /\ e \in Nat /\ u \in Type /\ q \in Seq(Nat) /\ Len(q) \in Nat
    BY <1>1, <1>3, WalkFacts
  <2>2. k \in Nat /\ TypeAt(t, Append(q, k)) = Part(u, k)
    BY <1>1, <1>3, Steps
  <2>3. Append(q, k) \in Seq(Nat) /\ Len(Append(q, k)) = Len(q) + 1
    BY <2>1, <2>2
  <2>4. ~ IsInt(u) /\ k \in Indices(u)
    BY <1>3 DEF IsInt, Indices
  <2>5. d - (Len(q) + 1) = e - 1 /\ (e >= 1 => Len(q) + 1 <= d)
    BY <2>1
  <2> HIDE DEF u, e
  <2>6. e # 0
    BY <2>1, <2>4, TypeKinds
  <2>7. e - 1 \in Nat /\ (e - 1) + 1 = e /\ e >= 1
    BY <2>1, <2>6
  <2>8. IsArrayOf(u, TypesUpTo(e - 1)) \/ IsStructOf(u, TypesUpTo(e - 1))
    BY <2>1, <2>4, <2>7, TypeKinds
  <2>9. Part(u, k) \in TypesUpTo(e - 1)
    BY <2>4, <2>8 DEF IsArrayOf, IsStructOf, Part, Indices
  <2> QED BY <2>2, <2>3, <2>5, <2>7, <2>9
<1>4. p \in T
  <2> HIDE DEF T
  <2> QED BY <1>1, <1>2, <1>3, PathInduction
<1> QED BY <1>4

PathsDef(f, n, t) ==
  IF n = 0
    THEN {<<>>}
    ELSE UNION {{Append(p, k) : k \in Indices(TypeAt(t, p))} : p \in f[n - 1]}

PathsRec == INSTANCE Recursion WITH Level <- UpTo, Par <- Type, Def <- PathsDef

(* Paths is what it should be.                                             *)
LEMMA PathsAreValid ==
  ASSUME NEW t \in Type
  PROVE  \A p : p \in Paths(t) <=> Valid(t, p)
<1>1. PathsRec!Grows
  BY UpToChain DEF PathsRec!Grows
<1>2. PathsRec!AsksBelow
  <2> SUFFICES ASSUME NEW q \in Type
               PROVE  /\ \A f, g : \A x \in UpTo(0) : PathsDef(f, x, q) = PathsDef(g, x, q)
                      /\ \A d \in Nat : \A f, g :
                           (\A y \in UpTo(d) : f[y] = g[y]) =>
                             \A x \in UpTo(d + 1) : PathsDef(f, x, q) = PathsDef(g, x, q)
    BY DEF PathsRec!AsksBelow
  <2>1. \A f, g : \A x \in UpTo(0) : PathsDef(f, x, q) = PathsDef(g, x, q)
    BY UpToChain DEF PathsDef
  <2>2. ASSUME NEW e \in Nat, NEW f, NEW g, \A y \in UpTo(e) : f[y] = g[y], NEW x \in UpTo(e + 1)
        PROVE  PathsDef(f, x, q) = PathsDef(g, x, q)
    <3>1. CASE x = 0
      BY <3>1 DEF PathsDef
    <3>2. CASE x # 0
      <4>1. f[x - 1] = g[x - 1]
        BY <2>2, <3>2, UpToChain
      <4> QED BY <4>1, <3>2 DEF PathsDef
    <3> QED BY <3>1, <3>2
  <2> QED BY <2>1, <2>2
<1>3. \E f : f = [n \in 0 .. Depth |-> PathsDef(f, n, t)]
  BY <1>1, <1>2, PathsRec!FunctionExists, DepthAssumption DEF UpTo
<1> DEFINE f == CHOOSE f : f = [n \in 0 .. Depth |-> PathsDef(f, n, t)]
<1>4. f = [n \in 0 .. Depth |-> PathsDef(f, n, t)]
  BY <1>3, Zenon
<1>5. Paths(t) = UNION {f[n] : n \in 0 .. Depth}
  BY DEF Paths, PathsDef
<1>6. \A n \in 0 .. Depth : f[n] = PathsDef(f, n, t)
  <2> HIDE DEF f
  <2> QED BY <1>4
<1> HIDE DEF f
<1> DEFINE L == {n \in Nat : n <= Depth => \A p : p \in f[n] <=> Valid(t, p) /\ Len(p) = n}
<1>7. 0 \in L
  <2>1. f[0] = {<<>>}
    <3>1. f[0] = PathsDef(f, 0, t)
      BY <1>6, DepthAssumption
    <3> QED BY <3>1 DEF PathsDef
  <2>2. Valid(t, <<>>) /\ Len(<<>>) = 0
    BY ShortPaths
  <2>3. \A p \in Seq(Nat) : Len(p) = 0 => p = <<>>
    OBVIOUS
  <2> QED BY <2>1, <2>2, <2>3, WalkFacts
<1>8. ASSUME NEW n \in Nat, n \in L
      PROVE  n + 1 \in L
  <2>1. SUFFICES ASSUME n + 1 <= Depth, NEW p
                 PROVE  p \in f[n + 1] <=> Valid(t, p) /\ Len(p) = n + 1
    OBVIOUS
  <2>2. n + 1 \in 0 .. Depth /\ n + 1 # 0 /\ (n + 1) - 1 = n /\ n <= Depth
    BY <2>1, DepthAssumption
  <2>3. f[n + 1] = UNION {{Append(q, k) : k \in Indices(TypeAt(t, q))} : q \in f[n]}
    BY <1>6, <2>2 DEF PathsDef
  <2>4. \A q : q \in f[n] <=> Valid(t, q) /\ Len(q) = n
    BY <1>8, <2>2
  <2>5. ASSUME p \in f[n + 1]
        PROVE  Valid(t, p) /\ Len(p) = n + 1
    <3>1. PICK q \in f[n] : \E k \in Indices(TypeAt(t, q)) : p = Append(q, k)
      BY <2>3, <2>5
    <3>2. PICK k \in Indices(TypeAt(t, q)) : p = Append(q, k)
      BY <3>1
    <3>3. Valid(t, q) /\ Len(q) = n /\ q \in Seq(Nat)
      BY <2>4, WalkFacts
    <3>4. Valid(t, p) /\ k \in Nat
      BY <3>2, <3>3, Steps
    <3>5. Len(p) = n + 1
      BY <3>2, <3>3, <3>4
    <3> QED BY <3>4, <3>5
  <2>6. ASSUME Valid(t, p), Len(p) = n + 1
        PROVE  p \in f[n + 1]
    <3> DEFINE q == SubSeq(p, 1, n)
               k == p[n + 1]
    <3>1. p \in Seq(Nat) /\ n \in 0 .. Len(p) /\ n < Len(p) /\ n + 1 \in 1 .. Len(p)
      BY <2>6, WalkFacts
    <3>2. SubSeq(p, 1, n + 1) = p
      BY <2>6, <3>1
    <3>3. Valid(t, q) /\ Len(q) = n /\ TypeAt(t, q) = TypesOn(t, p)[n] /\ p = Append(q, k)
      BY <2>6, <3>1, <3>2, Pieces
    <3>4. p[n + 1] \in Indices(TypesOn(t, p)[(n + 1) - 1])
      BY <2>6, <3>1, WalkFacts
    <3>5. k \in Indices(TypeAt(t, q)) /\ q \in f[n]
      BY <2>2, <2>4, <3>3, <3>4
    <3> HIDE DEF q, k
    <3> QED BY <2>3, <3>3, <3>5
  <2> QED BY <2>5, <2>6
<1>9. Nat \subseteq L
  <2> HIDE DEF L
  <2> QED BY <1>7, <1>8, SetInduction
<1>10. \A n \in 0 .. Depth : \A p : p \in f[n] <=> Valid(t, p) /\ Len(p) = n
  BY <1>9, DepthAssumption
<1>11. ASSUME NEW p, Valid(t, p)
       PROVE  Len(p) \in 0 .. Depth
  BY <1>11, PathLevels, WalkFacts, DepthAssumption DEF Type
<1> QED BY <1>5, <1>10, <1>11

(* A path that starts with another one.                                    *)
Begins(a, b) == Len(a) <= Len(b) /\ \A i \in 1 .. Len(a) : a[i] = b[i]

(* The types on a path that begins another are those on the other.         *)
LEMMA BeginsFacts ==
  ASSUME NEW t \in Type, NEW a, NEW b, Valid(t, a), Valid(t, b), Begins(a, b)
  PROVE  /\ \A i \in 0 .. Len(a) : TypesOn(t, b)[i] = TypesOn(t, a)[i]
         /\ TypesOn(t, b)[Len(a)] = TypeAt(t, a)
         /\ Len(a) < Len(b) => b[Len(a) + 1] \in Indices(TypeAt(t, a))
         /\ Len(a) = Len(b) => a = b
<1>1. /\ a \in Seq(Nat) /\ b \in Seq(Nat) /\ Len(a) \in Nat /\ Len(b) \in Nat
      /\ Len(a) <= Len(b) /\ \A i \in 1 .. Len(a) : a[i] = b[i]
  BY WalkFacts DEF Begins
<1>2. \A i \in 0 .. Len(a) : TypesOn(t, b)[i] = TypesOn(t, a)[i]
  <2>1. Len(a) <= Len(a)
    BY <1>1
  <2> QED BY <1>1, <2>1, WalksAgree
<1>3. TypesOn(t, b)[Len(a)] = TypeAt(t, a)
  BY <1>1, <1>2 DEF TypeAt
<1>4. ASSUME Len(a) < Len(b)
      PROVE  b[Len(a) + 1] \in Indices(TypeAt(t, a))
  <2>1. Len(a) + 1 \in 1 .. Len(b) /\ (Len(a) + 1) - 1 = Len(a)
    BY <1>1, <1>4
  <2>2. b[Len(a) + 1] \in Indices(TypesOn(t, b)[(Len(a) + 1) - 1])
    BY <2>1, WalkFacts
  <2> QED BY <1>3, <2>1, <2>2
<1>5. Len(a) = Len(b) => a = b
  BY <1>1
<1> QED BY <1>2, <1>3, <1>4, <1>5

(* Two parts lie apart unless one is part of the other.                    *)
LEMMA PathsApart ==
  ASSUME NEW t \in Type, NEW a, NEW b, Valid(t, a), Valid(t, b), ~ Begins(a, b), ~ Begins(b, a)
  PROVE  \/ Gep(t, a) + AllocSize(TypeAt(t, a)) <= Gep(t, b)
         \/ Gep(t, b) + AllocSize(TypeAt(t, b)) <= Gep(t, a)
<1>1. /\ a \in Seq(Nat) /\ b \in Seq(Nat) /\ Len(a) \in Nat /\ Len(b) \in Nat
      /\ \A i \in 1 .. Len(a) : a[i] \in Nat
      /\ \A i \in 1 .. Len(b) : b[i] \in Nat
  BY WalkFacts
<1> DEFINE D == {j \in Nat : j \in 1 .. Len(a) /\ j <= Len(b) /\ a[j] # b[j]}
<1>2. D # {}
  <2>1. CASE Len(a) <= Len(b)
    <3>1. PICK j \in 1 .. Len(a) : a[j] # b[j]
      BY <2>1 DEF Begins
    <3>2. j \in D
      BY <1>1, <2>1, <3>1
    <3> QED BY <3>2
  <2>2. CASE ~ (Len(a) <= Len(b))
    <3>1. Len(b) <= Len(a)
      BY <1>1, <2>2
    <3>2. PICK j \in 1 .. Len(b) : b[j] # a[j]
      BY <3>1 DEF Begins
    <3>3. j \in D
      BY <1>1, <3>1, <3>2
    <3> QED BY <3>3
  <2> QED BY <2>1, <2>2
<1>3. PICK j \in D : \A k \in D : j <= k
  <2>1. D \in SUBSET Nat
    OBVIOUS
  <2> HIDE DEF D
  <2> QED BY <1>2, <2>1, LeastNatural
<1>4. /\ j \in 1 .. Len(a) /\ j \in 1 .. Len(b) /\ j <= Len(a) /\ j <= Len(b)
      /\ a[j] # b[j] /\ a[j] \in Nat /\ b[j] \in Nat
  BY <1>1
<1>5. \A i \in 1 .. j - 1 : a[i] = b[i]
  <2> SUFFICES ASSUME NEW i \in 1 .. j - 1, a[i] # b[i]
               PROVE  FALSE
    OBVIOUS
  <2>1. i \in 1 .. Len(a) /\ i <= Len(b) /\ i \in Nat /\ i < j
    BY <1>1, <1>4
  <2>2. i \in D
    BY <2>1
  <2>3. j <= i
    BY <1>3, <2>2
  <2> QED BY <1>4, <2>1, <2>3
<1> HIDE DEF D
<1>6. CASE a[j] < b[j]
  BY <1>4, <1>5, <1>6, WalksApart
<1>7. CASE b[j] < a[j]
  BY <1>4, <1>5, <1>7, WalksApart
<1> QED BY <1>4, <1>6, <1>7

(* Every part is aligned.                                                  *)
LEMMA PathsAligned ==
  ASSUME NEW t \in Type, NEW p, Valid(t, p)
  PROVE  Gep(t, p) % Align(TypeAt(t, p)) = 0
<1> DEFINE T == {q \in Seq(Nat) : Gep(t, q) % Align(TypeAt(t, q)) = 0}
<1>1. <<>> \in T
  <2>1. <<>> \in Seq(Nat) /\ Gep(t, <<>>) = 0 /\ TypeAt(t, <<>>) = t
    BY ShortPaths
  <2>2. Align(t) \in Nat \ {0}
    BY AlignFacts
  <2>3. 0 % Align(t) = 0
    BY <2>2
  <2> QED BY <2>1, <2>3
<1>2. ASSUME NEW q \in T, NEW k \in Indices(TypeAt(t, q)), Valid(t, q)
      PROVE  Append(q, k) \in T
  <2> DEFINE u == TypeAt(t, q)
  <2>1. u \in Type /\ Gep(t, q) \in Nat /\ q \in Seq(Nat)
    BY <1>2, WalkFacts
  <2>2. /\ Part(u, k) \in Type /\ PartAt(u, k) \in Nat /\ k \in Nat
        /\ PartAt(u, k) % Align(Part(u, k)) = 0 /\ Align(u) % Align(Part(u, k)) = 0
    BY <1>2, <2>1, PartFacts
  <2>3. Align(u) \in Nat \ {0} /\ Align(Part(u, k)) \in Nat \ {0}
    BY <2>1, <2>2, AlignFacts
  <2>4. Gep(t, q) % Align(Part(u, k)) = 0
    BY <1>2, <2>1, <2>2, <2>3, MultiplesTransitive
  <2>5. (Gep(t, q) + PartAt(u, k)) % Align(Part(u, k)) = 0
    BY <2>1, <2>2, <2>3, <2>4, MultiplesAdd
  <2>6. TypeAt(t, Append(q, k)) = Part(u, k) /\ Gep(t, Append(q, k)) = Gep(t, q) + PartAt(u, k)
    BY <1>2, Steps
  <2>7. Append(q, k) \in Seq(Nat)
    BY <2>1, <2>2
  <2> QED BY <2>5, <2>6, <2>7
<1>3. p \in T
  <2> HIDE DEF T
  <2> QED BY <1>1, <1>2, PathInduction
<1> QED BY <1>3

-----------------------------------------------------------------------------
(* Paths and inflation                                                     *)

(* What handle_gep makes of a path: its pieces are rewritten on their own. *)
LEMMA RewritingSplits ==
  ASSUME NEW t \in Type, NEW r, NEW p, NEW q, IsSplit(r, p, q), Valid(t, r)
  PROVE  /\ IsSplit(handle_gep(t, r), handle_gep(t, p), handle_gep(TypeAt(t, p), q))
         /\ \A i \in 1 .. Len(r) : handle_gep(t, r)[i] = Index(TypesOn(t, r)[i - 1], r[i])
         /\ handle_gep(t, r) \in Seq(Nat) /\ Len(handle_gep(t, r)) = Len(r)
<1> DEFINE h(u, x) == handle_gep(u, x)
<1>1. ASSUME NEW u \in Type, NEW x, Valid(u, x)
      PROVE  /\ h(u, x) \in Seq(Nat) /\ Len(h(u, x)) = Len(x)
             /\ \A i \in 1 .. Len(x) : h(u, x)[i] = Index(TypesOn(u, x)[i - 1], x[i])
  <2>1. x \in Seq(Nat) /\ Len(x) \in Nat /\ DOMAIN x = 1 .. Len(x) /\ \A i \in 1 .. Len(x) : x[i] \in Nat
    BY <1>1, WalkFacts
  <2>2. h(u, x) = [i \in 1 .. Len(x) |-> Index(TypesOn(u, x)[i - 1], x[i])]
    BY <2>1 DEF handle_gep, Index
  <2>3. \A i \in 1 .. Len(x) : Index(TypesOn(u, x)[i - 1], x[i]) \in Nat
    BY <2>1 DEF Index
  <2>4. h(u, x) \in [1 .. Len(x) -> Nat]
    BY <2>2, <2>3
  <2>5. \A n \in Nat : \A f \in [1 .. n -> Nat] : f \in Seq(Nat) /\ Len(f) = n
    OBVIOUS
  <2> QED BY <2>1, <2>2, <2>4, <2>5
<1> HIDE DEF h
<1> DEFINE u == TypeAt(t, p)
<1>2. /\ r \in Seq(Nat) /\ p \in Seq(Nat) /\ q \in Seq(Nat) /\ Len(r) = Len(p) + Len(q)
      /\ Len(p) \in Nat /\ Len(q) \in Nat /\ Len(r) \in Nat
      /\ \A i \in 1 .. Len(p) : r[i] = p[i]
      /\ \A i \in 1 .. Len(q) : r[Len(p) + i] = q[i]
  BY DEF IsSplit
<1>3. /\ Valid(t, p) /\ Valid(u, q) /\ u \in Type
      /\ \A i \in 0 .. Len(p) : TypesOn(t, r)[i] = TypesOn(t, p)[i]
      /\ \A i \in 0 .. Len(q) : TypesOn(t, r)[Len(p) + i] = TypesOn(u, q)[i]
  BY SplitWalk, WalkFacts
<1> HIDE DEF u
<1>4. \A i \in 1 .. Len(p) : h(t, r)[i] = h(t, p)[i]
  <2> TAKE i \in 1 .. Len(p)
  <2>1. i \in 1 .. Len(r) /\ i - 1 \in 0 .. Len(p) /\ r[i] = p[i]
    BY <1>2
  <2>2. h(t, r)[i] = Index(TypesOn(t, r)[i - 1], r[i])
    BY <1>1, <2>1
  <2>3. h(t, p)[i] = Index(TypesOn(t, p)[i - 1], p[i])
    BY <1>1, <1>3
  <2> QED BY <1>3, <2>1, <2>2, <2>3
<1>5. \A i \in 1 .. Len(q) : h(t, r)[Len(p) + i] = h(u, q)[i]
  <2> TAKE i \in 1 .. Len(q)
  <2>1. /\ Len(p) + i \in 1 .. Len(r) /\ i - 1 \in 0 .. Len(q) /\ r[Len(p) + i] = q[i]
        /\ (Len(p) + i) - 1 = Len(p) + (i - 1)
    BY <1>2
  <2>2. h(t, r)[Len(p) + i] = Index(TypesOn(t, r)[(Len(p) + i) - 1], r[Len(p) + i])
    BY <1>1, <2>1
  <2>3. h(u, q)[i] = Index(TypesOn(u, q)[i - 1], q[i])
    BY <1>1, <1>3
  <2> QED BY <1>3, <2>1, <2>2, <2>3
<1>6. /\ h(t, r) \in Seq(Nat) /\ h(t, p) \in Seq(Nat) /\ h(u, q) \in Seq(Nat)
      /\ Len(h(t, r)) = Len(r) /\ Len(h(t, p)) = Len(p) /\ Len(h(u, q)) = Len(q)
  BY <1>1, <1>3
<1>7. IsSplit(h(t, r), h(t, p), h(u, q))
  BY <1>2, <1>4, <1>5, <1>6 DEF IsSplit
<1> QED BY <1>1, <1>6, <1>7 DEF h, u

(* Rewriting a path of no index and of one more.                           *)
LEMMA RewritingSteps ==
  ASSUME NEW t \in Type
  PROVE  /\ handle_gep(t, <<>>) = <<>>
         /\ \A k \in Indices(t) : handle_gep(t, <<k>>) = <<Index(t, k)>>
         /\ \A p : Valid(t, p) => \A k \in Indices(TypeAt(t, p)) :
              handle_gep(t, Append(p, k)) = Append(handle_gep(t, p), Index(TypeAt(t, p), k))
<1>1. handle_gep(t, <<>>) = <<>>
  <2>1. Len(handle_gep(t, <<>>)) = 0 /\ handle_gep(t, <<>>) \in Seq(Nat)
    <3>1. IsSplit(<<>>, <<>>, <<>>) /\ Valid(t, <<>>) /\ Len(<<>>) = 0
      BY ShortPaths DEF IsSplit
    <3> QED BY <3>1, RewritingSplits
  <2> QED BY <2>1
<1>2. ASSUME NEW u \in Type, NEW k \in Indices(u)
      PROVE  handle_gep(u, <<k>>) = <<Index(u, k)>>
  <2>1. k \in Nat /\ Valid(u, <<k>>)
    BY PartFacts, ShortPaths
  <2>2. IsSplit(<<k>>, <<>>, <<k>>) /\ Len(<<k>>) = 1 /\ <<k>> \in Seq(Nat) /\ <<k>>[1] = k
    <3>1. <<k>> \in Seq(Nat) /\ <<>> \in Seq(Nat) /\ Len(<<k>>) = 1 /\ Len(<<>>) = 0
      BY <2>1
    <3> QED BY <3>1 DEF IsSplit
  <2>3. /\ handle_gep(u, <<k>>) \in Seq(Nat) /\ Len(handle_gep(u, <<k>>)) = Len(<<k>>)
        /\ \A i \in 1 .. Len(<<k>>) :
             handle_gep(u, <<k>>)[i] = Index(TypesOn(u, <<k>>)[i - 1], <<k>>[i])
    BY <2>1, <2>2, RewritingSplits
  <2>4. TypesOn(u, <<k>>)[0] = u /\ 1 \in 1 .. Len(<<k>>) /\ 1 - 1 = 0
    <3>1. 1 \in 1 .. Len(<<k>>) /\ 1 - 1 = 0
      BY <2>2
    <3> QED BY <2>2, <3>1, TypesOnEquation
  <2>5. handle_gep(u, <<k>>)[1] = Index(u, k) /\ Len(handle_gep(u, <<k>>)) = 1
    BY <2>2, <2>3, <2>4
  <2> QED BY <2>3, <2>5
<1>3. ASSUME NEW p, Valid(t, p), NEW k \in Indices(TypeAt(t, p))
      PROVE  handle_gep(t, Append(p, k)) = Append(handle_gep(t, p), Index(TypeAt(t, p), k))
  <2>1. /\ TypeAt(t, p) \in Type /\ p \in Seq(Nat) /\ k \in Nat /\ Valid(t, Append(p, k))
        /\ handle_gep(TypeAt(t, p), <<k>>) = <<Index(TypeAt(t, p), k)>>
    BY <1>2, <1>3, WalkFacts, Steps
  <2>2. IsSplit(Append(p, k), p, <<k>>)
    BY <2>1, Splits
  <2>3. IsSplit(handle_gep(t, Append(p, k)), handle_gep(t, p), <<Index(TypeAt(t, p), k)>>)
    BY <2>1, <2>2, RewritingSplits
  <2> DEFINE a == handle_gep(t, Append(p, k))
             b == handle_gep(t, p)
             c == Index(TypeAt(t, p), k)
  <2>4. IsSplit(a, b, <<c>>)
    BY <2>3
  <2> HIDE DEF a, b, c
  <2>5. /\ a \in Seq(Nat) /\ b \in Seq(Nat) /\ Len(a) = Len(b) + 1 /\ Len(b) \in Nat
        /\ \A i \in 1 .. Len(b) : a[i] = b[i]
        /\ a[Len(b) + 1] = c
    <3>1. Len(<<c>>) = 1 /\ <<c>>[1] = c /\ 1 \in 1 .. 1
      OBVIOUS
    <3> QED BY <2>4, <3>1 DEF IsSplit
  <2>6. c \in Nat
    BY <2>5
  <2>7. a = Append(b, c)
    BY <2>5, <2>6
  <2> QED BY <2>7 DEF a, b, c
<1> QED BY <1>1, <1>2, <1>3

(***************************************************************************)
(* A rewritten path is a path of the inflated type, and leads to the       *)
(* inflation of what the path leads to.                                    *)
(***************************************************************************)
LEMMA InflatedWalk ==
  ASSUME NEW t \in Inflatable, NEW p, Valid(t, p)
  PROVE  /\ Valid(Inflate(t), handle_gep(t, p))
         /\ TypeAt(Inflate(t), handle_gep(t, p)) = Inflate(TypeAt(t, p))
         /\ TypeAt(t, p) \in Inflatable
         /\ handle_gep(t, p) \in Seq(Nat) /\ Len(handle_gep(t, p)) = Len(p)
         /\ \A i \in 1 .. Len(p) : handle_gep(t, p)[i] = Index(TypesOn(t, p)[i - 1], p[i])
<1>1. t \in Type /\ Inflate(t) \in Type
  BY InflatableFacts
<1> DEFINE hp(q) == handle_gep(t, q)
           T == {q \in Seq(Nat) : /\ Valid(Inflate(t), hp(q))
                                  /\ TypeAt(Inflate(t), hp(q)) = Inflate(TypeAt(t, q))
                                  /\ TypeAt(t, q) \in Inflatable}
<1>2. <<>> \in T
  <2>1. <<>> \in Seq(Nat) /\ hp(<<>>) = <<>>
    BY <1>1, RewritingSteps
  <2> QED BY <1>1, <2>1, ShortPaths
<1>3. ASSUME NEW q \in T, NEW k \in Indices(TypeAt(t, q)), Valid(t, q)
      PROVE  Append(q, k) \in T
  <2> DEFINE u == TypeAt(t, q)
  <2>1. /\ k \in Nat /\ Part(u, k) \in Inflatable
        /\ Index(u, k) \in Indices(Inflate(u)) /\ Part(Inflate(u), Index(u, k)) = Inflate(Part(u, k))
    BY <1>3, InflatedParts
  <2>2. hp(Append(q, k)) = Append(hp(q), Index(u, k))
    BY <1>1, <1>3, RewritingSteps
  <2>3. TypeAt(t, Append(q, k)) = Part(u, k) /\ Append(q, k) \in Seq(Nat)
    BY <1>1, <1>3, <2>1, Steps
  <2>4. /\ Valid(Inflate(t), Append(hp(q), Index(u, k)))
        /\ TypeAt(Inflate(t), Append(hp(q), Index(u, k))) = Part(Inflate(u), Index(u, k))
    <3>1. Valid(Inflate(t), hp(q)) /\ TypeAt(Inflate(t), hp(q)) = Inflate(u)
      BY <1>3
    <3> HIDE DEF hp, u
    <3>2. Index(u, k) \in Indices(TypeAt(Inflate(t), hp(q)))
      BY <2>1, <3>1
    <3> QED BY <1>1, <3>1, <3>2, Steps
  <2> QED BY <2>1, <2>2, <2>3, <2>4
<1>4. p \in T
  <2> HIDE DEF T
  <2> QED BY <1>1, <1>2, <1>3, PathInduction
<1>5. IsSplit(p, p, <<>>)
  <2>1. p \in Seq(Nat) /\ <<>> \in Seq(Nat) /\ Len(<<>>) = 0 /\ Len(p) = Len(p) + 0
    BY <1>1, WalkFacts
  <2> QED BY <2>1 DEF IsSplit
<1> QED BY <1>1, <1>4, <1>5, RewritingSplits

(* Different paths are rewritten to different ones.                        *)
LEMMA RewritingInjective ==
  ASSUME NEW t \in Inflatable, NEW p, NEW q, Valid(t, p), Valid(t, q),
         Begins(handle_gep(t, p), handle_gep(t, q))
  PROVE  Begins(p, q)
<1> DEFINE a == handle_gep(t, p)
           b == handle_gep(t, q)
<1>1. t \in Type
  BY InflatableFacts
<1>2. /\ p \in Seq(Nat) /\ q \in Seq(Nat) /\ Len(p) \in Nat /\ Len(q) \in Nat
      /\ Len(a) = Len(p) /\ Len(b) = Len(q)
      /\ \A i \in 1 .. Len(p) : a[i] = Index(TypesOn(t, p)[i - 1], p[i])
      /\ \A i \in 1 .. Len(q) : b[i] = Index(TypesOn(t, q)[i - 1], q[i])
  BY <1>1, WalkFacts, InflatedWalk
<1>3. Len(p) <= Len(q) /\ \A i \in 1 .. Len(p) : a[i] = b[i]
  BY <1>2 DEF Begins
<1> HIDE DEF a, b
<1> DEFINE L == {n \in Nat : n <= Len(p) => \A i \in 1 .. n : p[i] = q[i]}
<1>4. 0 \in L
  OBVIOUS
<1>5. ASSUME NEW n \in Nat, n \in L
      PROVE  n + 1 \in L
  <2>1. SUFFICES ASSUME n + 1 <= Len(p)
                 PROVE  \A i \in 1 .. n + 1 : p[i] = q[i]
    OBVIOUS
  <2>2. /\ n + 1 \in 1 .. Len(p) /\ n + 1 \in 1 .. Len(q) /\ (n + 1) - 1 = n
        /\ n <= Len(p) /\ n <= Len(q) /\ n \in 0 .. n
    BY <1>2, <1>3, <2>1
  <2>3. \A i \in 1 .. n : p[i] = q[i]
    BY <1>5, <2>2
  <2>4. TypesOn(t, p)[n] = TypesOn(t, q)[n]
    BY <1>1, <1>2, <2>2, <2>3, WalksAgree
  <2>5. Index(TypesOn(t, p)[n], p[n + 1]) = Index(TypesOn(t, p)[n], q[n + 1])
    BY <1>2, <1>3, <2>2, <2>4
  <2>6. p[n + 1] \in Nat /\ q[n + 1] \in Nat
    BY <1>2, <2>2
  <2>7. p[n + 1] = q[n + 1]
    BY <2>5, <2>6 DEF Index
  <2>8. \A i \in 1 .. n + 1 : i \in 1 .. n \/ i = n + 1
    OBVIOUS
  <2> QED BY <2>3, <2>7, <2>8
<1>6. Nat \subseteq L
  <2> HIDE DEF L
  <2> QED BY <1>4, <1>5, SetInduction
<1> QED BY <1>2, <1>3, <1>6 DEF Begins

-----------------------------------------------------------------------------
(* Redzones as parts of the inflated type                                  *)

(* Where the part at path p of type t is found after inflation.            *)
Place(t, p) == Gep(Inflate(t), handle_gep(t, p))

ZonePath(t, q, y) == Append(handle_gep(t, q), y)

(* The y-th field of the struct at path q is one of its redzones.          *)
IsZone(t, q, y) ==
  Valid(t, q) /\ IsStruct(TypeAt(t, q)) /\ y \in redzone_offsets(Inflate(TypeAt(t, q)))

(* What is in front of the end of a path begins it.                        *)
LEMMA BeginsAppended ==
  ASSUME NEW a \in Seq(Nat), NEW b \in Seq(Nat), NEW y \in Nat
  PROVE  /\ Append(b, y) \in Seq(Nat) /\ Len(Append(b, y)) = Len(b) + 1
         /\ Append(b, y)[Len(b) + 1] = y
         /\ Begins(Append(b, y), a) =>
              Begins(b, a) /\ a[Len(b) + 1] = y /\ Len(b) + 1 <= Len(a)
         /\ Len(a) <= Len(b) /\ Begins(a, Append(b, y)) => Begins(a, b)
         /\ Len(a) = Len(b) + 1 /\ Begins(a, Append(b, y)) => Begins(Append(b, y), a)
<1>1. /\ Append(b, y) \in Seq(Nat) /\ Len(Append(b, y)) = Len(b) + 1 /\ Len(b) \in Nat
      /\ Append(b, y)[Len(b) + 1] = y /\ \A i \in 1 .. Len(b) : Append(b, y)[i] = b[i]
      /\ Len(a) \in Nat
  OBVIOUS
<1> DEFINE c == Append(b, y)
<1>2. /\ Len(c) = Len(b) + 1 /\ c[Len(b) + 1] = y /\ \A i \in 1 .. Len(b) : c[i] = b[i]
  BY <1>1
<1> HIDE DEF c
<1>3. ASSUME Begins(c, a)
      PROVE  Begins(b, a) /\ a[Len(b) + 1] = y /\ Len(b) + 1 <= Len(a)
  BY <1>1, <1>2, <1>3 DEF Begins
<1>4. ASSUME Len(a) <= Len(b), Begins(a, c)
      PROVE  Begins(a, b)
  BY <1>1, <1>2, <1>4 DEF Begins
<1>5. ASSUME Len(a) = Len(b) + 1, Begins(a, c)
      PROVE  Begins(c, a)
  BY <1>1, <1>2, <1>5 DEF Begins
<1> QED BY <1>1, <1>3, <1>4, <1>5 DEF c

(* The redzones are parts of the inflated type.                            *)
LEMMA ZonePaths ==
  ASSUME NEW t \in Inflatable, NEW q, NEW y, IsZone(t, q, y)
  PROVE  /\ Valid(Inflate(t), ZonePath(t, q, y)) /\ TypeAt(Inflate(t), ZonePath(t, q, y)) = Redzone
         /\ Gep(Inflate(t), ZonePath(t, q, y)) = Place(t, q) + Offset(Inflate(TypeAt(t, q)), y)
         /\ handle_gep(t, q) \in Seq(Nat) /\ Len(handle_gep(t, q)) = Len(q) /\ y \in Nat
         /\ Offset(Inflate(TypeAt(t, q)), y) \in Nat
<1> DEFINE u == TypeAt(t, q)
           h == handle_gep(t, q)
<1>1. Inflate(t) \in Type /\ Valid(t, q) /\ IsStruct(u) /\ y \in redzone_offsets(Inflate(u))
  BY InflatableFacts DEF IsZone
<1>2. Valid(Inflate(t), h) /\ TypeAt(Inflate(t), h) = Inflate(u) /\ u \in Inflatable
      /\ h \in Seq(Nat) /\ Len(h) = Len(q)
  BY <1>1, InflatedWalk
<1>3. y \in Indices(Inflate(u)) /\ Part(Inflate(u), y) = Redzone /\ Inflate(u).kind = "struct"
  BY <1>1, <1>2, InflatedParts DEF IsStruct
<1>4. PartAt(Inflate(u), y) = Offset(Inflate(u), y)
  BY <1>3 DEF PartAt
<1>5. PartAt(Inflate(u), y) \in Nat
  <2>1. Inflate(u) \in Type
    BY <1>2, InflatableFacts
  <2> QED BY <1>3, <2>1, PartFacts
<1> HIDE DEF u, h
<1>6. y \in Indices(TypeAt(Inflate(t), h))
  BY <1>2, <1>3
<1>7. /\ Valid(Inflate(t), Append(h, y)) /\ y \in Nat
      /\ TypeAt(Inflate(t), Append(h, y)) = Part(TypeAt(Inflate(t), h), y)
      /\ Gep(Inflate(t), Append(h, y)) = Gep(Inflate(t), h) + PartAt(TypeAt(Inflate(t), h), y)
  BY <1>1, <1>2, <1>6, Steps
<1> QED BY <1>2, <1>3, <1>4, <1>5, <1>7 DEF ZonePath, Place, u, h

(* No rewritten path leads through a redzone.                              *)
LEMMA ZoneOffPath ==
  ASSUME NEW t \in Inflatable, NEW q, NEW y, IsZone(t, q, y), NEW p, Valid(t, p)
  PROVE  ~ Begins(ZonePath(t, q, y), handle_gep(t, p))
<1> SUFFICES ASSUME Begins(ZonePath(t, q, y), handle_gep(t, p))
             PROVE  FALSE
  OBVIOUS
<1> DEFINE u == TypeAt(t, q)
           n == Len(q)
<1>1. t \in Type /\ Valid(t, q) /\ IsStruct(u) /\ y \in redzone_offsets(Inflate(u))
  BY InflatableFacts DEF IsZone
<1>2. /\ handle_gep(t, q) \in Seq(Nat) /\ Len(handle_gep(t, q)) = n /\ y \in Nat
      /\ handle_gep(t, p) \in Seq(Nat) /\ Len(handle_gep(t, p)) = Len(p)
      /\ \A i \in 1 .. Len(p) : handle_gep(t, p)[i] = Index(TypesOn(t, p)[i - 1], p[i])
      /\ u \in Inflatable
  BY <1>1, ZonePaths, InflatedWalk
<1>3. /\ Begins(handle_gep(t, q), handle_gep(t, p))
      /\ handle_gep(t, p)[n + 1] = y /\ n + 1 <= Len(p)
  BY <1>2, BeginsAppended DEF ZonePath
<1>4. Begins(q, p)
  BY <1>1, <1>3, RewritingInjective
<1>5. n \in Nat /\ n < Len(p) /\ n + 1 \in 1 .. Len(p) /\ (n + 1) - 1 = n
  <2>1. n \in Nat /\ Len(p) \in Nat
    BY <1>1, WalkFacts
  <2> QED BY <1>3, <2>1
<1>6. p[n + 1] \in Indices(u) /\ TypesOn(t, p)[n] = u
  BY <1>1, <1>4, <1>5, BeginsFacts
<1>7. Index(u, p[n + 1]) = y
  BY <1>2, <1>3, <1>5, <1>6
<1>8. Index(u, p[n + 1]) \notin redzone_offsets(Inflate(u))
  BY <1>1, <1>2, <1>6, InflatedParts DEF IsStruct
<1> QED BY <1>1, <1>7, <1>8

(* A field of integer type and a redzone lie apart.                        *)
LEMMA LeafClearsZone ==
  ASSUME NEW t \in Inflatable, NEW q, NEW y, IsZone(t, q, y),
         NEW p, Valid(t, p), TypeAt(t, p).kind = "int"
  PROVE  \/ Place(t, p) + AllocSize(TypeAt(t, p)) <= Place(t, q) + Offset(Inflate(TypeAt(t, q)), y)
         \/ Place(t, q) + Offset(Inflate(TypeAt(t, q)), y) + RZ <= Place(t, p)
<1> DEFINE h == handle_gep(t, p)
           z == ZonePath(t, q, y)
           hq == handle_gep(t, q)
<1>1. t \in Type /\ Inflate(t) \in Type /\ Valid(t, q) /\ IsStruct(TypeAt(t, q))
  BY InflatableFacts DEF IsZone
<1>2. /\ Valid(Inflate(t), z) /\ TypeAt(Inflate(t), z) = Redzone
      /\ Gep(Inflate(t), z) = Place(t, q) + Offset(Inflate(TypeAt(t, q)), y)
      /\ hq \in Seq(Nat) /\ Len(hq) = Len(q) /\ y \in Nat
  BY ZonePaths
<1>3. /\ Valid(Inflate(t), h) /\ TypeAt(Inflate(t), h) = Inflate(TypeAt(t, p))
      /\ TypeAt(t, p) \in Inflatable /\ h \in Seq(Nat) /\ Len(h) = Len(p)
  BY InflatedWalk
<1>4. Inflate(TypeAt(t, p)) = TypeAt(t, p)
  <2>1. IsInt(TypeAt(t, p)) /\ TypeAt(t, p) \in Type
    BY <1>3, InflatableFacts DEF IsArrayOf, IsStructOf
  <2> QED BY <2>1, InflateEquation
<1>5. Len(p) \in Nat /\ Len(q) \in Nat /\ p \in Seq(Nat) /\ q \in Seq(Nat)
  BY <1>1, WalkFacts
<1>6. ~ Begins(z, h)
  BY ZoneOffPath
<1>7. ~ Begins(h, z)
  <2> SUFFICES ASSUME Begins(h, z)
               PROVE  FALSE
    OBVIOUS
  <2>1. z = Append(hq, y)
    BY DEF ZonePath
  <2> HIDE DEF h, z, hq
  <2>2. Len(z) = Len(q) + 1
    BY <1>2, <2>1, BeginsAppended
  <2>3. CASE Len(p) <= Len(q)
    <3>1. Begins(h, hq)
      BY <1>2, <1>3, <2>1, <2>3, BeginsAppended
    <3>2. Begins(p, q)
      BY <1>1, <3>1, RewritingInjective DEF h, hq
    <3>3. CASE Len(p) < Len(q)
      <4>1. q[Len(p) + 1] \in Indices(TypeAt(t, p))
        BY <1>1, <3>2, <3>3, BeginsFacts
      <4> QED BY <4>1 DEF Indices
    <3>4. CASE ~ (Len(p) < Len(q))
      <4>1. Len(p) = Len(q)
        BY <1>5, <2>3, <3>4
      <4>2. p = q
        BY <1>1, <3>2, <4>1, BeginsFacts
      <4> QED BY <1>1, <4>2 DEF IsStruct
    <3> QED BY <3>3, <3>4
  <2>4. CASE ~ (Len(p) <= Len(q))
    <3>1. Len(h) = Len(hq) + 1
      <4>1. Len(h) <= Len(z)
        BY DEF Begins
      <4> QED BY <1>2, <1>3, <1>5, <2>2, <2>4, <4>1
    <3> QED BY <1>2, <1>3, <1>6, <2>1, <3>1, BeginsAppended
  <2> QED BY <2>3, <2>4
<1>8. \/ Gep(Inflate(t), h) + AllocSize(TypeAt(Inflate(t), h)) <= Gep(Inflate(t), z)
      \/ Gep(Inflate(t), z) + AllocSize(TypeAt(Inflate(t), z)) <= Gep(Inflate(t), h)
  BY <1>1, <1>2, <1>3, <1>6, <1>7, PathsApart
<1>9. Place(t, p) = Gep(Inflate(t), h)
  BY DEF Place
<1> QED BY <1>2, <1>3, <1>4, <1>8, <1>9, RedzoneFacts

(* The redzones of two structs are different ones.                         *)
LEMMA ZonesDistinct ==
  ASSUME NEW t \in Inflatable, NEW q, NEW y, IsZone(t, q, y), NEW r, NEW x, IsZone(t, r, x), q # r
  PROVE  Place(t, q) + Offset(Inflate(TypeAt(t, q)), y)
           # Place(t, r) + Offset(Inflate(TypeAt(t, r)), x)
<1> DEFINE z(p, k) == ZonePath(t, p, k)
<1>1. t \in Type /\ Inflate(t) \in Type /\ Valid(t, q) /\ Valid(t, r)
  BY InflatableFacts DEF IsZone
<1>2. ASSUME NEW a, NEW k, NEW b, NEW l, IsZone(t, a, k), IsZone(t, b, l), Begins(z(a, k), z(b, l))
      PROVE  a = b
  <2> DEFINE ha == handle_gep(t, a)
             hb == handle_gep(t, b)
  <2>1. Valid(t, a) /\ Valid(t, b)
    BY <1>2 DEF IsZone
  <2>2. /\ ha \in Seq(Nat) /\ Len(ha) = Len(a) /\ k \in Nat
        /\ hb \in Seq(Nat) /\ Len(hb) = Len(b) /\ l \in Nat
        /\ Len(a) \in Nat /\ Len(b) \in Nat /\ a \in Seq(Nat) /\ b \in Seq(Nat)
    BY <1>1, <1>2, <2>1, ZonePaths, WalkFacts
  <2>3. z(a, k) = Append(ha, k) /\ z(b, l) = Append(hb, l)
    BY DEF ZonePath
  <2>4. Append(ha, k) \in Seq(Nat) /\ Append(hb, l) \in Seq(Nat)
        /\ Len(Append(ha, k)) = Len(a) + 1 /\ Len(Append(hb, l)) = Len(b) + 1
    <3> HIDE DEF ha, hb
    <3>1. Append(ha, k) \in Seq(Nat) /\ Len(Append(ha, k)) = Len(a) + 1
      BY <2>2, BeginsAppended
    <3>2. Append(hb, l) \in Seq(Nat) /\ Len(Append(hb, l)) = Len(b) + 1
      BY <2>2, BeginsAppended
    <3> QED BY <3>1, <3>2
  <2>5. ~ Begins(Append(ha, k), hb)
    BY <1>2, <2>1, ZoneOffPath DEF ZonePath
  <2>6. Begins(Append(ha, k), Append(hb, l))
    BY <1>2, <2>3
  <2> HIDE DEF ha, hb
  <2>7. ~ (Len(Append(ha, k)) <= Len(hb))
    BY <2>2, <2>4, <2>5, <2>6, BeginsAppended
  <2>8. Len(a) = Len(b)
    <3>1. Len(Append(ha, k)) <= Len(Append(hb, l))
      BY <2>6 DEF Begins
    <3> QED BY <2>2, <2>4, <2>7, <3>1
  <2>9. Begins(ha, Append(hb, l))
    BY <2>2, <2>4, <2>6, BeginsAppended
  <2>10. Begins(ha, hb)
    BY <2>2, <2>8, <2>9, BeginsAppended
  <2>11. Begins(a, b)
    BY <2>1, <2>10, RewritingInjective DEF ha, hb
  <2> QED BY <1>1, <2>1, <2>8, <2>11, BeginsFacts
<1>3. ~ Begins(z(q, y), z(r, x)) /\ ~ Begins(z(r, x), z(q, y))
  <2> HIDE DEF z
  <2> QED BY <1>2
<1>4. /\ Valid(Inflate(t), z(q, y)) /\ TypeAt(Inflate(t), z(q, y)) = Redzone
      /\ Gep(Inflate(t), z(q, y)) = Place(t, q) + Offset(Inflate(TypeAt(t, q)), y)
  BY ZonePaths
<1>5. /\ Valid(Inflate(t), z(r, x)) /\ TypeAt(Inflate(t), z(r, x)) = Redzone
      /\ Gep(Inflate(t), z(r, x)) = Place(t, r) + Offset(Inflate(TypeAt(t, r)), x)
  BY ZonePaths
<1> HIDE DEF z
<1>6. \/ Gep(Inflate(t), z(q, y)) + RZ <= Gep(Inflate(t), z(r, x))
      \/ Gep(Inflate(t), z(r, x)) + RZ <= Gep(Inflate(t), z(q, y))
  BY <1>1, <1>3, <1>4, <1>5, PathsApart, RedzoneFacts
<1>7. Gep(Inflate(t), z(q, y)) \in Nat /\ Gep(Inflate(t), z(r, x)) \in Nat
  BY <1>1, <1>4, <1>5, WalkFacts
<1>8. Gep(Inflate(t), z(q, y)) # Gep(Inflate(t), z(r, x))
  BY <1>6, <1>7, RedzoneAssumption
<1> QED BY <1>4, <1>5, <1>8

-----------------------------------------------------------------------------
(* Where the fields are found                                              *)

(* Structs and leaves, by their paths.                                     *)
LEMMA PathSets ==
  ASSUME NEW t \in Type
  PROVE  /\ \A p : p \in StructPaths(t) <=> Valid(t, p) /\ IsStruct(TypeAt(t, p))
         /\ \A p : p \in Leaves(t) <=> Valid(t, p) /\ TypeAt(t, p).kind = "int"
         /\ HasStruct(t) <=> \E p : Valid(t, p) /\ IsStruct(TypeAt(t, p))
BY PathsAreValid DEF StructPaths, Leaves, HasStruct

(* A type has a struct if it is one or if a part of it has one.            *)
LEMMA HasStructParts ==
  ASSUME NEW t \in Type
  PROVE  /\ IsStruct(t) => HasStruct(t)
         /\ \A p : Valid(t, p) /\ HasStruct(TypeAt(t, p)) => HasStruct(t)
         /\ \A k \in Indices(t) : HasStruct(Part(t, k)) => HasStruct(t)
         /\ HasStruct(t) /\ ~ IsStruct(t) => \E k \in Indices(t) : HasStruct(Part(t, k))
<1>1. IsStruct(t) => HasStruct(t)
  BY PathSets, ShortPaths
<1>2. ASSUME NEW p, Valid(t, p), HasStruct(TypeAt(t, p))
      PROVE  HasStruct(t)
  <2>1. TypeAt(t, p) \in Type /\ p \in Seq(Nat)
    BY <1>2, WalkFacts
  <2>2. PICK q : Valid(TypeAt(t, p), q) /\ IsStruct(TypeAt(TypeAt(t, p), q))
    BY <1>2, <2>1, PathSets
  <2>3. q \in Seq(Nat)
    BY <2>1, <2>2, WalkFacts
  <2>4. IsSplit(p \o q, p, q)
    BY <2>1, <2>3, Splits
  <2>5. Valid(t, p \o q) /\ TypeAt(t, p \o q) = TypeAt(TypeAt(t, p), q)
    BY <1>2, <2>2, <2>4, SplitWalk
  <2> QED BY <2>2, <2>5, PathSets
<1>3. ASSUME NEW k \in Indices(t), HasStruct(Part(t, k))
      PROVE  HasStruct(t)
  BY <1>2, <1>3, ShortPaths
<1>4. ASSUME HasStruct(t), ~ IsStruct(t)
      PROVE  \E k \in Indices(t) : HasStruct(Part(t, k))
  <2>1. PICK p : Valid(t, p) /\ IsStruct(TypeAt(t, p))
    BY <1>4, PathSets
  <2>2. p \in Seq(Nat) /\ Len(p) \in Nat
    BY <2>1, WalkFacts
  <2>3. Len(p) # 0
    <3>1. Len(p) = 0 => p = <<>>
      BY <2>2
    <3> QED BY <1>4, <2>1, <3>1, ShortPaths
  <2>4. 1 \in 0 .. Len(p) /\ 1 \in 1 .. Len(p) /\ 1 - 1 = 0
    BY <2>2, <2>3
  <2>5. p[1] \in Indices(TypesOn(t, p)[1 - 1]) /\ TypesOn(t, p)[1] = Part(TypesOn(t, p)[1 - 1], p[1])
    BY <2>1, <2>4, WalkFacts
  <2>6. TypesOn(t, p)[0] = t
    BY <2>2, TypesOnEquation
  <2>7. p[1] \in Indices(t) /\ TypesOn(t, p)[1] = Part(t, p[1])
    BY <2>4, <2>5, <2>6
  <2>8. /\ Valid(Part(t, p[1]), SubSeq(p, 1 + 1, Len(p)))
        /\ TypeAt(Part(t, p[1]), SubSeq(p, 1 + 1, Len(p))) = TypeAt(t, p)
    BY <2>1, <2>4, <2>7, Pieces
  <2>9. Part(t, p[1]) \in Type
    BY <2>7, PartFacts
  <2>10. HasStruct(Part(t, p[1]))
    BY <2>1, <2>8, <2>9, PathSets
  <2> QED BY <2>7, <2>10
<1> QED BY <1>1, <1>2, <1>3, <1>4

(* A type with no struct in it is left alone, and so are its paths.        *)
LEMMA NoStruct ==
  ASSUME NEW t \in Type, ~ HasStruct(t)
  PROVE  Inflate(t) = t /\ \A p : Valid(t, p) => handle_gep(t, p) = p
<1> DEFINE T == {u \in Type : ~ HasStruct(u) => Inflate(u) = u}
<1>1. \A u \in Type : IsInt(u) => u \in T
  BY InflateEquation
<1>2. ASSUME NEW u \in Type, IsArrayOf(u, Type), u.elem \in T
      PROVE  u \in T
  <2>1. 0 \in Indices(u) /\ Part(u, 0) = u.elem /\ u = ArrayType(u.num, u.elem)
    BY <1>2 DEF IsArrayOf, Indices, Part
  <2>2. HasStruct(u.elem) => HasStruct(u)
    BY <2>1, HasStructParts
  <2>3. Inflate(u) = ArrayType(u.num, Inflate(u.elem))
    BY <1>2, InflateEquation
  <2> QED BY <1>2, <2>1, <2>2, <2>3
<1>3. \A u \in Type : IsStructOf(u, Type) => u \in T
  BY HasStructParts DEF IsStructOf, IsStruct
<1>4. Type \subseteq T
  <2> HIDE DEF T
  <2> QED BY <1>1, <1>2, <1>3, TypeInduction
<1>5. ASSUME NEW p, Valid(t, p)
      PROVE  handle_gep(t, p) = p
  <2>1. p \in Seq(Nat) /\ Len(p) \in Nat /\ DOMAIN p = 1 .. Len(p)
    BY <1>5, WalkFacts
  <2>2. ASSUME NEW i \in 1 .. Len(p)
        PROVE  TypesOn(t, p)[i - 1].kind = "array"
    <3> DEFINE u == TypesOn(t, p)[i - 1]
    <3>1. i - 1 \in 0 .. Len(p) /\ u \in Type /\ p[i] \in Indices(u)
      BY <1>5, <2>1, WalkFacts
    <3>2. Valid(t, SubSeq(p, 1, i - 1)) /\ TypeAt(t, SubSeq(p, 1, i - 1)) = u
      BY <1>5, <3>1, Pieces
    <3>3. ~ IsStruct(u)
      BY <3>2, PathSets
    <3>4. IsInt(u) \/ IsArrayOf(u, Type) \/ IsStructOf(u, Type)
      BY <3>1, TypeKinds
    <3> QED BY <3>1, <3>3, <3>4 DEF IsInt, IsArrayOf, IsStructOf, IsStruct, Indices
  <2>3. handle_gep(t, p) = [i \in 1 .. Len(p) |-> p[i]]
    BY <2>1, <2>2 DEF handle_gep
  <2> QED BY <2>1, <2>3
<1> QED BY <1>4, <1>5

(* The places of parts of parts.                                           *)
LEMMA PlaceSplits ==
  ASSUME NEW t \in Inflatable, NEW r, NEW p, NEW q, IsSplit(r, p, q), Valid(t, r)
  PROVE  /\ Valid(t, p) /\ TypeAt(t, p) \in Inflatable /\ Valid(TypeAt(t, p), q)
         /\ TypeAt(t, r) = TypeAt(TypeAt(t, p), q)
         /\ Place(t, r) = Place(t, p) + Place(TypeAt(t, p), q)
         /\ Place(t, r) \in Nat /\ Place(t, p) \in Nat /\ Place(TypeAt(t, p), q) \in Nat
<1> DEFINE u == TypeAt(t, p)
<1>1. t \in Type /\ Inflate(t) \in Type
  BY InflatableFacts
<1>2. Valid(t, p) /\ Valid(u, q) /\ TypeAt(t, r) = TypeAt(u, q)
  BY <1>1, SplitWalk
<1>3. u \in Inflatable /\ TypeAt(Inflate(t), handle_gep(t, p)) = Inflate(u)
      /\ Valid(Inflate(t), handle_gep(t, p))
  BY <1>2, InflatedWalk
<1>4. Valid(Inflate(t), handle_gep(t, r))
  BY InflatedWalk
<1>5. IsSplit(handle_gep(t, r), handle_gep(t, p), handle_gep(u, q))
  BY <1>1, RewritingSplits
<1>6. Place(t, r) = Place(t, p) + Place(u, q)
  BY <1>1, <1>3, <1>4, <1>5, SplitWalk DEF Place
<1>7. Valid(Inflate(u), handle_gep(u, q)) /\ Inflate(u) \in Type
  <2> HIDE DEF u
  <2> QED BY <1>2, <1>3, InflatedWalk, InflatableFacts
<1>8. Place(t, r) \in Nat /\ Place(t, p) \in Nat /\ Place(u, q) \in Nat
  BY <1>1, <1>3, <1>4, <1>7, WalkFacts DEF Place
<1> QED BY <1>2, <1>3, <1>6, <1>8

(* A GEP finds the part of an inflated struct or struct array, and that of *)
(* a type which inflation does not change.                                 *)
LEMMA RewrittenFinds ==
  ASSUME NEW t \in Type, NEW p, Valid(t, p), IsNested(t) \/ ~ HasStruct(t)
  PROVE  Rewritten(t, p) = Place(t, p)
<1>1. CASE IsNested(t)
  BY <1>1 DEF Rewritten, GepType, GepIndices, Place, IsNested
<1>2. CASE ~ HasStruct(t) /\ ~ IsNested(t)
  BY <1>2, NoStruct DEF Rewritten, GepType, GepIndices, Place, IsNested
<1> QED BY <1>1, <1>2

(* The allocations of setupRedzones.                                       *)
SourceOK ==
  \E s \in Structs : source = s \/ \E n \in Counts : source = ArrayType(n, s)

(* Their types can be inflated, and the rewriting replaces their GEPs.     *)
LEMMA SourceFacts ==
  ASSUME SourceOK
  PROVE  source \in Inflatable /\ source \in Type /\ object \in Type /\ IsNested(source)
<1>1. PICK s \in Structs : source = s \/ \E n \in Counts : source = ArrayType(n, s)
  BY DEF SourceOK
<1>2. IsStruct(s) /\ s \in TypesUpTo(Depth - 2)
  BY StructsAssumption
<1>3. Depth - 2 \in Nat /\ Depth - 1 = (Depth - 2) + 1
  BY DepthAssumption
<1>4. s \in Inflatable /\ Inflatable = TypesOver(TypesUpTo(Depth - 2))
  BY <1>2, <1>3, TypesGrow, TypesEquation DEF Inflatable
<1>5. CASE source = s
  BY <1>2, <1>4, <1>5, InflatableFacts DEF IsNested, object
<1>6. CASE \E n \in Counts : source = ArrayType(n, s)
  <2>1. PICK n \in Counts : source = ArrayType(n, s)
    BY <1>6
  <2>2. n \in Nat \ {0}
    BY CountsAssumption
  <2>3. source \in Inflatable
    BY <1>2, <1>4, <2>1, <2>2, KindsAreTypes
  <2>4. IsStructArray(source)
    BY <1>2, <2>1 DEF IsStructArray, ArrayType, IsStruct
  <2> QED BY <2>3, <2>4, InflatableFacts DEF IsNested, object
<1> QED BY <1>1, <1>5, <1>6

(* Where a split access goes.                                              *)
LEMMA Addresses ==
  ASSUME SourceOK, NEW p, Valid(source, p), NEW n \in 0 .. Len(p)
  PROVE  /\ IsSplit(p, SubSeq(p, 1, n), SubSeq(p, n + 1, Len(p)))
         /\ Address(p, n) = Place(source, SubSeq(p, 1, n))
                              + Rewritten(TypeAt(source, SubSeq(p, 1, n)), SubSeq(p, n + 1, Len(p)))
         /\ Address(p, 0) = Place(source, p)
<1> DEFINE a(m) == SubSeq(p, 1, m)
           b(m) == SubSeq(p, m + 1, Len(p))
<1>1. /\ source \in Type /\ source \in Inflatable /\ IsNested(source)
      /\ p \in Seq(Nat) /\ 0 \in 0 .. Len(p)
  BY SourceFacts, WalkFacts
<1>2. ASSUME NEW m \in 0 .. Len(p)
      PROVE  /\ IsSplit(p, a(m), b(m))
             /\ Address(p, m) = Place(source, a(m)) + Rewritten(TypeAt(source, a(m)), b(m))
  <2>1. IsSplit(p, a(m), b(m))
    BY <1>1, Splits
  <2>2. Valid(source, a(m))
    BY <1>1, <2>1, SplitWalk
  <2>3. Rewritten(source, a(m)) = Place(source, a(m))
    <3> HIDE DEF a
    <3> QED BY <1>1, <2>2, RewrittenFinds
  <2> QED BY <2>1, <2>3 DEF Address
<1>3. a(0) = <<>> /\ b(0) = p
  BY <1>1
<1>4. Place(source, <<>>) = 0
  <2>1. handle_gep(source, <<>>) = <<>> /\ object \in Type
    BY <1>1, RewritingSteps, SourceFacts
  <2> QED BY <2>1, ShortPaths DEF Place, object
<1>5. Address(p, 0) = Place(source, p)
  <2>1. Address(p, 0) = Place(source, <<>>) + Rewritten(TypeAt(source, <<>>), p)
    BY <1>1, <1>2, <1>3
  <2>2. TypeAt(source, <<>>) = source /\ Rewritten(source, p) = Place(source, p)
    BY <1>1, ShortPaths, RewrittenFinds
  <2>3. Place(source, p) \in Nat
    BY <1>1, <1>2, PlaceSplits
  <2> QED BY <1>4, <2>1, <2>2, <2>3
<1> QED BY <1>2, <1>5

(* Without a matrix of structs, it makes no difference where a path is     *)
(* split.                                                                  *)
LEMMA SplitsAgree ==
  ASSUME SourceOK, ~ HasStructMatrix(source), NEW p, Valid(source, p), NEW n \in 0 .. Len(p)
  PROVE  Address(p, n) = Place(source, p)
<1> DEFINE a == SubSeq(p, 1, n)
           b == SubSeq(p, n + 1, Len(p))
           u == TypeAt(source, a)
<1>1. source \in Type /\ source \in Inflatable
  BY SourceFacts
<1>2. IsSplit(p, a, b) /\ Address(p, n) = Place(source, a) + Rewritten(u, b)
  BY Addresses
<1>3. /\ Valid(source, a) /\ u \in Inflatable /\ Valid(u, b)
      /\ Place(source, p) = Place(source, a) + Place(u, b)
  <2> HIDE DEF a, b
  <2> QED BY <1>1, <1>2, PlaceSplits
<1>4. ~ IsStructMatrix(u)
  BY <1>1, <1>3, PathsAreValid DEF HasStructMatrix
<1> HIDE DEF a, b, u
<1>5. u \in Type /\ (IsInt(u) \/ IsArrayOf(u, Type) \/ IsStructOf(u, Type))
  BY <1>3, InflatableFacts
<1>6. IsNested(u) \/ ~ HasStruct(u)
  <2>1. CASE IsInt(u)
    <3>1. Indices(u) = {} /\ ~ IsStruct(u)
      BY <2>1 DEF IsInt, Indices, IsStruct
    <3> QED BY <1>5, <3>1, HasStructParts
  <2>2. CASE IsArrayOf(u, Type)
    <3>1. u.elem \in Type /\ u.kind = "array" /\ ~ IsStruct(u) /\ \A k : Part(u, k) = u.elem
      BY <2>2 DEF IsArrayOf, IsStruct, Part
    <3>2. IsInt(u.elem) \/ u.elem.kind = "array" \/ u.elem.kind = "struct"
      BY <3>1, TypeKinds DEF IsArrayOf, IsStructOf
    <3>3. CASE IsInt(u.elem)
      <4>1. Indices(u.elem) = {} /\ ~ IsStruct(u.elem)
        BY <3>3 DEF IsInt, Indices, IsStruct
      <4>2. ~ HasStruct(u.elem)
        BY <3>1, <4>1, HasStructParts
      <4> QED BY <1>5, <3>1, <4>2, HasStructParts
    <3>4. CASE u.elem.kind = "array"
      BY <1>4, <3>1, <3>4 DEF IsStructMatrix
    <3>5. CASE u.elem.kind = "struct"
      BY <3>1, <3>5 DEF IsNested, IsStructArray
    <3> QED BY <3>2, <3>3, <3>4, <3>5
  <2>3. CASE IsStructOf(u, Type)
    BY <2>3 DEF IsStructOf, IsStruct, IsNested
  <2> QED BY <1>5, <2>1, <2>2, <2>3
<1>7. Rewritten(u, b) = Place(u, b)
  BY <1>3, <1>5, <1>6, RewrittenFinds
<1> QED BY <1>2, <1>3, <1>7 DEF u

(* Spans of bytes that lie one behind the other have none in common.       *)
LEMMA SpansApart ==
  ASSUME NEW a \in Nat, NEW m \in Nat, NEW b \in Nat, NEW n \in Nat, a + m <= b \/ b + n <= a
  PROVE  Span(a, m) \cap Span(b, n) = {}
BY DEF Span

(* So without one every field survives.                                    *)
LEMMA FieldsFoundIf ==
  ASSUME SourceOK, ~ HasStructMatrix(source)
  PROVE  FieldsFound
<1>1. source \in Type /\ source \in Inflatable /\ object \in Type /\ object = Inflate(source)
  BY SourceFacts DEF object
<1>2. ASSUME NEW p, p \in Leaves(source)
      PROVE  /\ Valid(source, p) /\ TypeAt(source, p).kind = "int"
             /\ \A n \in 0 .. Len(p) : Address(p, n) = Place(source, p)
             /\ Address(p, 0) = Place(source, p) /\ Place(source, p) \in Nat
             /\ AllocSize(TypeAt(source, p)) \in Nat \ {0}
             /\ Valid(object, handle_gep(source, p))
             /\ Gep(object, handle_gep(source, p)) = Place(source, p)
             /\ TypeAt(object, handle_gep(source, p)) = TypeAt(source, p)
  <2>1. Valid(source, p) /\ TypeAt(source, p).kind = "int"
    BY <1>1, <1>2, PathSets
  <2>2. \A n \in 0 .. Len(p) : Address(p, n) = Place(source, p)
    BY <2>1, SplitsAgree
  <2>3. 0 \in 0 .. Len(p)
    BY <1>1, <2>1, WalkFacts
  <2>4. /\ Valid(object, handle_gep(source, p))
        /\ TypeAt(object, handle_gep(source, p)) = Inflate(TypeAt(source, p))
        /\ TypeAt(source, p) \in Inflatable
    BY <1>1, <2>1, InflatedWalk
  <2>5. IsInt(TypeAt(source, p)) /\ TypeAt(source, p) \in Type
    BY <2>1, <2>4, InflatableFacts DEF IsArrayOf, IsStructOf
  <2>6. Inflate(TypeAt(source, p)) = TypeAt(source, p) /\ AllocSize(TypeAt(source, p)) \in Nat \ {0}
    BY <2>5, InflateEquation, SizeFacts
  <2>7. Gep(object, handle_gep(source, p)) = Place(source, p)
    BY <1>1 DEF Place
  <2>8. Place(source, p) \in Nat
    BY <1>1, <2>4, <2>7, WalkFacts
  <2> QED BY <2>1, <2>2, <2>3, <2>4, <2>6, <2>7, <2>8
<1>3. ASSUME NEW p \in Leaves(source)
      PROVE  /\ \A n \in 1 .. Len(p) : Address(p, n) = Address(p, 0)
             /\ FieldBytes(p) \subseteq Span(0, AllocSize(object)) \ ZoneBytes(Zones)
             /\ Address(p, 0) % Align(TypeAt(source, p)) = 0
  <2> DEFINE at == Place(source, p)
             size == AllocSize(TypeAt(source, p))
  <2>1. /\ Valid(source, p) /\ TypeAt(source, p).kind = "int" /\ at \in Nat /\ size \in Nat \ {0}
        /\ \A n \in 0 .. Len(p) : Address(p, n) = at
        /\ Address(p, 0) = at
        /\ Valid(object, handle_gep(source, p)) /\ Gep(object, handle_gep(source, p)) = at
        /\ TypeAt(object, handle_gep(source, p)) = TypeAt(source, p)
    BY <1>2
  <2>2. \A n \in 1 .. Len(p) : n \in 0 .. Len(p)
    BY <1>1, <2>1, WalkFacts
  <2>3. FieldBytes(p) = Span(at, size)
    BY <2>1 DEF FieldBytes
  <2>4. FieldBytes(p) \subseteq Span(0, AllocSize(object))
    <3>1. 0 \in 0 .. Len(handle_gep(source, p)) /\ handle_gep(source, p) \in Seq(Nat)
      BY <1>1, <2>1, WalkFacts
    <3>2. at + size <= OffsetsOn(object, handle_gep(source, p))[0]
                         + AllocSize(TypesOn(object, handle_gep(source, p))[0])
      BY <1>1, <2>1, <3>1, WalksInside
    <3>3. at + size <= AllocSize(object)
      <4>1. AllocSize(object) \in Nat
        BY <1>1, SizeFacts
      <4>2. /\ OffsetsOn(object, handle_gep(source, p))[0] = 0
            /\ TypesOn(object, handle_gep(source, p))[0] = object
        BY <1>1, <3>1, TypesOnEquation, OffsetsOnEquation
      <4> QED BY <3>2, <4>1, <4>2
    <3>4. AllocSize(object) \in Nat
      BY <1>1, SizeFacts
    <3> HIDE DEF at, size
    <3> QED BY <2>1, <2>3, <3>3, <3>4 DEF Span
  <2>5. ASSUME NEW z \in Zones
        PROVE  Span(at, size) \cap Span(z, RZ) = {}
    <3>1. PICK q \in StructPaths(source) : z \in ZonesAt(q)
      BY <2>5 DEF Zones
    <3>2. Valid(source, q) /\ IsStruct(TypeAt(source, q))
      BY <1>1, <3>1, PathSets
    <3>3. PICK y \in redzone_offsets(Inflate(TypeAt(source, q))) :
            z = Place(source, q) + Offset(Inflate(TypeAt(source, q)), y)
      BY <1>1, <3>1 DEF ZonesAt, Place
    <3>4. IsZone(source, q, y)
      BY <3>2, <3>3 DEF IsZone
    <3>5. at + size <= z \/ z + RZ <= at
      BY <1>1, <2>1, <3>3, <3>4, LeafClearsZone
    <3>6. z \in Nat
      <4>1. /\ Valid(object, ZonePath(source, q, y))
            /\ Gep(object, ZonePath(source, q, y)) = z
        BY <1>1, <3>3, <3>4, ZonePaths
      <4> QED BY <1>1, <4>1, WalkFacts
    <3> HIDE DEF at, size
    <3> QED BY <2>1, <3>5, <3>6, SpansApart, RedzoneAssumption
  <2>6. FieldBytes(p) \cap ZoneBytes(Zones) = {}
    BY <2>3, <2>5 DEF ZoneBytes
  <2>7. at % Align(TypeAt(source, p)) = 0
    BY <1>1, <2>1, PathsAligned
  <2> QED BY <2>1, <2>2, <2>4, <2>6, <2>7
<1>4. ASSUME NEW p \in Leaves(source), NEW q \in Leaves(source), p # q
      PROVE  FieldBytes(p) \cap FieldBytes(q) = {}
  <2> DEFINE a == handle_gep(source, p)
             b == handle_gep(source, q)
  <2>1. ASSUME NEW x \in Leaves(source), NEW y \in Leaves(source),
               Begins(handle_gep(source, x), handle_gep(source, y))
        PROVE  x = y
    <3>1. Valid(source, x) /\ Valid(source, y) /\ TypeAt(source, x).kind = "int"
      BY <1>2
    <3>2. Begins(x, y)
      BY <1>1, <2>1, <3>1, RewritingInjective
    <3>3. ~ (Len(x) < Len(y))
      BY <1>1, <3>1, <3>2, BeginsFacts DEF Indices
    <3>4. Len(x) = Len(y)
      <4>1. Len(x) \in Nat /\ Len(y) \in Nat /\ Len(x) <= Len(y)
        BY <1>1, <3>1, <3>2, WalkFacts DEF Begins
      <4> QED BY <3>3, <4>1
    <3> QED BY <1>1, <3>1, <3>2, <3>4, BeginsFacts
  <2>2. ~ Begins(a, b) /\ ~ Begins(b, a)
    BY <1>4, <2>1
  <2>3. /\ Valid(object, a) /\ Gep(object, a) = Place(source, p) /\ Place(source, p) \in Nat
        /\ TypeAt(object, a) = TypeAt(source, p) /\ AllocSize(TypeAt(source, p)) \in Nat
        /\ Address(p, 0) = Place(source, p)
    BY <1>2
  <2>4. /\ Valid(object, b) /\ Gep(object, b) = Place(source, q) /\ Place(source, q) \in Nat
        /\ TypeAt(object, b) = TypeAt(source, q) /\ AllocSize(TypeAt(source, q)) \in Nat
        /\ Address(q, 0) = Place(source, q)
    BY <1>2
  <2> HIDE DEF a, b
  <2>5. \/ Place(source, p) + AllocSize(TypeAt(source, p)) <= Place(source, q)
        \/ Place(source, q) + AllocSize(TypeAt(source, q)) <= Place(source, p)
    BY <1>1, <2>2, <2>3, <2>4, PathsApart
  <2> QED BY <2>3, <2>4, <2>5, SpansApart DEF FieldBytes
<1> QED BY <1>3, <1>4 DEF FieldsFound

(* An integer without a struct, or with one, in front of it.               *)
LEMMA FirstLeaf ==
  ASSUME NEW t \in Inflatable
  PROVE  \E r : /\ Valid(t, r) /\ TypeAt(t, r).kind = "int" /\ Gep(t, r) = 0
                /\ HasStruct(t) => Place(t, r) # 0
<1> DEFINE Good(u, r) == /\ Valid(u, r) /\ TypeAt(u, r).kind = "int" /\ Gep(u, r) = 0
                         /\ HasStruct(u) => Place(u, r) # 0
           T == {u \in Type : u \in Inflatable => \E r : Good(u, r)}
<1>1. ASSUME NEW u \in Type, IsInt(u)
      PROVE  u \in T
  <2>1. u.kind = "int" /\ ~ IsStruct(u) /\ Indices(u) = {}
    BY <1>1 DEF IsInt, IsStruct, Indices
  <2>2. ~ HasStruct(u)
    BY <2>1, HasStructParts
  <2>3. Good(u, <<>>)
    BY <2>1, <2>2, ShortPaths
  <2> QED BY <2>3
<1>2. ASSUME NEW u \in Inflatable, 0 \in Indices(u), PartAt(u, 0) = 0, Part(u, 0) \in Inflatable,
             \E r : Good(Part(u, 0), r),
             HasStruct(u) => HasStruct(Part(u, 0)) \/ Place(u, << 0 >>) # 0
      PROVE  \E r : Good(u, r)
  <2> DEFINE e == Part(u, 0)
  <2>1. PICK q : Good(e, q)
    BY <1>2
  <2>2. u \in Type /\ e \in Type /\ <<0>> \in Seq(Nat) /\ q \in Seq(Nat)
    BY <1>2, <2>1, InflatableFacts, WalkFacts
  <2>3. Valid(u, <<0>>) /\ TypeAt(u, <<0>>) = e /\ Gep(u, <<0>>) = 0
    BY <1>2, <2>2, ShortPaths
  <2> DEFINE r == <<0>> \o q
  <2>4. IsSplit(r, <<0>>, q)
    BY <2>2, Splits
  <2> HIDE DEF e, r
  <2>5. Valid(u, r) /\ TypeAt(u, r) = TypeAt(e, q) /\ Gep(u, r) = Gep(u, <<0>>) + Gep(e, q)
    BY <2>1, <2>2, <2>3, <2>4, SplitWalk
  <2>6. Place(u, r) = Place(u, <<0>>) + Place(e, q) /\ Place(u, <<0>>) \in Nat /\ Place(e, q) \in Nat
    BY <2>3, <2>4, <2>5, PlaceSplits
  <2>7. HasStruct(u) => Place(u, r) # 0
    BY <1>2, <2>1, <2>6 DEF e
  <2>8. Good(u, r)
    BY <2>1, <2>3, <2>5, <2>7
  <2> QED BY <2>8
<1>3. ASSUME NEW u \in Type, IsArrayOf(u, Type), u.elem \in T
      PROVE  u \in T
  <2> SUFFICES ASSUME u \in Inflatable
               PROVE  \E r : Good(u, r)
    OBVIOUS
  <2>1. /\ 0 \in Indices(u) /\ \A k : Part(u, k) = u.elem
        /\ PartAt(u, 0) = 0 * AllocSize(u.elem) /\ ~ IsStruct(u) /\ u.elem \in Type
    BY <1>3 DEF IsArrayOf, Indices, Part, PartAt, IsStruct
  <2>2. PartAt(u, 0) = 0
    BY <2>1, SizeFacts
  <2>3. Part(u, 0) \in Inflatable
    BY <2>1, InflatedParts
  <2>4. HasStruct(u) => HasStruct(Part(u, 0))
    BY <2>1, HasStructParts
  <2>5. \E r : Good(Part(u, 0), r)
    BY <1>3, <2>1, <2>3
  <2> HIDE DEF Good
  <2> QED BY <1>2, <2>1, <2>2, <2>3, <2>4, <2>5
<1>4. ASSUME NEW u \in Type, IsStructOf(u, Type), \A i \in 1 .. Len(u.fields) : u.fields[i] \in T
      PROVE  u \in T
  <2> SUFFICES ASSUME u \in Inflatable
               PROVE  \E r : Good(u, r)
    OBVIOUS
  <2>1. /\ 0 \in Indices(u) /\ Part(u, 0) = u.fields[1] /\ PartAt(u, 0) = Offset(u, 0)
        /\ u.kind = "struct" /\ 0 \in 0 .. Len(u.fields) - 1 /\ 1 \in 1 .. Len(u.fields)
    BY <1>4 DEF IsStructOf, Indices, Part, PartAt
  <2>2. PartAt(u, 0) = 0
    BY <1>4, <2>1, OffsetFacts
  <2>3. Part(u, 0) \in Inflatable /\ Index(u, 0) \in Indices(Inflate(u)) /\ Index(u, 0) = 1
    BY <2>1, InflatedParts DEF Index
  <2>4. Place(u, << 0 >>) # 0
    <3> DEFINE v == Inflate(u)
    <3>1. /\ v \in Type /\ redzone_offsets(v) = {2 * i : i \in 0 .. Len(u.fields)}
          /\ \A y \in redzone_offsets(v) : y \in Indices(v) /\ Part(v, y) = Redzone
      BY <2>1, InflatableFacts, InflatedParts
    <3>2. handle_gep(u, <<0>>) = <<1>>
      BY <2>1, <2>3, RewritingSteps
    <3>3. 0 \in redzone_offsets(v)
      <4>1. 0 \in 0 .. Len(u.fields) /\ 0 = 2 * 0
        BY <1>4 DEF IsStructOf
      <4> QED BY <3>1, <4>1
    <3>4. 0 \in Indices(v) /\ 1 \in Indices(v) /\ Part(v, 0) = Redzone
      BY <2>3, <3>1, <3>3
    <3> HIDE DEF v
    <3>5. PartAt(v, 0) + RZ <= PartAt(v, 1) /\ PartAt(v, 0) \in Nat /\ PartAt(v, 1) \in Nat
      <4>1. 0 < 1
        OBVIOUS
      <4> QED BY <3>1, <3>4, <4>1, PartFacts, RedzoneFacts
    <3>6. PartAt(v, 1) # 0
      BY <3>5, RedzoneAssumption
    <3>7. Gep(v, <<1>>) = PartAt(v, 1)
      BY <3>1, <3>4, ShortPaths
    <3> QED BY <3>2, <3>6, <3>7 DEF Place, v
  <2>5. \E r : Good(Part(u, 0), r)
    BY <1>4, <2>1, <2>3
  <2> HIDE DEF Good
  <2> QED BY <1>2, <2>1, <2>2, <2>3, <2>4, <2>5
<1>5. Type \subseteq T
  <2> HIDE DEF T
  <2> QED BY <1>1, <1>3, <1>4, TypeInduction
<1> QED BY <1>5, InflatableFacts

(* With a matrix of structs a field is lost: the first one in the matrix,  *)
(* where the matrix itself ends the first GEP.                             *)
LEMMA FieldsFoundOnly ==
  ASSUME SourceOK, HasStructMatrix(source)
  PROVE  ~ FieldsFound
<1>1. source \in Type /\ source \in Inflatable /\ IsNested(source)
  BY SourceFacts
<1>2. PICK p : Valid(source, p) /\ IsStructMatrix(TypeAt(source, p))
  BY <1>1, PathsAreValid DEF HasStructMatrix
<1> DEFINE u == TypeAt(source, p)
<1>3. /\ u \in Inflatable /\ u \in Type /\ HasStruct(u) /\ u.kind = "array" /\ u.elem.kind = "array"
      /\ p \in Seq(Nat)
  BY <1>1, <1>2, InflatedWalk, InflatableFacts, WalkFacts DEF IsStructMatrix
<1>4. ~ IsNested(u)
  BY <1>3 DEF IsNested, IsStruct, IsStructArray
<1>5. Len(p) # 0 /\ Len(p) \in Nat
  <2>1. Len(p) = 0 => p = <<>>
    BY <1>3
  <2>2. p = <<>> => u = source
    BY <1>1, ShortPaths
  <2> QED BY <1>1, <1>3, <1>4, <2>1, <2>2
<1>6. PICK q : Valid(u, q) /\ TypeAt(u, q).kind = "int" /\ Gep(u, q) = 0 /\ Place(u, q) # 0
  BY <1>3, FirstLeaf
<1> DEFINE r == p \o q
           n == Len(p)
<1>7. q \in Seq(Nat) /\ Len(r) = n + Len(q) /\ IsSplit(r, p, q)
      /\ SubSeq(r, 1, n) = p /\ SubSeq(r, n + 1, Len(r)) = q
  <2>1. q \in Seq(Nat)
    BY <1>3, <1>6, WalkFacts
  <2>2. Len(r) = n + Len(q) /\ IsSplit(r, p, q)
    BY <1>3, <2>1, Splits
  <2>3. SubSeq(r, 1, n) = p /\ SubSeq(r, n + 1, Len(r)) = q
    BY <1>3, <2>1
  <2> QED BY <2>1, <2>2, <2>3
<1> HIDE DEF u, r
<1>8. Valid(source, r) /\ TypeAt(source, r) = TypeAt(u, q)
  BY <1>1, <1>2, <1>6, <1>7, SplitWalk DEF u
<1>9. r \in Leaves(source)
  BY <1>1, <1>6, <1>8, PathSets
<1>10. n \in 0 .. Len(r) /\ n \in 1 .. Len(r)
  BY <1>5, <1>7
<1>11. Address(r, n) = Place(source, p) + Rewritten(u, q) /\ Address(r, 0) = Place(source, r)
  BY <1>7, <1>8, <1>10, Addresses DEF u
<1>12. Rewritten(u, q) = 0
  BY <1>4, <1>6 DEF Rewritten, GepType, GepIndices, IsNested
<1>13. Place(source, r) = Place(source, p) + Place(u, q) /\ Place(source, p) \in Nat /\ Place(u, q) \in Nat
  BY <1>1, <1>7, <1>8, PlaceSplits DEF u
<1>14. Address(r, n) # Address(r, 0)
  BY <1>6, <1>11, <1>12, <1>13
<1> QED BY <1>9, <1>10, <1>14 DEF FieldsFound

(***************************************************************************)
(* For every allocation: every access finds its field exactly if no matrix *)
(* of structs is on the way.                                               *)
(***************************************************************************)
LEMMA FieldsSurviveForAll ==
  ASSUME SourceOK
  PROVE  FieldsSurvive
BY FieldsFoundIf, FieldsFoundOnly DEF FieldsSurvive

-----------------------------------------------------------------------------
(* The first call of insert_rdzone_init                                    *)

(* The index lists of the generated GEPs.                                  *)
LEMMA HeadsAndTails ==
  \A x, y \in Nat : /\ Head(<<x, y>>) = x /\ Tail(<<x, y>>) = <<y>>
                    /\ Head(<<0, x, y>>) = 0 /\ Tail(<<0, x, y>>) = <<x, y>>
                    /\ Append(<<x>>, y) = <<x, y>>
<1> SUFFICES ASSUME NEW x \in Nat, NEW y \in Nat
             PROVE  /\ Head(<<x, y>>) = x /\ Tail(<<x, y>>) = <<y>>
                    /\ Head(<<0, x, y>>) = 0 /\ Tail(<<0, x, y>>) = <<x, y>>
                    /\ Append(<<x>>, y) = <<x, y>>
  OBVIOUS
<1>1. Head(<<x, y>>) = x /\ Tail(<<x, y>>) = <<y>>
  OBVIOUS
<1>2. Head(<<0, x, y>>) = 0 /\ Tail(<<0, x, y>>) = <<x, y>>
  OBVIOUS
<1>3. Append(<<x>>, y) = <<x, y>>
  <2>1. /\ <<x>> \in Seq(Nat) /\ Len(<<x>>) = 1 /\ <<x>>[1] = x
        /\ Len(<<y>>) = 1 /\ <<y>>[1] = y
        /\ <<x, y>> \in Seq(Nat) /\ Len(<<x, y>>) = 2 /\ <<x, y>>[1] = x /\ <<x, y>>[2] = y
    OBVIOUS
  <2>2. IsSplit(Append(<<x>>, y), <<x>>, <<y>>)
    BY <2>1, Splits
  <2> DEFINE a == Append(<<x>>, y)
  <2>3. a \in Seq(Nat) /\ Len(a) = 2 /\ a[1] = x /\ a[2] = y
    <3>1. 1 \in 1 .. 1 /\ 1 + 1 = 2
      OBVIOUS
    <3> HIDE DEF a
    <3> QED BY <2>1, <2>2, <3>1 DEF IsSplit, a
  <2>4. \A b, c \in Seq(Nat) : Len(b) = 2 /\ Len(c) = 2 /\ b[1] = c[1] /\ b[2] = c[2] => b = c
    OBVIOUS
  <2> HIDE DEF a
  <2>5. a = <<x, y>>
    BY <2>1, <2>3, <2>4
  <2> QED BY <2>5 DEF a
<1> QED BY <1>1, <1>2, <1>3

(* The zones of an allocated struct, and of one in an array.               *)
LEMMA OwnZonesAre ==
  ASSUME NEW s \in Structs
  PROVE  /\ source = s =>
              OwnZones = {Offset(Inflate(s), y) : y \in redzone_offsets(Inflate(s))}
         /\ \A n \in Counts : source = ArrayType(n, s) =>
              OwnZones = {x * AllocSize(Inflate(s)) + Offset(Inflate(s), y) :
                            x \in 0 .. n - 1, y \in redzone_offsets(Inflate(s))}
<1> DEFINE t == Inflate(s)
<1>1. IsStruct(s)
  BY StructsAssumption
<1>2. ASSUME source = s
      PROVE  OwnZones = {Offset(t, y) : y \in redzone_offsets(t)}
  <2>1. source \in Type /\ source \in Inflatable /\ object \in Type /\ object = t /\ IsStruct(source)
    BY <1>1, <1>2, SourceFacts DEF SourceOK, object
  <2>2. ASSUME NEW q
        PROVE  q \in StructPaths(source) /\ Len(q) = 0 <=> q = <<>>
    <3>1. q \in StructPaths(source) => q \in Seq(Nat)
      BY <2>1, PathSets, WalkFacts
    <3>2. <<>> \in StructPaths(source) /\ Len(<<>>) = 0
      BY <2>1, PathSets, ShortPaths
    <3> QED BY <3>1, <3>2
  <2>3. ZonesAt(<<>>) = {0 + Offset(t, y) : y \in redzone_offsets(t)}
    <3>1. /\ handle_gep(source, <<>>) = <<>> /\ Gep(object, <<>>) = 0 /\ TypeAt(source, <<>>) = source
      BY <2>1, RewritingSteps, ShortPaths
    <3> QED BY <1>2, <2>1, <3>1 DEF ZonesAt
  <2>4. \A y \in redzone_offsets(t) : Offset(t, y) \in Nat
    <3> TAKE y \in redzone_offsets(t)
    <3>1. t \in Type /\ y \in Indices(t) /\ t.kind = "struct"
      BY <1>2, <2>1, InflatedParts DEF IsStruct
    <3> QED BY <3>1, PartFacts DEF PartAt
  <2>5. ZonesAt(<<>>) = {Offset(t, y) : y \in redzone_offsets(t)}
    <3>1. \A y \in redzone_offsets(t) : 0 + Offset(t, y) = Offset(t, y)
      BY <2>4
    <3> HIDE DEF t
    <3> QED BY <2>3, <3>1
  <2>6. OwnZones = UNION {ZonesAt(p) : p \in {<<>>}}
    <3>1. {q \in StructPaths(source) : Len(q) = IF IsStruct(source) THEN 0 ELSE 1} = {<<>>}
      BY <2>1, <2>2
    <3> QED BY <3>1 DEF OwnZones
  <2> QED BY <2>5, <2>6
<1>3. ASSUME NEW n \in Counts, source = ArrayType(n, s)
      PROVE  OwnZones = {x * AllocSize(t) + Offset(t, y) : x \in 0 .. n - 1, y \in redzone_offsets(t)}
  <2>1. /\ source \in Type /\ source \in Inflatable /\ object \in Type /\ object = Inflate(source)
        /\ ~ IsStruct(source) /\ source.kind = "array" /\ source.elem = s /\ source.num = n
    BY <1>3, SourceFacts DEF SourceOK, object, ArrayType, IsStruct
  <2>2. /\ Indices(source) = 0 .. n - 1
        /\ \A x \in Indices(source) :
             Part(source, x) = s /\ Index(source, x) = x /\ x \in Indices(object)
             /\ Part(object, x) = t
    BY <2>1, InflatedParts DEF Indices, Part, Index
  <2>3. object.kind = "array"
    BY <2>1, InflatedParts
  <2>4. ASSUME NEW x \in 0 .. n - 1
        PROVE  /\ <<x>> \in StructPaths(source) /\ Len(<<x>>) = 1
               /\ ZonesAt(<<x>>) = {x * AllocSize(t) + Offset(t, y) : y \in redzone_offsets(t)}
    <3>1. /\ Valid(source, <<x>>) /\ TypeAt(source, <<x>>) = s
          /\ handle_gep(source, <<x>>) = <<x>> /\ Gep(object, <<x>>) = PartAt(object, x)
      <4>1. x \in Indices(source) /\ x \in Indices(object) /\ Part(source, x) = s /\ Index(source, x) = x
        BY <2>2
      <4>2. Valid(source, <<x>>) /\ TypeAt(source, <<x>>) = s
        BY <2>1, <4>1, ShortPaths
      <4>3. handle_gep(source, <<x>>) = <<x>>
        BY <2>1, <4>1, RewritingSteps
      <4> QED BY <2>1, <4>1, <4>2, <4>3, ShortPaths
    <3>2. PartAt(object, x) = x * AllocSize(t)
      <4>1. object.elem = t
        BY <2>2, <2>3 DEF Part
      <4> QED BY <2>3, <4>1 DEF PartAt
    <3>3. <<x>> \in StructPaths(source)
      BY <1>1, <2>1, <3>1, PathSets
    <3> QED BY <3>1, <3>2, <3>3 DEF ZonesAt
  <2>5. ASSUME NEW q \in StructPaths(source), Len(q) = 1
        PROVE  \E x \in 0 .. n - 1 : q = <<x>>
    <3>1. Valid(source, q) /\ q \in Seq(Nat)
      BY <2>1, PathSets, WalkFacts
    <3>2. q = <<q[1]>>
      BY <2>5, <3>1
    <3>3. q[1] \in Indices(source)
      <4>1. Valid(source, <<q[1]>>)
        BY <3>1, <3>2, Zenon
      <4> QED BY <2>1, <4>1, ShortPaths
    <3> QED BY <2>2, <3>2, <3>3
  <2>6. OwnZones = UNION {ZonesAt(<<x>>) : x \in 0 .. n - 1}
    <3> DEFINE P == {q \in StructPaths(source) : Len(q) = 1}
    <3>1. OwnZones = UNION {ZonesAt(p) : p \in P}
      BY <2>1 DEF OwnZones
    <3>2. P = {<<x>> : x \in 0 .. n - 1}
      BY <2>4, <2>5
    <3> HIDE DEF P
    <3> QED BY <3>1, <3>2
  <2> DEFINE zone(x, y) == x * AllocSize(t) + Offset(t, y)
             R == redzone_offsets(t)
             zones(x) == ZonesAt(<<x>>)
  <2>7. \A x \in 0 .. n - 1 : zones(x) = {zone(x, y) : y \in R}
    BY <2>4
  <2>8. OwnZones = UNION {zones(x) : x \in 0 .. n - 1}
    BY <2>6
  <2>9. OwnZones = {zone(x, y) : x \in 0 .. n - 1, y \in R}
    <3> HIDE DEF zone, zones, R, t
    <3>1. OwnZones = UNION {{zone(x, y) : y \in R} : x \in 0 .. n - 1}
      BY <2>7, <2>8
    <3> QED BY <3>1
  <2> QED BY <2>9
<1> QED BY <1>2, <1>3

(* What the first call registers are the redzones of the allocated structs *)
(* themselves.  Only for a single struct is it given a pointer to one.     *)
LEMMA FirstCall ==
  ASSUME NEW s \in Structs, NEW n \in Counts, NEW site \in Sites(s, n), source = site.source
  PROVE  /\ SourceOK /\ ZonesOf(site.call) = OwnZones
         /\ StructTypeOf(site.call) = Inflate(s)
         /\ IsStruct(source) => site.call = Call(0, object, TRUE, object, 1)
         /\ site.call.pointee = Inflate(s) <=> IsStruct(source)
         /\ \/ source = s /\ site.call.type = Inflate(s)
            \/ source = ArrayType(n, s) /\ site.call.type \in {Inflate(s), object}
<1> DEFINE t == Inflate(s)
           ts == ArrayType(n, t)
           R == redzone_offsets(t)
<1>1. /\ IsStruct(s) /\ n \in Nat \ {0} /\ s \in Inflatable /\ s \in Type /\ t \in Type
      /\ t.kind = "struct" /\ \A y \in R : y \in Indices(t)
  <2>1. IsStruct(s) /\ s \in TypesUpTo(Depth - 2) /\ n \in Nat \ {0}
    BY StructsAssumption, CountsAssumption
  <2>2. Depth - 2 \in Nat /\ Depth - 1 = (Depth - 2) + 1
    BY DepthAssumption
  <2>3. s \in Inflatable
    BY <2>1, <2>2, TypesGrow DEF Inflatable
  <2> QED BY <2>1, <2>3, InflatableFacts, InflatedParts DEF IsStruct
<1>2. \A y \in R : Gep(t, <<y>>) = Offset(t, y) /\ Offset(t, y) \in Nat /\ y \in Nat
  BY <1>1, ShortPaths, PartFacts DEF PartAt
<1>3. AllocSize(t) \in Nat
  BY <1>1, SizeFacts
<1>0. \A x \in 0 .. n - 1 : x \in Nat
  BY <1>1
<1>4. CASE site = [source |-> s, call |-> Call(0, t, TRUE, t, 1)]
  <2>1. source = s /\ site.call = Call(0, t, TRUE, t, 1) /\ object = t
    BY <1>4 DEF object
  <2>2. /\ site.call.at = 0 /\ site.call.type = t /\ site.call.count = 1 /\ site.call.pointee = t
        /\ StructTypeOf(site.call) = t
    BY <1>1, <2>1 DEF Call, StructTypeOf, IsStruct
  <2>3. ZonesOf(site.call) = {0 + x * AllocSize(t) + Gep(t, <<y>>) : x \in 0 .. 1 - 1, y \in R}
    BY <1>1, <2>2, HeadsAndTails DEF ZonesOf, IsStruct
  <2>4. ZonesOf(site.call) = {Offset(t, y) : y \in R}
    <3> DEFINE zone(x, y) == 0 + x * AllocSize(t) + Gep(t, <<y>>)
               own(y) == Offset(t, y)
    <3>1. \A x \in 0 .. 1 - 1 : \A y \in R : zone(x, y) = own(y)
      <4> HIDE DEF t, R
      <4>1. 0 * AllocSize(t) = 0
        BY <1>3
      <4>2. \A x \in 0 .. 1 - 1 : x = 0
        OBVIOUS
      <4>3. \A y \in R : 0 + 0 * AllocSize(t) + Gep(t, <<y>>) = Offset(t, y)
        <5> SUFFICES ASSUME NEW y \in R
                     PROVE  0 + 0 * AllocSize(t) + Gep(t, <<y>>) = Offset(t, y)
          OBVIOUS
        <5>1. Gep(t, <<y>>) = Offset(t, y) /\ Offset(t, y) \in Nat
          BY <1>2
        <5> QED BY <4>1, <5>1
      <4> QED BY <4>2, <4>3
    <3>2. 0 \in 0 .. 1 - 1
      OBVIOUS
    <3>3. ZonesOf(site.call) = {zone(x, y) : x \in 0 .. 1 - 1, y \in R}
      BY <2>3
    <3>4. ZonesOf(site.call) = {own(y) : y \in R}
      <4> HIDE DEF t, R, zone, own
      <4> QED BY <3>1, <3>2, <3>3
    <3> QED BY <3>4
  <2>5. SourceOK /\ IsStruct(source)
    BY <1>1, <2>1 DEF SourceOK
  <2>6. ZonesOf(site.call) = OwnZones
    <3>1. source = s => OwnZones = {Offset(Inflate(s), y) : y \in redzone_offsets(Inflate(s))}
      BY OwnZonesAre
    <3> DEFINE Z == {Offset(Inflate(s), y) : y \in redzone_offsets(Inflate(s))}
    <3>2. ZonesOf(site.call) = Z
      BY <2>4
    <3>3. OwnZones = Z
      BY <2>1, <3>1
    <3> HIDE DEF Z
    <3> QED BY <3>2, <3>3
  <2> QED BY <2>1, <2>2, <2>5, <2>6
<1>5. ASSUME source = ArrayType(n, s)
      PROVE  /\ SourceOK /\ object = ts /\ object \in Type /\ ~ IsStruct(source)
             /\ OwnZones = {x * AllocSize(t) + Offset(t, y) : x \in 0 .. n - 1, y \in R}
             /\ object.kind = "array" /\ object.elem = t /\ object.num = n
  <2>1. SourceOK /\ source \in Type /\ object \in Type
    BY <1>5, SourceFacts DEF SourceOK
  <2>2. IsArrayOf(source, Type) /\ source.num = n /\ source.elem = s
    BY <1>1, <1>5 DEF IsArrayOf, ArrayType
  <2>3. object = ts
    BY <2>1, <2>2, InflateEquation DEF object
  <2>4. object.kind = "array" /\ object.elem = t /\ object.num = n /\ ~ IsStruct(source)
    BY <1>5, <2>3 DEF ArrayType, IsStruct
  <2> QED BY <1>5, <2>1, <2>3, <2>4, OwnZonesAre
<1>6. CASE site = [source |-> ArrayType(n, s), call |-> Call(0, ts, TRUE, ts, n)]
  <2>1. source = ArrayType(n, s) /\ site.call = Call(0, ts, TRUE, ts, n)
    BY <1>6
  <2>2. /\ SourceOK /\ object = ts /\ object \in Type /\ ~ IsStruct(source)
        /\ object.kind = "array" /\ object.elem = t /\ object.num = n
    BY <1>5, <2>1
  <2>3. /\ site.call.at = 0 /\ site.call.type = ts /\ site.call.count = n /\ site.call.pointee = ts
        /\ site.call.alloca /\ StructTypeOf(site.call) = t /\ ~ IsStruct(ts)
    BY <2>1, <2>2 DEF Call, StructTypeOf, IsStruct
  <2>4. ASSUME NEW x \in 0 .. n - 1, NEW y \in R
        PROVE  Gep(ts, <<x, y>>) = x * AllocSize(t) + Offset(t, y)
    <3>1. x \in Indices(ts) /\ Part(ts, x) = t /\ PartAt(ts, x) = x * AllocSize(t)
      BY <2>2 DEF Indices, Part, PartAt
    <3>2. Valid(ts, <<x>>) /\ TypeAt(ts, <<x>>) = t /\ Gep(ts, <<x>>) = x * AllocSize(t)
      BY <2>2, <3>1, ShortPaths
    <3>3. y \in Indices(TypeAt(ts, <<x>>)) /\ PartAt(t, y) = Offset(t, y)
      BY <1>1, <3>2 DEF PartAt
    <3>4. Gep(ts, Append(<<x>>, y)) = x * AllocSize(t) + Offset(t, y)
      <4> HIDE DEF t, ts, R
      <4> QED BY <2>2, <3>2, <3>3, Steps
    <3> HIDE DEF t, ts, R
    <3>5. x \in Nat /\ y \in Nat
      BY <1>0, <1>2
    <3> QED BY <3>4, <3>5, HeadsAndTails
  <2>5. ZonesOf(site.call) = {0 + 0 * AllocSize(ts) + Gep(ts, <<x, y>>) : x \in 0 .. n - 1, y \in R}
    BY <2>3, HeadsAndTails DEF ZonesOf
  <2>6. \A x \in 0 .. n - 1 : \A y \in R :
          0 + 0 * AllocSize(ts) + Gep(ts, <<x, y>>) = x * AllocSize(t) + Offset(t, y)
    <3>1. AllocSize(ts) \in Nat
      BY <2>2, SizeFacts
    <3> SUFFICES ASSUME NEW x \in 0 .. n - 1, NEW y \in R
                 PROVE  0 + 0 * AllocSize(ts) + Gep(ts, <<x, y>>) = x * AllocSize(t) + Offset(t, y)
      OBVIOUS
    <3> HIDE DEF t, ts, R
    <3>2. x \in Nat /\ Offset(t, y) \in Nat
      BY <1>0, <1>2
    <3>3. x * AllocSize(t) \in Nat
      BY <1>3, <3>2
    <3> QED BY <2>4, <3>1, <3>2, <3>3
  <2>7. ZonesOf(site.call) = OwnZones
    <3> DEFINE zone(x, y) == 0 + 0 * AllocSize(ts) + Gep(ts, <<x, y>>)
               own(x, y) == x * AllocSize(t) + Offset(t, y)
    <3>1. OwnZones = {own(x, y) : x \in 0 .. n - 1, y \in R}
      BY <1>5, <2>1
    <3>2. ZonesOf(site.call) = {zone(x, y) : x \in 0 .. n - 1, y \in R}
      BY <2>5
    <3>3. \A x \in 0 .. n - 1 : \A y \in R : zone(x, y) = own(x, y)
      BY <2>6
    <3> HIDE DEF R, zone, own
    <3> QED BY <3>1, <3>2, <3>3
  <2>8. ts # t
    BY <1>1, <2>2
  <2> QED BY <2>1, <2>2, <2>3, <2>7, <2>8
<1>7. CASE site = [source |-> ArrayType(n, s), call |-> Call(0, IntType(1), FALSE, t, n)]
  <2>1. source = ArrayType(n, s) /\ site.call = Call(0, IntType(1), FALSE, t, n)
    BY <1>7
  <2>2. SourceOK /\ ~ IsStruct(source)
    BY <1>5, <2>1
  <2>3. /\ site.call.at = 0 /\ site.call.type = t /\ site.call.count = n
        /\ site.call.pointee = IntType(1) /\ ~ site.call.alloca /\ StructTypeOf(site.call) = t
    BY <1>1, <2>1 DEF Call, StructTypeOf, IsStruct
  <2>4. ZonesOf(site.call) = {0 + x * AllocSize(t) + Gep(t, <<y>>) : x \in 0 .. n - 1, y \in R}
    BY <2>3, HeadsAndTails DEF ZonesOf
  <2>5. \A x \in 0 .. n - 1 : \A y \in R :
          0 + x * AllocSize(t) + Gep(t, <<y>>) = x * AllocSize(t) + Offset(t, y)
    <3> SUFFICES ASSUME NEW x \in 0 .. n - 1, NEW y \in R
                 PROVE  0 + x * AllocSize(t) + Gep(t, <<y>>) = x * AllocSize(t) + Offset(t, y)
      OBVIOUS
    <3> HIDE DEF t, R
    <3>1. x \in Nat /\ Offset(t, y) \in Nat /\ Gep(t, <<y>>) = Offset(t, y)
      BY <1>0, <1>2
    <3>2. x * AllocSize(t) \in Nat
      BY <1>3, <3>1
    <3> QED BY <3>1, <3>2
  <2>6. ZonesOf(site.call) = OwnZones
    <3> DEFINE zone(x, y) == 0 + x * AllocSize(t) + Gep(t, <<y>>)
               own(x, y) == x * AllocSize(t) + Offset(t, y)
    <3>1. OwnZones = {own(x, y) : x \in 0 .. n - 1, y \in R}
      BY <1>5, <2>1
    <3>2. ZonesOf(site.call) = {zone(x, y) : x \in 0 .. n - 1, y \in R}
      BY <2>4
    <3>3. \A x \in 0 .. n - 1 : \A y \in R : zone(x, y) = own(x, y)
      BY <2>5
    <3> HIDE DEF R, zone, own
    <3> QED BY <3>1, <3>2, <3>3
  <2>7. IntType(1) # t
    BY <1>1 DEF IntType
  <2> QED BY <2>1, <2>2, <2>3, <2>6, <2>7
<1> QED BY <1>4, <1>6, <1>7 DEF Sites

-----------------------------------------------------------------------------
(* Returns remove the redzones of the allocated structs, or none           *)

(* The calls that call c makes, one for each nested field.                 *)
LEMMA NestedCallsAre ==
  ASSUME NEW c, NEW d \in NestedCalls(c)
  PROVE  \E i \in 0 .. Len(StructTypeOf(c).fields) - 1 :
           /\ IsNested(StructTypeOf(c).fields[i + 1])
           /\ d = Call(c.at + Offset(StructTypeOf(c), i), StructTypeOf(c).fields[i + 1], FALSE,
                       StructTypeOf(c).fields[i + 1],
                       IF IsStruct(StructTypeOf(c).fields[i + 1])
                         THEN 1 ELSE StructTypeOf(c).fields[i + 1].num)
BY DEF NestedCalls

(* Only the first call is given an alloca, and what it registers are the   *)
(* redzones of the allocated structs.                                      *)
RemovesInv ==
  /\ SourceOK
  /\ removed \in {{}, OwnZones}
  /\ \A c \in todo : c.alloca => ZonesOf(c) = OwnZones

(* The first call, seen from the initial states.                           *)
LEMMA Starts ==
  ASSUME Init
  PROVE  \E s \in Structs, n \in Counts : \E site \in Sites(s, n) :
           /\ source = site.source /\ todo = {site.call}
           /\ registered = {} /\ removed = {} /\ status = "run"
BY DEF Init

(* The first call is the one that is given an alloca.                      *)
LEMMA RemovesInvInit ==
  ASSUME Init
  PROVE  RemovesInv
<1>1. PICK s \in Structs, n \in Counts : \E site \in Sites(s, n) :
        source = site.source /\ todo = {site.call} /\ removed = {}
  BY Starts
<1>2. PICK site \in Sites(s, n) : source = site.source /\ todo = {site.call} /\ removed = {}
  BY <1>1
<1>3. SourceOK /\ ZonesOf(site.call) = OwnZones
  BY <1>2, FirstCall
<1> QED BY <1>2, <1>3 DEF RemovesInv

(* The calls it makes are given none.                                      *)
LEMMA RemovesInvNext ==
  ASSUME RemovesInv, [Next]_vars
  PROVE  RemovesInv'
<1>1. ASSUME NEW c \in todo, insert_rdzone_init(c)
      PROVE  RemovesInv'
  <2>1. source' = source /\ removed' = IF c.alloca THEN removed \cup ZonesOf(c) ELSE removed
    BY <1>1 DEF insert_rdzone_init
  <2>2. OwnZones' = OwnZones /\ SourceOK'
    BY <2>1 DEF RemovesInv, SourceOK, OwnZones, ZonesAt, object
  <2>3. removed' \in {{}, OwnZones}
    BY <2>1 DEF RemovesInv
  <2>4. todo' \subseteq todo \cup NestedCalls(c)
    BY <1>1 DEF insert_rdzone_init, Recurse
  <2>5. \A d \in NestedCalls(c) : ~ d.alloca
    <3> TAKE d \in NestedCalls(c)
    <3> QED BY NestedCallsAre DEF Call
  <2>6. \A d : ZonesOf(d)' = ZonesOf(d)
    OBVIOUS
  <2>7. \A d \in todo' : d.alloca => ZonesOf(d) = OwnZones
    BY <2>4, <2>5 DEF RemovesInv
  <2> QED BY <2>2, <2>3, <2>7 DEF RemovesInv
<1>2. CASE UNCHANGED vars
  BY <1>2 DEF RemovesInv, vars, SourceOK, OwnZones, ZonesAt, object
<1> QED BY <1>1, <1>2 DEF Next

(* Every field is found where the rewritten program looks for it, except   *)
(* in the matrices of structs.                                             *)
THEOREM FieldsAreFound == Spec => []FieldsSurvive
<1>1. RemovesInv => FieldsSurvive
  BY FieldsSurviveForAll DEF RemovesInv
<1> QED BY RemovesInvInit, RemovesInvNext, <1>1, PTL DEF Spec

(* A return removes the redzones of the allocated structs, or none.        *)
THEOREM RemovesTheirOwn == Spec => []RemovesOwn
<1>1. RemovesInv => RemovesOwn
  BY DEF RemovesInv, RemovesOwn
<1> QED BY RemovesInvInit, RemovesInvNext, <1>1, PTL DEF Spec

-----------------------------------------------------------------------------
(* Rejected calls                                                          *)

(* Inflation keeps what is nested and what the pass cannot instrument.     *)
LEMMA NestedInflated ==
  ASSUME NEW t \in Inflatable
  PROVE  IsNested(Inflate(t)) <=> IsNested(t)
<1>1. t \in Type /\ Inflate(t).kind = t.kind
  BY InflatableFacts, InflatedParts
<1>2. CASE IsArrayOf(t, Inflatable)
  <2>1. t.elem \in Inflatable /\ IsArrayOf(t, Type)
    BY <1>2, InflatableFacts DEF IsArrayOf
  <2>4. Inflate(t) = ArrayType(t.num, Inflate(t.elem))
    BY <1>1, <2>1, InflateEquation
  <2>2. Inflate(t).elem = Inflate(t.elem)
    BY <2>4 DEF ArrayType
  <2>3. Inflate(t.elem).kind = t.elem.kind
    BY <2>1, InflatedParts
  <2> QED BY <1>1, <2>2, <2>3 DEF IsNested, IsStruct, IsStructArray
<1>3. CASE ~ IsArrayOf(t, Inflatable)
  <2>1. t.kind # "array"
    BY <1>3, InflatableFacts DEF IsInt, IsStructOf
  <2> QED BY <1>1, <2>1 DEF IsNested, IsStruct, IsStructArray
<1> QED BY <1>2, <1>3

(* The fields of an inflated struct are redzones and inflated fields.      *)
LEMMA SomeInflatedField ==
  ASSUME NEW t \in Inflatable, IsStructOf(t, Inflatable), NEW T, Redzone \notin T
  PROVE  (\E i \in DOMAIN Inflate(t).fields : Inflate(t).fields[i] \in T)
           <=> \E i \in DOMAIN t.fields : Inflate(t.fields[i]) \in T
<1> DEFINE n == Len(t.fields)
<1>1. IsStructOf(t, Type) /\ t \in Type
  BY InflatableFacts
<1>2. /\ DOMAIN Inflate(t).fields = 1 .. 2 * n + 1 /\ DOMAIN t.fields = 1 .. n /\ n \in Nat
      /\ \A i \in 1 .. 2 * n + 1 :
           Inflate(t).fields[i] = IF i % 2 = 1 THEN Redzone ELSE Inflate(t.fields[i \div 2])
  BY <1>1, InflatedFields DEF IsStructOf
<1>3. ASSUME NEW i \in 1 .. 2 * n + 1, Inflate(t).fields[i] \in T
      PROVE  \E j \in 1 .. n : Inflate(t.fields[j]) \in T
  <2>1. i % 2 # 1 /\ Inflate(t).fields[i] = Inflate(t.fields[i \div 2])
    BY <1>2, <1>3
  <2>2. i \div 2 \in 1 .. n
    BY <1>2, <2>1, Halves
  <2> QED BY <1>3, <2>1, <2>2
<1>4. ASSUME NEW j \in 1 .. n, Inflate(t.fields[j]) \in T
      PROVE  \E i \in 1 .. 2 * n + 1 : Inflate(t).fields[i] \in T
  <2>1. 2 * j \in 1 .. 2 * n + 1 /\ (2 * j) % 2 # 1 /\ (2 * j) \div 2 = j
    BY <1>2
  <2> QED BY <1>2, <1>4, <2>1
<1> QED BY <1>2, <1>3, <1>4

(* Inflation neither adds nor takes away an array of structs with structs. *)
LEMMA HoldsInflated ==
  ASSUME NEW t \in Inflatable
  PROVE  HoldsUnsupported(Inflate(t)) <=> HoldsUnsupported(t)
<1> DEFINE T == {u \in Type : u \in Inflatable => (HoldsUnsupported(Inflate(u)) <=> HoldsUnsupported(u))}
           U == {u \in Type : HoldsUnsupported(u)}
           N == {u \in Type : IsNested(u)}
<1>1. Redzone \in Type /\ ~ HoldsUnsupported(Redzone) /\ ~ IsNested(Redzone)
  <2>1. Redzone \in Type /\ Redzone.kind = "array" /\ Redzone = ArrayType(RZ, IntType(1))
    BY RedzoneFacts DEF Redzone
  <2>2. Redzone.elem.kind = "int"
    BY <2>1 DEF ArrayType, IntType
  <2>3. IsArrayOf(Redzone, Type)
    BY <2>1, TypeKinds DEF IsInt, IsStructOf
  <2> QED BY <2>1, <2>2, <2>3, HoldsEquation DEF IsNested, IsStruct, IsStructArray
<1>2. ASSUME NEW u \in Type, IsInt(u)
      PROVE  u \in T
  <2>1. Inflate(u) = u
    BY <1>2, InflateEquation
  <2> QED BY <2>1
<1>3. ASSUME NEW u \in Inflatable, IsStructOf(u, Inflatable)
      PROVE  /\ IsStructOf(u, Type) /\ u \in Type /\ Inflate(u) \in Type
             /\ IsStructOf(Inflate(u), Type) /\ DOMAIN u.fields = 1 .. Len(u.fields)
             /\ \A i \in DOMAIN u.fields : u.fields[i] \in Inflatable /\ Inflate(u.fields[i]) \in Type
             /\ \A i \in DOMAIN Inflate(u).fields : Inflate(u).fields[i] \in Type
  <2>1. /\ IsStructOf(u, Type) /\ u \in Type /\ Inflate(u) \in Type
        /\ DOMAIN u.fields = 1 .. Len(u.fields) /\ u.kind = "struct"
        /\ \A i \in DOMAIN u.fields : u.fields[i] \in Inflatable
    BY <1>3, InflatableFacts DEF IsStructOf
  <2>2. IsStructOf(Inflate(u), Type)
    BY <2>1, InflatedParts
  <2>3. \A i \in DOMAIN Inflate(u).fields : Inflate(u).fields[i] \in Type
    BY <2>2 DEF IsStructOf
  <2> QED BY <2>1, <2>2, <2>3, InflatableFacts
<1>4. ASSUME NEW u \in Inflatable, IsStructOf(u, Inflatable)
      PROVE  (\E i \in DOMAIN Inflate(u).fields : IsNested(Inflate(u).fields[i]))
               <=> \E i \in DOMAIN u.fields : IsNested(u.fields[i])
  <2>1. (\E i \in DOMAIN Inflate(u).fields : Inflate(u).fields[i] \in N)
          <=> \E i \in DOMAIN u.fields : Inflate(u.fields[i]) \in N
    BY <1>1, <1>4, SomeInflatedField
  <2>2. \A i \in DOMAIN u.fields : IsNested(Inflate(u.fields[i])) <=> IsNested(u.fields[i])
    BY <1>3, <1>4, NestedInflated
  <2> QED BY <1>3, <1>4, <2>1, <2>2
<1>5. ASSUME NEW u \in Type, IsArrayOf(u, Type), u.elem \in T
      PROVE  u \in T
  <2> SUFFICES ASSUME u \in Inflatable
               PROVE  HoldsUnsupported(Inflate(u)) <=> HoldsUnsupported(u)
    OBVIOUS
  <2>1. IsArrayOf(u, Inflatable) /\ u.elem \in Inflatable /\ Inflate(u) \in Type
    BY <1>5, InflatableFacts DEF IsArrayOf, IsInt, IsStructOf
  <2>2. Inflate(u) = ArrayType(u.num, Inflate(u.elem)) /\ Inflate(u.elem) \in Type
    BY <1>5, <2>1, InflateEquation, InflatableFacts
  <2>3. IsArrayOf(Inflate(u), Type) /\ Inflate(u).elem = Inflate(u.elem)
    BY <1>5, <2>2 DEF IsArrayOf, ArrayType
  <2>4. Inflate(u.elem).kind = u.elem.kind
    BY <2>1, InflatedParts
  <2>5. CASE IsStruct(u.elem)
    <3>1. IsStructOf(u.elem, Inflatable)
      BY <2>1, <2>5, InflatableFacts DEF IsStruct, IsInt, IsArrayOf
    <3>2. (\E i \in DOMAIN Inflate(u.elem).fields : IsNested(Inflate(u.elem).fields[i]))
             <=> \E i \in DOMAIN u.elem.fields : IsNested(u.elem.fields[i])
      BY <1>4, <2>1, <3>1
    <3>3. HoldsUnsupported(u) <=> \E i \in DOMAIN u.elem.fields : IsNested(u.elem.fields[i])
      BY <1>5, <2>5, HoldsEquation
    <3>4. HoldsUnsupported(Inflate(u))
            <=> \E i \in DOMAIN Inflate(u).elem.fields : IsNested(Inflate(u).elem.fields[i])
      BY <2>1, <2>3, <2>4, <2>5, HoldsEquation DEF IsStruct
    <3> QED BY <2>3, <3>2, <3>3, <3>4
  <2>6. CASE ~ IsStruct(u.elem)
    BY <1>5, <2>1, <2>3, <2>4, <2>6, HoldsEquation DEF IsStruct
  <2> QED BY <2>5, <2>6
<1>6. ASSUME NEW u \in Type, IsStructOf(u, Type), \A i \in 1 .. Len(u.fields) : u.fields[i] \in T
      PROVE  u \in T
  <2> SUFFICES ASSUME u \in Inflatable
               PROVE  HoldsUnsupported(Inflate(u)) <=> HoldsUnsupported(u)
    OBVIOUS
  <2>1. IsStructOf(u, Inflatable)
    BY <1>6, InflatableFacts DEF IsStructOf, IsInt, IsArrayOf
  <2>2. (\E i \in DOMAIN Inflate(u).fields : Inflate(u).fields[i] \in U)
          <=> \E i \in DOMAIN u.fields : Inflate(u.fields[i]) \in U
    BY <1>1, <2>1, SomeInflatedField
  <2>3. \A i \in DOMAIN u.fields : HoldsUnsupported(Inflate(u.fields[i])) <=> HoldsUnsupported(u.fields[i])
    BY <1>3, <1>6, <2>1
  <2>4. HoldsUnsupported(u) <=> \E i \in DOMAIN u.fields : HoldsUnsupported(u.fields[i])
    BY <1>6, HoldsEquation
  <2>5. HoldsUnsupported(Inflate(u))
          <=> \E i \in DOMAIN Inflate(u).fields : HoldsUnsupported(Inflate(u).fields[i])
    BY <1>3, <2>1, HoldsEquation
  <2> QED BY <1>3, <2>1, <2>2, <2>3, <2>4, <2>5
<1>7. Type \subseteq T
  <2> HIDE DEF T
  <2> QED BY <1>2, <1>5, <1>6, TypeInduction
<1> QED BY <1>7, InflatableFacts

(* Call c, or one that it leads to, takes its pointer for one to another   *)
(* type.                                                                   *)
CanFail(c) ==
  IF c.pointee = StructTypeOf(c) THEN HoldsUnsupported(c.type) ELSE NestedCalls(c) # {}

(* The types of the calls that are made.                                   *)
CallOK(c) ==
  /\ c.type \in Type /\ IsNested(c.type)
  /\ c.pointee = StructTypeOf(c) => IsStruct(c.type)

(* The fields behind the calls for nested structs.                         *)
LEMMA NestedFields ==
  ASSUME NEW c, c.type \in Type, IsNested(c.type)
  PROVE  /\ StructTypeOf(c) \in Type /\ IsStructOf(StructTypeOf(c), Type)
         /\ DOMAIN StructTypeOf(c).fields = 1 .. Len(StructTypeOf(c).fields)
         /\ NestedCalls(c) # {} <=>
              \E i \in DOMAIN StructTypeOf(c).fields : IsNested(StructTypeOf(c).fields[i])
         /\ \A i \in DOMAIN StructTypeOf(c).fields : IsNested(StructTypeOf(c).fields[i]) =>
              \E d \in NestedCalls(c) : d.type = StructTypeOf(c).fields[i] /\ d.pointee = d.type
         /\ \A d \in NestedCalls(c) :
              /\ d.pointee = d.type /\ IsNested(d.type)
              /\ \E i \in DOMAIN StructTypeOf(c).fields : d.type = StructTypeOf(c).fields[i]
<1> DEFINE u == StructTypeOf(c)
           n == Len(u.fields)
<1>1. u \in Type /\ IsStructOf(u, Type)
  <2>1. IsInt(c.type) \/ IsArrayOf(c.type, Type) \/ IsStructOf(c.type, Type)
    BY TypeKinds
  <2>2. CASE IsStruct(c.type)
    BY <2>1, <2>2 DEF IsInt, IsArrayOf, IsStruct, StructTypeOf
  <2>3. CASE ~ IsStruct(c.type)
    <3>1. c.type.elem \in Type /\ c.type.elem.kind = "struct" /\ u = c.type.elem
      BY <2>1, <2>3 DEF IsNested, IsStruct, IsStructArray, IsArrayOf, IsStructOf, IsInt, StructTypeOf
    <3> QED BY <3>1, TypeKinds DEF IsInt, IsArrayOf
  <2> QED BY <2>2, <2>3
<1>2. DOMAIN u.fields = 1 .. n /\ n \in Nat
  BY <1>1 DEF IsStructOf
<1>3. ASSUME NEW d \in NestedCalls(c)
      PROVE  /\ d.pointee = d.type /\ IsNested(d.type)
             /\ \E i \in DOMAIN u.fields : d.type = u.fields[i]
  <2>1. PICK i \in 0 .. n - 1 :
          /\ IsNested(u.fields[i + 1])
          /\ d = Call(c.at + Offset(u, i), u.fields[i + 1], FALSE, u.fields[i + 1],
                      IF IsStruct(u.fields[i + 1]) THEN 1 ELSE u.fields[i + 1].num)
    BY NestedCallsAre
  <2>2. i + 1 \in DOMAIN u.fields
    BY <1>2
  <2>3. d.pointee = u.fields[i + 1] /\ d.type = u.fields[i + 1]
    BY <2>1 DEF Call
  <2> QED BY <2>1, <2>2, <2>3
<1>4. ASSUME NEW i \in DOMAIN u.fields, IsNested(u.fields[i])
      PROVE  \E d \in NestedCalls(c) : d.type = u.fields[i] /\ d.pointee = d.type
  <2> DEFINE k == i - 1
             f == u.fields[k + 1]
             d == Call(c.at + Offset(u, k), f, FALSE, f, IF IsStruct(f) THEN 1 ELSE f.num)
  <2>1. k \in 0 .. n - 1 /\ k + 1 = i
    BY <1>2
  <2>2. k \in {j \in 0 .. n - 1 : IsNested(u.fields[j + 1])}
    BY <1>4, <2>1
  <2>3. d \in NestedCalls(c)
    BY <2>2 DEF NestedCalls
  <2>4. d.type = f /\ d.pointee = f
    BY DEF Call
  <2> QED BY <2>1, <2>3, <2>4
<1> QED BY <1>1, <1>2, <1>3, <1>4

(* A call can fail exactly if its type holds an array of structs that hold *)
(* structs.                                                                *)
LEMMA FailsByType ==
  ASSUME NEW c, CallOK(c)
  PROVE  c.pointee # StructTypeOf(c) /\ ~ IsStruct(c.type) => (CanFail(c) <=> HoldsUnsupported(c.type))
<1> SUFFICES ASSUME c.pointee # StructTypeOf(c), ~ IsStruct(c.type)
             PROVE  CanFail(c) <=> HoldsUnsupported(c.type)
  OBVIOUS
<1>1. IsArrayOf(c.type, Type) /\ c.type \in Type /\ IsNested(c.type) /\ IsStruct(c.type.elem)
  BY TypeKinds DEF CallOK, IsNested, IsStructArray, IsStruct, IsInt, IsStructOf
<1>2. StructTypeOf(c) = c.type.elem
  BY DEF StructTypeOf
<1>3. HoldsUnsupported(c.type) <=> \E i \in DOMAIN c.type.elem.fields : IsNested(c.type.elem.fields[i])
  BY <1>1, HoldsEquation
<1> QED BY <1>1, <1>2, <1>3, NestedFields DEF CanFail

(* A type that holds an unsupported one is nested itself.                  *)
LEMMA UnsupportedIsNested ==
  ASSUME NEW t \in Type, HoldsUnsupported(t)
  PROVE  IsNested(t)
BY TypeKinds, HoldsEquation DEF IsNested, IsStruct, IsStructArray, IsInt, IsArrayOf, IsStructOf

(* The calls that a call makes, if it is not rejected.                     *)
LEMMA NestedCallsFail ==
  ASSUME NEW c, CallOK(c), ~ IsRejected(c)
  PROVE  /\ \A d \in NestedCalls(c) : CallOK(d) /\ (CanFail(d) => CanFail(c))
         /\ CanFail(c) => \E d \in NestedCalls(c) : CanFail(d)
<1> DEFINE u == StructTypeOf(c)
<1>1. c.type \in Type /\ IsNested(c.type)
  BY DEF CallOK
<1>2. IsStructOf(u, Type) /\ u \in Type
  BY <1>1, NestedFields
<1>3. ASSUME NEW d \in NestedCalls(c)
      PROVE  /\ CallOK(d)
             /\ CanFail(d) <=> HoldsUnsupported(d.type)
             /\ \E i \in DOMAIN u.fields : d.type = u.fields[i]
  <2>1. d.pointee = d.type /\ IsNested(d.type) /\ \E i \in DOMAIN u.fields : d.type = u.fields[i]
    BY <1>1, NestedFields
  <2>2. d.type \in Type
    BY <1>2, <2>1 DEF IsStructOf
  <2>3. d.pointee = StructTypeOf(d) <=> IsStruct(d.type)
    BY <2>1 DEF StructTypeOf, IsNested, IsStruct, IsStructArray
  <2>4. CallOK(d)
    BY <2>1, <2>2, <2>3 DEF CallOK
  <2>5. CanFail(d) <=> HoldsUnsupported(d.type)
    <3>1. CASE IsStruct(d.type)
      BY <2>3, <3>1 DEF CanFail
    <3>2. CASE ~ IsStruct(d.type)
      BY <2>3, <2>4, <3>2, FailsByType
    <3> QED BY <3>1, <3>2
  <2> QED BY <2>1, <2>4, <2>5
<1>4. CASE NestedCalls(c) = {}
  <2>1. ASSUME CanFail(c)
        PROVE  FALSE
    <3>1. c.pointee = u /\ IsStruct(c.type) /\ u = c.type /\ HoldsUnsupported(u)
      BY <1>4, <2>1 DEF CanFail, CallOK, StructTypeOf
    <3>2. PICK i \in DOMAIN u.fields : HoldsUnsupported(u.fields[i])
      BY <1>2, <3>1, HoldsEquation
    <3>3. u.fields[i] \in Type
      BY <1>2 DEF IsStructOf
    <3>4. IsNested(u.fields[i])
      BY <3>2, <3>3, UnsupportedIsNested
    <3> QED BY <1>1, <1>4, <3>4, NestedFields
  <2> QED BY <1>4, <2>1
<1>5. CASE NestedCalls(c) # {}
  <2>1. c.pointee = u /\ IsStruct(c.type) /\ u = c.type
    BY <1>5 DEF IsRejected, CallOK, StructTypeOf
  <2>2. CanFail(c) <=> \E i \in DOMAIN u.fields : HoldsUnsupported(u.fields[i])
    BY <1>2, <2>1, HoldsEquation DEF CanFail
  <2>3. ASSUME NEW i \in DOMAIN u.fields, HoldsUnsupported(u.fields[i])
        PROVE  \E d \in NestedCalls(c) : CanFail(d)
    <3>1. u.fields[i] \in Type
      BY <1>2 DEF IsStructOf
    <3>2. IsNested(u.fields[i])
      BY <2>3, <3>1, UnsupportedIsNested
    <3>3. PICK d \in NestedCalls(c) : d.type = u.fields[i]
      BY <1>1, <3>2, NestedFields
    <3> QED BY <1>3, <2>3, <3>3
  <2> QED BY <1>3, <2>2, <2>3
<1> QED BY <1>4, <1>5

(* As long as the pass is running, a call that can fail is left exactly if *)
(* the allocation holds an array of structs that hold structs.             *)
SupportedInv ==
  /\ SourceOK
  /\ status \in {"run", "rejected"}
  /\ status = "rejected" => HoldsUnsupported(source)
  /\ \A c \in todo : CallOK(c) /\ (CanFail(c) => HoldsUnsupported(source))
  /\ status = "run" /\ HoldsUnsupported(source) => \E c \in todo : CanFail(c)

(* The first call can fail exactly if the pass cannot instrument the type. *)
LEMMA SupportedInvInit ==
  ASSUME Init
  PROVE  SupportedInv
<1>1. PICK s \in Structs, n \in Counts : \E site \in Sites(s, n) :
        source = site.source /\ todo = {site.call} /\ status = "run"
  BY Starts
<1>2. PICK site \in Sites(s, n) : source = site.source /\ todo = {site.call} /\ status = "run"
  BY <1>1
<1> DEFINE c == site.call
           t == Inflate(s)
<1>3. /\ SourceOK /\ StructTypeOf(c) = t
      /\ c.pointee = t <=> IsStruct(source)
      /\ \/ source = s /\ c.type = t
         \/ source = ArrayType(n, s) /\ c.type \in {t, object}
  BY <1>2, FirstCall
<1>4. /\ source \in Inflatable /\ source \in Type /\ object \in Type /\ object = Inflate(source)
      /\ IsNested(source) /\ IsNested(object)
  BY <1>3, SourceFacts, NestedInflated DEF object
<1>5. s \in Inflatable /\ IsStruct(s) /\ t \in Type /\ t.kind = "struct"
  <2>1. IsStruct(s) /\ s \in TypesUpTo(Depth - 2) /\ Depth - 2 \in Nat /\ Depth - 1 = (Depth - 2) + 1
    BY StructsAssumption, DepthAssumption
  <2>2. s \in Inflatable
    BY <2>1, TypesGrow DEF Inflatable
  <2> QED BY <2>1, <2>2, InflatableFacts, InflatedParts DEF IsStruct
<1>6. HoldsUnsupported(object) <=> HoldsUnsupported(source)
  BY <1>4, HoldsInflated
<1>7. IsNested(t) /\ IsStruct(t)
  BY <1>5 DEF IsNested, IsStruct
<1>8. CASE source = s /\ c.type = t
  <2>1. c.pointee = t /\ object = t
    BY <1>3, <1>4, <1>5, <1>8
  <2>2. CallOK(c)
    BY <1>3, <1>5, <1>7, <1>8, <2>1 DEF CallOK
  <2>3. CanFail(c) <=> HoldsUnsupported(source)
    BY <1>3, <1>6, <1>8, <2>1 DEF CanFail
  <2> QED BY <1>2, <1>3, <2>2, <2>3 DEF SupportedInv
<1>9. CASE source = ArrayType(n, s) /\ c.type \in {t, object}
  <2>1. ~ IsStruct(source) /\ c.pointee # t
    BY <1>3, <1>9 DEF ArrayType, IsStruct
  <2>2. CallOK(c)
    BY <1>3, <1>4, <1>5, <1>7, <1>9, <2>1 DEF CallOK
  <2>3. IsArrayOf(source, Type) /\ source.elem = s /\ n \in Nat \ {0}
    BY <1>4, <1>5, <1>9, CountsAssumption, InflatableFacts DEF IsArrayOf, ArrayType
  <2>4. IsArrayOf(object, Type) /\ object.elem = t /\ ~ IsStruct(object)
    <3>1. object = ArrayType(source.num, Inflate(source.elem))
      BY <1>4, <2>3, InflateEquation
    <3>2. object = ArrayType(n, t)
      BY <1>9, <2>3, <3>1 DEF ArrayType
    <3> HIDE DEF t
    <3> QED BY <1>5, <2>3, <3>2 DEF IsArrayOf, ArrayType, IsStruct
  <2>5. HoldsUnsupported(object) <=> \E i \in DOMAIN t.fields : IsNested(t.fields[i])
    BY <1>4, <1>7, <2>4, HoldsEquation
  <2>6. CanFail(c) <=> \E i \in DOMAIN t.fields : IsNested(t.fields[i])
    BY <1>3, <2>1, <2>2, NestedFields DEF CanFail, CallOK
  <2> QED BY <1>2, <1>3, <1>6, <2>2, <2>5, <2>6 DEF SupportedInv
<1> QED BY <1>3, <1>8, <1>9

(* A call that can fail is rejected or makes another one that can.         *)
LEMMA SupportedInvNext ==
  ASSUME SupportedInv, [Next]_vars
  PROVE  SupportedInv'
<1>1. ASSUME NEW c \in todo, insert_rdzone_init(c)
      PROVE  SupportedInv'
  <2>1. source' = source /\ Recurse(c) /\ SourceOK'
    BY <1>1 DEF insert_rdzone_init, SupportedInv, SourceOK
  <2>2. CallOK(c) /\ (CanFail(c) => HoldsUnsupported(source))
    BY <1>1 DEF SupportedInv
  <2>3. CASE IsRejected(c)
    <3>1. status' = "rejected" /\ todo' = {}
      BY <2>1, <2>3 DEF Recurse
    <3>2. CanFail(c)
      BY <2>3 DEF IsRejected, CanFail
    <3> QED BY <2>1, <2>2, <3>1, <3>2 DEF SupportedInv
  <2>4. CASE ~ IsRejected(c)
    <3>1. status' = status /\ todo' = (todo \ {c}) \cup NestedCalls(c)
      BY <2>1, <2>4 DEF Recurse
    <3>2. \A d \in NestedCalls(c) : CallOK(d) /\ (CanFail(d) => HoldsUnsupported(source))
      BY <2>2, <2>4, NestedCallsFail
    <3>3. ASSUME status = "run", HoldsUnsupported(source)
          PROVE  \E d \in todo' : CanFail(d)
      <4>1. PICK e \in todo : CanFail(e)
        BY <3>3 DEF SupportedInv
      <4>2. CASE e = c
        BY <2>2, <2>4, <3>1, <4>1, <4>2, NestedCallsFail
      <4> QED BY <3>1, <4>1, <4>2
    <3>4. \A d \in todo' : CallOK(d) /\ (CanFail(d) => HoldsUnsupported(source))
      BY <3>1, <3>2 DEF SupportedInv
    <3> QED BY <2>1, <3>1, <3>3, <3>4 DEF SupportedInv
  <2> QED BY <2>3, <2>4
<1>2. CASE UNCHANGED vars
  BY <1>2 DEF SupportedInv, vars, SourceOK
<1> QED BY <1>1, <1>2 DEF Next

(* The pass rejects exactly the allocations with an array of structs that  *)
(* hold structs.                                                           *)
THEOREM RejectsUnsupported == Spec => []Supported
<1>1. SupportedInv => Supported
  BY DEF SupportedInv, Supported, Done
<1> QED BY SupportedInvInit, SupportedInvNext, <1>1, PTL DEF Spec

-----------------------------------------------------------------------------
(* The calls for a single struct                                           *)

(* The recursion descends through structs only, to structs and to arrays   *)
(* of structs.                                                             *)
Reached ==
  {p \in Paths(source) :
     IsNested(TypeAt(source, p)) /\ \A i \in 0 .. Len(p) - 1 : IsStruct(TypesOn(source, p)[i])}

(* The call for the part at path p.                                        *)
CallFor(p) ==
  LET f == Inflate(TypeAt(source, p))
  IN  Call(Place(source, p), f, FALSE, f, IF IsStruct(f) THEN 1 ELSE f.num)

(* Only the first call differs from it, and only in being given an alloca. *)
IsCallFor(c, p) ==
  /\ c.at = CallFor(p).at /\ c.pointee = CallFor(p).pointee
  /\ c.type = CallFor(p).type /\ c.count = CallFor(p).count
  /\ c.alloca => IsStruct(c.type)

(* The parts that are reached, before and after inflation.                 *)
LEMMA ReachedPaths ==
  ASSUME SourceOK, NEW p \in Reached
  PROVE  /\ Valid(source, p) /\ p \in Seq(Nat) /\ Len(p) \in Nat
         /\ TypeAt(source, p) \in Inflatable /\ TypeAt(source, p) \in Type
         /\ IsNested(TypeAt(source, p)) /\ Inflate(TypeAt(source, p)) \in Type
         /\ Inflate(TypeAt(source, p)).kind = TypeAt(source, p).kind
         /\ \A i \in 0 .. Len(p) - 1 : IsStruct(TypesOn(source, p)[i])
<1>1. Valid(source, p) /\ source \in Inflatable /\ source \in Type
  BY SourceFacts, PathsAreValid DEF Reached
<1>2. p \in Seq(Nat) /\ Len(p) \in Nat /\ TypeAt(source, p) \in Inflatable
  BY <1>1, WalkFacts, InflatedWalk
<1> QED BY <1>1, <1>2, InflatableFacts, InflatedParts DEF Reached

(* A field of a struct at path p, before and after inflation.              *)
LEMMA FieldCalls ==
  ASSUME SourceOK, NEW p, Valid(source, p), IsStruct(TypeAt(source, p)),
         NEW k \in Indices(TypeAt(source, p))
  PROVE  /\ Valid(source, Append(p, k)) /\ TypeAt(source, Append(p, k)) = Part(TypeAt(source, p), k)
         /\ Part(TypeAt(source, p), k) = TypeAt(source, p).fields[k + 1]
         /\ Part(TypeAt(source, p), k) \in Inflatable /\ k \in Nat
         /\ 2 * k + 1 \in 0 .. Len(Inflate(TypeAt(source, p)).fields) - 1
         /\ Inflate(TypeAt(source, p)).fields[2 * k + 1 + 1] = Inflate(Part(TypeAt(source, p), k))
         /\ Place(source, Append(p, k))
              = Place(source, p) + Offset(Inflate(TypeAt(source, p)), 2 * k + 1)
<1> DEFINE u == TypeAt(source, p)
           g == Inflate(u)
           h == handle_gep(source, p)
<1>1. source \in Inflatable /\ source \in Type /\ object \in Type /\ object = Inflate(source)
  BY SourceFacts DEF object
<1>2. u \in Inflatable /\ u \in Type /\ g \in Type /\ u.kind = "struct" /\ g.kind = "struct"
  BY <1>1, InflatedWalk, InflatableFacts, InflatedParts DEF IsStruct
<1>3. Valid(object, h) /\ TypeAt(object, h) = g
  BY <1>1, InflatedWalk
<1>4. /\ k \in Nat /\ Part(u, k) \in Inflatable
      /\ 2 * k + 1 \in Indices(g) /\ Part(g, 2 * k + 1) = Inflate(Part(u, k))
  <2>1. Index(u, k) = 2 * k + 1
    BY <1>2 DEF Index
  <2> QED BY <1>2, <2>1, InflatedParts
<1>5. Valid(source, Append(p, k)) /\ TypeAt(source, Append(p, k)) = Part(u, k)
  BY <1>1, Steps
<1>6. handle_gep(source, Append(p, k)) = Append(h, 2 * k + 1)
  <2>1. Index(u, k) = 2 * k + 1
    BY <1>2 DEF Index
  <2> QED BY <1>1, <2>1, RewritingSteps
<1>7. Gep(object, Append(h, 2 * k + 1)) = Gep(object, h) + PartAt(g, 2 * k + 1)
  BY <1>1, <1>3, <1>4, Steps
<1>8. /\ Part(u, k) = u.fields[k + 1] /\ Part(g, 2 * k + 1) = g.fields[2 * k + 1 + 1]
      /\ PartAt(g, 2 * k + 1) = Offset(g, 2 * k + 1)
      /\ Indices(g) = 0 .. Len(g.fields) - 1
  BY <1>2 DEF Part, PartAt, Indices
<1> QED BY <1>1, <1>4, <1>5, <1>6, <1>7, <1>8 DEF Place

(* The fields the recursion descends to.                                   *)
LEMMA ReachedFields ==
  ASSUME SourceOK, NEW p \in Reached, IsStruct(TypeAt(source, p)),
         NEW k \in Indices(TypeAt(source, p))
  PROVE  Append(p, k) \in Reached <=> IsNested(Part(TypeAt(source, p), k))
<1> DEFINE a == Append(p, k)
<1>1. /\ Valid(source, p) /\ p \in Seq(Nat) /\ Len(p) \in Nat /\ source \in Type
      /\ \A i \in 0 .. Len(p) - 1 : IsStruct(TypesOn(source, p)[i])
  BY ReachedPaths, SourceFacts
<1>2. Valid(source, a) /\ TypeAt(source, a) = Part(TypeAt(source, p), k) /\ k \in Nat
  BY <1>1, FieldCalls
<1>3. IsSplit(a, p, <<k>>)
  BY <1>1, <1>2, Splits
<1>4. \A i \in 0 .. Len(p) : TypesOn(source, a)[i] = TypesOn(source, p)[i]
  BY <1>1, <1>3, SplitWalk
<1>5. Len(a) = Len(p) + 1
  BY <1>1, <1>2
<1>6. TypesOn(source, p)[Len(p)] = TypeAt(source, p)
  BY DEF TypeAt
<1>7. \A i \in 0 .. Len(a) - 1 : IsStruct(TypesOn(source, a)[i])
  <2> SUFFICES ASSUME NEW i \in 0 .. Len(a) - 1
               PROVE  IsStruct(TypesOn(source, a)[i])
    OBVIOUS
  <2>1. i \in 0 .. Len(p) /\ (i = Len(p) \/ i \in 0 .. Len(p) - 1)
    BY <1>1, <1>5
  <2> QED BY <1>1, <1>4, <1>6, <2>1
<1>8. a \in Paths(source)
  BY <1>1, <1>2, PathsAreValid
<1> QED BY <1>2, <1>7, <1>8 DEF Reached

(* The nested calls of a call for a struct are those for its nested parts. *)
LEMMA NestedCallsFor ==
  ASSUME SourceOK, NEW p \in Reached, IsStruct(TypeAt(source, p)), NEW c, IsCallFor(c, p)
  PROVE  /\ \A k \in Indices(TypeAt(source, p)) :
              Append(p, k) \in Reached => CallFor(Append(p, k)) \in NestedCalls(c)
         /\ \A d \in NestedCalls(c) : \E k \in Indices(TypeAt(source, p)) :
              Append(p, k) \in Reached /\ d = CallFor(Append(p, k))
<1> DEFINE u == TypeAt(source, p)
           g == Inflate(u)
           n == Len(u.fields)
<1>1. /\ Valid(source, p) /\ u \in Inflatable /\ u \in Type /\ u.kind = "struct" /\ g.kind = "struct"
      /\ IsStructOf(u, Type)
  BY ReachedPaths, TypeKinds DEF IsStruct, IsInt, IsArrayOf
<1>2. c.at = Place(source, p) /\ c.type = g /\ StructTypeOf(c) = g
  BY <1>1 DEF IsCallFor, CallFor, Call, StructTypeOf, IsStruct
<1>3. /\ n \in Nat /\ Len(g.fields) = 2 * n + 1 /\ Indices(u) = 0 .. n - 1
      /\ \A i \in 1 .. 2 * n + 1 : i % 2 = 1 => g.fields[i] = Redzone
  BY <1>1, InflatedFields DEF IsStructOf, Indices
<1>4. ASSUME NEW k \in Indices(u)
      PROVE  /\ CallFor(Append(p, k)) =
                  Call(c.at + Offset(g, 2 * k + 1), g.fields[2 * k + 1 + 1], FALSE, g.fields[2 * k + 1 + 1],
                       IF IsStruct(g.fields[2 * k + 1 + 1]) THEN 1 ELSE g.fields[2 * k + 1 + 1].num)
             /\ Append(p, k) \in Reached <=> IsNested(g.fields[2 * k + 1 + 1])
             /\ 2 * k + 1 \in 0 .. Len(g.fields) - 1
  <2>1. /\ TypeAt(source, Append(p, k)) = Part(u, k) /\ Part(u, k) \in Inflatable
        /\ 2 * k + 1 \in 0 .. Len(g.fields) - 1 /\ g.fields[2 * k + 1 + 1] = Inflate(Part(u, k))
        /\ Place(source, Append(p, k)) = Place(source, p) + Offset(g, 2 * k + 1)
    BY <1>1, FieldCalls
  <2>2. Append(p, k) \in Reached <=> IsNested(Part(u, k))
    BY ReachedFields
  <2>3. IsNested(Inflate(Part(u, k))) <=> IsNested(Part(u, k))
    BY <2>1, NestedInflated
  <2> QED BY <1>2, <2>1, <2>2, <2>3 DEF CallFor
<1>5. ASSUME NEW k \in Indices(u), Append(p, k) \in Reached
      PROVE  CallFor(Append(p, k)) \in NestedCalls(c)
  <2> DEFINE i == 2 * k + 1
  <2>1. i \in {j \in 0 .. Len(g.fields) - 1 : IsNested(g.fields[j + 1])}
    BY <1>4, <1>5
  <2> HIDE DEF i
  <2>2. Call(c.at + Offset(g, i), g.fields[i + 1], FALSE, g.fields[i + 1],
             IF IsStruct(g.fields[i + 1]) THEN 1 ELSE g.fields[i + 1].num) \in NestedCalls(c)
    BY <1>2, <2>1 DEF NestedCalls
  <2> QED BY <1>4, <2>2 DEF i
<1>6. ASSUME NEW d \in NestedCalls(c)
      PROVE  \E k \in Indices(u) : Append(p, k) \in Reached /\ d = CallFor(Append(p, k))
  <2>1. PICK i \in 0 .. Len(g.fields) - 1 :
          /\ IsNested(g.fields[i + 1])
          /\ d = Call(c.at + Offset(g, i), g.fields[i + 1], FALSE, g.fields[i + 1],
                      IF IsStruct(g.fields[i + 1]) THEN 1 ELSE g.fields[i + 1].num)
    BY <1>2, NestedCallsAre
  <2>2. ~ IsNested(Redzone)
    BY DEF IsNested, IsStruct, IsStructArray, Redzone, ArrayType, IntType
  <2>3. i + 1 \in 1 .. 2 * n + 1 /\ i \in Nat /\ (i + 1) % 2 # 1
    <3>1. i + 1 \in 1 .. 2 * n + 1 /\ i \in Nat
      BY <1>3
    <3>2. (i + 1) % 2 = 1 => g.fields[i + 1] = Redzone
      BY <1>3, <3>1
    <3> QED BY <2>1, <2>2, <3>1, <3>2
  <2>4. \E k \in 0 .. n - 1 : i = 2 * k + 1
    <3>1. (i + 1) \div 2 \in 1 .. n /\ i + 1 = 2 * ((i + 1) \div 2)
      BY <1>3, <2>3, Halves
    <3> DEFINE m == (i + 1) \div 2
    <3> HIDE DEF m
    <3>2. m \in 1 .. n /\ i + 1 = 2 * m
      BY <3>1 DEF m
    <3>3. m - 1 \in 0 .. n - 1 /\ i = 2 * (m - 1) + 1
      BY <1>3, <2>3, <3>2
    <3> QED BY <3>3
  <2>5. PICK k \in Indices(u) : i = 2 * k + 1
    BY <1>3, <2>4
  <2> QED BY <1>4, <2>1, <2>5
<1> QED BY <1>5, <1>6

(* What the call for a part registers.                                     *)
LEMMA SameZones ==
  ASSUME NEW p, NEW c, IsCallFor(c, p)
  PROVE  ZonesOf(c) = ZonesOf(CallFor(p))
<1> DEFINE d == CallFor(p)
<1>1. ~ d.alloca
  BY DEF CallFor, Call
<1>2. c.at = d.at /\ c.type = d.type /\ c.count = d.count
  BY DEF IsCallFor
<1>3. ~ c.alloca \/ IsStruct(c.type)
  BY DEF IsCallFor
<1> HIDE DEF d
<1>4. ZonesOf(c) = {c.at + Head(<<x, y>>) * AllocSize(c.type) + Gep(c.type, Tail(<<x, y>>)) :
                      x \in 0 .. c.count - 1, y \in redzone_offsets(StructTypeOf(c))}
  <2> DEFINE Z == {c.at + Head(<<x, y>>) * AllocSize(c.type) + Gep(c.type, Tail(<<x, y>>)) :
                     x \in 0 .. c.count - 1, y \in redzone_offsets(StructTypeOf(c))}
  <2>1. ~ c.alloca => ZonesOf(c) = Z
    BY DEF ZonesOf
  <2>2. IsStruct(c.type) => ZonesOf(c) = Z
    BY DEF ZonesOf
  <2> HIDE DEF Z
  <2>3. ZonesOf(c) = Z
    BY <1>3, <2>1, <2>2, Zenon
  <2> QED BY <2>3 DEF Z
<1>5. ZonesOf(d) = {d.at + Head(<<x, y>>) * AllocSize(d.type) + Gep(d.type, Tail(<<x, y>>)) :
                      x \in 0 .. d.count - 1, y \in redzone_offsets(StructTypeOf(d))}
  BY <1>1 DEF ZonesOf
<1>6. StructTypeOf(c) = StructTypeOf(d)
  BY <1>2 DEF StructTypeOf
<1>7. ZonesOf(c) = ZonesOf(d)
  BY <1>2, <1>4, <1>5, <1>6
<1> QED BY <1>7 DEF d

(* A GEP with one index.                                                   *)
LEMMA OneStep ==
  ASSUME NEW t \in Type, NEW y \in Nat, PartAt(t, y) \in Nat
  PROVE  Gep(t, <<y>>) = PartAt(t, y)
<1>1. <<y>> \in Seq(Nat) /\ Len(<<y>>) = 1 /\ <<y>>[1] = y /\ 1 \in 1 .. 1 /\ 1 - 1 = 0
  OBVIOUS
<1>2. TypesOn(t, <<y>>)[0] = t
  BY <1>1, TypesOnEquation
<1>3. /\ OffsetsOn(t, <<y>>)[0] = 0
      /\ OffsetsOn(t, <<y>>)[1] = OffsetsOn(t, <<y>>)[1 - 1] + PartAt(TypesOn(t, <<y>>)[1 - 1], <<y>>[1])
  BY <1>1, OffsetsOnEquation
<1>4. OffsetsOn(t, <<y>>)[1] = PartAt(t, y)
  BY <1>1, <1>2, <1>3
<1> QED BY <1>1, <1>4 DEF Gep

(* For a struct, its redzones.                                             *)
LEMMA StructCallZones ==
  ASSUME SourceOK, NEW p \in Reached, IsStruct(TypeAt(source, p))
  PROVE  ZonesOf(CallFor(p)) = ZonesAt(p)
<1> DEFINE u == TypeAt(source, p)
           g == Inflate(u)
           R == redzone_offsets(g)
           c == CallFor(p)
<1>1. /\ Valid(source, p) /\ u \in Inflatable /\ u \in Type /\ g \in Type /\ g.kind = "struct"
      /\ \A y \in R : y \in Indices(g)
  BY ReachedPaths, InflatedParts DEF IsStruct
<1>2. c.at = Place(source, p) /\ c.type = g /\ c.count = 1 /\ ~ c.alloca /\ StructTypeOf(c) = g
  BY <1>1 DEF CallFor, Call, StructTypeOf, IsStruct
<1>3. Place(source, p) \in Nat
  <2>1. Valid(object, handle_gep(source, p)) /\ object \in Type
    BY <1>1, SourceFacts, InflatedWalk DEF object
  <2> QED BY <2>1, WalkFacts DEF Place, object
<1>4. AllocSize(g) \in Nat
  BY <1>1, SizeFacts
<1>5. \A y \in R : y \in Nat /\ Offset(g, y) \in Nat /\ Gep(g, <<y>>) = Offset(g, y)
  <2> TAKE y \in R
  <2>1. y \in Indices(g)
    BY <1>1
  <2>2. PartAt(g, y) = Offset(g, y)
    BY <1>1 DEF PartAt
  <2>3. y \in Nat /\ PartAt(g, y) \in Nat
    BY <1>1, <2>1, PartFacts
  <2> QED BY <1>1, <2>2, <2>3, OneStep
<1> DEFINE at == Place(source, p)
           zone(x, y) == at + x * AllocSize(g) + Gep(g, <<y>>)
           own(y) == at + Offset(g, y)
<1>6. ZonesOf(c) = {c.at + Head(<<x, y>>) * AllocSize(c.type) + Gep(c.type, Tail(<<x, y>>)) :
                      x \in 0 .. c.count - 1, y \in redzone_offsets(StructTypeOf(c))}
  <2> HIDE DEF c
  <2> QED BY <1>2 DEF ZonesOf
<1>7. ZonesOf(c) = {at + Head(<<x, y>>) * AllocSize(g) + Gep(g, Tail(<<x, y>>)) :
                      x \in 0 .. 1 - 1, y \in R}
  <2> HIDE DEF c
  <2> QED BY <1>2, <1>6
<1>8. \A x \in 0 .. 1 - 1 : \A y \in R :
        at + Head(<<x, y>>) * AllocSize(g) + Gep(g, Tail(<<x, y>>)) = own(y)
  <2> SUFFICES ASSUME NEW x \in 0 .. 1 - 1, NEW y \in R
               PROVE  at + Head(<<x, y>>) * AllocSize(g) + Gep(g, Tail(<<x, y>>)) = own(y)
    OBVIOUS
  <2>1. x = 0 /\ y \in Nat /\ Offset(g, y) \in Nat /\ Gep(g, <<y>>) = Offset(g, y)
    BY <1>5
  <2> HIDE DEF g, R
  <2>2. Head(<<x, y>>) = 0 /\ Tail(<<x, y>>) = <<y>>
    BY <2>1, HeadsAndTails
  <2>3. 0 * AllocSize(g) = 0
    BY <1>4
  <2> QED BY <1>3, <2>1, <2>2, <2>3
<1>9. ZonesOf(c) = {own(y) : y \in R}
  <2> DEFINE z(x, y) == at + Head(<<x, y>>) * AllocSize(g) + Gep(g, Tail(<<x, y>>))
  <2>1. ZonesOf(c) = {z(x, y) : x \in 0 .. 1 - 1, y \in R}
    BY <1>7
  <2>2. \A x \in 0 .. 1 - 1 : \A y \in R : z(x, y) = own(y)
    BY <1>8
  <2>3. 0 \in 0 .. 1 - 1
    OBVIOUS
  <2> HIDE DEF c, R, z, own
  <2> QED BY <2>1, <2>2, <2>3
<1>10. ZonesAt(p) = {own(y) : y \in R}
  BY DEF ZonesAt, Place, object
<1> QED BY <1>9, <1>10

(* For an array of structs, places at whole multiples of the size of a     *)
(* struct from its start.                                                  *)
LEMMA ArrayCallZones ==
  ASSUME SourceOK, NEW p \in Reached, ~ IsStruct(TypeAt(source, p)), NEW z \in ZonesOf(CallFor(p))
  PROVE  \E k \in Nat : z = Place(source, p) + k * AllocSize(Inflate(TypeAt(source, p)).elem)
<1> DEFINE u == TypeAt(source, p)
           g == Inflate(u)
           e == g.elem
           c == CallFor(p)
           at == Place(source, p)
<1>1. /\ Valid(source, p) /\ u \in Inflatable /\ u \in Type /\ g \in Type /\ ~ IsStruct(g)
      /\ IsNested(g)
  BY ReachedPaths, NestedInflated DEF IsStruct
<1>2. IsArrayOf(g, Type) /\ e \in Type /\ IsStruct(e) /\ g.num \in Nat \ {0}
  BY <1>1, TypeKinds DEF IsNested, IsStructArray, IsInt, IsStructOf, IsArrayOf, IsStruct
<1>3. c.at = at /\ c.type = g /\ c.count = g.num /\ ~ c.alloca /\ StructTypeOf(c) = e
  BY <1>1 DEF CallFor, Call, StructTypeOf
<1>4. at \in Nat
  <2>1. Valid(object, handle_gep(source, p)) /\ object \in Type
    BY <1>1, SourceFacts, InflatedWalk DEF object
  <2> QED BY <2>1, WalkFacts DEF Place, object
<1>5. AllocSize(e) \in Nat /\ AllocSize(g) = g.num * AllocSize(e)
  BY <1>1, <1>2, SizeFacts, SizeEquation
<1>6. ZonesOf(c) = {c.at + Head(<<x, y>>) * AllocSize(c.type) + Gep(c.type, Tail(<<x, y>>)) :
                      x \in 0 .. c.count - 1, y \in redzone_offsets(StructTypeOf(c))}
  <2> HIDE DEF c
  <2> QED BY <1>3 DEF ZonesOf
<1>7. PICK x \in 0 .. g.num - 1, y \in redzone_offsets(e) :
        z = at + Head(<<x, y>>) * AllocSize(g) + Gep(g, Tail(<<x, y>>))
  <2> HIDE DEF c
  <2>1. ZonesOf(c) = {at + Head(<<x, y>>) * AllocSize(g) + Gep(g, Tail(<<x, y>>)) :
                        x \in 0 .. g.num - 1, y \in redzone_offsets(e)}
    BY <1>3, <1>6
  <2>2. z \in ZonesOf(c)
    BY DEF c
  <2> HIDE DEF g, e, at
  <2> QED BY <2>1, <2>2
<1>8. x \in Nat /\ y \in Nat
  BY <1>2 DEF redzone_offsets
<1>9. Gep(g, <<y>>) = y * AllocSize(e)
  <2>1. PartAt(g, y) = y * AllocSize(e)
    BY <1>2 DEF PartAt, IsArrayOf
  <2>2. y * AllocSize(e) \in Nat
    BY <1>5, <1>8, Products
  <2> QED BY <1>1, <1>8, <2>1, <2>2, OneStep
<1>10. z = at + x * AllocSize(g) + y * AllocSize(e)
  <2>1. Head(<<x, y>>) = x /\ Tail(<<x, y>>) = <<y>>
    BY <1>8, HeadsAndTails
  <2> HIDE DEF g, e, at
  <2> QED BY <1>7, <1>9, <2>1
<1> DEFINE k == x * g.num + y
<1>11. k \in Nat /\ z = at + k * AllocSize(e)
  <2> DEFINE m == g.num
             a == AllocSize(e)
  <2>1. m \in Nat /\ a \in Nat /\ AllocSize(g) = m * a
    BY <1>2, <1>5
  <2> HIDE DEF m, a, at
  <2>2. z = at + x * (m * a) + y * a
    BY <1>10, <2>1 DEF a
  <2>3. x * m \in Nat /\ x * (m * a) + y * a = (x * m + y) * a
    BY <1>8, <2>1
  <2>4. x * m + y \in Nat /\ x * (m * a) \in Nat /\ y * a \in Nat
    BY <1>8, <2>1, <2>3
  <2>5. z = at + (x * m + y) * a
    BY <1>4, <2>2, <2>3, <2>4
  <2> QED BY <2>4, <2>5 DEF m, a
<1> QED BY <1>11

(* For a single struct: what is registered belongs to parts that are       *)
(* reached, and every such part has been registered or is still to come.   *)
StructRun ==
  /\ \A z \in registered : \E p \in Reached : z \in ZonesOf(CallFor(p))
  /\ \A c \in todo : \E p \in Reached : IsCallFor(c, p)
  /\ status = "run" => \A p \in Reached :
       \/ ZonesOf(CallFor(p)) \subseteq registered
       \/ \E q \in Reached, c \in todo : Begins(q, p) /\ IsCallFor(c, q)

(* For an array or a heap block: the first call is the only one.           *)
ArrayRun ==
  status = "run" =>
    \/ registered = {} /\ \E c : todo = {c} /\ ZonesOf(c) = OwnZones /\ c.pointee # StructTypeOf(c)
    \/ registered = OwnZones /\ todo = {}

RegistersInv ==
  /\ SourceOK
  /\ IsStruct(source) => StructRun
  /\ ~ IsStruct(source) => ArrayRun

(* The first call is the one for the whole object.                         *)
LEMMA RegistersInvInit ==
  ASSUME Init
  PROVE  RegistersInv
<1>1. PICK s \in Structs, n \in Counts : \E site \in Sites(s, n) :
        source = site.source /\ todo = {site.call} /\ registered = {}
  BY Starts
<1>2. PICK site \in Sites(s, n) : source = site.source /\ todo = {site.call} /\ registered = {}
  BY <1>1
<1> DEFINE c == site.call
<1>3. /\ SourceOK /\ ZonesOf(c) = OwnZones /\ StructTypeOf(c) = Inflate(s)
      /\ IsStruct(source) => c = Call(0, object, TRUE, object, 1)
      /\ c.pointee = Inflate(s) <=> IsStruct(source)
  BY <1>2, FirstCall
<1>4. ASSUME IsStruct(source)
      PROVE  StructRun
  <2>1. source \in Inflatable /\ source \in Type /\ object \in Type /\ object = Inflate(source)
    BY <1>3, SourceFacts DEF object
  <2>2. /\ Valid(source, <<>>) /\ TypeAt(source, <<>>) = source /\ handle_gep(source, <<>>) = <<>>
        /\ Gep(object, <<>>) = 0
    BY <2>1, ShortPaths, RewritingSteps
  <2>3. <<>> \in Reached
    <3>1. <<>> \in Paths(source) /\ IsNested(source)
      BY <1>4, <2>1, <2>2, PathsAreValid DEF IsNested
    <3>2. 0 .. Len(<<>>) - 1 = {}
      OBVIOUS
    <3> QED BY <2>2, <3>1, <3>2 DEF Reached
  <2>4. object.kind = "struct"
    BY <1>4, <2>1, InflatedParts DEF IsStruct
  <2>5. IsCallFor(c, <<>>)
    <3>1. CallFor(<<>>) = Call(0, object, FALSE, object, 1)
      BY <2>1, <2>2, <2>4 DEF CallFor, Place, IsStruct
    <3> QED BY <1>3, <1>4, <2>4, <3>1 DEF IsCallFor, Call, IsStruct
  <2>6. \A p \in Reached : Begins(<<>>, p)
    <3> TAKE p \in Reached
    <3>1. Len(p) \in Nat
      BY <1>3, ReachedPaths
    <3> QED BY <3>1 DEF Begins
  <2> QED BY <1>2, <2>3, <2>5, <2>6 DEF StructRun
<1>5. ASSUME ~ IsStruct(source)
      PROVE  ArrayRun
  BY <1>2, <1>3, <1>5 DEF ArrayRun
<1> QED BY <1>3, <1>4, <1>5 DEF RegistersInv

(* A call for a struct that begins the way to a part passes it on.         *)
LEMMA PassedOn ==
  ASSUME SourceOK, NEW p \in Reached, NEW q \in Reached, Begins(q, p), q # p,
         NEW c, IsCallFor(c, q)
  PROVE  \E r \in Reached, d \in NestedCalls(c) : Begins(r, p) /\ IsCallFor(d, r)
<1> DEFINE k == p[Len(q) + 1]
           r == Append(q, k)
<1>1. /\ source \in Type /\ Valid(source, p) /\ Valid(source, q)
      /\ p \in Seq(Nat) /\ q \in Seq(Nat) /\ Len(p) \in Nat /\ Len(q) \in Nat
      /\ \A i \in 0 .. Len(p) - 1 : IsStruct(TypesOn(source, p)[i])
      /\ IsNested(TypeAt(source, p))
  BY SourceFacts, ReachedPaths
<1>2. /\ TypesOn(source, p)[Len(q)] = TypeAt(source, q) /\ Len(q) # Len(p)
      /\ Len(q) < Len(p) => k \in Indices(TypeAt(source, q))
  BY <1>1, BeginsFacts
<1>3. Len(q) < Len(p)
  BY <1>1, <1>2 DEF Begins
<1>4. IsStruct(TypeAt(source, q)) /\ k \in Indices(TypeAt(source, q))
  <2>1. Len(q) \in 0 .. Len(p) - 1
    BY <1>1, <1>3
  <2> QED BY <1>1, <1>2, <1>3, <2>1
<1>5. Valid(source, r) /\ TypeAt(source, r) = Part(TypeAt(source, q), k) /\ k \in Nat
  BY <1>1, <1>4, FieldCalls
<1>6. Len(r) = Len(q) + 1 /\ IsSplit(r, q, <<k>>) /\ r \in Seq(Nat)
  BY <1>1, <1>5, Splits
<1>7. Begins(r, p)
  <2>1. \A i \in 1 .. Len(q) : r[i] = q[i] /\ q[i] = p[i]
    BY <1>1, <1>6 DEF IsSplit, Begins
  <2>2. r[Len(q) + 1] = k
    BY <1>1, <1>5
  <2> HIDE DEF r
  <2>3. \A i \in 1 .. Len(r) : i \in 1 .. Len(q) \/ i = Len(q) + 1
    BY <1>1, <1>6
  <2>4. Len(r) <= Len(p)
    BY <1>1, <1>3, <1>6
  <2> QED BY <2>1, <2>2, <2>3, <2>4 DEF Begins
<1>8. IsNested(TypeAt(source, r))
  <2> HIDE DEF r, k
  <2>1. CASE Len(r) = Len(p)
    <3>1. r = p
      BY <1>1, <1>5, <1>7, <2>1, BeginsFacts
    <3> QED BY <1>1, <3>1
  <2>2. CASE Len(r) < Len(p)
    <3>1. Len(r) \in 0 .. Len(p) - 1
      BY <1>1, <1>6, <2>2
    <3>2. TypesOn(source, p)[Len(r)] = TypeAt(source, r)
      BY <1>1, <1>5, <1>7, BeginsFacts
    <3> QED BY <1>1, <3>1, <3>2 DEF IsNested
  <2>3. Len(r) <= Len(p)
    BY <1>7 DEF Begins
  <2> QED BY <1>1, <1>6, <2>1, <2>2, <2>3
<1>9. r \in Reached
  BY <1>4, <1>5, <1>8, ReachedFields
<1>10. CallFor(r) \in NestedCalls(c)
  BY <1>4, <1>9, NestedCallsFor
<1>11. IsCallFor(CallFor(r), r)
  <2>1. ~ CallFor(r).alloca
    BY DEF CallFor, Call
  <2> QED BY <2>1 DEF IsCallFor
<1> QED BY <1>7, <1>9, <1>10, <1>11

(* One call for a single struct.                                           *)
LEMMA StructRunNext ==
  ASSUME SourceOK, StructRun, NEW c \in todo, insert_rdzone_init(c)
  PROVE  StructRun'
<1>1. source' = source /\ registered' = registered \cup ZonesOf(c) /\ Recurse(c)
  BY DEF insert_rdzone_init
<1>2. /\ Reached' = Reached
      /\ \A p : CallFor(p)' = CallFor(p)
      /\ \A d, p : IsCallFor(d, p)' <=> IsCallFor(d, p)
  BY <1>1 DEF Reached, CallFor, IsCallFor
<1>3. PICK p0 \in Reached : IsCallFor(c, p0)
  BY DEF StructRun
<1>4. \A z \in registered' : \E p \in Reached : z \in ZonesOf(CallFor(p))
  <2>1. ZonesOf(c) = ZonesOf(CallFor(p0))
    BY <1>3, SameZones
  <2> QED BY <1>1, <1>3, <2>1 DEF StructRun
<1>5. CASE IsRejected(c)
  <2>1. status' = "rejected" /\ todo' = {}
    BY <1>1, <1>5 DEF Recurse
  <2> QED BY <1>2, <1>4, <2>1 DEF StructRun
<1>6. CASE ~ IsRejected(c)
  <2>1. status' = status /\ todo' = (todo \ {c}) \cup NestedCalls(c)
    BY <1>1, <1>6 DEF Recurse
  <2>2. \A d \in NestedCalls(c) : \E p \in Reached : IsCallFor(d, p)
    <3> SUFFICES ASSUME NEW d \in NestedCalls(c)
                 PROVE  \E p \in Reached : IsCallFor(d, p)
      OBVIOUS
    <3>1. c.pointee = StructTypeOf(c)
      BY <1>6 DEF IsRejected
    <3>2. IsStruct(TypeAt(source, p0))
      <4>1. c.pointee = Inflate(TypeAt(source, p0)) /\ c.type = c.pointee
        BY <1>3 DEF IsCallFor, CallFor, Call
      <4>2. /\ IsNested(Inflate(TypeAt(source, p0)))
            /\ Inflate(TypeAt(source, p0)).kind = TypeAt(source, p0).kind
        BY <1>3, ReachedPaths, NestedInflated
      <4> QED BY <3>1, <4>1, <4>2 DEF StructTypeOf, IsNested, IsStruct, IsStructArray
    <3>3. PICK k \in Indices(TypeAt(source, p0)) :
            Append(p0, k) \in Reached /\ d = CallFor(Append(p0, k))
      BY <1>3, <3>2, NestedCallsFor
    <3>4. ~ d.alloca
      BY <3>3 DEF CallFor, Call
    <3>5. IsCallFor(d, Append(p0, k))
      BY <3>3, <3>4 DEF IsCallFor
    <3> QED BY <3>3, <3>5
  <2>3. ASSUME status = "run", NEW p \in Reached, ~ (ZonesOf(CallFor(p)) \subseteq registered')
        PROVE  \E q \in Reached, d \in todo' : Begins(q, p) /\ IsCallFor(d, q)
    <3>1. PICK q \in Reached, e \in todo : Begins(q, p) /\ IsCallFor(e, q)
      BY <1>1, <2>3 DEF StructRun
    <3>2. CASE e # c
      BY <2>1, <3>1, <3>2
    <3>3. CASE e = c
      <4>1. q # p
        BY <1>1, <2>3, <3>1, <3>3, SameZones
      <4> QED BY <2>1, <3>1, <3>3, <4>1, PassedOn
    <3> QED BY <3>2, <3>3
  <2>4. \A d \in todo' : \E p \in Reached : IsCallFor(d, p)
    BY <2>1, <2>2 DEF StructRun
  <2> QED BY <1>2, <1>4, <2>1, <2>3, <2>4 DEF StructRun
<1> QED BY <1>5, <1>6

(* Each call leaves those that are missing to the calls it makes.          *)
LEMMA RegistersInvNext ==
  ASSUME RegistersInv, [Next]_vars
  PROVE  RegistersInv'
<1>1. ASSUME NEW c \in todo, insert_rdzone_init(c)
      PROVE  RegistersInv'
  <2>1. source' = source /\ registered' = registered \cup ZonesOf(c) /\ Recurse(c)
    BY <1>1 DEF insert_rdzone_init
  <2>2. SourceOK /\ SourceOK' /\ OwnZones' = OwnZones
    BY <2>1 DEF RegistersInv, SourceOK, OwnZones, ZonesAt, object
  <2>3. ASSUME IsStruct(source)
        PROVE  StructRun'
    BY <1>1, <2>2, <2>3, StructRunNext DEF RegistersInv
  <2>4. ASSUME ~ IsStruct(source)
        PROVE  ArrayRun'
    <3>1. ArrayRun
      BY <2>4 DEF RegistersInv
    <3>2. CASE IsRejected(c)
      BY <2>1, <3>2 DEF Recurse, ArrayRun
    <3>3. CASE ~ IsRejected(c)
      <4>1. status' = status /\ todo' = (todo \ {c}) \cup NestedCalls(c)
        BY <2>1, <3>3 DEF Recurse
      <4>2. ASSUME status = "run"
            PROVE  registered' = OwnZones /\ todo' = {}
        <5>1. PICK e : todo = {e} /\ registered = {} /\ ZonesOf(e) = OwnZones /\ e.pointee # StructTypeOf(e)
          BY <1>1, <3>1, <4>2 DEF ArrayRun
        <5>2. e = c
          BY <5>1
        <5> QED BY <2>1, <3>3, <4>1, <5>1, <5>2 DEF IsRejected
      <4> QED BY <2>2, <4>1, <4>2 DEF ArrayRun
    <3> QED BY <3>2, <3>3
  <2> QED BY <2>1, <2>2, <2>3, <2>4 DEF RegistersInv, IsStruct
<1>2. CASE UNCHANGED vars
  <2>1. source' = source /\ todo' = todo /\ registered' = registered /\ status' = status
    BY <1>2 DEF vars
  <2>2. /\ Reached' = Reached /\ OwnZones' = OwnZones /\ SourceOK' = SourceOK
        /\ \A p : CallFor(p)' = CallFor(p)
        /\ \A d, p : IsCallFor(d, p)' <=> IsCallFor(d, p)
    BY <2>1 DEF Reached, CallFor, IsCallFor, SourceOK, OwnZones, ZonesAt, object
  <2>3. StructRun => StructRun'
    BY <2>1, <2>2 DEF StructRun
  <2>4. ArrayRun => ArrayRun'
    BY <2>1, <2>2 DEF ArrayRun
  <2> QED BY <2>1, <2>2, <2>3, <2>4 DEF RegistersInv, IsStruct
<1> QED BY <1>1, <1>2 DEF Next

-----------------------------------------------------------------------------
(* Structs that hold arrays of structs                                     *)

(* The first array on the way to a struct.                                 *)
OuterArray(a) ==
  /\ Valid(source, a) /\ TypeAt(source, a).kind = "array" /\ HasStruct(TypeAt(source, a))
  /\ \A i \in 0 .. Len(a) - 1 : IsStruct(TypesOn(source, a)[i])

(* A path through an array to something with a struct has such a first one.*)
LEMMA FirstArray ==
  ASSUME SourceOK, NEW p, Valid(source, p), HasStruct(TypeAt(source, p)),
         NEW j \in 0 .. Len(p), TypesOn(source, p)[j].kind = "array"
  PROVE  \E a : OuterArray(a)
<1> DEFINE J == {i \in 0 .. Len(p) : TypesOn(source, p)[i].kind = "array"}
<1>1. source \in Type /\ Len(p) \in Nat /\ p \in Seq(Nat)
  BY SourceFacts, WalkFacts
<1>2. PICK m \in J : \A k \in J : m <= k
  <2>1. J \in SUBSET Nat /\ J # {}
    BY <1>1
  <2> HIDE DEF J
  <2> QED BY <2>1, LeastNatural
<1> DEFINE a == SubSeq(p, 1, m)
           b == SubSeq(p, m + 1, Len(p))
<1>3. /\ Valid(source, a) /\ Len(a) = m /\ TypeAt(source, a) = TypesOn(source, p)[m]
      /\ Valid(TypesOn(source, p)[m], b) /\ TypeAt(TypesOn(source, p)[m], b) = TypeAt(source, p)
      /\ TypesOn(source, p)[m] \in Type
  BY <1>1, Pieces, WalkFacts
<1>4. \A i \in 0 .. m : TypesOn(source, a)[i] = TypesOn(source, p)[i]
  <2>1. IsSplit(p, a, b)
    BY <1>1, Splits
  <2> HIDE DEF a, b
  <2>2. \A i \in 0 .. Len(a) : TypesOn(source, p)[i] = TypesOn(source, a)[i]
    BY <1>1, <2>1, SplitWalk
  <2> QED BY <1>3, <2>2
<1>5. \A i \in 0 .. m - 1 : IsStruct(TypesOn(source, a)[i])
  <2> SUFFICES ASSUME NEW i \in 0 .. m - 1
               PROVE  IsStruct(TypesOn(source, a)[i])
    OBVIOUS
  <2>1. i \in 0 .. Len(p) /\ i + 1 \in 1 .. Len(p) /\ i \in 0 .. m /\ i < m /\ i + 1 - 1 = i
    BY <1>1
  <2>2. TypesOn(source, p)[i].kind # "array"
    <3>1. i \notin J
      BY <1>1, <1>2, <2>1
    <3> QED BY <2>1, <3>1
  <2>3. TypesOn(source, p)[i] \in Type /\ p[i + 1] \in Indices(TypesOn(source, p)[i])
    <3>1. p[i + 1] \in Indices(TypesOn(source, p)[i + 1 - 1])
      BY <1>1, <2>1, WalkFacts
    <3> QED BY <1>1, <2>1, <3>1, WalkFacts
  <2>4. TypesOn(source, p)[i].kind # "int"
    BY <2>3 DEF Indices
  <2> QED BY <1>4, <2>1, <2>2, <2>3, <2>4, TypeKinds DEF IsInt, IsArrayOf, IsStructOf, IsStruct
<1>6. HasStruct(TypeAt(source, a))
  BY <1>3, HasStructParts
<1>7. TypeAt(source, a).kind = "array"
  BY <1>2, <1>3
<1> QED BY <1>3, <1>5, <1>6, <1>7 DEF OuterArray

(* A struct with an array of structs in it has one in one of its parts.    *)
LEMMA StructArrayPath ==
  ASSUME SourceOK, HasStructArray(source)
  PROVE  \E p, k : /\ Valid(source, p) /\ HoldsStructArray(TypeAt(source, p))
                   /\ k \in Indices(TypeAt(source, p)) /\ Valid(source, Append(p, k))
                   /\ TypeAt(source, Append(p, k)).kind = "array"
                   /\ HasStruct(TypeAt(source, Append(p, k)))
<1>1. source \in Type
  BY SourceFacts
<1>2. PICK p : Valid(source, p) /\ HoldsStructArray(TypeAt(source, p))
  BY <1>1, PathsAreValid DEF HasStructArray
<1> DEFINE u == TypeAt(source, p)
<1>3. u \in Type /\ IsStruct(u) /\ IsStructOf(u, Type)
  BY <1>1, <1>2, WalkFacts, TypeKinds DEF HoldsStructArray, IsStruct, IsInt, IsArrayOf
<1>4. PICK i \in DOMAIN u.fields : u.fields[i].kind = "array" /\ HasStruct(u.fields[i])
  BY <1>2 DEF HoldsStructArray
<1> DEFINE k == i - 1
<1>5. k \in Indices(u) /\ k + 1 = i
  BY <1>3, <1>4 DEF IsStructOf, Indices
<1>6. Valid(source, Append(p, k)) /\ TypeAt(source, Append(p, k)) = u.fields[i]
  <2>1. Part(u, k) = u.fields[i]
    BY <1>3, <1>5 DEF Part, IsStruct
  <2> QED BY <1>1, <1>2, <1>5, <2>1, Steps
<1> QED BY <1>2, <1>4, <1>5, <1>6

(* For a single struct there is an outer array exactly if a struct holds   *)
(* an array of structs.                                                    *)
LEMMA OuterArrays ==
  ASSUME SourceOK, IsStruct(source)
  PROVE  HasStructArray(source) <=> \E a : OuterArray(a)
<1>1. source \in Type
  BY SourceFacts
<1>2. ASSUME HasStructArray(source)
      PROVE  \E a : OuterArray(a)
  <2>1. PICK p, k : /\ Valid(source, Append(p, k)) /\ TypeAt(source, Append(p, k)).kind = "array"
                    /\ HasStruct(TypeAt(source, Append(p, k)))
    BY <1>2, StructArrayPath
  <2> DEFINE q == Append(p, k)
  <2>2. Len(q) \in 0 .. Len(q) /\ TypesOn(source, q)[Len(q)].kind = "array"
    BY <1>1, <2>1, WalkFacts DEF TypeAt
  <2> QED BY <2>1, <2>2, FirstArray
<1>3. ASSUME NEW a, OuterArray(a)
      PROVE  HasStructArray(source)
  <2> DEFINE n == Len(a) - 1
             p == SubSeq(a, 1, n)
             u == TypesOn(source, a)[n]
  <2>1. Valid(source, a) /\ Len(a) \in Nat /\ a \in Seq(Nat)
    BY <1>1, <1>3, WalkFacts DEF OuterArray
  <2>2. Len(a) # 0
    <3>1. Len(a) = 0 => TypeAt(source, a) = source
      BY <1>1, <2>1, TypesOnEquation DEF TypeAt
    <3> QED BY <1>3, <3>1 DEF OuterArray, IsStruct
  <2>3. n \in 0 .. Len(a) /\ n \in 0 .. Len(a) - 1 /\ n + 1 = Len(a) /\ Len(a) \in 1 .. Len(a)
    BY <2>1, <2>2
  <2>4. Valid(source, p) /\ TypeAt(source, p) = u /\ u \in Type /\ IsStruct(u)
    <3>1. IsStruct(u)
      BY <1>3, <2>3 DEF OuterArray
    <3>2. u \in Type
      BY <1>1, <2>1, <2>3, WalkFacts
    <3>3. Valid(source, p) /\ TypeAt(source, p) = u
      BY <1>1, <2>1, <2>3, Pieces
    <3> QED BY <3>1, <3>2, <3>3
  <2>5. a[Len(a)] \in Indices(u) /\ TypeAt(source, a) = Part(u, a[Len(a)])
    <3>1. /\ a[Len(a)] \in Indices(TypesOn(source, a)[Len(a) - 1])
          /\ TypesOn(source, a)[Len(a)] = Part(TypesOn(source, a)[Len(a) - 1], a[Len(a)])
      BY <1>1, <2>1, <2>3, WalkFacts
    <3> QED BY <3>1 DEF TypeAt
  <2>6. a[Len(a)] + 1 \in DOMAIN u.fields /\ TypeAt(source, a) = u.fields[a[Len(a)] + 1]
    <3>1. IsStructOf(u, Type) /\ Indices(u) = 0 .. Len(u.fields) - 1
      BY <2>4, TypeKinds DEF IsStruct, IsInt, IsArrayOf, Indices
    <3>2. Part(u, a[Len(a)]) = u.fields[a[Len(a)] + 1]
      BY <2>4 DEF Part, IsStruct
    <3> HIDE DEF u
    <3> QED BY <2>5, <3>1, <3>2 DEF IsStructOf
  <2>7. HoldsStructArray(u)
    BY <1>3, <2>4, <2>6 DEF HoldsStructArray, OuterArray
  <2>8. p \in Paths(source)
    BY <1>1, <2>4, PathsAreValid
  <2> QED BY <2>4, <2>7, <2>8 DEF HasStructArray
<1> QED BY <1>2, <1>3

(* The redzones of all structs.                                            *)
LEMMA ZoneSets ==
  ASSUME SourceOK
  PROVE  /\ \A z : z \in Zones <=>
              \E p : Valid(source, p) /\ IsStruct(TypeAt(source, p)) /\ z \in ZonesAt(p)
         /\ \A p, z : Valid(source, p) /\ IsStruct(TypeAt(source, p)) =>
              (z \in ZonesAt(p) <=>
                 \E y : /\ IsZone(source, p, y)
                        /\ z = Place(source, p) + Offset(Inflate(TypeAt(source, p)), y))
<1>1. source \in Type
  BY SourceFacts
<1>2. \A z : z \in Zones <=> \E p \in StructPaths(source) : z \in ZonesAt(p)
  BY DEF Zones
<1>3. \A p, z : z \in ZonesAt(p) <=>
        \E y \in redzone_offsets(Inflate(TypeAt(source, p))) :
          z = Place(source, p) + Offset(Inflate(TypeAt(source, p)), y)
  BY DEF ZonesAt, Place, object
<1>4. \A p : p \in StructPaths(source) <=> Valid(source, p) /\ IsStruct(TypeAt(source, p))
  BY <1>1, PathSets
<1>5. \A z : z \in Zones <=>
        \E p : Valid(source, p) /\ IsStruct(TypeAt(source, p)) /\ z \in ZonesAt(p)
  BY <1>2, <1>4
<1> QED BY <1>3, <1>5 DEF IsZone

(* Where there is none, the recursion finds exactly the structs.           *)
LEMMA RegistersStructs ==
  ASSUME SourceOK, IsStruct(source), StructRun, Done, \A a : ~ OuterArray(a)
  PROVE  registered = Zones
<1>1. source \in Type
  BY SourceFacts
<1>2. ASSUME NEW p \in Reached
      PROVE  IsStruct(TypeAt(source, p)) /\ Valid(source, p)
  <2> DEFINE u == TypeAt(source, p)
  <2>1. /\ Valid(source, p) /\ u \in Type /\ IsNested(u)
        /\ \A i \in 0 .. Len(p) - 1 : IsStruct(TypesOn(source, p)[i])
    BY ReachedPaths
  <2>2. CASE ~ IsStruct(u)
    <3>1. IsArrayOf(u, Type) /\ IsStruct(u.elem) /\ u.elem \in Type /\ u.num \in Nat \ {0}
      BY <2>1, <2>2, TypeKinds DEF IsNested, IsStruct, IsStructArray, IsInt, IsStructOf, IsArrayOf
    <3>2. 0 \in Indices(u) /\ Part(u, 0) = u.elem
      BY <3>1 DEF Indices, Part, IsArrayOf
    <3>3. HasStruct(u)
      BY <2>1, <3>1, <3>2, HasStructParts
    <3>4. OuterArray(p)
      BY <2>1, <3>1, <3>3 DEF OuterArray, IsArrayOf
    <3> QED BY <3>4
  <2> QED BY <2>1, <2>2
<1>3. ASSUME NEW p, Valid(source, p), IsStruct(TypeAt(source, p))
      PROVE  p \in Reached
  <2>1. Len(p) \in Nat /\ p \in Seq(Nat) /\ HasStruct(TypeAt(source, p)) /\ p \in Paths(source)
    BY <1>1, <1>3, WalkFacts, HasStructParts, PathsAreValid
  <2>2. \A i \in 0 .. Len(p) - 1 : IsStruct(TypesOn(source, p)[i])
    <3> SUFFICES ASSUME NEW i \in 0 .. Len(p) - 1
                 PROVE  IsStruct(TypesOn(source, p)[i])
      OBVIOUS
    <3>1. i \in 0 .. Len(p) /\ i + 1 \in 1 .. Len(p) /\ i + 1 - 1 = i
      BY <2>1
    <3>2. TypesOn(source, p)[i].kind # "array"
      BY <1>3, <2>1, <3>1, FirstArray
    <3>3. TypesOn(source, p)[i] \in Type /\ p[i + 1] \in Indices(TypesOn(source, p)[i])
      <4>1. p[i + 1] \in Indices(TypesOn(source, p)[i + 1 - 1])
        BY <1>1, <1>3, <3>1, WalkFacts
      <4> QED BY <1>1, <1>3, <3>1, <4>1, WalkFacts
    <3>4. TypesOn(source, p)[i].kind # "int"
      BY <3>3 DEF Indices
    <3> QED BY <3>2, <3>3, <3>4, TypeKinds DEF IsInt, IsArrayOf, IsStructOf, IsStruct
  <2> QED BY <1>3, <2>1, <2>2 DEF Reached, IsNested
<1>4. ASSUME NEW z
      PROVE  z \in registered <=> \E p \in Reached : z \in ZonesOf(CallFor(p))
  BY DEF StructRun, Done
<1>5. \A p \in Reached : ZonesOf(CallFor(p)) = ZonesAt(p)
  BY <1>2, StructCallZones
<1>6. ASSUME NEW z
      PROVE  z \in registered <=> z \in Zones
  BY <1>2, <1>3, <1>4, <1>5, ZoneSets
<1> QED BY <1>6

(* The redzones of a struct lie inside whatever the struct is part of.     *)
LEMMA ZoneInside ==
  ASSUME NEW t \in Inflatable, NEW r, NEW y, IsZone(t, r, y), NEW a, Valid(t, a), Begins(a, r)
  PROVE  /\ Place(t, a) \in Nat /\ AllocSize(Inflate(TypeAt(t, a))) \in Nat
         /\ Place(t, r) + Offset(Inflate(TypeAt(t, r)), y) \in Nat
         /\ Place(t, a) <= Place(t, r) + Offset(Inflate(TypeAt(t, r)), y)
         /\ Place(t, r) + Offset(Inflate(TypeAt(t, r)), y) + RZ
              <= Place(t, a) + AllocSize(Inflate(TypeAt(t, a)))
<1> DEFINE o == Inflate(t)
           h == handle_gep(t, a)
           hr == handle_gep(t, r)
           zp == ZonePath(t, r, y)
           z == Place(t, r) + Offset(Inflate(TypeAt(t, r)), y)
<1>1. /\ t \in Type /\ o \in Type /\ Valid(t, r)
      /\ TypeAt(t, a) \in Inflatable /\ Inflate(TypeAt(t, a)) \in Type
  BY InflatableFacts, InflatedWalk DEF IsZone
<1>2. /\ Valid(o, h) /\ TypeAt(o, h) = Inflate(TypeAt(t, a)) /\ h \in Seq(Nat) /\ Len(h) = Len(a)
      /\ \A i \in 1 .. Len(a) : h[i] = Index(TypesOn(t, a)[i - 1], a[i])
  BY InflatedWalk
<1>3. /\ hr \in Seq(Nat) /\ Len(hr) = Len(r)
      /\ \A i \in 1 .. Len(r) : hr[i] = Index(TypesOn(t, r)[i - 1], r[i])
  BY <1>1, InflatedWalk
<1>4. Valid(o, zp) /\ TypeAt(o, zp) = Redzone /\ Gep(o, zp) = z /\ y \in Nat
  BY ZonePaths
<1>5. zp \in Seq(Nat) /\ Len(zp) = Len(r) + 1 /\ \A i \in 1 .. Len(r) : zp[i] = hr[i]
  BY <1>3, <1>4 DEF ZonePath
<1>6. Len(a) \in Nat /\ Len(r) \in Nat /\ Len(a) <= Len(r) /\ \A i \in 1 .. Len(a) : a[i] = r[i]
  BY <1>1, WalkFacts DEF Begins
<1>7. \A i \in 0 .. Len(a) : TypesOn(t, r)[i] = TypesOn(t, a)[i]
  BY <1>1, BeginsFacts
<1>8. \A i \in 1 .. Len(a) : h[i] = zp[i]
  <2> SUFFICES ASSUME NEW i \in 1 .. Len(a)
               PROVE  h[i] = zp[i]
    OBVIOUS
  <2>1. i \in 1 .. Len(r) /\ i - 1 \in 0 .. Len(a)
    BY <1>6
  <2>2. h[i] = Index(TypesOn(t, a)[i - 1], a[i]) /\ hr[i] = Index(TypesOn(t, r)[i - 1], r[i])
    BY <1>2, <1>3, <2>1
  <2>3. TypesOn(t, r)[i - 1] = TypesOn(t, a)[i - 1] /\ a[i] = r[i]
    BY <1>6, <1>7, <2>1
  <2> QED BY <1>5, <2>1, <2>2, <2>3
<1> HIDE DEF o, h, hr, zp, z
<1>9. \A i \in 0 .. Len(a) : /\ TypesOn(o, h)[i] = TypesOn(o, zp)[i]
                             /\ OffsetsOn(o, h)[i] = OffsetsOn(o, zp)[i]
  <2>1. Len(a) <= Len(h) /\ Len(a) <= Len(zp)
    BY <1>2, <1>5, <1>6
  <2> QED BY <1>1, <1>2, <1>5, <1>6, <1>8, <2>1, WalksAgree
<1>10. Len(a) \in 0 .. Len(a) /\ Len(a) \in 0 .. Len(zp)
  BY <1>5, <1>6
<1>11. OffsetsOn(o, zp)[Len(a)] = Gep(o, h) /\ TypesOn(o, zp)[Len(a)] = Inflate(TypeAt(t, a))
  BY <1>2, <1>9, <1>10 DEF Gep, TypeAt
<1>12. /\ OffsetsOn(o, zp)[Len(a)] <= Gep(o, zp)
       /\ Gep(o, zp) + AllocSize(TypeAt(o, zp))
            <= OffsetsOn(o, zp)[Len(a)] + AllocSize(TypesOn(o, zp)[Len(a)])
  BY <1>1, <1>4, <1>10, WalksInside
<1>13. Gep(o, h) \in Nat /\ Gep(o, zp) \in Nat /\ AllocSize(Inflate(TypeAt(t, a))) \in Nat
  BY <1>1, <1>2, <1>4, WalkFacts, SizeFacts
<1>14. AllocSize(Redzone) = RZ /\ Place(t, a) = Gep(o, h)
  BY RedzoneFacts DEF Place, o, h
<1> QED BY <1>4, <1>11, <1>12, <1>13, <1>14 DEF z

(* The second redzone of a struct lies between its start and its end.      *)
LEMMA SecondZone ==
  ASSUME NEW t \in Inflatable, IsStruct(t)
  PROVE  /\ 2 \in redzone_offsets(Inflate(t)) /\ Inflate(t) \in Type
         /\ Offset(Inflate(t), 2) \in Nat /\ 0 < Offset(Inflate(t), 2)
         /\ Offset(Inflate(t), 2) < AllocSize(Inflate(t)) /\ AllocSize(Inflate(t)) \in Nat
<1> DEFINE g == Inflate(t)
           n == Len(t.fields)
<1>1. t \in Type /\ g \in Type /\ t.kind = "struct" /\ IsStructOf(t, Type)
  BY InflatableFacts, TypeKinds DEF IsStruct, IsInt, IsArrayOf
<1>2. /\ n \in Nat \ {0} /\ IsStructOf(g, Type) /\ Len(g.fields) = 2 * n + 1
      /\ redzone_offsets(g) = {2 * i : i \in 0 .. n}
  BY <1>1, InflatedParts DEF IsStructOf
<1>3. 2 \in redzone_offsets(g)
  <2>1. 1 \in 0 .. n /\ 2 = 2 * 1
    BY <1>2
  <2> QED BY <1>2, <2>1
<1>4. g.fields[0 + 1] = Redzone /\ g.fields[2 + 1] = Redzone
  <2>1. \A i \in 1 .. 2 * n + 1 :
          g.fields[i] = IF i % 2 = 1 THEN Redzone ELSE Inflate(t.fields[i \div 2])
    BY <1>1, InflatedFields
  <2>2. 0 + 1 \in 1 .. 2 * n + 1 /\ 2 + 1 \in 1 .. 2 * n + 1 /\ (0 + 1) % 2 = 1 /\ (2 + 1) % 2 = 1
    BY <1>2
  <2> HIDE DEF g
  <2> QED BY <2>1, <2>2
<1>5. 0 \in 0 .. Len(g.fields) - 1 /\ 2 \in 0 .. Len(g.fields) - 1
  BY <1>2
<1> HIDE DEF g
<1>6. /\ Offset(g, 0) \in Nat
      /\ Offset(g, 0) + AllocSize(g.fields[0 + 1]) <= Offset(g, 2)
  <2>1. /\ Offset(g, 0) \in Nat
        /\ \A l \in 0 .. Len(g.fields) - 1 :
             0 < l => Offset(g, 0) + AllocSize(g.fields[0 + 1]) <= Offset(g, l)
    BY <1>1, <1>2, <1>5, OffsetFacts
  <2>2. 0 < 2
    OBVIOUS
  <2> QED BY <1>5, <2>1, <2>2
<1>7. Offset(g, 2) \in Nat /\ Offset(g, 2) + AllocSize(g.fields[2 + 1]) <= AllocSize(g)
  BY <1>1, <1>2, <1>5, OffsetFacts
<1>8. AllocSize(Redzone) = RZ /\ RZ \in Nat \ {0} /\ AllocSize(g) \in Nat
  BY <1>1, RedzoneFacts, RedzoneAssumption, SizeFacts
<1>9. 0 < Offset(g, 2) /\ Offset(g, 2) < AllocSize(g)
  BY <1>4, <1>6, <1>7, <1>8
<1> QED BY <1>1, <1>3, <1>7, <1>8, <1>9 DEF g

(* A struct in an outer array: the first element, if that is one.          *)
LEMMA InnerStruct ==
  ASSUME SourceOK, NEW a, OuterArray(a)
  PROVE  \E r : /\ Valid(source, r) /\ IsStruct(TypeAt(source, r)) /\ Begins(a, r) /\ Len(a) < Len(r)
                /\ IsStruct(TypeAt(source, a).elem) => r = Append(a, 0)
<1> DEFINE w == TypeAt(source, a)
<1>1. /\ source \in Type /\ Valid(source, a) /\ a \in Seq(Nat) /\ Len(a) \in Nat /\ w \in Type
      /\ w.kind = "array" /\ HasStruct(w) /\ IsArrayOf(w, Type)
  BY SourceFacts, WalkFacts, TypeKinds DEF OuterArray, IsInt, IsStructOf
<1>2. CASE IsStruct(w.elem)
  <2>1. 0 \in Indices(w) /\ Part(w, 0) = w.elem /\ 0 \in Nat
    BY <1>1 DEF Indices, Part, IsArrayOf
  <2> DEFINE r == Append(a, 0)
  <2>2. Valid(source, r) /\ TypeAt(source, r) = w.elem
    BY <1>1, <2>1, Steps
  <2>3. Len(r) = Len(a) + 1 /\ \A i \in 1 .. Len(a) : r[i] = a[i]
    BY <1>1
  <2>4. Begins(a, r)
    BY <1>1, <2>3 DEF Begins
  <2>5. Len(a) < Len(r) /\ IsStruct(TypeAt(source, r)) /\ r = Append(a, 0)
    BY <1>1, <1>2, <2>2, <2>3
  <2> HIDE DEF r
  <2> QED BY <2>2, <2>4, <2>5
<1>3. CASE ~ IsStruct(w.elem)
  <2>1. PICK q : Valid(w, q) /\ IsStruct(TypeAt(w, q))
    BY <1>1, PathSets
  <2>2. q \in Seq(Nat) /\ Len(q) \in Nat
    BY <1>1, <2>1, WalkFacts
  <2>3. Len(q) # 0
    <3>1. Len(q) = 0 => q = <<>>
      BY <2>2
    <3>2. TypeAt(w, <<>>) = w
      BY <1>1, ShortPaths
    <3> QED BY <1>1, <2>1, <3>1, <3>2 DEF IsStruct
  <2> DEFINE r == a \o q
  <2>4. IsSplit(r, a, q)
    BY <1>1, <2>2, Splits
  <2>5. Valid(source, r) /\ TypeAt(source, r) = TypeAt(w, q)
    BY <1>1, <2>1, <2>4, SplitWalk
  <2>6. Len(r) = Len(a) + Len(q) /\ \A i \in 1 .. Len(a) : r[i] = a[i]
    BY <1>1, <2>2
  <2>7. Len(a) < Len(r)
    BY <1>1, <2>2, <2>3, <2>6
  <2>8. Begins(a, r)
    BY <2>6, <2>7, <1>1 DEF Begins
  <2> QED BY <1>3, <2>1, <2>5, <2>7, <2>8
<1> QED BY <1>2, <1>3

(* The arrays the recursion reaches are outer arrays.                      *)
LEMMA ReachedArrays ==
  ASSUME SourceOK, NEW p \in Reached, ~ IsStruct(TypeAt(source, p))
  PROVE  OuterArray(p) /\ IsStruct(TypeAt(source, p).elem)
<1> DEFINE u == TypeAt(source, p)
<1>1. /\ Valid(source, p) /\ u \in Type /\ IsNested(u)
      /\ \A i \in 0 .. Len(p) - 1 : IsStruct(TypesOn(source, p)[i])
  BY ReachedPaths
<1>2. IsArrayOf(u, Type) /\ IsStruct(u.elem) /\ u.elem \in Type /\ u.num \in Nat \ {0}
  BY <1>1, TypeKinds DEF IsNested, IsStruct, IsStructArray, IsInt, IsStructOf, IsArrayOf
<1>3. 0 \in Indices(u) /\ Part(u, 0) = u.elem
  BY <1>2 DEF Indices, Part, IsArrayOf
<1>4. HasStruct(u)
  BY <1>1, <1>2, <1>3, HasStructParts
<1> QED BY <1>1, <1>2, <1>4 DEF OuterArray, IsArrayOf

(* Two outer arrays lie apart.                                             *)
LEMMA OuterArraysApart ==
  ASSUME SourceOK, NEW a, NEW b, OuterArray(a), OuterArray(b), a # b,
         Place(source, a) <= Place(source, b)
  PROVE  Place(source, a) + AllocSize(Inflate(TypeAt(source, a))) <= Place(source, b)
<1> DEFINE h == handle_gep(source, a)
           g == handle_gep(source, b)
<1>1. source \in Inflatable /\ source \in Type /\ object \in Type /\ object = Inflate(source)
  BY SourceFacts DEF object
<1>2. ASSUME NEW c, NEW d, OuterArray(c), OuterArray(d), Begins(c, d)
      PROVE  c = d
  <2>1. Valid(source, c) /\ Valid(source, d) /\ Len(c) \in Nat /\ Len(d) \in Nat
    BY <1>1, <1>2, WalkFacts DEF OuterArray
  <2>2. TypesOn(source, d)[Len(c)] = TypeAt(source, c) /\ (Len(c) = Len(d) => c = d)
    BY <1>1, <1>2, <2>1, BeginsFacts
  <2>3. Len(c) <= Len(d)
    BY <1>2 DEF Begins
  <2>4. Len(c) < Len(d) => Len(c) \in 0 .. Len(d) - 1
    BY <2>1
  <2> QED BY <1>2, <2>1, <2>2, <2>3, <2>4 DEF OuterArray, IsStruct
<1>3. Valid(source, a) /\ Valid(source, b)
  BY DEF OuterArray
<1>4. /\ Valid(object, h) /\ Valid(object, g)
      /\ TypeAt(object, h) = Inflate(TypeAt(source, a)) /\ TypeAt(object, g) = Inflate(TypeAt(source, b))
      /\ TypeAt(source, b) \in Inflatable /\ TypeAt(source, a) \in Inflatable
  BY <1>1, <1>3, InflatedWalk
<1>5. ~ Begins(h, g) /\ ~ Begins(g, h)
  BY <1>1, <1>2, <1>3, RewritingInjective
<1> HIDE DEF h, g
<1>6. \/ Gep(object, h) + AllocSize(TypeAt(object, h)) <= Gep(object, g)
      \/ Gep(object, g) + AllocSize(TypeAt(object, g)) <= Gep(object, h)
  BY <1>1, <1>4, <1>5, PathsApart
<1>7. AllocSize(TypeAt(object, g)) \in Nat \ {0} /\ Gep(object, h) \in Nat /\ Gep(object, g) \in Nat
  BY <1>1, <1>4, WalkFacts, SizeFacts
<1>8. Gep(object, h) = Place(source, a) /\ Gep(object, g) = Place(source, b)
  BY <1>1 DEF Place, h, g
<1> QED BY <1>4, <1>6, <1>7, <1>8

(* The first of the outer arrays holds a struct with a redzone at which no *)
(* call registers one.                                                     *)
LEMMA MissesStructs ==
  ASSUME SourceOK, IsStruct(source), StructRun, \E a : OuterArray(a)
  PROVE  registered # Zones
<1>1. source \in Inflatable /\ source \in Type /\ object \in Type /\ object = Inflate(source)
  BY SourceFacts DEF object
<1>2. \A p : Valid(source, p) => Place(source, p) \in Nat
  <2> SUFFICES ASSUME NEW p, Valid(source, p)
               PROVE  Place(source, p) \in Nat
    OBVIOUS
  <2>1. Valid(object, handle_gep(source, p))
    BY <1>1, InflatedWalk
  <2> QED BY <1>1, <2>1, WalkFacts DEF Place
<1>3. PICK a : OuterArray(a) /\ \A b : OuterArray(b) => Place(source, a) <= Place(source, b)
  <2> DEFINE D == {n \in Nat : \E b : OuterArray(b) /\ Place(source, b) = n}
  <2>1. \A b : OuterArray(b) => Place(source, b) \in D
    BY <1>2 DEF OuterArray
  <2>2. PICK m \in D : \A n \in D : m <= n
    <3>1. D \in SUBSET Nat /\ D # {}
      BY <2>1
    <3> HIDE DEF D
    <3> QED BY <3>1, LeastNatural
  <2>3. PICK a : OuterArray(a) /\ Place(source, a) = m
    BY <2>2
  <2> QED BY <2>1, <2>2, <2>3
<1> DEFINE w == TypeAt(source, a)
<1>4. PICK r : /\ Valid(source, r) /\ IsStruct(TypeAt(source, r)) /\ Begins(a, r) /\ Len(a) < Len(r)
               /\ IsStruct(w.elem) => r = Append(a, 0)
  BY <1>3, InnerStruct
<1> DEFINE e == Inflate(TypeAt(source, r))
           z == Place(source, r) + Offset(e, 2)
<1>5. Valid(source, a) /\ w \in Inflatable /\ TypeAt(source, r) \in Inflatable
  BY <1>1, <1>3, <1>4, InflatedWalk DEF OuterArray
<1>6. /\ 2 \in redzone_offsets(e) /\ Offset(e, 2) \in Nat /\ 0 < Offset(e, 2)
      /\ Offset(e, 2) < AllocSize(e) /\ AllocSize(e) \in Nat /\ e \in Type
  BY <1>4, <1>5, SecondZone
<1>7. IsZone(source, r, 2)
  BY <1>4, <1>6 DEF IsZone
<1>8. /\ Place(source, a) \in Nat /\ AllocSize(Inflate(w)) \in Nat /\ z \in Nat
      /\ Place(source, a) <= z /\ z + RZ <= Place(source, a) + AllocSize(Inflate(w))
  BY <1>1, <1>4, <1>5, <1>7, ZoneInside
<1>9. z \in Zones
  <2>1. z \in ZonesAt(r)
    BY <1>4, <1>7, ZoneSets
  <2> QED BY <1>4, <2>1, ZoneSets
<1>10. ASSUME NEW p \in Reached, IsStruct(TypeAt(source, p)), z \in ZonesOf(CallFor(p))
       PROVE  FALSE
  <2>1. /\ Valid(source, p) /\ Len(p) \in Nat
        /\ \A i \in 0 .. Len(p) - 1 : IsStruct(TypesOn(source, p)[i])
    BY ReachedPaths
  <2>2. p # r
    <3>1. TypesOn(source, r)[Len(a)] = w /\ Len(a) \in Nat /\ ~ IsStruct(w)
      BY <1>1, <1>3, <1>4, <1>5, BeginsFacts, WalkFacts DEF OuterArray, IsStruct
    <3>2. p = r => Len(a) \in 0 .. Len(p) - 1
      BY <1>4, <2>1, <3>1
    <3> QED BY <2>1, <3>1, <3>2
  <2>3. z \in ZonesAt(p)
    BY <1>10, StructCallZones
  <2>4. PICK y : IsZone(source, p, y) /\ z = Place(source, p) + Offset(Inflate(TypeAt(source, p)), y)
    BY <1>10, <2>1, <2>3, ZoneSets
  <2> QED BY <1>1, <1>7, <2>2, <2>4, ZonesDistinct
<1>11. ASSUME NEW p \in Reached, ~ IsStruct(TypeAt(source, p)), z \in ZonesOf(CallFor(p))
       PROVE  FALSE
  <2>1. OuterArray(p) /\ IsStruct(TypeAt(source, p).elem) /\ Place(source, p) \in Nat
    BY <1>2, <1>11, ReachedArrays DEF OuterArray
  <2>2. PICK k \in Nat : z = Place(source, p) + k * AllocSize(Inflate(TypeAt(source, p)).elem)
    BY <1>11, ArrayCallZones
  <2>3. CASE p = a
    <3>1. r = Append(a, 0)
      BY <1>4, <2>1, <2>3
    <3>2. /\ w.kind = "array" /\ w \in Type /\ IsArrayOf(w, Type)
          /\ 0 \in Indices(w) /\ Part(w, 0) = w.elem /\ Index(w, 0) = 0
      <4>1. w.kind = "array" /\ w \in Type /\ IsArrayOf(w, Type)
        BY <1>3, <1>5, InflatableFacts, TypeKinds DEF OuterArray, IsInt, IsStructOf
      <4> QED BY <4>1 DEF IsArrayOf, Indices, Part, Index
    <3>3. TypeAt(source, r) = w.elem
      BY <1>1, <1>5, <3>1, <3>2, Steps
    <3>4. Inflate(w).elem = e /\ Inflate(w).kind = "array"
      <4>1. Inflate(w) = ArrayType(w.num, Inflate(w.elem))
        BY <3>2, InflateEquation
      <4> QED BY <3>3, <4>1 DEF ArrayType
    <3>5. Place(source, r) = Place(source, a)
      <4>1. handle_gep(source, r) = Append(handle_gep(source, a), 0)
        BY <1>1, <1>5, <3>1, <3>2, RewritingSteps
      <4>2. /\ Valid(object, handle_gep(source, a))
            /\ TypeAt(object, handle_gep(source, a)) = Inflate(w)
        BY <1>1, <1>5, InflatedWalk
      <4>3. 0 \in Indices(Inflate(w))
        BY <1>5, <3>2, InflatedParts
      <4>4. PartAt(Inflate(w), 0) = 0 * AllocSize(e)
        BY <3>4 DEF PartAt
      <4>5. Gep(object, Append(handle_gep(source, a), 0))
              = Gep(object, handle_gep(source, a)) + PartAt(Inflate(w), 0)
        BY <1>1, <4>2, <4>3, Steps
      <4> HIDE DEF e, w
      <4>6. 0 * AllocSize(e) = 0
        BY <1>6
      <4> QED BY <1>1, <1>8, <4>1, <4>4, <4>5, <4>6 DEF Place
    <3> DEFINE s == AllocSize(e)
               f == Offset(e, 2)
    <3>6. f = k * s
      <4>1. z = Place(source, a) + k * s
        BY <2>2, <2>3, <3>4
      <4>2. k * s \in Nat
        BY <1>6, Products
      <4>3. z = Place(source, a) + f
        BY <3>5
      <4> HIDE DEF s, f, z
      <4>4. f \in Nat
        BY <1>6 DEF f
      <4> QED BY <1>8, <4>1, <4>2, <4>3, <4>4
    <3>7. s \in Nat /\ 0 < f /\ f < s
      BY <1>6
    <3> HIDE DEF s, f
    <3>8. k = 0 \/ k >= 1
      OBVIOUS
    <3>9. k >= 1 => k * s >= s
      BY <3>7
    <3>10. 0 * s = 0
      BY <3>7
    <3> QED BY <3>6, <3>7, <3>8, <3>9, <3>10
  <2>4. CASE p # a
    <3>1. Place(source, a) + AllocSize(Inflate(w)) <= Place(source, p)
      BY <1>3, <2>1, <2>4, OuterArraysApart
    <3> DEFINE s == AllocSize(Inflate(TypeAt(source, p)).elem)
    <3>2. k * s \in Nat
      <4>1. Inflate(TypeAt(source, p)).elem \in Type
        <5>1. Inflate(TypeAt(source, p)) \in Type /\ ~ IsStruct(Inflate(TypeAt(source, p)))
              /\ IsNested(Inflate(TypeAt(source, p)))
          BY <1>11, ReachedPaths, NestedInflated DEF IsStruct
        <5> QED BY <5>1, TypeKinds DEF IsNested, IsStruct, IsStructArray, IsInt, IsArrayOf, IsStructOf
      <4>2. s \in Nat
        BY <4>1, SizeFacts
      <4> QED BY <4>2, Products
    <3>3. RZ \in Nat \ {0}
      BY RedzoneAssumption
    <3> HIDE DEF s, z, w
    <3>4. z = Place(source, p) + k * s
      BY <2>2 DEF s
    <3> QED BY <1>8, <2>1, <3>1, <3>2, <3>3, <3>4
  <2> QED BY <2>3, <2>4
<1>12. \A x \in registered : \E p \in Reached : x \in ZonesOf(CallFor(p))
  BY DEF StructRun
<1>13. z \notin registered
  <2> HIDE DEF z
  <2> QED BY <1>10, <1>11, <1>12
<1> HIDE DEF z
<1> QED BY <1>9, <1>13

-----------------------------------------------------------------------------
(* Arrays and heap blocks, and all redzones                                *)

(* The redzones of the elements themselves.                                *)
LEMMA OwnZoneSets ==
  ASSUME SourceOK, ~ IsStruct(source)
  PROVE  \A z : z \in OwnZones <=>
           \E p : Valid(source, p) /\ IsStruct(TypeAt(source, p)) /\ Len(p) = 1 /\ z \in ZonesAt(p)
<1>1. source \in Type
  BY SourceFacts
<1>2. \A z : z \in OwnZones <=> \E p \in StructPaths(source) : Len(p) = 1 /\ z \in ZonesAt(p)
  BY DEF OwnZones
<1>3. \A p : p \in StructPaths(source) <=> Valid(source, p) /\ IsStruct(TypeAt(source, p))
  BY <1>1, PathSets
<1> QED BY <1>2, <1>3

(* An element that holds no struct the pass descends to holds none at all, *)
(* or an array of them.                                                    *)
LEMMA StructsInElements ==
  ASSUME SourceOK, ~ IsStruct(source), ~ HoldsUnsupported(source), ~ HasStructArray(source),
         NEW p, Valid(source, p), IsStruct(TypeAt(source, p))
  PROVE  Len(p) = 1
<1>1. source \in Type /\ IsNested(source) /\ p \in Seq(Nat) /\ Len(p) \in Nat
  BY SourceFacts, WalkFacts
<1>2. IsArrayOf(source, Type) /\ IsStruct(source.elem)
  BY <1>1, TypeKinds DEF IsNested, IsStruct, IsStructArray, IsInt, IsStructOf
<1> DEFINE u == source.elem
<1>3. Len(p) # 0
  <2>1. Len(p) = 0 => TypeAt(source, p) = source
    BY <1>1, TypesOnEquation DEF TypeAt
  <2> QED BY <2>1
<1>4. ASSUME Len(p) > 1
      PROVE  FALSE
  <2>1. 1 \in 1 .. Len(p) /\ 2 \in 1 .. Len(p) /\ 1 \in 0 .. Len(p) /\ 2 \in 0 .. Len(p)
    BY <1>1, <1>4
  <2>2. /\ TypesOn(source, p)[1] = Part(TypesOn(source, p)[1 - 1], p[1])
        /\ TypesOn(source, p)[2] = Part(TypesOn(source, p)[2 - 1], p[2])
        /\ p[2] \in Indices(TypesOn(source, p)[2 - 1])
    BY <1>1, <2>1, WalkFacts
  <2>3. TypesOn(source, p)[1] = u
    <3>1. TypesOn(source, p)[0] = source
      BY <1>1, TypesOnEquation
    <3>2. Part(source, p[1]) = u
      BY <1>2 DEF Part, IsArrayOf
    <3> QED BY <2>2, <3>1, <3>2
  <2> DEFINE f == TypesOn(source, p)[2]
  <2>4. u \in Type /\ IsStructOf(u, Type) /\ u.kind = "struct"
    BY <1>2, TypeKinds DEF IsStruct, IsInt, IsArrayOf
  <2>5. p[2] + 1 \in DOMAIN u.fields /\ f = u.fields[p[2] + 1]
    <3>1. f = Part(u, p[2]) /\ p[2] \in Indices(u)
      BY <2>2, <2>3
    <3>2. Indices(u) = 0 .. Len(u.fields) - 1 /\ Part(u, p[2]) = u.fields[p[2] + 1]
      BY <2>4 DEF Indices, Part
    <3> HIDE DEF f, u
    <3> QED BY <2>4, <3>1, <3>2 DEF IsStructOf
  <2>6. f \in Type /\ HasStruct(f)
    <3> DEFINE b == SubSeq(p, 2 + 1, Len(p))
    <3>1. f \in Type
      BY <1>1, <2>1, WalkFacts
    <3>2. Valid(f, b) /\ TypeAt(f, b) = TypeAt(source, p)
      BY <1>1, <2>1, Pieces
    <3> HIDE DEF f, b
    <3> QED BY <3>1, <3>2, PathSets
  <2>7. ~ IsNested(f)
    <3>1. ~ \E i \in DOMAIN u.fields : IsNested(u.fields[i])
      BY <1>1, <1>2, HoldsEquation
    <3> QED BY <2>5, <3>1
  <2>8. f.kind = "array"
    <3>1. ~ IsStruct(f)
      BY <2>7 DEF IsNested
    <3>2. Indices(f) # {}
      BY <2>6, <3>1, HasStructParts
    <3> HIDE DEF f
    <3> QED BY <2>6, <3>1, <3>2, TypeKinds DEF IsStruct, IsInt, IsArrayOf, IsStructOf, Indices
  <2>9. HoldsStructArray(u)
    BY <1>2, <2>5, <2>6, <2>8 DEF HoldsStructArray
  <2>10. Valid(source, SubSeq(p, 1, 1)) /\ TypeAt(source, SubSeq(p, 1, 1)) = u
    BY <1>1, <2>1, <2>3, Pieces
  <2>11. SubSeq(p, 1, 1) \in Paths(source)
    BY <1>1, <2>10, PathsAreValid
  <2> QED BY <2>9, <2>10, <2>11 DEF HasStructArray
<1> DEFINE n == Len(p)
<1>5. n \in Nat /\ n # 0 /\ ~ n > 1
  BY <1>1, <1>3, <1>4
<1>6. n = 1
  <2> HIDE DEF n
  <2> QED BY <1>5
<1> QED BY <1>6

(* A struct in an array in an element.                                     *)
LEMMA DeepStruct ==
  ASSUME SourceOK, ~ IsStruct(source), HasStructArray(source)
  PROVE  \E r : Valid(source, r) /\ IsStruct(TypeAt(source, r)) /\ Len(r) > 1
<1>1. source \in Type
  BY SourceFacts
<1>2. PICK p, k : /\ Valid(source, p) /\ HoldsStructArray(TypeAt(source, p))
                  /\ k \in Indices(TypeAt(source, p)) /\ Valid(source, Append(p, k))
                  /\ HasStruct(TypeAt(source, Append(p, k)))
  BY StructArrayPath
<1> DEFINE a == Append(p, k)
           w == TypeAt(source, a)
<1>3. p \in Seq(Nat) /\ Len(p) \in Nat /\ a \in Seq(Nat) /\ w \in Type
  BY <1>1, <1>2, WalkFacts
<1>4. Len(p) # 0
  <2>1. Len(p) = 0 => TypeAt(source, p) = source
    BY <1>1, <1>3, TypesOnEquation DEF TypeAt
  <2> QED BY <1>2, <2>1 DEF HoldsStructArray
<1>5. Len(a) = Len(p) + 1
  <2>1. k \in Nat
    BY <1>1, <1>2, Steps
  <2> QED BY <1>3, <2>1
<1> HIDE DEF a
<1>6. PICK q : Valid(w, q) /\ IsStruct(TypeAt(w, q))
  BY <1>2, <1>3, PathSets DEF a
<1>7. q \in Seq(Nat) /\ Len(q) \in Nat
  BY <1>3, <1>6, WalkFacts
<1> DEFINE r == a \o q
<1>8. IsSplit(r, a, q)
  BY <1>3, <1>7, Splits
<1>9. Valid(source, r) /\ TypeAt(source, r) = TypeAt(w, q)
  <2>1. Valid(source, a)
    BY <1>2 DEF a
  <2> QED BY <1>1, <1>6, <1>8, <2>1, SplitWalk
<1>10. Len(r) = Len(a) + Len(q)
  BY <1>3, <1>7
<1>11. Len(r) > 1
  BY <1>3, <1>4, <1>5, <1>7, <1>10
<1> QED BY <1>6, <1>9, <1>11

(* All redzones of an array or a heap block are those of its elements      *)
(* exactly if no element holds an array of structs.                        *)
LEMMA RegistersElements ==
  ASSUME SourceOK, ~ IsStruct(source), ArrayRun, Done, ~ HoldsUnsupported(source)
  PROVE  registered = Zones <=> ~ HasStructArray(source)
<1>1. source \in Type /\ source \in Inflatable
  BY SourceFacts
<1>2. registered = OwnZones
  BY DEF ArrayRun, Done
<1>3. ASSUME ~ HasStructArray(source)
      PROVE  OwnZones = Zones
  <2>1. \A p : Valid(source, p) /\ IsStruct(TypeAt(source, p)) => Len(p) = 1
    BY <1>3, StructsInElements
  <2>2. \A z : z \in OwnZones <=> z \in Zones
    BY <2>1, OwnZoneSets, ZoneSets
  <2> QED BY <2>2
<1>4. ASSUME HasStructArray(source)
      PROVE  OwnZones # Zones
  <2>1. PICK r : Valid(source, r) /\ IsStruct(TypeAt(source, r)) /\ Len(r) > 1
    BY <1>4, DeepStruct
  <2> DEFINE z == Place(source, r) + Offset(Inflate(TypeAt(source, r)), 2)
  <2>2. IsZone(source, r, 2)
    <3>1. TypeAt(source, r) \in Inflatable
      BY <1>1, <2>1, InflatedWalk
    <3> QED BY <2>1, <3>1, SecondZone DEF IsZone
  <2>3. z \in Zones
    <3>1. z \in ZonesAt(r)
      BY <2>1, <2>2, ZoneSets
    <3> QED BY <2>1, <3>1, ZoneSets
  <2>4. ASSUME z \in OwnZones
        PROVE  FALSE
    <3>1. PICK p : Valid(source, p) /\ IsStruct(TypeAt(source, p)) /\ Len(p) = 1 /\ z \in ZonesAt(p)
      BY <2>4, OwnZoneSets
    <3>2. PICK y : IsZone(source, p, y) /\ z = Place(source, p) + Offset(Inflate(TypeAt(source, p)), y)
      BY <3>1, ZoneSets
    <3>3. p # r
      <4>1. p = r => Len(r) = 1
        BY <3>1
      <4>2. Len(r) # 1
        BY <1>1, <2>1, WalkFacts
      <4> QED BY <4>1, <4>2
    <3> QED BY <1>1, <2>2, <3>2, <3>3, ZonesDistinct
  <2> HIDE DEF z
  <2> QED BY <2>3, <2>4
<1> QED BY <1>2, <1>3, <1>4

(* All redzones of the object are registered, and nothing else, exactly if *)
(* no struct in it holds an array of structs.                              *)
THEOREM RegistersExactly == Spec => []RegistersAll
<1>1. ASSUME RegistersInv, SupportedInv
      PROVE  RegistersAll
  <2> SUFFICES ASSUME Done
               PROVE  registered = Zones <=> ~ HasStructArray(source)
    BY DEF RegistersAll
  <2>1. SourceOK /\ ~ HoldsUnsupported(source)
    BY <1>1 DEF SupportedInv, Done
  <2>2. CASE IsStruct(source)
    <3>1. StructRun
      BY <1>1, <2>2 DEF RegistersInv
    <3>2. (\E a : OuterArray(a)) <=> HasStructArray(source)
      BY <2>1, <2>2, OuterArrays
    <3>3. CASE \A a : ~ OuterArray(a)
      BY <2>1, <2>2, <3>1, <3>2, <3>3, RegistersStructs
    <3>4. CASE \E a : OuterArray(a)
      BY <2>1, <2>2, <3>1, <3>2, <3>4, MissesStructs
    <3> QED BY <3>3, <3>4
  <2>3. CASE ~ IsStruct(source)
    <3>1. ArrayRun
      BY <1>1, <2>3 DEF RegistersInv
    <3> QED BY <2>1, <2>3, <3>1, RegistersElements
  <2> QED BY <2>2, <2>3
<1>2. RegistersInv /\ SupportedInv => RegistersAll
  BY <1>1
<1> QED BY RegistersInvInit, RegistersInvNext, SupportedInvInit, SupportedInvNext, <1>2, PTL DEF Spec
=============================================================================
