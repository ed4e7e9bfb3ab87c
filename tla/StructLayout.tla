---------------------------- MODULE StructLayout ----------------------------
(***************************************************************************)
(* The compile-time half of the sanitizer: how the pass inflates struct    *)
(* types (ShallowWalk), how it rewrites the index paths of the program's   *)
(* field accesses (handle_gep), and which addresses insert_rdzone_init     *)
(* registers for one allocation, as byte offsets from the object.          *)
(*                                                                         *)
(* Types are trees.  What recurses over them is written as functions over  *)
(* Type, the types of at most Depth levels, so that it can be reasoned     *)
(* about; what follows a path of indices is written as a walk along it, as *)
(* in the code.                                                            *)
(***************************************************************************)
EXTENDS Integers, Sequences, FiniteSetsExt

CONSTANTS
  RZ,      \* REDZONE_SIZE
  Bytes,   \* the sizes of integers and pointers
  Structs, \* the struct types of the program under test
  Counts,  \* how many structs an array or a heap block has
  Depth    \* bound: how deep inflated types may be nested

ASSUME RedzoneAssumption == RZ \in Nat \ {0}

(* Integers are aligned to their size, a power of two.                     *)
ASSUME BytesAssumption ==
  Bytes \subseteq Nat \ {0} /\ 1 \in Bytes /\ \A a, b \in Bytes : a <= b => b % a = 0

ASSUME CountsAssumption == Counts \subseteq Nat \ {0}

ASSUME DepthAssumption == Depth \in Nat /\ Depth >= 2

-----------------------------------------------------------------------------
(* Types.  Pointers count as integers: inflation does not change them.     *)

IntType(n) == [kind |-> "int", bytes |-> n]
ArrayType(n, elem) == [kind |-> "array", num |-> n, elem |-> elem]
StructType(fields) == [kind |-> "struct", fields |-> fields]

(* The types whose elements and fields come from a given set.              *)
TypesOver(parts) ==
  {IntType(n) : n \in Bytes} \cup
  [kind : {"array"}, num : Nat \ {0}, elem : parts] \cup
  [kind : {"struct"}, fields : Seq(parts) \ {<<>>}]

(* The types of at most d levels above the integers.                       *)
TypesUpTo(d) ==
  LET types[e \in 0 .. d] == TypesOver(IF e = 0 THEN {} ELSE types[e - 1])
  IN  types[d]

Type == TypesUpTo(Depth)

IsStruct(t) == t.kind = "struct"
IsStructArray(t) == t.kind = "array" /\ t.elem.kind = "struct"

(* Room for an array of structs and for the redzones' own arrays is left.  *)
ASSUME StructsAssumption == \A s \in Structs : IsStruct(s) /\ s \in TypesUpTo(Depth - 2)

(* LLVM's data layout: natural alignment, sizes rounded up to it.          *)
RoundUp(n, align) == ((n + align - 1) \div align) * align

Align(t) ==
  LET align[u \in Type] ==
        CASE u.kind = "int"   -> u.bytes
          [] u.kind = "array" -> align[u.elem]
          [] OTHER            -> Max({align[u.fields[i]] : i \in DOMAIN u.fields})
  IN  align[t]

Aligns(t) == [i \in DOMAIN t.fields |-> Align(t.fields[i])]

(* Where the first i fields of a struct end.                               *)
End(aligns, sizes, i) ==
  LET end[j \in 0 .. Len(sizes)] ==
        IF j = 0 THEN 0 ELSE RoundUp(end[j - 1], aligns[j]) + sizes[j]
  IN  end[i]

AllocSize(t) ==
  LET size[u \in Type] ==
        CASE u.kind = "int"   -> u.bytes
          [] u.kind = "array" -> u.num * size[u.elem]
          [] OTHER ->
               LET sizes == [i \in DOMAIN u.fields |-> size[u.fields[i]]]
               IN  RoundUp(End(Aligns(u), sizes, Len(sizes)), Align(u))
  IN  size[t]

Sizes(t) == [i \in DOMAIN t.fields |-> AllocSize(t.fields[i])]

(* Struct fields are counted from 0, as in the source.                     *)
Offset(t, i) == End(Aligns(t), Sizes(t), i + 1) - AllocSize(t.fields[i + 1])

(* The elements or fields of a type: their indices, types and offsets.     *)
Indices(t) ==
  CASE t.kind = "int"   -> {}
    [] t.kind = "array" -> 0 .. t.num - 1
    [] OTHER            -> 0 .. Len(t.fields) - 1

Part(t, k) == IF t.kind = "array" THEN t.elem ELSE t.fields[k + 1]

PartAt(t, k) == IF t.kind = "array" THEN k * AllocSize(t.elem) ELSE Offset(t, k)

(* The types a path of indices leads through, type t first.                *)
TypesOn(t, path) ==
  LET types[i \in 0 .. Len(path)] == IF i = 0 THEN t ELSE Part(types[i - 1], path[i])
  IN  types

TypeAt(t, path) == TypesOn(t, path)[Len(path)]

(* The offsets it leads through, once the pointer itself is stepped over.  *)
OffsetsOn(t, path) ==
  LET at[i \in 0 .. Len(path)] ==
        IF i = 0 THEN 0 ELSE at[i - 1] + PartAt(TypesOn(t, path)[i - 1], path[i])
  IN  at

Gep(t, path) == OffsetsOn(t, path)[Len(path)]

-----------------------------------------------------------------------------
(* Inflation *)

Redzone == ArrayType(RZ, IntType(1))

(* A redzone in front of the first field and one behind every field.       *)
Inflate(t) ==
  LET inflated[u \in Type] ==
        CASE u.kind = "int"   -> u
          [] u.kind = "array" -> ArrayType(u.num, inflated[u.elem])
          [] OTHER ->
               StructType([i \in 1 .. 2 * Len(u.fields) + 1 |->
                             IF i % 2 = 1 THEN Redzone ELSE inflated[u.fields[i \div 2]]])
  IN  inflated[t]

(* The field indices of the redzones of an inflated struct type.           *)
redzone_offsets(s) == {i \in 0 .. Len(s.fields) - 1 : i % 2 = 0}

(* Mutation: the redzone in front of the first field is forgotten.         *)
handle_gep_NoLeading(t, path) ==
  [i \in DOMAIN path |->
     IF TypesOn(t, path)[i - 1].kind = "array" THEN path[i] ELSE 2 * path[i]]

(* Array indices stay, field indices skip the redzones.                    *)
handle_gep(t, path) ==
  [i \in DOMAIN path |->
     IF TypesOn(t, path)[i - 1].kind = "array" THEN path[i] ELSE 2 * path[i] + 1]

(* The source type and the indices a GEP on type t is left with: it is     *)
(* replaced only if t is a struct or an array of structs.                  *)
GepType(t) == IF IsStruct(t) \/ IsStructArray(t) THEN Inflate(t) ELSE t

GepIndices(t, path) == IF IsStruct(t) \/ IsStructArray(t) THEN handle_gep(t, path) ELSE path

-----------------------------------------------------------------------------
(***************************************************************************)
(* insert_rdzone_init, for one allocation: an alloca of a struct or of an  *)
(* array of structs, or a malloc of count structs.  A call has the pointer *)
(* it is given (its offset from the object, the type it points to and      *)
(* whether it is an alloca), the type and the number of elements.  The     *)
(* calls for nested structs may be made in any order: it has no effect on  *)
(* what is registered.                                                     *)
(***************************************************************************)
VARIABLES
  source,     \* the type of the whole allocation in the original program
  todo,       \* the calls still to be made
  registered, \* the offsets passed to __rdzone_add
  removed,    \* the offsets passed to __rdzone_rm before every return
  status      \* "run", or "rejected": the pass built an ill-typed GEP

object == Inflate(source)

vars == <<source, todo, registered, removed, status>>

Call(at, pointee, alloca, type, count) ==
  [at |-> at, pointee |-> pointee, alloca |-> alloca, type |-> type, count |-> count]

(* The three ways setupRedzones makes the first call, for n structs s.     *)
Sites(s, n) ==
  LET t == Inflate(s)
      ts == ArrayType(n, t)
  IN  { [source |-> s, call |-> Call(0, t, TRUE, t, 1)],
        [source |-> ArrayType(n, s), call |-> Call(0, ts, TRUE, ts, n)],
        [source |-> ArrayType(n, s), call |-> Call(0, IntType(1), FALSE, t, n)] }

Init ==
  \E s \in Structs, n \in Counts : \E site \in Sites(s, n) :
    /\ source = site.source
    /\ todo = {site.call}
    /\ registered = {} /\ removed = {}
    /\ status = "run"

StructTypeOf(c) == IF IsStruct(c.type) THEN c.type ELSE c.type.elem

(***************************************************************************)
(* The redzones a call registers.  The indices are x and y; only below the *)
(* alloca of an array do they follow a 0, elsewhere x steps over the whole *)
(* type that the call was given.                                           *)
(***************************************************************************)
ZonesOf(c) ==
  LET path(x, y) == IF c.alloca /\ ~IsStruct(c.type) THEN <<0, x, y>> ELSE <<x, y>>
  IN  {c.at + Head(path(x, y)) * AllocSize(c.type) + Gep(c.type, Tail(path(x, y))) :
         x \in 0 .. c.count - 1, y \in redzone_offsets(StructTypeOf(c))}

IsNested(field) == IsStruct(field) \/ IsStructArray(field)

(* Mutation: nested structs are left without redzones.                     *)
NestedCalls_None(c) == {}

(* One call for each nested struct or array of structs, for one element:   *)
(* with more elements the pointer is that of an array or of an allocation, *)
(* and the first such GEP is rejected below.                               *)
NestedCalls(c) ==
  LET s == StructTypeOf(c)
      nested == {i \in 0 .. Len(s.fields) - 1 : IsNested(s.fields[i + 1])}
      call(i) == LET f == s.fields[i + 1]
                 IN  Call(c.at + Offset(s, i), f, FALSE, f, IF IsStruct(f) THEN 1 ELSE f.num)
  IN  {call(i) : i \in nested}

(* The GEP to a nested struct takes the pointer to point to the struct     *)
(* type, which it does for a single struct only: never for an array and    *)
(* for the i8* that malloc returns.                                        *)
IsRejected(c) == NestedCalls(c) # {} /\ c.pointee # StructTypeOf(c)

(* What is left to do after call c.                                        *)
Recurse(c) ==
  IF IsRejected(c)
    THEN status' = "rejected" /\ todo' = {}
    ELSE todo' = (todo \ {c}) \cup NestedCalls(c) /\ UNCHANGED status

(* Mutation: the calls of __rdzone_rm are placed for nested structs too.   *)
insert_rdzone_init_RemovesNested(c) ==
  /\ registered' = registered \cup ZonesOf(c)
  /\ removed' = removed \cup ZonesOf(c)
  /\ Recurse(c)
  /\ UNCHANGED source

insert_rdzone_init(c) ==
  /\ registered' = registered \cup ZonesOf(c)
  /\ removed' = IF c.alloca THEN removed \cup ZonesOf(c) ELSE removed
  /\ Recurse(c)
  /\ UNCHANGED source

Next == \E c \in todo : insert_rdzone_init(c)

Spec == Init /\ [][Next]_vars

-----------------------------------------------------------------------------
(* Properties.  Paths, Leaves and Zones say what should be there, from the *)
(* types.                                                                  *)

(* The index paths to all parts of a type, itself included.                *)
Paths(t) ==
  LET paths[n \in 0 .. Depth] ==
        IF n = 0
          THEN {<<>>}
          ELSE UNION {{Append(p, k) : k \in Indices(TypeAt(t, p))} : p \in paths[n - 1]}
  IN  UNION {paths[n] : n \in 0 .. Depth}

StructPaths(t) == {p \in Paths(t) : IsStruct(TypeAt(t, p))}

Leaves(t) == {p \in Paths(t) : TypeAt(t, p).kind = "int"}

(* The redzones of the struct at path p of the allocated type.             *)
ZonesAt(p) ==
  LET at == Gep(object, handle_gep(source, p))
      s == Inflate(TypeAt(source, p))
  IN  {at + Offset(s, y) : y \in redzone_offsets(s)}

Zones == UNION {ZonesAt(p) : p \in StructPaths(source)}

Span(start, len) == start .. start + len - 1

ZoneBytes(starts) == UNION {Span(z, RZ) : z \in starts}

Rewritten(t, path) == Gep(GepType(t), GepIndices(t, path))

(* Where the program finds the integer at path after the rewriting, if it  *)
(* gets there with one GEP for the first n indices and one for the others. *)
Address(path, n) ==
  LET first == SubSeq(path, 1, n)
  IN  Rewritten(source, first)
        + Rewritten(TypeAt(source, first), SubSeq(path, n + 1, Len(path)))

FieldBytes(path) == Span(Address(path, 0), AllocSize(TypeAt(source, path)))

Done == todo = {} /\ status = "run"

FieldsFound ==
  LET paths == Leaves(source)
  IN  /\ \A p \in paths :
           /\ \A n \in 1 .. Len(p) : Address(p, n) = Address(p, 0)
           /\ FieldBytes(p) \subseteq Span(0, AllocSize(object)) \ ZoneBytes(Zones)
           /\ Address(p, 0) % Align(TypeAt(source, p)) = 0
      /\ \A p, q \in paths : p # q => FieldBytes(p) \cap FieldBytes(q) = {}

HasStruct(t) == StructPaths(t) # {}

(* An array of arrays of structs, at any number of dimensions.             *)
IsStructMatrix(t) == t.kind = "array" /\ t.elem.kind = "array" /\ HasStruct(t)

HasStructMatrix(t) == \E p \in Paths(t) : IsStructMatrix(TypeAt(t, p))

(***************************************************************************)
(* Every access the pass has rewritten finds its field: inside the object, *)
(* aligned, clear of all redzones and of all other fields, however structs *)
(* and arrays are nested and wherever the program splits the path to the   *)
(* field between GEP instructions - unless, and exactly unless, an array   *)
(* of arrays of structs is on the way: then where a field is found depends *)
(* on how the path is split.                                               *)
(***************************************************************************)
FieldsSurvive == FieldsFound <=> ~HasStructMatrix(source)

(* A struct with an array of structs, of any number of dimensions, in it.  *)
HoldsStructArray(t) ==
  IsStruct(t) /\ \E i \in DOMAIN t.fields : t.fields[i].kind = "array" /\ HasStruct(t.fields[i])

HasStructArray(t) == \E p \in Paths(t) : HoldsStructArray(TypeAt(t, p))

(***************************************************************************)
(* The recursion registers all redzones of the object, those of nested     *)
(* structs included, and nothing else, exactly where no struct holds an    *)
(* array of structs; for those it registers others.                        *)
(***************************************************************************)
RegistersAll == Done => (registered = Zones <=> ~HasStructArray(source))

(* The redzones of the structs of the allocation themselves.               *)
OwnZones ==
  UNION {ZonesAt(p) : p \in {q \in StructPaths(source) : Len(q) = IF IsStruct(source) THEN 0 ELSE 1}}

(***************************************************************************)
(* A return removes the redzones of the allocated structs themselves or    *)
(* none at all (those of a heap object), and never those of nested         *)
(* structs: the two sets of redzones that module Sanitized tells apart.    *)
(***************************************************************************)
RemovesOwn == removed \in {{}, OwnZones}

(***************************************************************************)
(* What is registered lies inside the object: __rdzone_add paints it.      *)
(***************************************************************************)
ZonesInside == ZoneBytes(registered) \subseteq Span(0, AllocSize(object))

(* Arrays of structs that hold further structs, found through structs only.*)
HoldsUnsupported(t) ==
  LET holds[u \in Type] ==
        CASE u.kind = "int"   -> FALSE
          [] u.kind = "array" -> IsStruct(u.elem) /\ \E i \in DOMAIN u.elem.fields :
                                                       IsNested(u.elem.fields[i])
          [] OTHER            -> \E i \in DOMAIN u.fields : holds[u.fields[i]]
  IN  holds[t]

(***************************************************************************)
(* The types the pass can instrument are exactly those without an array,   *)
(* or a heap block, of structs that hold structs: for those it builds a    *)
(* GEP from a pointer of another type.                                     *)
(***************************************************************************)
Supported ==
  /\ status = "rejected" => HoldsUnsupported(source)
  /\ Done => ~HoldsUnsupported(source)

=============================================================================
