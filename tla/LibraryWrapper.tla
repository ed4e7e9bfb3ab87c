--------------------------- MODULE LibraryWrapper ---------------------------
(***************************************************************************)
(* A library function called through the wrapper that                      *)
(* createFlationWrapper of llvm-pass/src/functionTransformer.cpp puts in   *)
(* its place.  The program's structs are inflated; the wrapper copies each *)
(* struct it is given a pointer to into a deflated one on its own stack,   *)
(* field by field, calls the function with the copies, and copies them     *)
(* back.  That this looks like a call of LibraryCall is what is checked.   *)
(***************************************************************************)
EXTENDS Naturals, FiniteSets

CONSTANTS
  Struct, Value, NULL,
  COLOR,        \* the value of a redzone's bytes
  Arity,        \* the number of struct pointers a function takes
  Size,         \* the size of the struct in the library
  WidthModulus, \* 2^8: sizes of copies are computed as an i8
  Layouts       \* the layouts of the struct to look at

Byte == 0 .. Size - 1

Param == 1 .. Arity

(***************************************************************************)
(* A layout: the size of the inflated struct and, for each field, its      *)
(* offset and length in the deflated struct, its offset and length (room)  *)
(* in the inflated one, and home, which says where in that room each of    *)
(* the field's bytes is found by the program.  Only for a field that is a  *)
(* struct itself, with redzones of its own, is home not the identity.      *)
(***************************************************************************)
Within(f) == f.at .. f.at + f.len - 1

Room(f) == f.inflated .. f.inflated + f.room - 1

IsField(f) ==
  /\ {f.at, f.len, f.inflated, f.room} \subseteq Nat
  /\ f.home \in [0 .. f.len - 1 -> 0 .. f.room - 1]
  /\ f.len <= f.room
  /\ \A j, k \in 0 .. f.len - 1 : f.home[j] = f.home[k] => j = k

IsLayout(l) ==
  /\ l.size \in Nat
  /\ \A f \in l.fields :
       IsField(f) /\ Within(f) \subseteq Byte /\ Room(f) \subseteq 0 .. l.size - 1
  /\ \A b \in Byte : \E f \in l.fields : b \in Within(f)
  /\ \A f, g \in l.fields :
       f # g => Within(f) \cap Within(g) = {} /\ Room(f) \cap Room(g) = {}

ASSUME SizesAssumption ==
  Size \in Nat \ {0} /\ Arity \in Nat \ {0} /\ WidthModulus \in Nat \ {0}
ASSUME LayoutsAssumption == \A l \in Layouts : IsLayout(l)
ASSUME ValuesAssumption == COLOR \in Value /\ NULL \notin Struct

VARIABLES
  layout,   \* the layout of the struct, never changed
  mem,      \* the program's structs, inflated
  args,     \* the pointers of the last call
  copy,     \* the deflated structs of the wrapper, one per parameter
  pc,       \* where the program is: itself, the wrapper's parts, the library
  deflated, \* how many arguments have been deflated
  pending,  \* the parameters whose copy is the struct's current state
  seen,     \* what the library has read last
  returned, \* what it returned to the wrapper
  result    \* what the wrapper returned to the program

vars == <<layout, mem, args, copy, pc, deflated, pending, seen, returned, result>>

-----------------------------------------------------------------------------
FieldOf(l, b) == CHOOSE f \in l.fields : b \in Within(f)

(* Where the program's rewritten accesses find a byte.                     *)
Home(l, b) == FieldOf(l, b).inflated + FieldOf(l, b).home[b - FieldOf(l, b).at]

(* The number of bytes copied for a field.                                 *)
createSizeof(f) == f.len % WidthModulus

(* What the memcpy calls of makeFlator cover, and where they find it in    *)
(* the inflated struct: they copy a field as one piece.                    *)
Copied(l) ==
  {b \in Byte : b - FieldOf(l, b).at < createSizeof(FieldOf(l, b))}

(* Mutation: the field's index is not mapped.                              *)
Source_Unmapped(l, b) == b

Source(l, b) == FieldOf(l, b).inflated + (b - FieldOf(l, b).at)

Sources(l) == {Source(l, b) : b \in Copied(l)}

(* A new deflated struct; what is not copied into it is what the stack     *)
(* held.                                                                   *)
Deflated(s) ==
  {[b \in Byte |-> IF b \in Copied(layout) THEN mem[s][Source(layout, b)] ELSE junk[b]] :
     junk \in [Byte -> Value]}

Inflated(s, c) ==
  [k \in 0 .. layout.size - 1 |->
     IF k \in Sources(layout)
     THEN c[CHOOSE b \in Copied(layout) : Source(layout, b) = k]
     ELSE mem[s][k]]

Zones(l) == (0 .. l.size - 1) \ {Home(l, b) : b \in Byte}

-----------------------------------------------------------------------------
Init ==
  /\ layout \in Layouts
  /\ mem \in {m \in [Struct -> [0 .. layout.size - 1 -> Value]] :
                \A s \in Struct : \A z \in Zones(layout) : m[s][z] = COLOR}
  /\ args = [p \in Param |-> NULL]
  /\ copy = [p \in Param |-> [b \in Byte |-> COLOR]]
  /\ pc = "program" /\ deflated = 0 /\ pending = {}
  /\ seen \in Value
  /\ returned = "none" /\ result = "none"

(* The program's own accesses.                                             *)
Write(s, b, v) ==
  /\ pc = "program"
  /\ mem' = [mem EXCEPT ![s][Home(layout, b)] = v]
  /\ UNCHANGED <<args, copy, pc, deflated, pending, seen, returned, result>>

Call(as) ==
  /\ pc = "program"
  /\ pc' = "deflate" /\ deflated' = 0
  /\ args' = as /\ returned' = "none"
  /\ UNCHANGED <<mem, copy, pending, seen, result>>

(* One call of makeFlator.                                                 *)
Deflate(p) ==
  /\ pc = "deflate" /\ p = deflated + 1
  /\ args[p] # NULL
  /\ \E c \in Deflated(args[p]) : copy' = [copy EXCEPT ![p] = c]
  /\ deflated' = p
  /\ UNCHANGED <<mem, args, pc, pending, seen, returned, result>>

(* Its copies read through NULL, unless all of them are of size 0.         *)
DeflateNull(p) ==
  /\ pc = "deflate" /\ p = deflated + 1
  /\ args[p] = NULL
  /\ IF Copied(layout) # {}
     THEN pc' = "crash" /\ UNCHANGED <<copy, deflated>>
     ELSE /\ \E junk \in [Byte -> Value] : copy' = [copy EXCEPT ![p] = junk]
          /\ deflated' = p
          /\ UNCHANGED pc
  /\ UNCHANGED <<mem, args, pending, seen, returned, result>>

Enter ==
  /\ pc = "deflate" /\ deflated = Arity
  /\ pc' = "library" /\ pending' = Param
  /\ UNCHANGED <<mem, args, copy, deflated, seen, returned, result>>

LibRead(p, b) ==
  /\ pc = "library"
  /\ seen' = copy[p][b]
  /\ UNCHANGED <<mem, args, copy, pc, deflated, pending, returned, result>>

LibWrite(p, b, v) ==
  /\ pc = "library"
  /\ copy' = [copy EXCEPT ![p][b] = v]
  /\ UNCHANGED <<mem, args, pc, deflated, pending, seen, returned, result>>

(* The function returns nothing of interest, or a pointer to a struct.     *)
LibReturn(r) ==
  /\ pc = "library"
  /\ pc' = "writeback" /\ returned' = r
  /\ UNCHANGED <<mem, args, copy, deflated, pending, seen, result>>

(* Mutation: only the first argument is copied back.                       *)
WriteBack_FirstOnly(p) ==
  /\ pc = "writeback" /\ p \in pending
  /\ pending' = pending \ {p}
  /\ mem' = IF p # 1 \/ args[p] = NULL THEN mem
            ELSE [mem EXCEPT ![args[p]] = Inflated(args[p], copy[p])]
  /\ UNCHANGED <<args, copy, pc, deflated, seen, returned, result>>

(* The arguments are copied back in the order of a map keyed by pointers   *)
(* of the compiler: in any order.                                          *)
WriteBack(p) ==
  /\ pc = "writeback" /\ p \in pending
  /\ pending' = pending \ {p}
  /\ mem' = IF args[p] = NULL THEN mem
            ELSE [mem EXCEPT ![args[p]] = Inflated(args[p], copy[p])]
  /\ UNCHANGED <<args, copy, pc, deflated, seen, returned, result>>

(* Mutation: the wrapper returns before it has copied back.                *)
Return_Early ==
  /\ pc = "writeback"
  /\ IF returned = "null" /\ Copied(layout) # {}
     THEN pc' = "crash" /\ UNCHANGED result
     ELSE pc' = "program" /\ result' = IF returned = "none" THEN "none" ELSE "dead"
  /\ UNCHANGED <<mem, args, copy, deflated, pending, seen, returned>>

(* A returned struct is inflated into an alloca of the wrapper, which dies *)
(* with it; a returned NULL is read from.                                  *)
Return ==
  /\ pc = "writeback" /\ pending = {}
  /\ IF returned = "null" /\ Copied(layout) # {}
     THEN pc' = "crash" /\ UNCHANGED result
     ELSE pc' = "program" /\ result' = IF returned = "none" THEN "none" ELSE "dead"
  /\ UNCHANGED <<mem, args, copy, deflated, pending, seen, returned>>

Step ==
  \/ \E s \in Struct, b \in Byte, v \in Value : Write(s, b, v)
  \/ \E as \in [Param -> Struct \cup {NULL}] : Call(as)
  \/ \E p \in Param : Deflate(p) \/ DeflateNull(p) \/ WriteBack(p)
  \/ Enter
  \/ \E p \in Param, b \in Byte : LibRead(p, b) \/ \E v \in Value : LibWrite(p, b, v)
  \/ \E r \in {"none", "null", "live"} : LibReturn(r)
  \/ Return

Next == Step /\ UNCHANGED layout

Spec == Init /\ [][Next]_vars

-----------------------------------------------------------------------------
(* Properties *)

PCs == {"program", "deflate", "library", "writeback", "crash"}

(* Structs keep their layouts; copies are current from the call of the     *)
(* function until they have been written back.                             *)
TypeOK ==
  /\ layout \in Layouts
  /\ mem \in [Struct -> [0 .. layout.size - 1 -> Value]]
  /\ args \in [Param -> Struct \cup {NULL}]
  /\ copy \in [Param -> [Byte -> Value]]
  /\ pc \in PCs /\ deflated \in 0 .. Arity /\ pending \in SUBSET Param
  /\ pc \in {"program", "deflate"} => pending = {}
  /\ pc = "library" => pending = Param
  /\ seen \in Value
  /\ returned \in {"none", "null", "live"} /\ result \in {"none", "dead"}

Nests(l) == \E f \in l.fields : \E k \in 0 .. f.len - 1 : f.home[k] # k

Wide(l) == \E f \in l.fields : f.len >= WidthModulus

(* What the struct holds: the program's memory, or the copy that will      *)
(* replace it.                                                             *)
Contents ==
  [s \in Struct |->
     [b \in Byte |->
        IF \E p \in pending : args[p] = s
        THEN copy[CHOOSE p \in pending : args[p] = s][b]
        ELSE mem[s][Home(layout, b)]]]

Where ==
  CASE pc = "program" -> "program"
    [] pc = "crash" -> "crash"
    [] OTHER -> "library"

Original == INSTANCE LibraryCall WITH contents <- Contents, where <- Where

(* A call that passes pointers to different structs and gets none back.    *)
PlainCall ==
  /\ \A p \in Param : args[p] # NULL
  /\ \A p, q \in Param : args[p] = args[q] => p = q
  /\ returned = "none"

PlainUse ==
  ~Nests(layout) /\ ~Wide(layout) /\ (pc # "program" => PlainCall)

(***************************************************************************)
(* A program whose structs hold no structs and no field of 256 bytes, that *)
(* passes pointers to different structs and gets none back, behaves as if  *)
(* it called the function itself: the function reads what the program      *)
(* wrote, the program finds what the function wrote, in whatever order the *)
(* wrapper copies back, and nothing crashes that did not before.           *)
(***************************************************************************)
PlainTransparent == [][PlainUse => Original!Next \/ UNCHANGED Original!vars]_vars

(***************************************************************************)
(* Copying back never writes to a redzone, as long as no struct is nested  *)
(* in the struct that is passed.                                           *)
(***************************************************************************)
ZonesIntact ==
  ~Nests(layout) => \A s \in Struct : \A z \in Zones(layout) : mem[s][z] = COLOR

(* The same for structs of all types: what run_tests.py compares the       *)
(* outputs of the two programs for.                                        *)
AllTypesTransparent ==
  [][(pc # "program" => PlainCall) => Original!Next \/ UNCHANGED Original!vars]_vars

=============================================================================
