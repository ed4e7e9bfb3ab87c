---------------------------- MODULE LibraryCall ----------------------------
(***************************************************************************)
(* A call of a library function in the program as it was written: the      *)
(* function works on the caller's structs through the pointers it is       *)
(* given, and between calls the program does.  This is what the flation    *)
(* wrappers of llvm-pass/src/functionTransformer.cpp have to preserve.     *)
(***************************************************************************)
CONSTANTS
  Struct, \* the structs of the program, all of one type
  Byte,   \* the offsets of their bytes, as the library sees them
  Value,  \* what a byte can hold
  Param,  \* the parameters of the library functions
  NULL

VARIABLES
  contents, \* what the structs hold
  args,     \* the pointers passed in the last call
  where,    \* "program" or "library": which of the two runs
  seen,     \* what the library has read last
  result    \* what the last call returned

vars == <<contents, args, where, seen, result>>

Results == {"none", "null", "live"}

Init ==
  /\ contents \in [Struct -> [Byte -> Value]]
  /\ args = [p \in Param |-> NULL]
  /\ where = "program"
  /\ seen \in Value
  /\ result = "none"

Write(s, b, v) ==
  /\ where = "program"
  /\ contents' = [contents EXCEPT ![s][b] = v]
  /\ UNCHANGED <<args, where, seen, result>>

Call(as) ==
  /\ where = "program"
  /\ where' = "library"
  /\ args' = as
  /\ UNCHANGED <<contents, seen, result>>

LibRead(p, b) ==
  /\ where = "library" /\ args[p] # NULL
  /\ seen' = contents[args[p]][b]
  /\ UNCHANGED <<contents, args, where, result>>

LibWrite(p, b, v) ==
  /\ where = "library" /\ args[p] # NULL
  /\ contents' = [contents EXCEPT ![args[p]][b] = v]
  /\ UNCHANGED <<args, where, seen, result>>

Return(r) ==
  /\ where = "library"
  /\ where' = "program"
  /\ result' = r
  /\ UNCHANGED <<contents, args, seen>>

Next ==
  \/ \E s \in Struct, b \in Byte, v \in Value : Write(s, b, v)
  \/ \E as \in [Param -> Struct \cup {NULL}] : Call(as)
  \/ \E p \in Param, b \in Byte : LibRead(p, b) \/ \E v \in Value : LibWrite(p, b, v)
  \/ \E r \in Results : Return(r)

Spec == Init /\ [][Next]_vars

=============================================================================
