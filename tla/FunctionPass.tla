---------------------------- MODULE FunctionPass ----------------------------
(***************************************************************************)
(* The pass over one function: StructZoneSanitizer::run looks at every     *)
(* instruction and queues its update, runs the queue, and resolves the phi *)
(* nodes (llvm-pass/src/Sanitizer.cpp); then setupRedzones traces every    *)
(* free back to its allocation (llvm-pass/src/redzone.cpp).  The struct    *)
(* types that functions and globals mention have been inflated before.     *)
(***************************************************************************)
EXTENDS Naturals, FiniteSets, Sequences

CONSTANTS
  N,            \* the number of instructions of a function
  Types,        \* the struct types of the program
  None,         \* no struct type
  size,         \* their sizes, before and after inflation
  inflatedSize,
  Functions     \* the functions to look at

Index == 1 .. N

ASSUME NAssumption == N \in Nat
ASSUME SizesAssumption ==
  /\ None \notin Types
  /\ size \in [Types -> Nat \ {0}] /\ inflatedSize \in [Types -> Nat \ {0}]
  /\ \A t \in Types : size[t] <= inflatedSize[t]

(***************************************************************************)
(* An instruction is its operation, operands and the struct type its       *)
(* result points to, at whatever depth; what it yields keeps its index     *)
(* when the instruction is replaced.  Operands: the result of instruction  *)
(* n; the bitcast placed behind phi n; an integer; a value the function    *)
(* does not compute, a pointer from a parameter (1) or another (0); NULL,  *)
(* of the type as it was (0) or inflated (1).                              *)
(*                                                                         *)
(* Operations of their own are what the pass treats differently: allocas   *)
(* whose type it leaves alone ("array"), bitcasts to a pointer to a        *)
(* pointer ("pcast"), loads of function pointers ("fload"), and what       *)
(* yields a pointer to an array of structs without being an alloca or a    *)
(* GEP ("aload", "aphi", "acast").                                         *)
(***************************************************************************)
Operations ==
  {"alloca", "array", "call", "icall", "malloc", "calloc", "realloc", "free",
   "cast", "pcast", "acast", "gep", "load", "fload", "aload", "phi", "aphi",
   "icmp", "store", "ret", "select", "ptrtoint", "inttoptr"}

(* The operations whose results keep their type although it involves       *)
(* structs: getInflatedType looks through pointers only, and the rest has  *)
(* no handler.                                                             *)
LeftAlone == {"array", "acast", "fload", "aload", "aphi", "select", "inttoptr"}

Kinds == {"val", "cast", "int", "arg", "null"}

val(n) == <<"val", n>>
cast(n) == <<"cast", n>>
OldNull == <<"null", 0>>
NewNull == <<"null", 1>>
Parameter == <<"arg", 1>>

Instr == [op : Operations, args : Seq(Kinds \X Nat), type : Types \cup {None}]

VARIABLES
  original,       \* the function as it was
  code,           \* the function
  world,          \* of which struct each result's type is: "old", "new", "plain"
  pc,             \* which part of the pass runs
  at,             \* the instruction it has come to
  update_insts,   \* the queued updates
  to_resolve,     \* the phi nodes with a bitcast behind them
  heapStructInfo, \* allocations of structs: the type and how many
  workList, seen, allocations, \* the walk from a free
  sweeps          \* the frees that sweep, with the allocation they sweep for

rewriting == <<code, world, update_insts, to_resolve, heapStructInfo>>
walk == <<workList, seen, allocations>>
vars == <<original, pc, at, rewriting, walk, sweeps>>

-----------------------------------------------------------------------------
Allocs == {"malloc", "calloc", "realloc"}

Uses(c, i) == {c[i].args[k] : k \in DOMAIN c[i].args}

(* The value of an operand that is computed in the function.               *)
Computed(o) == o[1] \in {"val", "cast"}

(* What every function of the compiler satisfies: operands are computed in *)
(* the function, and an operation has the operands it needs.               *)
WellFormed(c) ==
  \A i \in Index :
    /\ \A k \in DOMAIN c[i].args : Computed(c[i].args[k]) => c[i].args[k][2] \in Index
    /\ c[i].op \in {"cast", "pcast", "acast", "icall", "malloc"} => 1 \in DOMAIN c[i].args
    /\ c[i].op \in {"calloc", "realloc"} => 2 \in DOMAIN c[i].args

(* What clang's functions satisfy besides: there are no bitcasts behind    *)
(* phi nodes yet, casts, comparisons and allocations have their number of  *)
(* operands, allocation yields no structs before a cast, and function      *)
(* pointers are loaded or parameters.                                      *)
Compiled(f) ==
  \A i \in Index :
    /\ \A k \in DOMAIN f[i].args : f[i].args[k][1] # "cast"
    /\ f[i].op \in {"icmp", "store", "free", "ret", "ptrtoint"} \cup Allocs => f[i].type = None
    /\ f[i].op \in {"cast", "malloc"} => DOMAIN f[i].args = 1 .. 1
    /\ f[i].op \in {"calloc", "realloc", "icmp"} => DOMAIN f[i].args = 1 .. 2
    /\ f[i].op = "icall" /\ f[i].type # None =>
         \/ f[i].args[1] = Parameter
         \/ \E j \in Index : f[i].args[1] = val(j) /\ f[j].op = "fload" /\ f[j].type # None

ASSUME FunctionsAssumption ==
  \A f \in Functions : f \in [Index -> Instr] /\ WellFormed(f) /\ Compiled(f)

(* replaceAllUsesWith *)
Replaced(c, from, to) ==
  [i \in Index |->
     [c[i] EXCEPT !.args =
        [k \in DOMAIN c[i].args |-> IF c[i].args[k] = from THEN to ELSE c[i].args[k]]]]

(* The function has its new signature already.                             *)
World(o) ==
  CASE o[1] = "val" -> world[o[2]]
    [] o[1] = "cast" \/ o \in {NewNull, Parameter} -> "new"
    [] o = OldNull -> "old"
    [] OTHER -> "plain"

(* An instruction whose result's type is fixed when the pass comes to it:  *)
(* by the signature of the function that is called.                        *)
FirstWorld(instr) ==
  IF instr.type = None THEN "plain" ELSE IF instr.op = "call" THEN "new" ELSE "old"

Init ==
  /\ original \in Functions
  /\ code = original
  /\ world = [i \in Index |-> FirstWorld(original[i])]
  /\ pc = "handle" /\ at = 1
  /\ update_insts = <<>> /\ to_resolve = {} /\ heapStructInfo = << >>
  /\ workList = {} /\ seen = {} /\ allocations = {} /\ sweeps = {}

-----------------------------------------------------------------------------
(* Looking at an instruction                                               *)

Handling(ops) ==
  /\ pc = "handle" /\ at \in Index /\ code[at].op \in ops
  /\ at' = at + 1
  /\ UNCHANGED <<original, pc, world, to_resolve, walk, sweeps>>

(* An instruction that yields a pointer to a struct, at whatever depth, is *)
(* queued, and one that getInflatedType does not look into is not.         *)
Queueing(ops) ==
  /\ Handling(ops)
  /\ update_insts' =
       IF code[at].type # None /\ code[at].op \notin LeftAlone
       THEN Append(update_insts, at) ELSE update_insts
  /\ UNCHANGED <<code, heapStructInfo>>

(* Allocas of structs, arrays of structs and pointers to structs are       *)
(* retyped; others, of arrays of pointers or of arrays and of pointers to  *)
(* arrays, are left alone.  (A GEP to a scalar is queued, but yields what  *)
(* it yielded.)                                                            *)
handle_alloca == Queueing({"alloca", "array"})
handle_gep == Queueing({"gep"})
handle_load == Queueing({"load", "fload", "aload"})
handle_phi == Queueing({"phi", "aphi"})

(* Mutation: the operands of calloc are mixed up.                          *)
SizeArg_First(instr) == 1

SizeArg(instr) == IF instr.op = "malloc" THEN 1 ELSE 2

(* Mutation: room for one struct.                                          *)
Rescaled_Once(n, t) == inflatedSize[t]

Rescaled(n, t) == (n \div size[t]) * inflatedSize[t]

(* std::map::insert: the first entry stays.                                *)
Inserted(c, t, n) ==
  [d \in DOMAIN heapStructInfo \cup {c} |->
     IF d \in DOMAIN heapStructInfo THEN heapStructInfo[d]
     ELSE [type |-> t, count |-> n \div size[t]]]

handle_bitcast ==
  /\ Handling({"cast", "pcast", "acast"})
  /\ LET t == code[at].type
         o == code[at].args[1]
         c == o[2]
         k == SizeArg(code[c])
         s == code[c].args[k]
     IN  /\ update_insts' =
              IF t # None /\ code[at].op \notin LeftAlone
              THEN Append(update_insts, at) ELSE update_insts
         /\ IF t # None /\ code[at].op = "cast" /\ Computed(o) /\ code[c].op \in Allocs
               /\ s[1] = "int"
            THEN /\ code' = [code EXCEPT ![c].args[k] = <<"int", Rescaled(s[2], t)>>]
                 /\ heapStructInfo' = Inserted(c, t, s[2])
            ELSE UNCHANGED <<code, heapStructInfo>>

(* Mutation: only the first operand is looked at.                          *)
handle_icmp_FirstOnly ==
  /\ Handling({"icmp"})
  /\ update_insts' =
       IF code[at].args[1] = OldNull THEN Append(update_insts, at) ELSE update_insts
  /\ UNCHANGED <<code, heapStructInfo>>

(* The first operand that is NULL is replaced later, the other never.      *)
handle_icmp ==
  /\ Handling({"icmp"})
  /\ update_insts' =
       IF OldNull \in Uses(code, at) THEN Append(update_insts, at) ELSE update_insts
  /\ UNCHANGED <<code, heapStructInfo>>

handle_call ==
  /\ Handling({"call", "icall"} \cup Allocs \cup {"free"})
  /\ IF code[at].op = "icall"
     THEN update_insts' = Append(update_insts, at) /\ UNCHANGED code
     ELSE /\ code' = [code EXCEPT ![at].args =
                        [k \in DOMAIN @ |-> IF @[k] = OldNull THEN NewNull ELSE @[k]]]
          /\ UNCHANGED update_insts
  /\ UNCHANGED heapStructInfo

handle_store ==
  /\ Handling({"store"})
  /\ UNCHANGED <<code, update_insts, heapStructInfo>>

(* Returns, selects and conversions of pointers and integers into each     *)
(* other: no handler is called.                                            *)
NoHandler ==
  /\ Handling({"ret", "select", "ptrtoint", "inttoptr"})
  /\ UNCHANGED <<code, update_insts, heapStructInfo>>

Handled ==
  /\ pc = "handle" /\ at > N
  /\ pc' = "update"
  /\ UNCHANGED <<original, at, rewriting, walk, sweeps>>

-----------------------------------------------------------------------------
(* Running the queue                                                       *)

Updating(ops) ==
  /\ pc = "update" /\ update_insts # <<>> /\ code[Head(update_insts)].op \in ops
  /\ update_insts' = Tail(update_insts)
  /\ UNCHANGED <<original, pc, at, heapStructInfo, walk, sweeps>>

(* A new instruction of the inflated type takes the old one's place.       *)
Retyping(ops) ==
  /\ Updating(ops)
  /\ world' = [world EXCEPT ![Head(update_insts)] = "new"]
  /\ UNCHANGED <<code, to_resolve>>

update_inst_alloca == Retyping({"alloca"})
update_inst_gep == Retyping({"gep"})
update_inst_bitcast == Retyping({"cast", "pcast"})
update_inst_load == Retyping({"load"})

update_inst_call ==
  /\ Updating({"icall"})
  /\ LET i == Head(update_insts)
     IN world' = [world EXCEPT ![i] = IF @ = "plain" THEN @ ELSE World(code[i].args[1])]
  /\ UNCHANGED <<code, to_resolve>>

update_inst_icmp ==
  /\ Updating({"icmp"})
  /\ LET i == Head(update_insts)
         k == CHOOSE k \in {1, 2} : code[i].args[k] = OldNull
                                     /\ (k = 2 => code[i].args[1] # OldNull)
     IN code' = [code EXCEPT ![i].args[k] = NewNull]
  /\ UNCHANGED <<world, to_resolve>>

(* A bitcast to the inflated type takes the place of the phi node.         *)
update_inst_phi ==
  /\ Updating({"phi"})
  /\ LET i == Head(update_insts)
     IN /\ code' = Replaced(code, val(i), cast(i))
        /\ to_resolve' = to_resolve \cup {i}
  /\ UNCHANGED world

Updated ==
  /\ pc = "update" /\ update_insts = <<>>
  /\ pc' = "resolve"
  /\ UNCHANGED <<original, at, rewriting, walk, sweeps>>

-----------------------------------------------------------------------------
(* The phi nodes: each is replaced by one of the inflated type, which      *)
(* takes the bitcast's place too.  They come in the order of a map keyed   *)
(* by pointers of the compiler: in any order.                              *)

(* Mutation: the bitcast stays.                                            *)
Resolve_KeepsCast(i) ==
  /\ pc = "resolve" /\ i \in to_resolve
  /\ to_resolve' = to_resolve \ {i}
  /\ world' = [world EXCEPT ![i] = "new"]
  /\ UNCHANGED <<original, pc, at, code, update_insts, heapStructInfo, walk, sweeps>>

Resolve(i) ==
  /\ pc = "resolve" /\ i \in to_resolve
  /\ to_resolve' = to_resolve \ {i}
  /\ world' = [world EXCEPT ![i] = "new"]
  /\ code' = Replaced(code, cast(i), val(i))
  /\ UNCHANGED <<original, pc, at, update_insts, heapStructInfo, walk, sweeps>>

Resolved ==
  /\ pc = "resolve" /\ to_resolve = {}
  /\ pc' = "instrument" /\ at' = 1
  /\ UNCHANGED <<original, rewriting, walk, sweeps>>

-----------------------------------------------------------------------------
(* Instrumenting: the frees are what matters here                          *)

FreedBy(i) == {o[2] : o \in {u \in Uses(code, i) : Computed(u)}}

InstrumentOther ==
  /\ pc = "instrument" /\ at \in Index /\ code[at].op # "free"
  /\ at' = at + 1
  /\ UNCHANGED <<original, pc, rewriting, walk, sweeps>>

insert_heap_free ==
  /\ pc = "instrument" /\ at \in Index /\ code[at].op = "free"
  /\ pc' = "walk"
  /\ workList' = FreedBy(at) /\ seen' = FreedBy(at) /\ allocations' = {}
  /\ UNCHANGED <<original, at, rewriting, sweeps>>

(* Mutation: what is pushed is not marked as seen.                         *)
Visit_Unmarked(i) ==
  LET new == {o[2] : o \in {u \in Uses(code, i) : Computed(u)}} \ seen
  IN  /\ pc = "walk" /\ i \in workList
      /\ workList' = (workList \ {i}) \cup new
      /\ UNCHANGED seen
      /\ allocations' = allocations \cup (new \cap DOMAIN heapStructInfo)
      /\ UNCHANGED <<original, pc, at, rewriting, sweeps>>

(* Mutation: phi nodes are not looked through.                             *)
Visit_NoPhi(i) ==
  LET new == IF code[i].op = "phi" THEN {}
             ELSE {o[2] : o \in {u \in Uses(code, i) : Computed(u)}} \ seen
  IN  /\ pc = "walk" /\ i \in workList
      /\ workList' = (workList \ {i}) \cup new
      /\ seen' = seen \cup new
      /\ allocations' = allocations \cup (new \cap DOMAIN heapStructInfo)
      /\ UNCHANGED <<original, pc, at, rewriting, sweeps>>

(* The stack hands out the newest entry; the model any, as the order has   *)
(* no effect on what is found.                                             *)
Visit(i) ==
  LET new == {o[2] : o \in {u \in Uses(code, i) : Computed(u)}} \ seen
  IN  /\ pc = "walk" /\ i \in workList
      /\ workList' = (workList \ {i}) \cup new
      /\ seen' = seen \cup new
      /\ allocations' = allocations \cup (new \cap DOMAIN heapStructInfo)
      /\ UNCHANGED <<original, pc, at, rewriting, sweeps>>

(* Without an allocation there is nothing to do; with more than one the    *)
(* compilation is aborted.                                                 *)
Walked ==
  /\ pc = "walk" /\ workList = {}
  /\ IF Cardinality(allocations) > 1
     THEN pc' = "abort" /\ UNCHANGED <<at, sweeps>>
     ELSE /\ pc' = "instrument" /\ at' = at + 1
          /\ sweeps' = sweeps \cup {<<at, c>> : c \in allocations}
  /\ UNCHANGED <<original, rewriting, walk>>

Finished ==
  /\ pc = "instrument" /\ at > N
  /\ pc' = "done"
  /\ UNCHANGED <<original, at, rewriting, walk, sweeps>>

Next ==
  \/ handle_alloca \/ handle_gep \/ handle_load \/ handle_phi
  \/ handle_bitcast \/ handle_icmp \/ handle_call \/ handle_store
  \/ NoHandler \/ Handled
  \/ update_inst_alloca \/ update_inst_gep \/ update_inst_bitcast \/ update_inst_load
  \/ update_inst_call \/ update_inst_icmp \/ update_inst_phi \/ Updated
  \/ \E i \in Index : Resolve(i) \/ Visit(i)
  \/ Resolved \/ InstrumentOther \/ insert_heap_free \/ Walked \/ Finished

Spec == Init /\ [][Next]_vars

(* The pass is sequential code that nothing interrupts.                    *)
FairSpec == Spec /\ WF_vars(Next)

-----------------------------------------------------------------------------
(* Properties *)

PCs == {"handle", "update", "resolve", "instrument", "walk", "done", "abort"}

(* The parts of the pass keep to their instructions, and only allocations  *)
(* get an entry in heapStructInfo.                                         *)
TypeOK ==
  /\ {original, code} \subseteq [Index -> Instr]
  /\ world \in [Index -> {"old", "new", "plain"}]
  /\ pc \in PCs /\ at \in 1 .. N + 1
  /\ update_insts \in Seq(Index) /\ to_resolve \subseteq Index
  /\ DOMAIN heapStructInfo \subseteq {c \in Index : code[c].op \in Allocs}
  /\ \A c \in DOMAIN heapStructInfo :
       heapStructInfo[c] \in [type : Types, count : Nat]
  /\ workList \subseteq seen /\ seen \subseteq Index
  /\ allocations \subseteq DOMAIN heapStructInfo
  /\ sweeps \subseteq Index \X DOMAIN heapStructInfo

Rewritten == pc \in {"instrument", "walk", "done", "abort"}

(* The results whose types the pass leaves as they are.                    *)
Keeps(i) ==
  \/ original[i].op \in LeftAlone
  \/ original[i].op = "icall" /\ original[i].args[1] # Parameter

(* Where a NULL keeps its type: everywhere but in calls and comparisons.   *)
KeepsNull(i, k) ==
  \/ original[i].op \notin {"call", "free", "icmp"} \cup Allocs
  \/ original[i].op = "icmp" /\ k = 2 /\ original[i].args[1] = OldNull

(***************************************************************************)
(* Queueing the updates, cutting cycles of phi nodes with bitcasts and     *)
(* resolving them in any order amounts to retyping every instruction where *)
(* it stands: each operand still is the value it was, no bitcast is left,  *)
(* and old types remain exactly for arrays of pointers, pointers to arrays *)
(* but those of allocas and GEPs, function pointers from memory with what  *)
(* is called through them, selected values, pointers made of integers, and *)
(* NULLs that are merged, selected, returned, stored, compared with NULL,  *)
(* converted or passed through a pointer.                                  *)
(***************************************************************************)
Translated ==
  Rewritten =>
    \A i \in Index :
      /\ code[i].op = original[i].op
      /\ world[i] = IF original[i].type = None THEN "plain"
                    ELSE IF Keeps(i) THEN "old" ELSE "new"
      /\ \A k \in DOMAIN original[i].args :
           \/ original[i].args[k][1] = "int"
           \/ code[i].args[k] =
                IF original[i].args[k] = OldNull /\ ~KeepsNull(i, k) THEN NewNull
                ELSE original[i].args[k]

(* What the verifier demands of an instruction's types.  What is passed    *)
(* and returned has the types of signatures, which are new.                *)
Agrees(i) ==
  LET worlds == ({World(o) : o \in Uses(code, i)} \cup {world[i]}) \ {"plain"}
  IN  CASE code[i].op \in {"cast", "pcast", "acast", "fload", "ptrtoint", "inttoptr"} -> TRUE
        [] code[i].op \in {"call", "free", "ret"} \cup Allocs -> worlds \subseteq {"new"}
        [] OTHER -> Cardinality(worlds) <= 1

(* The forms the pass does not handle.                                     *)
Unhandled(i) ==
  \/ original[i].op \in LeftAlone /\ original[i].type # None
  \/ \E k \in DOMAIN original[i].args : original[i].args[k] = OldNull /\ KeepsNull(i, k)

(***************************************************************************)
(* A function without such NULLs and such results (arrays of pointers to   *)
(* structs, loaded, merged or cast pointers to arrays of structs, function *)
(* pointers from memory, selected pointers, and pointers made of integers) *)
(* is well typed after the pass as it was before: no instruction mixes old *)
(* types and new ones.                                                     *)
(***************************************************************************)
Consistent ==
  Rewritten /\ (\A i \in Index : ~Unhandled(i)) => \A i \in Index : Agrees(i)

-----------------------------------------------------------------------------
(* Allocations *)

CastTypes(c) ==
  {original[i].type : i \in {j \in Index : original[j].op = "cast" /\ val(c) \in Uses(original, j)}}
    \ {None}

(* The size operand of an allocation, before the pass and at its end.      *)
FirstSize(c) == original[c].args[Len(original[c].args)]
LastSize(c) == code[c].args[Len(code[c].args)]

(* An allocation of structs of type t, as C programs write it.             *)
Allocates(c, t) ==
  /\ original[c].op \in Allocs
  /\ CastTypes(c) = {t}
  /\ FirstSize(c)[1] = "int" /\ FirstSize(c)[2] % size[t] = 0

(***************************************************************************)
(* A block that is used as structs of one type is made large enough for    *)
(* their inflated forms, and gets redzones in as many as its size operand  *)
(* counts and not behind them, also if the call's result is cast twice.    *)
(* (What calloc's first operand multiplies gets no redzones.)              *)
(***************************************************************************)
SizesFit ==
  Rewritten =>
    \A c \in Index, t \in Types :
      Allocates(c, t) =>
        LET structs == FirstSize(c)[2] \div size[t]
        IN  /\ LastSize(c)[2] >= structs * inflatedSize[t]
            /\ c \in DOMAIN heapStructInfo
            /\ heapStructInfo[c] = [type |-> t, count |-> structs]

-----------------------------------------------------------------------------
(* Frees *)

Closed(s) == \A i \in s : \A o \in Uses(code, i) : Computed(o) => o[2] \in s

(* What a value is computed from, however indirectly.                      *)
Reach(from) ==
  {i \in Index : \A s \in SUBSET Index : from \subseteq s /\ Closed(s) => i \in s}

(***************************************************************************)
(* The walk finds every allocation of structs the freed pointer is         *)
(* computed from, through phi nodes that depend on each other, loads and   *)
(* operands of any other kind, except for one that is freed as it was      *)
(* returned; and it finds nothing else.                                    *)
(***************************************************************************)
WalkExact ==
  pc = "walk" /\ workList = {} =>
    allocations = (Reach(FreedBy(at)) \ FreedBy(at)) \cap DOMAIN heapStructInfo

(* The freed pointer is the result of the allocation c, cast and merged.   *)
ComesFrom(f, c) ==
  LET chain == Reach(FreedBy(f))
  IN  /\ \A i \in chain : code[i].op \in {"cast", "pcast", "phi"} \cup Allocs
      /\ {i \in chain : code[i].op \in Allocs} = {c}

(***************************************************************************)
(* A pointer that comes from one allocation of structs is swept for that   *)
(* allocation when it is freed, and for no other (over its size operand,   *)
(* which SizesFit is about), unless the call's result itself is freed.     *)
(***************************************************************************)
SweepsItsOwn ==
  pc = "done" =>
    \A f, c \in Index :
      code[f].op = "free" /\ ComesFrom(f, c) =>
        {d \in Index : <<f, d>> \in sweeps} = {c} \cap (DOMAIN heapStructInfo \ FreedBy(f))

(* The pass ends for every function, whatever cycles its phi nodes form.   *)
Terminates == <>(pc \in {"done", "abort"})

=============================================================================
