------------------------- MODULE FunctionPassProofs -------------------------
(***************************************************************************)
(* Theorems about the pass over a function, for every function, any number *)
(* of instructions and all struct types.                                   *)
(***************************************************************************)
EXTENDS FunctionPass, FiniteSetTheorems, TLAPS

-----------------------------------------------------------------------------
(* Functions that differ in operands                                       *)

Operand == Kinds \X Nat

(* An operand that does not refer to an instruction the function lacks.    *)
Refers(o) == Computed(o) => o[2] \in Index

(* d is the function c with some operands replaced.                        *)
Reoperanded(c, d) ==
  /\ d \in [Index -> Instr]
  /\ \A i \in Index :
       /\ d[i].op = c[i].op
       /\ DOMAIN d[i].args = DOMAIN c[i].args
       /\ \A k \in DOMAIN d[i].args : Refers(d[i].args[k])

LEMMA ReoperandedWellFormed ==
  ASSUME NEW c, WellFormed(c), NEW d, Reoperanded(c, d)
  PROVE  WellFormed(d)
BY DEF Reoperanded, WellFormed, Refers

LEMMA SequenceOf ==
  ASSUME NEW S, NEW s \in Seq(S), NEW f, f = [k \in DOMAIN s |-> f[k]],
         \A k \in DOMAIN s : f[k] \in S
  PROVE  f \in Seq(S) /\ DOMAIN f = DOMAIN s
<1>1. DOMAIN s = 1 .. Len(s) /\ Len(s) \in Nat
  OBVIOUS
<1>2. f \in [1 .. Len(s) -> S]
  BY <1>1
<1> QED BY <1>1, <1>2

(* One instruction's operands are replaced.                                *)
LEMMA NewOperands ==
  ASSUME NEW c \in [Index -> Instr], NEW i \in Index,
         NEW a, a = [k \in DOMAIN c[i].args |-> a[k]],
         \A k \in DOMAIN c[i].args : a[k] \in Operand
  PROVE  /\ [c[i] EXCEPT !.args = a] \in Instr
         /\ [c[i] EXCEPT !.args = a].op = c[i].op
         /\ [c[i] EXCEPT !.args = a].args = a
         /\ DOMAIN a = DOMAIN c[i].args
<1>1. c[i] \in Instr /\ c[i].args \in Seq(Operand)
  BY DEF Instr, Operand
<1>2. a \in Seq(Operand) /\ DOMAIN a = DOMAIN c[i].args
  BY <1>1, SequenceOf
<1> QED BY <1>1, <1>2 DEF Instr, Operand

LEMMA OldOperands ==
  ASSUME NEW c \in [Index -> Instr], WellFormed(c), NEW i \in Index, NEW k \in DOMAIN c[i].args
  PROVE  c[i].args[k] \in Operand /\ Refers(c[i].args[k])
<1>1. c[i].args \in Seq(Operand)
  BY DEF Instr, Operand
<1> QED BY <1>1 DEF WellFormed, Refers

(* One operand is replaced.                                                *)
LEMMA OneOperand ==
  ASSUME NEW c \in [Index -> Instr], WellFormed(c), NEW i, NEW k,
         NEW v, i \in Index /\ k \in DOMAIN c[i].args => v \in Operand /\ Refers(v)
  PROVE  Reoperanded(c, [c EXCEPT ![i].args[k] = v])
<1> DEFINE d == [c EXCEPT ![i].args[k] = v]
           a == [c[i].args EXCEPT ![k] = v]
<1>1. CASE i \in Index
  <2>1. a = [l \in DOMAIN c[i].args |-> a[l]]
    OBVIOUS
  <2>2. \A l \in DOMAIN c[i].args : a[l] \in Operand /\ Refers(a[l])
    BY <1>1, OldOperands
  <2>3. d = [c EXCEPT ![i] = [c[i] EXCEPT !.args = a]]
    OBVIOUS
  <2>4. d[i] = [c[i] EXCEPT !.args = a]
    BY <1>1, <2>3
  <2> HIDE DEF a
  <2> DEFINE e == [c[i] EXCEPT !.args = a]
  <2>5a. e \in Instr /\ e.op = c[i].op /\ e.args = a /\ DOMAIN a = DOMAIN c[i].args
    BY <1>1, <2>1, <2>2, NewOperands
  <2> HIDE DEF e
  <2>5. /\ d[i] \in Instr /\ d[i].op = c[i].op
        /\ d[i].args = a /\ DOMAIN a = DOMAIN c[i].args
    BY <2>4, <2>5a DEF e
  <2>6. \A j \in Index \ {i} : d[j] = c[j]
    BY <2>3
  <2>7. d \in [Index -> Instr]
    BY <2>3, <2>4, <2>5
  <2> HIDE DEF d
  <2>8. \A j \in Index :
          /\ d[j].op = c[j].op
          /\ DOMAIN d[j].args = DOMAIN c[j].args
          /\ \A l \in DOMAIN d[j].args : Refers(d[j].args[l])
    BY <2>2, <2>5, <2>6, OldOperands
  <2> QED BY <2>7, <2>8 DEF Reoperanded, d
<1>2. CASE i \notin Index
  <2>1. d = c
    BY <1>2
  <2> HIDE DEF d
  <2> QED BY <2>1, OldOperands DEF Reoperanded, d
<1> QED BY <1>1, <1>2

(* All uses of a value are replaced.                                       *)
LEMMA ReplacedOperands ==
  ASSUME NEW c \in [Index -> Instr], WellFormed(c), NEW from,
         NEW to \in Operand, Refers(to)
  PROVE  Reoperanded(c, Replaced(c, from, to))
<1> DEFINE d == Replaced(c, from, to)
           a(i) == [k \in DOMAIN c[i].args |->
                      IF c[i].args[k] = from THEN to ELSE c[i].args[k]]
<1>1. d = [i \in Index |-> [c[i] EXCEPT !.args = a(i)]]
  BY DEF Replaced
<1>2. ASSUME NEW i \in Index
      PROVE  /\ d[i] \in Instr /\ d[i].op = c[i].op
             /\ DOMAIN d[i].args = DOMAIN c[i].args
             /\ \A k \in DOMAIN d[i].args : Refers(d[i].args[k])
  <2>1. \A k \in DOMAIN c[i].args : a(i)[k] \in Operand /\ Refers(a(i)[k])
    BY OldOperands
  <2>2. a(i) = [k \in DOMAIN c[i].args |-> a(i)[k]]
    OBVIOUS
  <2>3. d[i] = [c[i] EXCEPT !.args = a(i)]
    BY <1>1
  <2> DEFINE b == a(i)
             e == [c[i] EXCEPT !.args = b]
  <2> HIDE DEF a, b, d
  <2>4. e \in Instr /\ e.op = c[i].op /\ e.args = b /\ DOMAIN b = DOMAIN c[i].args
    BY <2>1, <2>2, NewOperands DEF b
  <2>5. d[i] = e
    BY <2>3 DEF b
  <2> HIDE DEF e
  <2> QED BY <2>1, <2>4, <2>5 DEF b
<1> HIDE DEF a
<1>3. d \in [Index -> Instr]
  BY <1>1, <1>2
<1> HIDE DEF d
<1>4. Reoperanded(c, d)
  BY <1>2, <1>3 DEF Reoperanded
<1> QED BY <1>4 DEF d

-----------------------------------------------------------------------------
(* The pass keeps to the function                                          *)

(* What the values of a step are computed from stays in the function.      *)
Sound == TypeOK /\ WellFormed(code) /\ (pc = "walk" => at \in Index)

LEMMA SoundInit == Init => Sound
<1> SUFFICES ASSUME Init PROVE Sound
  OBVIOUS
<1>1. /\ original \in [Index -> Instr] /\ code = original /\ WellFormed(code)
      /\ pc = "handle" /\ at = 1 /\ 1 \in 1 .. N + 1
  BY FunctionsAssumption, NAssumption DEF Init
<1>2. world \in [Index -> {"old", "new", "plain"}]
  BY DEF Init, FirstWorld
<1>3. /\ update_insts \in Seq(Index) /\ to_resolve \subseteq Index
      /\ DOMAIN heapStructInfo = {}
      /\ workList = {} /\ seen = {} /\ allocations = {} /\ sweeps = {}
  BY DEF Init
<1> QED BY <1>1, <1>2, <1>3 DEF Sound, TypeOK, PCs

(* The instructions an instruction has operands from.                      *)
LEMMA OperandsOf ==
  ASSUME WellFormed(code), NEW i \in Index
  PROVE  {o[2] : o \in {u \in Uses(code, i) : Computed(u)}} \subseteq Index
BY DEF WellFormed, Uses

HandleTyped == handle_alloca \/ handle_gep \/ handle_load \/ handle_phi

HandleOps == {"alloca", "array", "gep", "load", "fload", "aload", "phi", "aphi"}

HandleNothing == handle_store \/ NoHandler

UpdateTyped ==
  update_inst_alloca \/ update_inst_gep \/ update_inst_bitcast \/ update_inst_load

LEMMA TypedSteps ==
  /\ HandleTyped =>
       /\ Handling(HandleOps)
       /\ update_insts' = update_insts \/ update_insts' = Append(update_insts, at)
       /\ UNCHANGED <<code, heapStructInfo>>
  /\ UpdateTyped =>
       /\ Updating({"alloca", "gep", "cast", "pcast", "load"})
       /\ world' = [world EXCEPT ![Head(update_insts)] = "new"]
       /\ UNCHANGED <<code, to_resolve>>
BY DEF HandleTyped, HandleOps, UpdateTyped, handle_alloca, handle_gep, handle_load, handle_phi,
  Queueing, Handling, update_inst_alloca, update_inst_gep, update_inst_bitcast, update_inst_load,
  Retyping, Updating

(* TypeOK where the operands of the function have changed at most.         *)
LEMMA SoundCode ==
  ASSUME Sound, Reoperanded(code, code') \/ code' = code,
         UNCHANGED <<original, walk, sweeps>>,
         world' \in [Index -> {"old", "new", "plain"}],
         pc' \in PCs, at' \in 1 .. N + 1, pc' # "walk",
         update_insts' \in Seq(Index), to_resolve' \subseteq Index,
         DOMAIN heapStructInfo \subseteq DOMAIN heapStructInfo',
         \A c \in DOMAIN heapStructInfo' :
           /\ c \in Index /\ code[c].op \in Allocs
           /\ heapStructInfo'[c] \in [type : Types, count : Nat]
  PROVE  Sound'
<1>1. code' \in [Index -> Instr] /\ WellFormed(code') /\ \A i \in Index : code'[i].op = code[i].op
  BY ReoperandedWellFormed DEF Sound, TypeOK, Reoperanded
<1>2. DOMAIN heapStructInfo' \subseteq {c \in Index : code'[c].op \in Allocs}
  BY <1>1
<1>3. /\ original' \in [Index -> Instr]
      /\ workList' \subseteq seen' /\ seen' \subseteq Index
      /\ allocations' \subseteq DOMAIN heapStructInfo'
      /\ sweeps' \subseteq Index \X DOMAIN heapStructInfo'
  BY DEF Sound, TypeOK, walk
<1>4. TypeOK'
  BY <1>1, <1>2, <1>3 DEF TypeOK
<1> QED BY <1>1, <1>4 DEF Sound

LEMMA SoundHandle ==
  ASSUME Sound,
         HandleTyped \/ handle_bitcast \/ handle_icmp \/ handle_call \/ HandleNothing
  PROVE  Sound'
<1>1. /\ pc = "handle" /\ pc' = pc /\ at \in Index /\ at' = at + 1
      /\ UNCHANGED <<original, world, to_resolve, walk, sweeps>>
  BY TypedSteps DEF handle_bitcast, handle_icmp, handle_call, HandleNothing, handle_store,
    NoHandler, Handling
<1>2. at' \in 1 .. N + 1
  BY <1>1, NAssumption DEF Index
<1>3. update_insts' \in Seq(Index)
  <2>1. update_insts' = update_insts \/ update_insts' = Append(update_insts, at)
    BY TypedSteps DEF handle_bitcast, handle_icmp, handle_call, HandleNothing, handle_store, NoHandler
  <2>2. update_insts \in Seq(Index)
    BY DEF Sound, TypeOK
  <2> QED BY <1>1, <2>1, <2>2
<1>4. ASSUME HandleTyped \/ handle_icmp \/ HandleNothing
      PROVE  code' = code /\ heapStructInfo' = heapStructInfo
  BY <1>4, TypedSteps DEF handle_icmp, HandleNothing, handle_store, NoHandler
<1>5. CASE HandleTyped \/ handle_icmp \/ HandleNothing
  BY <1>1, <1>2, <1>3, <1>4, <1>5, SoundCode DEF Sound, TypeOK
<1>6. CASE handle_call
  <2>1. code[at].op \in Operations /\ heapStructInfo' = heapStructInfo
    BY <1>1, <1>6 DEF handle_call, Sound, TypeOK, Instr
  <2>2. Reoperanded(code, code') \/ code' = code
    <3>1. CASE code[at].op = "icall"
      BY <1>6, <3>1 DEF handle_call
    <3>2. CASE code[at].op # "icall"
      <4> DEFINE a == [k \in DOMAIN code[at].args |->
                         IF code[at].args[k] = OldNull THEN NewNull ELSE code[at].args[k]]
                 e == [code[at] EXCEPT !.args = a]
      <4>1. code' = [code EXCEPT ![at] = e]
        BY <1>6, <3>2 DEF handle_call
      <4>2. \A k \in DOMAIN code[at].args : a[k] \in Operand /\ Refers(a[k])
        BY <1>1, OldOperands DEF Sound, TypeOK, NewNull, Operand, Kinds, Refers, Computed
      <4>3. a = [k \in DOMAIN code[at].args |-> a[k]]
        OBVIOUS
      <4> HIDE DEF a
      <4>4. e \in Instr /\ e.op = code[at].op /\ e.args = a /\ DOMAIN a = DOMAIN code[at].args
        <5>1. code \in [Index -> Instr] /\ at \in Index
          BY <1>1 DEF Sound, TypeOK
        <5>2. \A k \in DOMAIN code[at].args : a[k] \in Operand
          BY <4>2
        <5> HIDE DEF e
        <5> QED BY <4>3, <5>1, <5>2, NewOperands DEF e
      <4> HIDE DEF e
      <4>5. \A i \in Index : /\ code'[i].op = code[i].op
                             /\ DOMAIN code'[i].args = DOMAIN code[i].args
                             /\ \A k \in DOMAIN code'[i].args : Refers(code'[i].args[k])
        BY <1>1, <4>1, <4>2, <4>4, OldOperands DEF Sound, TypeOK
      <4>6. code' \in [Index -> Instr]
        BY <4>1, <4>4 DEF Sound, TypeOK
      <4> QED BY <4>5, <4>6 DEF Reoperanded
    <3> QED BY <3>1, <3>2
  <2> QED BY <1>1, <1>2, <1>3, <2>1, <2>2, SoundCode DEF Sound, TypeOK
<1>7. CASE handle_bitcast
  <2> DEFINE t == code[at].type
             o == code[at].args[1]
             c == o[2]
             k == SizeArg(code[c])
             s == code[c].args[k]
  <2>1. code[at].op \in {"cast", "pcast", "acast"} /\ t \in Types \cup {None}
    BY <1>1, <1>7 DEF handle_bitcast, Handling, Sound, TypeOK, Instr
  <2>2. 1 \in DOMAIN code[at].args /\ Refers(o)
    BY <1>1, <2>1, OldOperands DEF Sound, TypeOK, WellFormed
  <2>3. CASE /\ t # None /\ code[at].op = "cast" /\ Computed(o) /\ code[c].op \in Allocs
             /\ s[1] = "int"
    <3>1. /\ code' = [code EXCEPT ![c].args[k] = <<"int", Rescaled(s[2], t)>>]
          /\ heapStructInfo' = Inserted(c, t, s[2])
      BY <1>7, <2>3 DEF handle_bitcast
    <3>2. c \in Index /\ t \in Types
      BY <2>1, <2>2, <2>3 DEF Refers
    <3>3. k \in DOMAIN code[c].args
      BY <2>3, <3>2 DEF Sound, WellFormed, SizeArg, Allocs
    <3>4. s \in Operand
      BY <3>2, <3>3, OldOperands DEF Sound, TypeOK
    <3>5. s[2] \in Nat /\ size[t] \in Nat \ {0} /\ inflatedSize[t] \in Nat
      BY <3>2, <3>4, SizesAssumption DEF Operand
    <3>6. s[2] \div size[t] \in Nat /\ Rescaled(s[2], t) \in Nat
      <4>1. \A n \in Nat, m \in Nat \ {0} : n \div m \in Nat
        OBVIOUS
      <4>2. s[2] \div size[t] \in Nat
        BY <3>5, <4>1
      <4>3. \A n, m \in Nat : n * m \in Nat
        OBVIOUS
      <4> QED BY <3>5, <4>2, <4>3 DEF Rescaled
    <3> HIDE DEF t, s, k, c
    <3>7. <<"int", Rescaled(s[2], t)>> \in Operand /\ Refers(<<"int", Rescaled(s[2], t)>>)
      BY <3>6 DEF Operand, Kinds, Refers, Computed
    <3>8. Reoperanded(code, code')
      <4>1. code \in [Index -> Instr] /\ WellFormed(code)
        BY DEF Sound, TypeOK
      <4> HIDE DEF o
      <4> QED BY <3>1, <3>7, <4>1, OneOperand
    <3>9. DOMAIN heapStructInfo \subseteq DOMAIN heapStructInfo'
      BY <3>1 DEF Inserted
    <3>10. \A d \in DOMAIN heapStructInfo' :
             /\ d \in Index /\ code[d].op \in Allocs
             /\ heapStructInfo'[d] \in [type : Types, count : Nat]
      <4> TAKE d \in DOMAIN heapStructInfo'
      <4>1. CASE d \in DOMAIN heapStructInfo
        <5>1. heapStructInfo'[d] = heapStructInfo[d]
          BY <3>1, <4>1 DEF Inserted
        <5> QED BY <4>1, <5>1 DEF Sound, TypeOK
      <4>2. CASE d \notin DOMAIN heapStructInfo
        <5>1. d = c /\ heapStructInfo'[d] = [type |-> t, count |-> s[2] \div size[t]]
          BY <3>1, <4>2 DEF Inserted
        <5>2. heapStructInfo'[d] \in [type : Types, count : Nat]
          BY <3>2, <3>6, <5>1
        <5>3. code[c].op \in Allocs
          BY <2>3 DEF t, s, k, c
        <5> QED BY <3>2, <5>1, <5>2, <5>3
      <4> QED BY <4>1, <4>2
    <3> QED BY <1>1, <1>2, <1>3, <3>8, <3>9, <3>10, SoundCode DEF Sound, TypeOK
  <2>4. CASE ~ (/\ t # None /\ code[at].op = "cast" /\ Computed(o) /\ code[c].op \in Allocs
                /\ s[1] = "int")
    <3>1. code' = code /\ heapStructInfo' = heapStructInfo
      BY <1>7, <2>4 DEF handle_bitcast
    <3> QED BY <1>1, <1>2, <1>3, <3>1, SoundCode DEF Sound, TypeOK
  <2> QED BY <2>3, <2>4
<1> QED BY <1>5, <1>6, <1>7

LEMMA SoundUpdate ==
  ASSUME Sound, UpdateTyped \/ update_inst_call \/ update_inst_icmp \/ update_inst_phi
  PROVE  Sound'
<1> DEFINE i == Head(update_insts)
<1>1. /\ pc = "update" /\ pc' = pc /\ at' = at /\ update_insts # <<>>
      /\ update_insts' = Tail(update_insts)
      /\ UNCHANGED <<original, heapStructInfo, walk, sweeps>>
  BY TypedSteps DEF update_inst_call, update_inst_icmp, update_inst_phi, Updating
<1>2. update_insts \in Seq(Index)
  BY DEF Sound, TypeOK
<1>3. i \in Index /\ update_insts' \in Seq(Index)
  BY <1>1, <1>2
<1>4. /\ code \in [Index -> Instr] /\ WellFormed(code)
      /\ world \in [Index -> {"old", "new", "plain"}]
      /\ pc \in PCs /\ at \in 1 .. N + 1 /\ to_resolve \subseteq Index
      /\ \A c \in DOMAIN heapStructInfo :
           /\ c \in Index /\ code[c].op \in Allocs
           /\ heapStructInfo[c] \in [type : Types, count : Nat]
  BY DEF Sound, TypeOK
<1> HIDE DEF i
<1>5. ASSUME code' = code \/ Reoperanded(code, code'),
             world' \in [Index -> {"old", "new", "plain"}], to_resolve' \subseteq Index
      PROVE  Sound'
  BY <1>1, <1>3, <1>4, <1>5, SoundCode
<1>6. CASE UpdateTyped
  <2>1. code' = code /\ to_resolve' = to_resolve /\ world' = [world EXCEPT ![i] = "new"]
    BY <1>6, TypedSteps DEF i
  <2>2. world' \in [Index -> {"old", "new", "plain"}]
    BY <1>4, <2>1
  <2> QED BY <1>4, <1>5, <2>1, <2>2
<1>7. CASE update_inst_call
  <2> DEFINE w == World(code[i].args[1])
  <2>1. /\ code' = code /\ to_resolve' = to_resolve /\ code[i].op = "icall"
        /\ world' = [world EXCEPT ![i] = IF @ = "plain" THEN @ ELSE w]
    BY <1>7 DEF update_inst_call, Updating, i
  <2>2. 1 \in DOMAIN code[i].args
    BY <1>3, <1>4, <2>1 DEF WellFormed
  <2>3. Refers(code[i].args[1])
    BY <1>3, <1>4, <2>2, OldOperands
  <2>4. w \in {"old", "new", "plain"}
    BY <1>4, <2>3 DEF World, Refers, Computed
  <2> HIDE DEF w
  <2>5. world' \in [Index -> {"old", "new", "plain"}]
    BY <1>4, <2>1, <2>4
  <2> QED BY <1>4, <1>5, <2>1, <2>5
<1>8. CASE update_inst_icmp
  <2> DEFINE k == CHOOSE k \in {1, 2} : code[i].args[k] = OldNull
                                         /\ (k = 2 => code[i].args[1] # OldNull)
  <2>1. /\ world' = world /\ to_resolve' = to_resolve
        /\ code' = [code EXCEPT ![i].args[k] = NewNull]
    BY <1>8 DEF update_inst_icmp, i
  <2>2. NewNull \in Operand /\ Refers(NewNull)
    BY DEF NewNull, Operand, Kinds, Refers, Computed
  <2> HIDE DEF k
  <2>3. Reoperanded(code, code')
    BY <1>4, <2>1, <2>2, OneOperand
  <2> QED BY <1>4, <1>5, <2>1, <2>3
<1>9. CASE update_inst_phi
  <2>1. /\ world' = world /\ to_resolve' = to_resolve \cup {i}
        /\ code' = Replaced(code, val(i), cast(i))
    BY <1>9 DEF update_inst_phi, i
  <2>2. cast(i) \in Operand /\ Refers(cast(i))
    BY <1>3, NAssumption DEF cast, Operand, Kinds, Refers, Index
  <2>3. Reoperanded(code, code')
    BY <1>4, <2>1, <2>2, ReplacedOperands
  <2> QED BY <1>3, <1>4, <1>5, <2>1, <2>3
<1> QED BY <1>6, <1>7, <1>8, <1>9

LEMMA SoundResolve ==
  ASSUME Sound, NEW i \in Index, Resolve(i)
  PROVE  Sound'
<1>1. /\ pc = "resolve" /\ pc' = pc /\ at' = at
      /\ to_resolve' = to_resolve \ {i}
      /\ world' = [world EXCEPT ![i] = "new"]
      /\ code' = Replaced(code, cast(i), val(i))
      /\ UNCHANGED <<original, update_insts, heapStructInfo, walk, sweeps>>
  BY DEF Resolve
<1>2. /\ code \in [Index -> Instr] /\ WellFormed(code)
      /\ world \in [Index -> {"old", "new", "plain"}]
      /\ pc \in PCs /\ at \in 1 .. N + 1 /\ to_resolve \subseteq Index
      /\ update_insts \in Seq(Index)
      /\ \A c \in DOMAIN heapStructInfo :
           /\ c \in Index /\ code[c].op \in Allocs
           /\ heapStructInfo[c] \in [type : Types, count : Nat]
  BY DEF Sound, TypeOK
<1>3. val(i) \in Operand /\ Refers(val(i))
  BY NAssumption DEF val, Operand, Kinds, Refers, Index
<1>4. Reoperanded(code, code')
  BY <1>1, <1>2, <1>3, ReplacedOperands
<1>5. world' \in [Index -> {"old", "new", "plain"}]
  BY <1>1, <1>2
<1> QED BY <1>1, <1>2, <1>4, <1>5, SoundCode

LEMMA SoundPhase ==
  ASSUME Sound, Handled \/ Updated \/ Resolved \/ InstrumentOther \/ Finished
  PROVE  Sound'
<1>1. /\ UNCHANGED <<original, code, world, update_insts, to_resolve, heapStructInfo, walk, sweeps>>
      /\ pc' \in PCs /\ pc' # "walk" /\ at' \in {at, 1, at + 1}
      /\ at' = at + 1 => at \in Index
  BY DEF Handled, Updated, Resolved, InstrumentOther, Finished, rewriting, PCs, Sound, TypeOK
<1>2. at' \in 1 .. N + 1
  BY <1>1, NAssumption DEF Sound, TypeOK, Index
<1>3. /\ world \in [Index -> {"old", "new", "plain"}]
      /\ to_resolve \subseteq Index /\ update_insts \in Seq(Index)
      /\ \A c \in DOMAIN heapStructInfo :
           /\ c \in Index /\ code[c].op \in Allocs
           /\ heapStructInfo[c] \in [type : Types, count : Nat]
  BY DEF Sound, TypeOK
<1> QED BY <1>1, <1>2, <1>3, SoundCode

LEMMA SoundWalk ==
  ASSUME Sound, insert_heap_free \/ Walked \/ \E i \in Index : Visit(i)
  PROVE  Sound'
<1>1. UNCHANGED <<original, code, world, update_insts, to_resolve, heapStructInfo>>
  BY DEF insert_heap_free, Walked, Visit, rewriting
<1>2. /\ pc' \in PCs /\ at' \in 1 .. N + 1 /\ (pc' = "walk" => at' \in Index)
      /\ workList' \subseteq seen' /\ seen' \subseteq Index
      /\ allocations' \subseteq DOMAIN heapStructInfo
      /\ sweeps' \subseteq Index \X DOMAIN heapStructInfo
  <2>1. CASE insert_heap_free
    <3>1. FreedBy(at) \subseteq Index
      BY <2>1, OperandsOf DEF insert_heap_free, Sound, FreedBy
    <3> QED BY <2>1, <3>1 DEF insert_heap_free, Sound, TypeOK, PCs
  <2>2. CASE Walked
    <3>1. at \in Index
      BY <2>2 DEF Walked, Sound
    <3>2. pc' \in {"abort", "instrument"} /\ at' \in {at, at + 1}
      BY <2>2 DEF Walked
    <3>3. at' \in 1 .. N + 1
      BY <3>1, <3>2, NAssumption DEF Index
    <3>4. UNCHANGED <<workList, seen, allocations>>
      BY <2>2 DEF Walked, walk
    <3>5. sweeps' \subseteq Index \X DOMAIN heapStructInfo
      BY <2>2, <3>1 DEF Walked, Sound, TypeOK
    <3> QED BY <3>2, <3>3, <3>4, <3>5 DEF PCs, Sound, TypeOK
  <2>3. CASE \E i \in Index : Visit(i)
    <3>0. PICK i \in Index : Visit(i)
      BY <2>3
    <3> DEFINE new == {o[2] : o \in {u \in Uses(code, i) : Computed(u)}} \ seen
    <3>1. /\ UNCHANGED <<pc, at, sweeps>>
          /\ workList' = (workList \ {i}) \cup new
          /\ seen' = seen \cup new
          /\ allocations' = allocations \cup (new \cap DOMAIN heapStructInfo)
      BY <3>0 DEF Visit
    <3>2. new \subseteq Index
      BY OperandsOf DEF Sound
    <3> HIDE DEF new
    <3> QED BY <3>1, <3>2 DEF Sound, TypeOK
  <2> QED BY <2>1, <2>2, <2>3
<1> QED BY <1>1, <1>2 DEF Sound, TypeOK

LEMMA SoundNext == Sound /\ [Next]_vars => Sound'
<1> SUFFICES ASSUME Sound, [Next]_vars PROVE Sound'
  OBVIOUS
<1>1. CASE UNCHANGED vars
  BY <1>1 DEF vars, rewriting, walk, Sound, TypeOK
<1>2. CASE Next
  BY <1>2, SoundHandle, SoundUpdate, SoundResolve, SoundPhase, SoundWalk
    DEF Next, HandleTyped,
  HandleNothing, UpdateTyped
<1> QED BY <1>1, <1>2

(***************************************************************************)
(* No part of the pass refers to an instruction the function lacks, and    *)
(* only allocations get a struct type and a count: TypeOK always holds.    *)
(***************************************************************************)
THEOREM TypeCorrect == Spec => []TypeOK
<1>1. Sound => TypeOK
  BY DEF Sound
<1> QED BY <1>1, SoundInit, SoundNext, PTL DEF Spec

-----------------------------------------------------------------------------
(* What the walk finds                                                     *)

Found(f) == (Reach(FreedBy(f)) \ FreedBy(f)) \cap DOMAIN heapStructInfo

(* Everything seen is what the freed pointer is computed from, and what    *)
(* has been visited has no operand that was not seen.                      *)
Walking ==
  pc = "walk" =>
    /\ at \in Index /\ code[at].op = "free"
    /\ FreedBy(at) \subseteq seen /\ seen \subseteq Reach(FreedBy(at))
    /\ \A i \in seen \ workList : \A o \in Uses(code, i) : Computed(o) => o[2] \in seen
    /\ allocations = (seen \ FreedBy(at)) \cap DOMAIN heapStructInfo

Instruments == {"instrument", "walk", "done", "abort"}

(* The frees that have been instrumented sweep for what was found for them. *)
SweptSoFar ==
  /\ pc = "done" => at > N
  /\ pc \notin Instruments => sweeps = {}
  /\ \A f \in Index :
       {d \in Index : <<f, d>> \in sweeps} =
         IF pc \in Instruments /\ f < at /\ code[f].op = "free" THEN Found(f) ELSE {}

FreesInv == Sound /\ Walking /\ SweptSoFar

(* Reach stays where the operands stay.                                    *)
LEMMA FoundUnchanged ==
  ASSUME code' = code, heapStructInfo' = heapStructInfo, NEW f
  PROVE  /\ FreedBy(f)' = FreedBy(f) /\ Reach(FreedBy(f))' = Reach(FreedBy(f))
         /\ Found(f)' = Found(f)
<1>1. FreedBy(f)' = FreedBy(f)
  BY DEF FreedBy, Uses
<1>2. \A s : Closed(s)' <=> Closed(s)
  BY DEF Closed, Uses
<1>3. Reach(FreedBy(f))' = Reach(FreedBy(f))
  BY <1>1, <1>2 DEF Reach
<1> QED BY <1>1, <1>3 DEF Found

(* A set that has all operands of its members has all they are computed from. *)
LEMMA ReachLeast ==
  ASSUME NEW from, NEW s \in SUBSET Index, from \subseteq s, Closed(s)
  PROVE  Reach(from) \subseteq s
BY DEF Reach

LEMMA ReachStart ==
  ASSUME NEW from \in SUBSET Index
  PROVE  from \subseteq Reach(from)
BY DEF Reach

LEMMA ReachStep ==
  ASSUME NEW from, NEW i \in Reach(from), NEW o \in Uses(code, i),
         Computed(o), o[2] \in Index
  PROVE  o[2] \in Reach(from)
<1>1. ASSUME NEW s \in SUBSET Index, from \subseteq s, Closed(s)
      PROVE  o[2] \in s
  <2>1. i \in s
    BY <1>1 DEF Reach
  <2> QED BY <1>1, <2>1 DEF Closed
<1> QED BY <1>1 DEF Reach

LEMMA WalkEnds ==
  ASSUME Sound, Walking, pc = "walk", workList = {}
  PROVE  seen = Reach(FreedBy(at)) /\ allocations = Found(at)
<1>1. Closed(seen) /\ seen \in SUBSET Index
  BY DEF Closed, Walking, Sound, TypeOK
<1>2. seen = Reach(FreedBy(at))
  BY <1>1, ReachLeast DEF Walking
<1> QED BY <1>2 DEF Walking, Found

LEMMA FreesInit == Init => FreesInv
<1> SUFFICES ASSUME Init PROVE FreesInv
  OBVIOUS
<1>1. pc = "handle" /\ sweeps = {}
  BY DEF Init
<1> QED BY <1>1, SoundInit DEF FreesInv, Walking, SweptSoFar, Instruments

(* Steps that neither begin nor continue a walk, nor pass over a free.     *)
LEMMA FreesStay ==
  ASSUME FreesInv, Sound', pc' # "walk", sweeps' = sweeps,
         pc' = "done" => at' > N,
         \/ pc \notin Instruments /\ (pc' \in Instruments => at' = 1)
         \/ /\ pc \in Instruments /\ pc' \in Instruments
            /\ code' = code /\ heapStructInfo' = heapStructInfo
            /\ at' = at \/ (at \in Index /\ at' = at + 1 /\ code[at].op # "free")
  PROVE  FreesInv'
<1>1. Walking'
  BY DEF Walking
<1>2. CASE pc \notin Instruments /\ (pc' \in Instruments => at' = 1)
  <2>1. sweeps' = {}
    BY <1>2 DEF FreesInv, SweptSoFar
  <2>2. \A f \in Index : ~ (pc' \in Instruments /\ f < at')
    BY <1>2, NAssumption DEF Index
  <2>3. SweptSoFar'
    BY <2>1, <2>2 DEF SweptSoFar
  <2> QED BY <1>1, <2>3 DEF FreesInv
<1>3. CASE /\ pc \in Instruments /\ pc' \in Instruments
           /\ code' = code /\ heapStructInfo' = heapStructInfo
           /\ at' = at \/ (at \in Index /\ at' = at + 1 /\ code[at].op # "free")
  <2>1. \A f \in Index : Found(f)' = Found(f)
    BY <1>3, FoundUnchanged
  <2>2. at \in Nat
    BY NAssumption DEF FreesInv, Sound, TypeOK
  <2>3. \A f \in Index : (f < at' /\ code[f].op = "free") <=> (f < at /\ code[f].op = "free")
    BY <1>3, <2>2, NAssumption DEF Index
  <2>4. SweptSoFar'
    BY <1>3, <2>1, <2>3 DEF FreesInv, SweptSoFar
  <2> QED BY <1>1, <2>4 DEF FreesInv
<1> QED BY <1>2, <1>3

LEMMA FreesBegin ==
  ASSUME FreesInv, Sound', insert_heap_free
  PROVE  FreesInv'
<1>1. /\ pc = "instrument" /\ pc' = "walk" /\ at' = at /\ at \in Index /\ code[at].op = "free"
      /\ workList' = FreedBy(at) /\ seen' = FreedBy(at) /\ allocations' = {}
      /\ code' = code /\ heapStructInfo' = heapStructInfo /\ sweeps' = sweeps
  BY DEF insert_heap_free, rewriting
<1>2. FreedBy(at)' = FreedBy(at) /\ Reach(FreedBy(at))' = Reach(FreedBy(at))
  BY <1>1, FoundUnchanged
<1>3. FreedBy(at) \in SUBSET Index
  BY <1>1, OperandsOf DEF FreesInv, Sound, FreedBy
<1>4. Walking'
  BY <1>1, <1>2, <1>3, ReachStart DEF Walking
<1>5. SweptSoFar'
  BY <1>1, FoundUnchanged DEF FreesInv, SweptSoFar, Instruments
<1> QED BY <1>4, <1>5 DEF FreesInv

LEMMA FreesVisit ==
  ASSUME FreesInv, Sound', NEW i \in Index, Visit(i)
  PROVE  FreesInv'
<1> DEFINE from == FreedBy(at)
           new == {o[2] : o \in {u \in Uses(code, i) : Computed(u)}} \ seen
<1>1. /\ pc = "walk" /\ pc' = pc /\ at' = at /\ i \in workList
      /\ workList' = (workList \ {i}) \cup new /\ seen' = seen \cup new
      /\ allocations' = allocations \cup (new \cap DOMAIN heapStructInfo)
      /\ code' = code /\ heapStructInfo' = heapStructInfo /\ sweeps' = sweeps
  BY DEF Visit, rewriting
<1>2. FreedBy(at)' = from /\ Reach(FreedBy(at))' = Reach(from)
  BY <1>1, FoundUnchanged
<1>3. /\ at \in Index /\ code[at].op = "free"
      /\ from \subseteq seen /\ seen \subseteq Reach(from)
      /\ \A j \in seen \ workList : \A o \in Uses(code, j) : Computed(o) => o[2] \in seen
      /\ allocations = (seen \ from) \cap DOMAIN heapStructInfo
      /\ workList \subseteq seen
  BY <1>1 DEF FreesInv, Walking, Sound, TypeOK
<1>4. new \subseteq Reach(from)
  <2>1. i \in Reach(from)
    BY <1>1, <1>3
  <2>2. \A o \in Uses(code, i) : Computed(o) => o[2] \in Index
    BY DEF FreesInv, Sound, WellFormed, Uses
  <2> HIDE DEF from
  <2> QED BY <2>1, <2>2, ReachStep
<1>5. \A o \in Uses(code, i) : Computed(o) => o[2] \in seen \cup new
  OBVIOUS
<1> HIDE DEF new
<1>6. \A j \in seen' \ workList' : \A o \in Uses(code, j) : Computed(o) => o[2] \in seen'
  BY <1>1, <1>3, <1>5
<1>7. allocations' = (seen' \ from) \cap DOMAIN heapStructInfo
  <2>1. new \cap from = {}
    BY <1>3 DEF new
  <2> QED BY <1>1, <1>3, <2>1
<1>8. Walking'
  <2>1. Uses(code, at)' = Uses(code, at) /\ \A j : Uses(code', j) = Uses(code, j)
    BY <1>1 DEF Uses
  <2> HIDE DEF from
  <2> QED BY <1>1, <1>2, <1>3, <1>4, <1>6, <1>7, <2>1 DEF Walking
<1>9. SweptSoFar'
  BY <1>1, FoundUnchanged DEF FreesInv, SweptSoFar, Instruments
<1> QED BY <1>8, <1>9 DEF FreesInv

LEMMA FreesEnd ==
  ASSUME FreesInv, Sound', Walked
  PROVE  FreesInv'
<1>1. /\ pc = "walk" /\ workList = {} /\ code' = code /\ heapStructInfo' = heapStructInfo
      /\ \/ pc' = "abort" /\ at' = at /\ sweeps' = sweeps
         \/ /\ pc' = "instrument" /\ at' = at + 1
            /\ sweeps' = sweeps \cup {<<at, c>> : c \in allocations}
  BY DEF Walked, rewriting
<1>2. Walking'
  BY <1>1 DEF Walking
<1>3. CASE pc' = "abort" /\ at' = at /\ sweeps' = sweeps
  BY <1>1, <1>2, <1>3, FoundUnchanged DEF FreesInv, SweptSoFar, Instruments
<1>4. CASE /\ pc' = "instrument" /\ at' = at + 1
           /\ sweeps' = sweeps \cup {<<at, c>> : c \in allocations}
  <2>1. at \in Index /\ code[at].op = "free" /\ allocations = Found(at)
    BY <1>1, WalkEnds DEF FreesInv, Walking
  <2>2. \A f \in Index : Found(f)' = Found(f) /\ Found(f) \subseteq Index
    BY <1>1, FoundUnchanged DEF Found, Reach
  <2>3. ASSUME NEW f \in Index
        PROVE  {d \in Index : <<f, d>> \in sweeps'} =
                 IF f < at + 1 /\ code[f].op = "free" THEN Found(f) ELSE {}
    <3>1. {d \in Index : <<f, d>> \in sweeps} =
            IF f < at /\ code[f].op = "free" THEN Found(f) ELSE {}
      BY <1>1 DEF FreesInv, SweptSoFar, Instruments
    <3>2. CASE f = at
      <4>1. {d \in Index : <<f, d>> \in sweeps} = {}
        BY <2>1, <3>1, <3>2, NAssumption DEF Index
      <4>2. f < at + 1
        BY <2>1, <3>2, NAssumption DEF Index
      <4>3. {d \in Index : <<f, d>> \in sweeps'} = Found(f)
        BY <1>4, <2>1, <2>2, <3>2, <4>1
      <4> QED BY <2>1, <3>2, <4>2, <4>3
    <3>3. CASE f # at
      <4>1. f < at + 1 <=> f < at
        BY <2>1, <3>3, NAssumption DEF Index
      <4>2. \A d : <<f, d>> \in sweeps' <=> <<f, d>> \in sweeps
        BY <1>4, <3>3
      <4> QED BY <3>1, <4>1, <4>2
    <3> QED BY <3>2, <3>3
  <2>4. SweptSoFar'
    BY <1>1, <1>4, <2>2, <2>3 DEF SweptSoFar, Instruments
  <2> QED BY <1>2, <2>4 DEF FreesInv
<1> QED BY <1>1, <1>3, <1>4

LEMMA FreesNext == FreesInv /\ [Next]_vars => FreesInv'
<1> SUFFICES ASSUME FreesInv, [Next]_vars PROVE FreesInv'
  OBVIOUS
<1>1. Sound'
  BY SoundNext DEF FreesInv
<1>2. CASE UNCHANGED vars
  <2>1. UNCHANGED <<pc, at, code, heapStructInfo, workList, seen, allocations, sweeps>>
    BY <1>2 DEF vars, rewriting, walk
  <2>2. \A f : FreedBy(f)' = FreedBy(f) /\ Reach(FreedBy(f))' = Reach(FreedBy(f))
               /\ Found(f)' = Found(f)
    BY <2>1, FoundUnchanged
  <2>3. Walking'
    BY <2>1, <2>2 DEF FreesInv, Walking
  <2>4. SweptSoFar'
    BY <2>1, <2>2 DEF FreesInv, SweptSoFar
  <2> QED BY <1>1, <2>3, <2>4 DEF FreesInv
<1>3. CASE \/ HandleTyped \/ handle_bitcast \/ handle_icmp \/ handle_call \/ HandleNothing \/ Handled
           \/ UpdateTyped \/ update_inst_call \/ update_inst_icmp \/ update_inst_phi \/ Updated
           \/ Resolved \/ \E i \in Index : Resolve(i)
  <2>1. /\ pc \in {"handle", "update", "resolve"} /\ sweeps' = sweeps
        /\ \/ pc' \in {"handle", "update", "resolve"}
           \/ pc' = "instrument" /\ at' = 1
    BY <1>3, TypedSteps DEF handle_bitcast, handle_icmp, handle_call, HandleNothing, handle_store,
      NoHandler, Handling, Handled, update_inst_call, update_inst_icmp, update_inst_phi, Updating,
      Updated, Resolved, Resolve
  <2> QED BY <1>1, <2>1, FreesStay DEF Instruments
<1>4. CASE InstrumentOther \/ Finished
  BY <1>1, <1>4, FreesStay DEF InstrumentOther, Finished, rewriting, Instruments
<1>5. CASE insert_heap_free
  BY <1>1, <1>5, FreesBegin
<1>6. CASE \E i \in Index : Visit(i)
  BY <1>1, <1>6, FreesVisit
<1>7. CASE Walked
  BY <1>1, <1>7, FreesEnd
<1> QED BY <1>2, <1>3, <1>4, <1>5, <1>6, <1>7 DEF Next, HandleTyped,
  HandleNothing, UpdateTyped

LEMMA FreesAlways == Spec => []FreesInv
BY FreesInit, FreesNext, PTL DEF Spec

(***************************************************************************)
(* For every function, whatever its phi nodes: the walk from a free finds  *)
(* exactly the allocations of structs behind the freed pointer.            *)
(***************************************************************************)
THEOREM WalkCorrect == Spec => []WalkExact
<1>1. FreesInv => WalkExact
  BY WalkEnds DEF FreesInv, WalkExact, Found
<1> QED BY <1>1, FreesAlways, PTL

(***************************************************************************)
(* For every function: a pointer that comes from one allocation of structs *)
(* is swept for that allocation when it is freed, and for no other.        *)
(***************************************************************************)
THEOREM SweepsCorrect == Spec => []SweepsItsOwn
<1>1. ASSUME FreesInv, pc = "done", NEW f \in Index, NEW c \in Index,
             code[f].op = "free", ComesFrom(f, c)
      PROVE  {d \in Index : <<f, d>> \in sweeps} = {c} \cap (DOMAIN heapStructInfo \ FreedBy(f))
  <2>1. f < at
    BY <1>1, NAssumption DEF FreesInv, Sound, TypeOK, SweptSoFar, Index
  <2>2. {d \in Index : <<f, d>> \in sweeps} = Found(f)
    BY <1>1, <2>1 DEF FreesInv, SweptSoFar, Instruments
  <2>3. {i \in Reach(FreedBy(f)) : code[i].op \in Allocs} = {c}
    BY <1>1 DEF ComesFrom
  <2>4. \A d \in DOMAIN heapStructInfo : code[d].op \in Allocs
    BY <1>1 DEF FreesInv, Sound, TypeOK
  <2> QED BY <2>2, <2>3, <2>4 DEF Found
<1>2. FreesInv => SweepsItsOwn
  BY <1>1 DEF SweepsItsOwn
<1> QED BY <1>2, FreesAlways, PTL

-----------------------------------------------------------------------------
(* Where the retyping of the function stands                               *)

CallOps == {"call", "free"} \cup Allocs
TypedOps == {"alloca", "gep", "load", "cast", "pcast"}

Pending == {update_insts[k] : k \in DOMAIN update_insts}

OnceEach(s) == \A j, k \in DOMAIN s : s[j] = s[k] => j = k

(* The instructions that are queued when they are looked at.               *)
Queues(i) ==
  \/ original[i].op \in TypedOps \cup {"phi"} /\ original[i].type # None
  \/ original[i].op = "icall"
  \/ original[i].op = "icmp" /\ \E k \in DOMAIN original[i].args : original[i].args[k] = OldNull

SameShape(c, d) ==
  \A i \in Index :
    /\ d[i].op = c[i].op /\ d[i].type = c[i].type
    /\ DOMAIN d[i].args = DOMAIN c[i].args

QueueInv ==
  /\ original \in Functions
  /\ SameShape(original, code)
  /\ OnceEach(update_insts) /\ Pending \subseteq {i \in Index : Queues(i)}
  /\ to_resolve \subseteq {i \in Index : original[i].op = "phi" /\ original[i].type # None}
  /\ to_resolve \cap Pending = {}
  /\ pc = "handle" => to_resolve = {} /\ Pending = {i \in Index : i < at /\ Queues(i)}
  /\ pc \notin {"handle", "update"} => update_insts = <<>>
  /\ pc \notin {"handle", "update", "resolve"} => to_resolve = {}

(* A call through a pointer that is a parameter.                           *)
ThroughParameter(i) == original[i].op = "icall" /\ original[i].args[1] = Parameter

Retyped(i) ==
  \/ original[i].op = "call"
  \/ original[i].op \in TypedOps /\ pc # "handle" /\ i \notin Pending
  \/ ThroughParameter(i) /\ pc # "handle" /\ i \notin Pending
  \/ original[i].op = "phi" /\ pc # "handle" /\ i \notin Pending /\ i \notin to_resolve

WorldInv ==
  \A i \in Index :
    world[i] = IF original[i].type = None THEN "plain" ELSE IF Retyped(i) THEN "new" ELSE "old"

(* Whether the NULLs among the operands have been given their type.        *)
NullsDone(i) ==
  \/ original[i].op \in CallOps /\ (pc = "handle" => i < at)
  \/ original[i].op = "icmp" /\ pc # "handle" /\ i \notin Pending

Wanted(i, k) ==
  IF original[i].args[k] = OldNull /\ ~KeepsNull(i, k) /\ NullsDone(i)
  THEN NewNull ELSE original[i].args[k]

(* The result of a phi node whose bitcast stands for it.                   *)
Behind(o) == IF o[1] = "val" /\ o[2] \in to_resolve THEN cast(o[2]) ELSE o

ArgsInv ==
  \A i \in Index : \A k \in DOMAIN original[i].args :
    IF original[i].args[k][1] = "int"
    THEN code[i].args[k][1] = "int"
    ELSE code[i].args[k] = Behind(Wanted(i, k))

Tracked == QueueInv /\ WorldInv /\ ArgsInv

LEMMA Originals ==
  ASSUME original \in Functions
  PROVE  original \in [Index -> Instr] /\ WellFormed(original) /\ Compiled(original)
BY FunctionsAssumption

(* Operands of the original are no bitcasts behind phi nodes.              *)
LEMMA NoCasts ==
  ASSUME original \in Functions, NEW i \in Index, NEW k \in DOMAIN original[i].args, NEW j
  PROVE  original[i].args[k] # cast(j) /\ Wanted(i, k) # cast(j)
<1>1. original[i].args[k][1] # "cast"
  BY Originals DEF Compiled
<1> QED BY <1>1 DEF cast, Wanted, NewNull

LEMMA TrackedInit == Init => Tracked
<1> SUFFICES ASSUME Init PROVE Tracked
  OBVIOUS
<1>1. /\ original \in Functions /\ code = original /\ pc = "handle" /\ at = 1
      /\ world = [i \in Index |-> FirstWorld(original[i])]
      /\ update_insts = <<>> /\ to_resolve = {}
  BY DEF Init
<1>2. \A i \in Index : ~ (i < 1)
  BY NAssumption DEF Index
<1>3. Pending = {} /\ OnceEach(update_insts)
  BY <1>1 DEF Pending, OnceEach
<1>4. QueueInv
  BY <1>1, <1>2, <1>3 DEF QueueInv, SameShape
<1>5. WorldInv
  BY <1>1 DEF WorldInv, FirstWorld, Retyped
<1>6. \A i \in Index : \A k \in DOMAIN original[i].args :
        Behind(Wanted(i, k)) = original[i].args[k]
  BY <1>1, <1>2 DEF Behind, Wanted, NullsDone
<1>7. ArgsInv
  BY <1>1, <1>6 DEF ArgsInv
<1> QED BY <1>4, <1>5, <1>7 DEF Tracked

(* The queue as a set.                                                     *)
LEMMA Queued ==
  ASSUME update_insts \in Seq(Index), OnceEach(update_insts),
         NEW x \in Index, x \notin Pending, update_insts' = Append(update_insts, x)
  PROVE  OnceEach(update_insts') /\ Pending' = Pending \cup {x}
BY DEF OnceEach, Pending

LEMMA Unqueued ==
  ASSUME update_insts \in Seq(Index), OnceEach(update_insts), update_insts # <<>>,
         update_insts' = Tail(update_insts)
  PROVE  /\ OnceEach(update_insts') /\ Head(update_insts) \in Pending
         /\ Pending' = Pending \ {Head(update_insts)}
<1> DEFINE s == update_insts
           t == update_insts'
<1>1. /\ DOMAIN s = 1 .. Len(s) /\ Len(s) \in Nat \ {0} /\ DOMAIN t = 1 .. Len(s) - 1
      /\ \A k \in DOMAIN t : t[k] = s[k + 1] /\ k + 1 \in DOMAIN s
      /\ Head(s) = s[1]
  <2>1. s \in Seq(Index) /\ s # <<>> /\ t = Tail(s)
    OBVIOUS
  <2> HIDE DEF s, t
  <2>2. Len(s) \in Nat \ {0} /\ DOMAIN s = 1 .. Len(s) /\ Head(s) = s[1]
    BY <2>1
  <2>3. t \in Seq(Index) /\ Len(t) = Len(s) - 1
    BY <2>1
  <2>4. DOMAIN t = 1 .. Len(s) - 1
    BY <2>2, <2>3
  <2>5. \A k \in 1 .. Len(s) - 1 : t[k] = s[k + 1] /\ k + 1 \in 1 .. Len(s)
    BY <2>1, <2>2
  <2> QED BY <2>2, <2>4, <2>5
<1>2. \A k \in DOMAIN s : k # 1 => k - 1 \in DOMAIN t /\ t[k - 1] = s[k]
  BY <1>1
<1>3. OnceEach(t)
  BY <1>1 DEF OnceEach
<1>4. {t[k] : k \in DOMAIN t} \subseteq {s[k] : k \in DOMAIN s} \ {s[1]}
  BY <1>1 DEF OnceEach
<1>5. {s[k] : k \in DOMAIN s} \ {s[1]} \subseteq {t[k] : k \in DOMAIN t}
  BY <1>1, <1>2
<1>6. Pending' = {t[k] : k \in DOMAIN t} /\ Pending = {s[k] : k \in DOMAIN s}
  BY DEF Pending
<1>7. Head(s) = s[1] /\ s[1] \in {s[k] : k \in DOMAIN s}
  BY <1>1
<1> HIDE DEF s, t
<1>8. Pending' = Pending \ {Head(s)} /\ Head(s) \in Pending
  BY <1>4, <1>5, <1>6, <1>7
<1> QED BY <1>3, <1>8 DEF s, t

(* One operand is replaced: the others stay.                               *)
OneChanged(c, d, i, k, v) ==
  /\ SameShape(c, d)
  /\ \A j \in Index : \A l \in DOMAIN c[j].args :
       d[j].args[l] = IF j = i /\ l = k THEN v ELSE c[j].args[l]

LEMMA OneOperandAt ==
  ASSUME NEW c \in [Index -> Instr], NEW i \in Index, NEW k \in DOMAIN c[i].args, NEW v
  PROVE  OneChanged(c, [c EXCEPT ![i].args[k] = v], i, k, v)
<1> DEFINE d == [c EXCEPT ![i].args[k] = v]
           a == [c[i].args EXCEPT ![k] = v]
           e == [c[i] EXCEPT !.args = a]
<1>1. d = [c EXCEPT ![i] = e]
  OBVIOUS
<1>2. e.op = c[i].op /\ e.type = c[i].type /\ e.args = a
  <2>1. c[i] \in Instr
    OBVIOUS
  <2> HIDE DEF a
  <2> QED BY <2>1 DEF Instr
<1>3. DOMAIN a = DOMAIN c[i].args
      /\ \A l \in DOMAIN c[i].args : a[l] = IF l = k THEN v ELSE c[i].args[l]
  OBVIOUS
<1> HIDE DEF a, e, d
<1>4. d[i] = e /\ \A j \in Index : j # i => d[j] = c[j]
  BY <1>1
<1>5. OneChanged(c, d, i, k, v)
  BY <1>2, <1>3, <1>4 DEF SameShape, OneChanged
<1> QED BY <1>5 DEF d

LEMMA ReplacedAt ==
  ASSUME NEW c \in [Index -> Instr], NEW from, NEW to, NEW d, d = Replaced(c, from, to)
  PROVE  /\ SameShape(c, d)
         /\ \A j \in Index : \A l \in DOMAIN c[j].args :
              d[j].args[l] = IF c[j].args[l] = from THEN to ELSE c[j].args[l]
<1> SUFFICES ASSUME NEW j \in Index
             PROVE  /\ d[j].op = c[j].op /\ d[j].type = c[j].type
                    /\ DOMAIN d[j].args = DOMAIN c[j].args
                    /\ \A l \in DOMAIN c[j].args :
                         d[j].args[l] = IF c[j].args[l] = from THEN to ELSE c[j].args[l]
  BY DEF SameShape
<1> DEFINE a == [l \in DOMAIN c[j].args |-> IF c[j].args[l] = from THEN to ELSE c[j].args[l]]
<1>1. d[j] = [c[j] EXCEPT !.args = a]
  BY DEF Replaced
<1>2. c[j] \in Instr
  OBVIOUS
<1>3. DOMAIN a = DOMAIN c[j].args
      /\ \A l \in DOMAIN c[j].args : a[l] = IF c[j].args[l] = from THEN to ELSE c[j].args[l]
  OBVIOUS
<1> HIDE DEF a
<1>4. d[j].op = c[j].op /\ d[j].type = c[j].type /\ d[j].args = a
  BY <1>1, <1>2 DEF Instr
<1> QED BY <1>3, <1>4

(* While instructions are looked at, operands are what they were, but for  *)
(* numbers and the NULLs of calls.                                         *)
LEMMA HandledOperands ==
  ASSUME Tracked, pc = "handle", NEW i \in Index, NEW k \in DOMAIN original[i].args
  PROVE  /\ k \in DOMAIN code[i].args
         /\ original[i].args[k][1] = "int" <=> code[i].args[k][1] = "int"
         /\ original[i].args[k][1] # "int" => code[i].args[k] = Wanted(i, k)
         /\ ~NullsDone(i) => Wanted(i, k) = original[i].args[k]
<1>1. k \in DOMAIN code[i].args
  BY DEF Tracked, QueueInv, SameShape
<1>2. original[i].args[k][1] # "int" => code[i].args[k] = Wanted(i, k)
  BY DEF Tracked, ArgsInv, QueueInv, Behind
<1>3. original[i].args[k][1] = "int" => code[i].args[k][1] = "int"
  BY DEF Tracked, ArgsInv
<1>4. original[i].args[k][1] # "int" => Wanted(i, k)[1] # "int"
  BY DEF Wanted, NewNull
<1> QED BY <1>1, <1>2, <1>3, <1>4 DEF Wanted

LEMMA HandleQueue ==
  ASSUME Sound, Tracked, pc = "handle", at \in Index, at' = at + 1, pc' = pc,
         original' = original, to_resolve' = to_resolve, SameShape(original, code'),
         update_insts' = IF Queues(at) THEN Append(update_insts, at) ELSE update_insts
  PROVE  QueueInv'
<1>1. /\ update_insts \in Seq(Index) /\ OnceEach(update_insts)
      /\ Pending = {i \in Index : i < at /\ Queues(i)} /\ to_resolve = {}
      /\ original \in Functions
  BY DEF Sound, TypeOK, Tracked, QueueInv
<1>2. \A i \in Index : Queues(i)' <=> Queues(i)
  BY DEF Queues
<1>3. ~ (at < at) /\ \A i \in Index : i < at + 1 <=> i < at \/ i = at
  BY NAssumption DEF Index
<1>4. OnceEach(update_insts') /\ Pending' = {i \in Index : i < at + 1 /\ Queues(i)}
  <2>1. CASE Queues(at)
    <3>1. at \notin Pending
      BY <1>1, <1>3
    <3>2. OnceEach(update_insts') /\ Pending' = Pending \cup {at}
      BY <1>1, <2>1, <3>1, Queued
    <3> QED BY <1>1, <1>3, <2>1, <3>2
  <2>2. CASE ~Queues(at)
    <3>1. OnceEach(update_insts') /\ Pending' = Pending
      BY <1>1, <2>2 DEF Pending
    <3> QED BY <1>1, <1>3, <2>2, <3>1
  <2> QED BY <2>1, <2>2
<1>5. Pending' = {i \in Index : i < at' /\ Queues(i)'}
  BY <1>2, <1>4
<1> HIDE DEF Pending
<1> QED BY <1>1, <1>4, <1>5 DEF QueueInv

LEMMA HandleWorld ==
  ASSUME Tracked, pc = "handle", pc' = pc, original' = original, world' = world
  PROVE  WorldInv'
BY DEF Tracked, WorldInv, Retyped

LEMMA TrackedHandle ==
  ASSUME Sound, Tracked,
         HandleTyped \/ handle_bitcast \/ handle_icmp \/ handle_call \/ HandleNothing
  PROVE  Tracked'
<1>1. /\ pc = "handle" /\ pc' = pc /\ at \in Index /\ at' = at + 1
      /\ UNCHANGED <<original, world, to_resolve, walk, sweeps>>
  BY TypedSteps DEF handle_bitcast, handle_icmp, handle_call, HandleNothing, handle_store,
    NoHandler, Handling
<1>2. /\ original \in Functions /\ SameShape(original, code) /\ to_resolve = {}
      /\ code \in [Index -> Instr] /\ WellFormed(code)
      /\ code[at].op = original[at].op /\ code[at].type = original[at].type
      /\ DOMAIN code[at].args = DOMAIN original[at].args
  BY <1>1 DEF Tracked, QueueInv, SameShape, Sound, TypeOK
<1>3. ~ (at < at) /\ \A i \in Index : i < at + 1 <=> i < at \/ i = at
  BY <1>1, NAssumption DEF Index
<1>4. WorldInv'
  BY <1>1, HandleWorld
<1>5. ASSUME SameShape(code, code'),
             update_insts' = IF Queues(at) THEN Append(update_insts, at) ELSE update_insts
      PROVE  QueueInv'
  <2>1. SameShape(original, code')
    BY <1>2, <1>5 DEF SameShape
  <2> QED BY <1>1, <1>5, <2>1, HandleQueue
<1>6. ASSUME original[at].op \notin CallOps, NEW i \in Index, NEW k \in DOMAIN original[i].args
      PROVE  Wanted(i, k)' = Wanted(i, k)
  BY <1>1, <1>3, <1>6 DEF Wanted, KeepsNull, NullsDone
<1>7. \A o : Behind(o)' = o
  BY <1>1, <1>2 DEF Behind
<1>8. ASSUME original[at].op \notin CallOps, code' = code
      PROVE  ArgsInv'
  <2>1. \A i \in Index : \A k \in DOMAIN original[i].args :
          IF original[i].args[k][1] = "int"
          THEN code'[i].args[k][1] = "int"
          ELSE code'[i].args[k] = Wanted(i, k)'
    BY <1>1, <1>6, <1>8, HandledOperands
  <2> QED BY <1>1, <1>7, <2>1 DEF ArgsInv
<1>9. CASE HandleTyped
  <2>1. /\ code' = code
        /\ original[at].op \in HandleOps
    BY <1>2, <1>9, TypedSteps DEF Handling
  <2>2. update_insts' = IF Queues(at) THEN Append(update_insts, at) ELSE update_insts
    BY <1>2, <1>9, <2>1 DEF HandleTyped, handle_alloca, handle_gep, handle_load, handle_phi,
      Queueing, Handling, Queues, TypedOps, HandleOps, LeftAlone
  <2>3. original[at].op \notin CallOps
    BY <2>1 DEF CallOps, Allocs, HandleOps
  <2>4. SameShape(code, code')
    BY <2>1 DEF SameShape
  <2> QED BY <1>4, <1>5, <1>8, <2>1, <2>2, <2>3, <2>4 DEF Tracked
<1>10. CASE HandleNothing
  <2>1. code' = code /\ update_insts' = update_insts
        /\ original[at].op \in {"store", "ret", "select", "ptrtoint", "inttoptr"}
    BY <1>2, <1>10 DEF HandleNothing, handle_store, NoHandler, Handling
  <2>2. original[at].op \notin CallOps /\ ~Queues(at)
    BY <2>1 DEF CallOps, Allocs, Queues, TypedOps
  <2>3. SameShape(code, code')
    BY <2>1 DEF SameShape
  <2> QED BY <1>4, <1>5, <1>8, <2>1, <2>2, <2>3 DEF Tracked
<1>11. CASE handle_icmp
  <2>1. /\ code' = code /\ original[at].op = "icmp"
        /\ update_insts' =
             IF OldNull \in Uses(code, at) THEN Append(update_insts, at) ELSE update_insts
    BY <1>2, <1>11 DEF handle_icmp, Handling
  <2>2. original[at].op \notin CallOps
    BY <2>1 DEF CallOps, Allocs
  <2>3. ~NullsDone(at)
    BY <1>1, <2>1 DEF NullsDone, CallOps, Allocs
  <2>4. \A k \in DOMAIN original[at].args :
          code[at].args[k] = OldNull <=> original[at].args[k] = OldNull
    BY <1>1, <2>3, HandledOperands DEF OldNull
  <2>5. OldNull \in Uses(code, at) <=> Queues(at)
    BY <1>2, <2>1, <2>4 DEF Uses, Queues, TypedOps
  <2>6. SameShape(code, code')
    BY <2>1 DEF SameShape
  <2> QED BY <1>4, <1>5, <1>8, <2>1, <2>2, <2>5, <2>6 DEF Tracked
<1>12. CASE handle_bitcast
  <2> DEFINE t == code[at].type
             o == code[at].args[1]
             c == o[2]
             k == SizeArg(code[c])
             s == code[c].args[k]
  <2>1. /\ original[at].op \in {"cast", "pcast", "acast"}
        /\ update_insts' = IF Queues(at) THEN Append(update_insts, at) ELSE update_insts
    BY <1>2, <1>12 DEF handle_bitcast, Handling, Queues, TypedOps, LeftAlone
  <2>3. original[at].op \notin CallOps
    BY <2>1 DEF CallOps, Allocs
  <2>4. CASE code' = code
    <3>1. SameShape(code, code')
      BY <2>4 DEF SameShape
    <3> QED BY <1>4, <1>5, <1>8, <2>1, <2>3, <2>4, <3>1 DEF Tracked
  <2>5. CASE code' # code
    <3>1. /\ t # None /\ Computed(o) /\ code[c].op \in Allocs /\ s[1] = "int"
          /\ code' = [code EXCEPT ![c].args[k] = <<"int", Rescaled(s[2], t)>>]
      BY <1>12, <2>5 DEF handle_bitcast
    <3>2. 1 \in DOMAIN code[at].args
      BY <1>1, <1>2, <2>1 DEF WellFormed
    <3>3. c \in Index
      BY <1>1, <1>2, <3>1, <3>2, OldOperands DEF Refers
    <3>4. k \in DOMAIN code[c].args
      BY <1>2, <3>1, <3>3 DEF WellFormed, SizeArg, Allocs
    <3>5. original[c].args[k][1] = "int" /\ k \in DOMAIN original[c].args
      BY <1>1, <1>2, <3>1, <3>3, <3>4, HandledOperands DEF SameShape
    <3> DEFINE v == <<"int", Rescaled(s[2], t)>>
    <3>6. v[1] = "int"
      OBVIOUS
    <3>10. code' = [code EXCEPT ![c].args[k] = v]
      BY <3>1
    <3> HIDE DEF t, s, k, c, o, v
    <3>7. /\ SameShape(code, code')
          /\ \A j \in Index : \A l \in DOMAIN code[j].args :
               code'[j].args[l] = IF j = c /\ l = k THEN v ELSE code[j].args[l]
      <4>1. code \in [Index -> Instr]
        BY <1>2
      <4>2. OneChanged(code, code', c, k, v)
        BY <3>3, <3>4, <3>10, <4>1, OneOperandAt
      <4> QED BY <4>2 DEF OneChanged
    <3>8. \A i \in Index : \A l \in DOMAIN original[i].args :
            IF original[i].args[l][1] = "int"
            THEN code'[i].args[l][1] = "int"
            ELSE code'[i].args[l] = Wanted(i, l)'
      BY <1>1, <1>2, <1>6, <2>3, <3>5, <3>6, <3>7, HandledOperands
    <3>9. ArgsInv'
      BY <1>1, <1>7, <3>8 DEF ArgsInv
    <3> QED BY <1>4, <1>5, <2>1, <3>7, <3>9 DEF Tracked
  <2> QED BY <2>4, <2>5
<1>13. CASE handle_call
  <2>1. original[at].op \in {"icall"} \cup CallOps
    BY <1>2, <1>13 DEF handle_call, Handling, CallOps, Allocs
  <2>2. CASE original[at].op = "icall"
    <3>1. code' = code /\ update_insts' = Append(update_insts, at) /\ Queues(at)
      BY <1>2, <1>13, <2>2 DEF handle_call, Queues
    <3>2. original[at].op \notin CallOps
      BY <2>2 DEF CallOps, Allocs
    <3>3. SameShape(code, code')
      BY <3>1 DEF SameShape
    <3> QED BY <1>4, <1>5, <1>8, <3>1, <3>2, <3>3 DEF Tracked
  <2>3. CASE original[at].op # "icall"
    <3> DEFINE a == [k \in DOMAIN code[at].args |->
                       IF code[at].args[k] = OldNull THEN NewNull ELSE code[at].args[k]]
               e == [code[at] EXCEPT !.args = a]
    <3>1. code' = [code EXCEPT ![at] = e] /\ update_insts' = update_insts
      BY <1>2, <1>13, <2>3 DEF handle_call
    <3>2. original[at].op \in CallOps /\ ~Queues(at)
      BY <2>1, <2>3 DEF CallOps, Allocs, Queues, TypedOps
    <3>3. /\ DOMAIN a = DOMAIN code[at].args
          /\ \A k \in DOMAIN code[at].args :
               a[k] = IF code[at].args[k] = OldNull THEN NewNull ELSE code[at].args[k]
      OBVIOUS
    <3> HIDE DEF a
    <3>4. e.op = code[at].op /\ e.type = code[at].type /\ e.args = a
      <4>1. code[at] \in Instr
        BY <1>1, <1>2
      <4> QED BY <4>1 DEF Instr
    <3> HIDE DEF e
    <3>5. code'[at] = e /\ \A j \in Index : j # at => code'[j] = code[j]
      BY <1>1, <1>2, <3>1
    <3>6. SameShape(code, code')
      BY <3>3, <3>4, <3>5 DEF SameShape
    <3>7. ASSUME NEW i \in Index, NEW k \in DOMAIN original[i].args
          PROVE  IF original[i].args[k][1] = "int"
                 THEN code'[i].args[k][1] = "int"
                 ELSE code'[i].args[k] = Wanted(i, k)'
      <4>1. CASE i # at
        <5>1. Wanted(i, k)' = Wanted(i, k)
          BY <1>1, <1>3, <4>1 DEF Wanted, KeepsNull, NullsDone
        <5> QED BY <1>1, <3>5, <4>1, <5>1, HandledOperands
      <4>2. CASE i = at
        <5>1. ~NullsDone(i) /\ NullsDone(i)' /\ ~KeepsNull(i, k)'
          BY <1>1, <1>3, <3>2, <4>2 DEF NullsDone, KeepsNull, CallOps, Allocs
        <5>2. Wanted(i, k)' = IF original[i].args[k] = OldNull THEN NewNull ELSE original[i].args[k]
          BY <1>1, <5>1 DEF Wanted
        <5>3. /\ k \in DOMAIN code[i].args
              /\ original[i].args[k][1] = "int" => code[i].args[k][1] = "int"
              /\ original[i].args[k][1] # "int" => code[i].args[k] = original[i].args[k]
          BY <1>1, <5>1, HandledOperands
        <5>4. code'[i].args[k] =
                IF code[i].args[k] = OldNull THEN NewNull ELSE code[i].args[k]
          BY <3>3, <3>4, <3>5, <4>2, <5>3
        <5> QED BY <5>2, <5>3, <5>4 DEF OldNull
      <4> QED BY <4>1, <4>2
    <3>8. ArgsInv'
      BY <1>1, <1>7, <3>7 DEF ArgsInv
    <3> QED BY <1>4, <1>5, <3>1, <3>2, <3>6, <3>8 DEF Tracked
  <2> QED BY <2>2, <2>3
<1> QED BY <1>9, <1>10, <1>11, <1>12, <1>13

LEMMA TrackedUpdate ==
  ASSUME Sound, Tracked, UpdateTyped \/ update_inst_call \/ update_inst_icmp \/ update_inst_phi
  PROVE  Tracked'
<1>0. PICK h : h = Head(update_insts)
  OBVIOUS
<1>1. /\ pc = "update" /\ pc' = pc /\ update_insts # <<>> /\ update_insts' = Tail(update_insts)
      /\ UNCHANGED <<original, at, heapStructInfo, walk, sweeps>>
  BY TypedSteps DEF update_inst_call, update_inst_icmp, update_inst_phi, Updating
<1>2. /\ original \in Functions /\ SameShape(original, code)
      /\ code \in [Index -> Instr] /\ WellFormed(code)
      /\ update_insts \in Seq(Index) /\ OnceEach(update_insts)
  BY DEF Tracked, QueueInv, Sound, TypeOK
<1>3. OnceEach(update_insts') /\ h \in Pending /\ Pending' = Pending \ {h}
  BY <1>0, <1>1, <1>2, Unqueued
<1>4. /\ h \in Index /\ Queues(h) /\ h \notin to_resolve
      /\ code[h].op = original[h].op /\ code[h].type = original[h].type
      /\ DOMAIN code[h].args = DOMAIN original[h].args
  BY <1>2, <1>3 DEF Tracked, QueueInv, SameShape
<1> HIDE DEF Pending
<1>5. ASSUME SameShape(code, code'),
             \/ to_resolve' = to_resolve
             \/ /\ to_resolve' = to_resolve \cup {h}
                /\ original[h].op = "phi" /\ original[h].type # None
      PROVE  QueueInv'
  <2>1. SameShape(original, code')
    BY <1>2, <1>5 DEF SameShape
  <2>2. \A i \in Index : Queues(i)' <=> Queues(i)
    BY <1>1 DEF Queues
  <2>3. /\ Pending \subseteq {i \in Index : Queues(i)}
        /\ to_resolve \subseteq {i \in Index : original[i].op = "phi" /\ original[i].type # None}
        /\ to_resolve \cap Pending = {}
    BY DEF Tracked, QueueInv
  <2>4. Pending' \subseteq {i \in Index : Queues(i)'}
    BY <1>3, <2>2, <2>3
  <2>5. to_resolve' \subseteq {i \in Index : original[i].op = "phi" /\ original[i].type # None}
    BY <1>4, <1>5, <2>3
  <2>6. to_resolve' \cap Pending' = {}
    BY <1>3, <1>5, <2>3
  <2> QED BY <1>1, <1>2, <1>3, <2>1, <2>4, <2>5, <2>6 DEF QueueInv
<1>6. ASSUME to_resolve' = to_resolve, NEW i \in Index, i # h
      PROVE  Retyped(i)' <=> Retyped(i)
  BY <1>1, <1>3, <1>6 DEF Retyped, ThroughParameter
<1>7. ASSUME original[h].op # "icmp", NEW i \in Index, NEW k \in DOMAIN original[i].args
      PROVE  Wanted(i, k)' = Wanted(i, k)
  BY <1>1, <1>3, <1>7 DEF Wanted, KeepsNull, NullsDone
<1>8. ASSUME to_resolve' = to_resolve, original[h].op # "icmp", code' = code
      PROVE  ArgsInv'
  BY <1>1, <1>7, <1>8 DEF Tracked, ArgsInv, Behind
<1>9. CASE UpdateTyped
  <2>1. /\ original[h].op \in TypedOps /\ code' = code /\ to_resolve' = to_resolve
        /\ world' = [world EXCEPT ![h] = "new"]
    BY <1>0, <1>4, <1>9, TypedSteps DEF Updating, TypedOps
  <2>2. original[h].type # None /\ original[h].op # "icmp"
    BY <1>4, <2>1 DEF Queues, TypedOps
  <2>3. Retyped(h)'
    BY <1>1, <1>3, <2>1 DEF Retyped
  <2>4. world'[h] = "new" /\ \A i \in Index : i # h => world'[i] = world[i]
    BY <1>4, <2>1 DEF Sound, TypeOK
  <2>5. WorldInv'
    BY <1>1, <1>6, <2>1, <2>2, <2>3, <2>4 DEF Tracked, WorldInv
  <2>6. SameShape(code, code')
    BY <2>1 DEF SameShape
  <2> QED BY <1>5, <1>8, <2>1, <2>2, <2>5, <2>6 DEF Tracked
<1>10. CASE update_inst_call
  <2>1. /\ original[h].op = "icall" /\ code' = code /\ to_resolve' = to_resolve
        /\ world' = [world EXCEPT ![h] = IF @ = "plain" THEN @ ELSE World(code[h].args[1])]
    BY <1>0, <1>4, <1>10 DEF update_inst_call, Updating
  <2>2. ~Retyped(h) /\ (Retyped(h)' <=> ThroughParameter(h))
    BY <1>1, <1>3, <2>1 DEF Retyped, ThroughParameter, TypedOps
  <2>3. world[h] = IF original[h].type = None THEN "plain" ELSE "old"
    BY <1>4, <2>2 DEF Tracked, WorldInv
  <2>4. world' = [world EXCEPT ![h] = IF world[h] = "plain" THEN "plain" ELSE World(code[h].args[1])]
    BY <2>1
  <2>5. 1 \in DOMAIN original[h].args
    BY <1>2, <1>4, <2>1, Originals DEF WellFormed
  <2>6. ASSUME ThroughParameter(h)
        PROVE  World(code[h].args[1]) = "new"
    <3>1. Wanted(h, 1) = Parameter /\ original[h].args[1][1] # "int"
      BY <2>6 DEF ThroughParameter, Wanted, Parameter, OldNull
    <3>2. Behind(Parameter) = Parameter
      BY DEF Behind, Parameter
    <3>3. code[h].args[1] = Parameter
      BY <1>4, <2>5, <3>1, <3>2 DEF Tracked, ArgsInv
    <3>4. World(Parameter) = "new"
      BY DEF World, Parameter, OldNull
    <3> QED BY <3>3, <3>4
  <2>7. ASSUME original[h].type # None, ~ThroughParameter(h)
        PROVE  World(code[h].args[1]) = "old"
    <3>1. PICK j \in Index : /\ original[h].args[1] = val(j)
                             /\ original[j].op = "fload" /\ original[j].type # None
      BY <1>2, <1>4, <2>1, <2>7, Originals DEF Compiled, ThroughParameter
    <3>2. j \notin to_resolve
      BY <3>1 DEF Tracked, QueueInv
    <3>3. Wanted(h, 1) = val(j) /\ original[h].args[1][1] # "int"
      BY <3>1 DEF Wanted, val, OldNull
    <3>4. Behind(val(j)) = val(j)
      BY <3>2 DEF Behind, val
    <3>5. code[h].args[1] = val(j)
      BY <1>4, <2>5, <3>3, <3>4 DEF Tracked, ArgsInv
    <3>6. ~Retyped(j)
      BY <3>1 DEF Retyped, ThroughParameter, TypedOps
    <3>7. world[j] = "old"
      BY <3>1, <3>6 DEF Tracked, WorldInv
    <3>8. World(val(j)) = world[j]
      BY DEF World, val, NewNull, OldNull, Parameter
    <3> QED BY <3>5, <3>7, <3>8
  <2>9. world'[h] = IF original[h].type = None THEN "plain"
                    ELSE IF ThroughParameter(h) THEN "new" ELSE "old"
    <3>1. world \in [Index -> {"old", "new", "plain"}]
      BY DEF Sound, TypeOK
    <3>2. world'[h] = IF world[h] = "plain" THEN "plain" ELSE World(code[h].args[1])
      BY <1>4, <2>4, <3>1
    <3> QED BY <2>3, <2>6, <2>7, <3>2
  <2>10. \A i \in Index : i # h => world'[i] = world[i]
    BY <2>4 DEF Sound, TypeOK
  <2>11. WorldInv'
    BY <1>1, <1>6, <2>1, <2>2, <2>9, <2>10 DEF Tracked, WorldInv
  <2>8. SameShape(code, code')
    BY <2>1 DEF SameShape
  <2> QED BY <1>5, <1>8, <2>1, <2>8, <2>11 DEF Tracked
<1>11. CASE update_inst_phi
  <2>1. /\ original[h].op = "phi" /\ code' = Replaced(code, val(h), cast(h))
        /\ to_resolve' = to_resolve \cup {h} /\ world' = world
    BY <1>0, <1>4, <1>11 DEF update_inst_phi, Updating
  <2> DEFINE B(o) == IF o[1] = "val" /\ o[2] \in to_resolve \cup {h} THEN cast(o[2]) ELSE o
  <2>2. original[h].type # None /\ original[h].op # "icmp"
    BY <1>4, <2>1 DEF Queues, TypedOps
  <2>3. \A i \in Index : Retyped(i)' <=> Retyped(i)
    BY <1>1, <1>3, <2>1 DEF Retyped, ThroughParameter, TypedOps
  <2>4. WorldInv'
    BY <1>1, <2>1, <2>3 DEF Tracked, WorldInv
  <2>5. /\ SameShape(code, code')
        /\ \A j \in Index : \A l \in DOMAIN code[j].args :
             code'[j].args[l] = IF code[j].args[l] = val(h) THEN cast(h) ELSE code[j].args[l]
    <3> HIDE DEF SameShape
    <3> QED BY <1>2, <2>1, ReplacedAt
  <2>6. ASSUME NEW i \in Index, NEW k \in DOMAIN original[i].args
        PROVE  IF original[i].args[k][1] = "int"
               THEN code'[i].args[k][1] = "int"
               ELSE code'[i].args[k] = B(Wanted(i, k))
    <3> DEFINE w == Wanted(i, k)
               a == code[i].args[k]
    <3>1. code'[i].args[k] = IF a = val(h) THEN cast(h) ELSE a
      BY <1>2, <2>5 DEF SameShape
    <3>2. CASE original[i].args[k][1] = "int"
      <4>1. a[1] = "int"
        BY <3>2 DEF Tracked, ArgsInv
      <4> HIDE DEF a
      <4> QED BY <3>1, <3>2, <4>1 DEF val
    <3>3. CASE original[i].args[k][1] # "int"
      <4>1. a = Behind(w)
        BY <3>3 DEF Tracked, ArgsInv
      <4>3. w = OldNull \/ w = NewNull \/ w = original[i].args[k]
        BY DEF Wanted
      <4>4. w \in Operand
        BY <1>2, <4>3, Originals, OldOperands DEF OldNull, NewNull, Operand, Kinds
      <4>5. \A j : w # cast(j)
        BY <1>2, NoCasts
      <4> HIDE DEF a, w
      <4>6. B(w) = IF Behind(w) = val(h) THEN cast(h) ELSE Behind(w)
        <5>1. CASE w = val(h)
          BY <1>4, <5>1 DEF Behind, val
        <5>2. CASE w # val(h)
          <6>1. w[1] = "val" => w[2] # h
            BY <4>4, <5>2 DEF val, Operand
          <6>2. B(w) = Behind(w)
            BY <6>1 DEF Behind
          <6>3. Behind(w) # val(h)
            BY <5>2 DEF Behind, val, cast
          <6> QED BY <6>2, <6>3
        <5> QED BY <5>1, <5>2
      <4> QED BY <3>1, <3>3, <4>1, <4>6 DEF a, w
    <3> QED BY <3>2, <3>3
  <2>7. ArgsInv'
    BY <1>1, <1>7, <2>1, <2>2, <2>6 DEF ArgsInv, Behind
  <2> QED BY <1>5, <2>1, <2>2, <2>4, <2>5, <2>7 DEF Tracked
<1>12. CASE update_inst_icmp
  <2>1. /\ original[h].op = "icmp" /\ to_resolve' = to_resolve /\ world' = world
    BY <1>0, <1>4, <1>12 DEF update_inst_icmp, Updating
  <2>2. /\ original[h].type = None /\ DOMAIN original[h].args = {1, 2}
        /\ \E l \in {1, 2} : original[h].args[l] = OldNull
    BY <1>2, <1>4, <2>1, Originals DEF Compiled, Queues, TypedOps
  <2>3. WorldInv'
    BY <1>1, <1>6, <2>1, <2>2 DEF Tracked, WorldInv
  <2> DEFINE n == IF original[h].args[1] = OldNull THEN 1 ELSE 2
  <2>4. ~NullsDone(h) /\ NullsDone(h)'
    BY <1>1, <1>3, <2>1 DEF NullsDone, CallOps, Allocs
  <2>5. \A l \in {1, 2} : code[h].args[l] = OldNull <=> original[h].args[l] = OldNull
    <3> TAKE l \in {1, 2}
    <3>1. Wanted(h, l) = original[h].args[l]
      BY <2>4 DEF Wanted
    <3>2. IF original[h].args[l][1] = "int" THEN code[h].args[l][1] = "int"
          ELSE code[h].args[l] = Behind(original[h].args[l])
      BY <1>4, <2>2, <3>1 DEF Tracked, ArgsInv
    <3> QED BY <3>2 DEF Behind, OldNull, cast
  <2>6. code' = [code EXCEPT ![h].args[n] = NewNull]
    <3>1. n = CHOOSE k \in {1, 2} : code[h].args[k] = OldNull
                                    /\ (k = 2 => code[h].args[1] # OldNull)
      BY <2>2, <2>5
    <3> HIDE DEF n
    <3> QED BY <1>0, <1>12, <3>1 DEF update_inst_icmp
  <2>7. n \in DOMAIN code[h].args /\ n \in {1, 2}
    BY <1>4, <2>2
  <2>8. n = 1 \/ original[h].args[1] # OldNull
    OBVIOUS
  <2>9. original[h].args[n] = OldNull
    BY <2>2
  <2> HIDE DEF n
  <2>10. OneChanged(code, code', h, n, NewNull)
    BY <1>2, <1>4, <2>6, <2>7, OneOperandAt
  <2>11. ASSUME NEW i \in Index, NEW k \in DOMAIN original[i].args
         PROVE  IF original[i].args[k][1] = "int"
                THEN code'[i].args[k][1] = "int"
                ELSE code'[i].args[k] = Behind(Wanted(i, k)')
    <3>1. code'[i].args[k] = IF i = h /\ k = n THEN NewNull ELSE code[i].args[k]
      BY <1>2, <2>10 DEF OneChanged, SameShape
    <3>3. CASE i # h
      <4>1. Wanted(i, k)' = Wanted(i, k)
        BY <1>1, <1>3, <3>3 DEF Wanted, KeepsNull, NullsDone
      <4> QED BY <3>1, <3>3, <4>1 DEF Tracked, ArgsInv
    <3>4. CASE i = h /\ k = n
      <4>1. ~KeepsNull(h, n)
        BY <2>1, <2>8, <2>7 DEF KeepsNull
      <4>2. Wanted(i, k)' = NewNull
        BY <1>1, <2>4, <2>9, <3>4, <4>1 DEF Wanted, KeepsNull
      <4>3. Behind(NewNull) = NewNull
        BY DEF Behind, NewNull
      <4> QED BY <2>9, <3>1, <3>4, <4>2, <4>3 DEF OldNull
    <3>5. CASE i = h /\ k # n
      <4>1. Wanted(i, k) = original[i].args[k]
        BY <2>4, <3>5 DEF Wanted
      <4>2. original[i].args[k] = OldNull => KeepsNull(i, k)
        BY <2>1, <2>2, <2>7, <2>8, <2>9, <3>5 DEF KeepsNull
      <4>3. Wanted(i, k)' = original[i].args[k]
        BY <1>1, <4>2 DEF Wanted, KeepsNull
      <4> QED BY <3>1, <3>5, <4>1, <4>3 DEF Tracked, ArgsInv
    <3> QED BY <3>3, <3>4, <3>5
  <2>12. ArgsInv'
    BY <1>1, <2>1, <2>11 DEF ArgsInv, Behind
  <2>13. SameShape(code, code')
    BY <2>10 DEF OneChanged
  <2> QED BY <1>5, <2>1, <2>3, <2>12, <2>13 DEF Tracked
<1> QED BY <1>9, <1>10, <1>11, <1>12


LEMMA TrackedResolve ==
  ASSUME Sound, Tracked, NEW i \in Index, Resolve(i)
  PROVE  Tracked'
<1>1. /\ pc = "resolve" /\ pc' = pc /\ i \in to_resolve /\ to_resolve' = to_resolve \ {i}
      /\ world' = [world EXCEPT ![i] = "new"]
      /\ code' = Replaced(code, cast(i), val(i))
      /\ UNCHANGED <<original, at, update_insts>>
  BY DEF Resolve
<1>2. /\ original \in Functions /\ SameShape(original, code)
      /\ code \in [Index -> Instr] /\ WellFormed(code)
      /\ update_insts = <<>> /\ OnceEach(update_insts)
      /\ original[i].op = "phi" /\ original[i].type # None
  BY <1>1 DEF Tracked, QueueInv, Sound, TypeOK
<1>3. Pending = {} /\ Pending' = {}
  BY <1>1, <1>2 DEF Pending
<1>4. /\ SameShape(code, code')
      /\ \A j \in Index : \A l \in DOMAIN code[j].args :
           code'[j].args[l] = IF code[j].args[l] = cast(i) THEN val(i) ELSE code[j].args[l]
  <2> HIDE DEF SameShape
  <2> QED BY <1>1, <1>2, ReplacedAt
<1> HIDE DEF Pending
<1>5. QueueInv'
  <2>1. SameShape(original, code')
    BY <1>2, <1>4 DEF SameShape
  <2>2. OnceEach(update_insts')
    BY <1>1, <1>2
  <2> QED BY <1>1, <1>2, <1>3, <2>1, <2>2 DEF Tracked, QueueInv
<1>6. WorldInv'
  <2>1. \A j \in Index : j # i => (Retyped(j)' <=> Retyped(j))
    BY <1>1, <1>3 DEF Retyped, ThroughParameter
  <2>2. Retyped(i)'
    BY <1>1, <1>2, <1>3 DEF Retyped
  <2>3. world'[i] = "new" /\ \A j \in Index : j # i => world'[j] = world[j]
    BY <1>1 DEF Sound, TypeOK
  <2> QED BY <1>1, <1>2, <2>1, <2>2, <2>3 DEF Tracked, WorldInv
<1>7. \A j \in Index : \A k \in DOMAIN original[j].args : Wanted(j, k)' = Wanted(j, k)
  BY <1>1, <1>3 DEF Wanted, KeepsNull, NullsDone
<1> DEFINE B(o) == IF o[1] = "val" /\ o[2] \in to_resolve \ {i} THEN cast(o[2]) ELSE o
<1>8. ASSUME NEW j \in Index, NEW k \in DOMAIN original[j].args
      PROVE  IF original[j].args[k][1] = "int"
             THEN code'[j].args[k][1] = "int"
             ELSE code'[j].args[k] = B(Wanted(j, k))
  <2> DEFINE w == Wanted(j, k)
             a == code[j].args[k]
  <2>1. code'[j].args[k] = IF a = cast(i) THEN val(i) ELSE a
    BY <1>2, <1>4 DEF SameShape
  <2>2. CASE original[j].args[k][1] = "int"
    <3>1. a[1] = "int"
      BY <2>2 DEF Tracked, ArgsInv
    <3> HIDE DEF a
    <3> QED BY <2>1, <2>2, <3>1 DEF cast
  <2>3. CASE original[j].args[k][1] # "int"
    <3>1. a = Behind(w)
      BY <2>3 DEF Tracked, ArgsInv
    <3>2. w = OldNull \/ w = NewNull \/ w = original[j].args[k]
      BY DEF Wanted
    <3>3. w \in Operand
      BY <1>2, <3>2, Originals, OldOperands DEF OldNull, NewNull, Operand, Kinds
    <3>4. \A n : w # cast(n)
      BY <1>2, NoCasts
    <3> HIDE DEF a, w
    <3>5. B(w) = IF Behind(w) = cast(i) THEN val(i) ELSE Behind(w)
      <4>1. CASE w = val(i)
        BY <1>1, <4>1 DEF Behind, val, cast
      <4>2. CASE w # val(i)
        <5>1. w[1] = "val" => w[2] # i
          BY <3>3, <4>2 DEF val, Operand
        <5>2. B(w) = Behind(w)
          BY <5>1 DEF Behind
        <5>3. Behind(w) # cast(i)
          BY <3>4, <5>1 DEF Behind, cast
        <5> QED BY <5>2, <5>3
      <4> QED BY <4>1, <4>2
    <3> QED BY <2>1, <2>3, <3>1, <3>5 DEF a, w
  <2> QED BY <2>2, <2>3
<1>9. ArgsInv'
  BY <1>1, <1>7, <1>8 DEF ArgsInv, Behind
<1> QED BY <1>5, <1>6, <1>9 DEF Tracked

(* Past the rewriting, or where the pass goes from one part to the next.   *)
LEMMA TrackedRest ==
  ASSUME Sound, Tracked, UNCHANGED <<original, rewriting>>,
         \/ pc' = pc /\ (pc = "handle" => at' = at)
         \/ pc = "handle" /\ at > N /\ pc' = "update"
         \/ pc = "update" /\ update_insts = <<>> /\ pc' = "resolve"
         \/ pc = "resolve" /\ to_resolve = {} /\ pc' = "instrument"
         \/ Rewritten /\ Rewritten'
  PROVE  Tracked'
<1>1. UNCHANGED <<original, code, world, update_insts, to_resolve>>
  BY DEF rewriting
<1>2. Pending' = Pending /\ (OnceEach(update_insts') <=> OnceEach(update_insts))
  BY <1>1 DEF Pending, OnceEach
<1>3. \A i \in Index : Queues(i)' <=> Queues(i)
  BY <1>1 DEF Queues
<1>4. Tracked /\ at \in 1 .. N + 1 /\ pc \in PCs
  BY DEF Sound, TypeOK
<1>5. pc = "handle" /\ pc' = "update" => Pending = {i \in Index : Queues(i)}
  <2>1. \A i \in Index : at > N => i < at
    BY <1>4, NAssumption DEF Index
  <2> QED BY <1>4, <2>1 DEF Tracked, QueueInv, Rewritten
<1> HIDE DEF Pending
<1>6. QueueInv'
  <2>1. /\ original \in Functions /\ SameShape(original, code) /\ OnceEach(update_insts)
        /\ Pending \subseteq {i \in Index : Queues(i)}
        /\ to_resolve \subseteq {i \in Index : original[i].op = "phi" /\ original[i].type # None}
        /\ to_resolve \cap Pending = {}
    BY DEF Tracked, QueueInv
  <2>2. SameShape(original, code)'
    BY <1>1, <2>1 DEF SameShape
  <2>3. pc' = "handle" => to_resolve' = {} /\ Pending' = {i \in Index : i < at' /\ Queues(i)'}
    BY <1>1, <1>2, <1>3 DEF Tracked, QueueInv, Rewritten
  <2>4. pc' \notin {"handle", "update"} => update_insts' = <<>>
    BY <1>1 DEF Tracked, QueueInv, Rewritten
  <2>5. pc' \notin {"handle", "update", "resolve"} => to_resolve' = {}
    BY <1>1 DEF Tracked, QueueInv, Rewritten
  <2>6. Pending' \subseteq {i \in Index : Queues(i)'}
    BY <1>2, <1>3, <2>1
  <2> QED BY <1>1, <1>2, <2>1, <2>2, <2>3, <2>4, <2>5, <2>6 DEF QueueInv
<1>7. ASSUME NEW i \in Index, original[i].type # None
      PROVE  Retyped(i)' <=> Retyped(i)
  <2>1. CASE pc = "handle" /\ pc' = "update"
    <3>1. original[i].op \in TypedOps \cup {"phi", "icall"} => i \in Pending
      BY <1>5, <1>7, <2>1 DEF Queues
    <3> QED BY <1>1, <1>2, <2>1, <3>1 DEF Retyped, ThroughParameter, TypedOps
  <2>2. CASE ~ (pc = "handle" /\ pc' = "update")
    BY <1>1, <1>2, <2>2 DEF Retyped, ThroughParameter, Rewritten
  <2> QED BY <2>1, <2>2
<1>8. WorldInv'
  BY <1>1, <1>7 DEF Tracked, WorldInv
<1>9. ASSUME NEW i \in Index, NEW k \in DOMAIN original[i].args
      PROVE  Wanted(i, k)' = Wanted(i, k)
  <2>1. CASE pc = "handle" /\ pc' = "update"
    <3>1. i < at
      BY <1>4, <2>1, NAssumption DEF Index, Rewritten
    <3>2. original[i].op = "icmp" /\ i \notin Pending => original[i].args[k] # OldNull
      BY <1>5, <2>1 DEF Queues
    <3> QED BY <1>1, <1>2, <2>1, <3>1, <3>2 DEF Wanted, KeepsNull, NullsDone
  <2>2. CASE ~ (pc = "handle" /\ pc' = "update")
    BY <1>1, <1>2, <2>2 DEF Wanted, KeepsNull, NullsDone, Rewritten
  <2> QED BY <2>1, <2>2
<1>10. ArgsInv'
  BY <1>1, <1>9 DEF Tracked, ArgsInv, Behind
<1> QED BY <1>6, <1>8, <1>10 DEF Tracked

LEMMA TrackedStep == Sound /\ Tracked /\ [Next]_vars => Tracked'
<1> SUFFICES ASSUME Sound, Tracked, [Next]_vars PROVE Tracked'
  OBVIOUS
<1>1. CASE HandleTyped \/ handle_bitcast \/ handle_icmp \/ handle_call \/ HandleNothing
  BY <1>1, TrackedHandle
<1>2. CASE UpdateTyped \/ update_inst_call \/ update_inst_icmp \/ update_inst_phi
  BY <1>2, TrackedUpdate
<1>3. ASSUME NEW i \in Index, Resolve(i) PROVE Tracked'
  BY <1>3, TrackedResolve
<1>4. CASE Handled \/ Updated \/ Resolved
  BY <1>4, TrackedRest DEF Handled, Updated, Resolved
<1>5. ASSUME NEW i \in Index, Visit(i) PROVE Tracked'
  BY <1>5, TrackedRest DEF Visit
<1>6. CASE InstrumentOther
  BY <1>6, TrackedRest DEF InstrumentOther
<1>7. CASE insert_heap_free \/ Walked \/ Finished
  BY <1>7, TrackedRest DEF insert_heap_free, Walked, Finished, Rewritten
<1>8. CASE UNCHANGED vars
  BY <1>8, TrackedRest DEF vars
<1> QED BY <1>1, <1>2, <1>3, <1>4, <1>5, <1>6, <1>7, <1>8 DEF Next, HandleTyped,
  HandleNothing, UpdateTyped

(***************************************************************************)
(* What is tracked amounts to Translated once the queue is empty and no    *)
(* phi node is left to be resolved.                                        *)
(***************************************************************************)
LEMMA TrackedIsTranslated == Sound /\ Tracked => Translated
<1> SUFFICES ASSUME Sound, Tracked, Rewritten, NEW i \in Index
             PROVE  /\ code[i].op = original[i].op
                    /\ world[i] = IF original[i].type = None THEN "plain"
                                  ELSE IF Keeps(i) THEN "old" ELSE "new"
                    /\ \A k \in DOMAIN original[i].args :
                         \/ original[i].args[k][1] = "int"
                         \/ code[i].args[k] =
                              IF original[i].args[k] = OldNull /\ ~KeepsNull(i, k) THEN NewNull
                              ELSE original[i].args[k]
  BY DEF Translated
<1>1. /\ original \in Functions /\ SameShape(original, code)
      /\ update_insts = <<>> /\ to_resolve = {} /\ Pending = {} /\ pc # "handle"
      /\ original[i].op \in Operations
  BY DEF Tracked, QueueInv, Rewritten, Pending, Sound, TypeOK, Instr
<1> HIDE DEF Pending
<1>2. original[i].type # None => (Retyped(i) <=> ~Keeps(i))
  BY <1>1, Originals DEF Compiled, Retyped, ThroughParameter, Keeps, LeftAlone, TypedOps,
    Operations, Allocs
<1>3. world[i] = IF original[i].type = None THEN "plain" ELSE IF Keeps(i) THEN "old" ELSE "new"
  BY <1>2 DEF Tracked, WorldInv
<1>4. ASSUME NEW k \in DOMAIN original[i].args, original[i].args[k][1] # "int"
      PROVE  code[i].args[k] =
               IF original[i].args[k] = OldNull /\ ~KeepsNull(i, k) THEN NewNull
               ELSE original[i].args[k]
  <2>1. ~KeepsNull(i, k) => NullsDone(i)
    BY <1>1 DEF KeepsNull, NullsDone, CallOps
  <2>2. code[i].args[k] = Behind(Wanted(i, k))
    BY <1>4 DEF Tracked, ArgsInv
  <2>3. Behind(Wanted(i, k)) = Wanted(i, k)
    BY <1>1 DEF Behind
  <2> QED BY <2>1, <2>2, <2>3 DEF Wanted
<1> QED BY <1>1, <1>3, <1>4 DEF SameShape

(***************************************************************************)
(* The queue, the bitcasts behind phi nodes and their resolution amount to *)
(* retyping every instruction in place, for every function.                *)
(***************************************************************************)
THEOREM TranslatedCorrect == Spec => []Translated
<1>1. Init => Sound /\ Tracked
  BY SoundInit, TrackedInit
<1>2. Sound /\ Tracked /\ [Next]_vars => Sound' /\ Tracked'
  BY SoundNext, TrackedStep
<1> QED BY <1>1, <1>2, TrackedIsTranslated, PTL DEF Spec


(* What the pass has translated mixes no old types with new ones.          *)
LEMMA TranslatedAgrees == Sound /\ Tracked => Consistent
<1> SUFFICES ASSUME Sound, Tracked, Rewritten, \A i \in Index : ~Unhandled(i), NEW i \in Index
             PROVE  Agrees(i)
  BY DEF Consistent
<1>1. /\ original \in Functions /\ original \in [Index -> Instr] /\ WellFormed(original)
      /\ \A j \in Index : code[j].op = original[j].op /\ DOMAIN code[j].args = DOMAIN original[j].args
  BY Originals DEF Tracked, QueueInv, SameShape, Sound, TypeOK
<1>2. ASSUME NEW j \in Index PROVE world[j] \in {"new", "plain"}
  <2>1. original[j].type # None => ~Keeps(j)
    <3>1. original[j].op \notin LeftAlone \/ original[j].type = None
      BY DEF Unhandled
    <3>2. ASSUME original[j].op = "icall", original[j].type # None, original[j].args[1] # Parameter
          PROVE  FALSE
      <4>1. PICK l \in Index : original[l].op = "fload" /\ original[l].type # None
        BY <1>1, <3>2, Originals DEF Compiled
      <4> QED BY <4>1 DEF Unhandled, LeftAlone
    <3> QED BY <3>1, <3>2 DEF Keeps
  <2> QED BY <2>1, TrackedIsTranslated DEF Translated
<1>3. ASSUME NEW k \in DOMAIN original[i].args
      PROVE  World(code[i].args[k]) \in {"new", "plain"}
  <2> DEFINE o == original[i].args[k]
             a == code[i].args[k]
  <2>1. o \in Operand /\ Refers(o) /\ \A j : o # cast(j)
    BY <1>1, OldOperands, NoCasts
  <2>2. o[1] = "int" => a[1] = "int"
    BY DEF Tracked, ArgsInv
  <2>3. o[1] # "int" => a = IF o = OldNull /\ ~KeepsNull(i, k) THEN NewNull ELSE o
    BY TrackedIsTranslated DEF Translated
  <2>4. o = OldNull => ~KeepsNull(i, k)
    BY DEF Unhandled
  <2> HIDE DEF o, a
  <2>5. a[1] = "int" => World(a) = "plain"
    BY DEF World, NewNull, OldNull, Parameter
  <2>6. World(NewNull) = "new"
    BY DEF World, NewNull, OldNull
  <2>7. o[1] = "val" => World(o) \in {"new", "plain"}
    <3>1. o[1] = "val" => World(o) = world[o[2]] /\ o[2] \in Index
      BY <2>1 DEF World, NewNull, OldNull, Parameter, Refers, Computed
    <3> QED BY <1>2, <3>1
  <2>8. o[1] # "cast"
    BY <2>1 DEF Operand, cast
  <2>9. o[1] # "val" /\ o # OldNull => World(o) \in {"new", "plain"}
    BY <2>8 DEF World, NewNull, OldNull, Parameter
  <2>10. World(a) \in {"new", "plain"}
    BY <2>2, <2>3, <2>4, <2>5, <2>6, <2>7, <2>9
  <2> QED BY <2>10 DEF a
<1> DEFINE W == ({World(o) : o \in Uses(code, i)} \cup {world[i]}) \ {"plain"}
<1>4. W \subseteq {"new"}
  BY <1>1, <1>2, <1>3 DEF Uses
<1>5. Cardinality(W) <= 1
  <2>1. W = {} \/ W = {"new"}
    BY <1>4
  <2>2. Cardinality({}) = 0 /\ Cardinality({"new"}) = 1
    BY FS_EmptySet, FS_Singleton
  <2> HIDE DEF W
  <2> QED BY <2>1, <2>2
<1> QED BY <1>4, <1>5 DEF Agrees

(***************************************************************************)
(* For every function without the forms the pass does not handle: no       *)
(* instruction mixes old types and new ones when the pass has rewritten    *)
(* it, as the verifier of the compiler demands.                            *)
(***************************************************************************)
THEOREM ConsistentCorrect == Spec => []Consistent
<1>1. Init => Sound /\ Tracked
  BY SoundInit, TrackedInit
<1>2. Sound /\ Tracked /\ [Next]_vars => Sound' /\ Tracked'
  BY SoundNext, TrackedStep
<1> QED BY <1>1, <1>2, TranslatedAgrees, PTL DEF Spec

-----------------------------------------------------------------------------
(* The sizes of allocations                                                *)

LEMMA Quotient ==
  ASSUME NEW m \in Nat, NEW s \in Nat \ {0}
  PROVE  m \div s \in Nat /\ m < s * (m \div s + 1)
OBVIOUS

(* Rescaling once more what is large enough leaves it large enough.        *)
LEMMA RescaledEnough ==
  ASSUME NEW n \in Nat, NEW s \in Nat \ {0}, NEW i \in Nat, s <= i, NEW m \in Nat, n * i <= m
  PROVE  n * i <= (m \div s) * i
<1> DEFINE q == m \div s
<1>1. q \in Nat /\ m < s * (q + 1)
  BY Quotient
<1> HIDE DEF q
<1>2. n * s <= n * i
  OBVIOUS
<1>3. ASSUME q < n PROVE FALSE
  <2>1. q + 1 <= n
    BY <1>1, <1>3
  <2>2. s * (q + 1) <= s * n
    BY <1>1, <2>1
  <2>3. s * n = n * s
    OBVIOUS
  <2>4. s * (q + 1) \in Nat /\ n * s \in Nat /\ n * i \in Nat
    BY <1>1
  <2> QED BY <1>1, <1>2, <2>2, <2>3, <2>4
<1>4. n <= q
  BY <1>1, <1>3
<1>5. n * i <= q * i
  BY <1>1, <1>4
<1> QED BY <1>5 DEF q

SizeOf(c) == code[c].args[SizeArg(original[c])]

Structs(c, t) == FirstSize(c)[2] \div size[t]

(* The casts that rescale an allocation.                                   *)
Rescales(j, c) ==
  original[j].op = "cast" /\ original[j].type # None /\ original[j].args[1] = val(c)

(* An allocation has its first size until a cast of it is looked at.       *)
Sized(c, t) ==
  IF c \in DOMAIN heapStructInfo
  THEN /\ heapStructInfo[c] = [type |-> t, count |-> Structs(c, t)]
       /\ SizeOf(c)[1] = "int" /\ SizeOf(c)[2] \in Nat
       /\ Structs(c, t) * inflatedSize[t] <= SizeOf(c)[2]
  ELSE /\ pc = "handle" /\ SizeOf(c) = FirstSize(c)
       /\ \A j \in Index : Rescales(j, c) => at <= j

SizesInv == \A c \in Index : \A t \in Types : Allocates(c, t) => Sized(c, t)

LEMMA LengthOf ==
  ASSUME NEW S, NEW s \in Seq(S), NEW n \in Nat, DOMAIN s = 1 .. n
  PROVE  Len(s) = n
<1>1. DOMAIN s = 1 .. Len(s) /\ Len(s) \in Nat
  OBVIOUS
<1>2. ~ (n < Len(s)) /\ ~ (Len(s) < n)
  <2>1. n < Len(s) => Len(s) \in 1 .. Len(s) /\ Len(s) \notin 1 .. n
    BY <1>1
  <2>2. Len(s) < n => n \in 1 .. n /\ n \notin 1 .. Len(s)
    BY <1>1
  <2> QED BY <1>1, <2>1, <2>2
<1> QED BY <1>1, <1>2

LEMMA SizeArgs ==
  ASSUME NEW f \in Functions, NEW c \in Index, f[c].op \in Allocs
  PROVE  /\ DOMAIN f[c].args = 1 .. SizeArg(f[c])
         /\ SizeArg(f[c]) \in DOMAIN f[c].args
         /\ Len(f[c].args) = SizeArg(f[c])
<1>1. f \in [Index -> Instr] /\ Compiled(f)
  BY FunctionsAssumption
<1>2. SizeArg(f[c]) \in {1, 2} /\ DOMAIN f[c].args = 1 .. SizeArg(f[c])
  BY <1>1 DEF Compiled, Allocs, SizeArg
<1>3. f[c].args \in Seq(Operand)
  BY <1>1 DEF Instr, Operand
<1> QED BY <1>2, <1>3, LengthOf

(* What Allocates says of the operands.                                    *)
LEMMA AllocatesOf ==
  ASSUME original \in Functions, NEW c \in Index, NEW t \in Types, Allocates(c, t)
  PROVE  /\ original[c].op \in Allocs
         /\ SizeArg(original[c]) \in DOMAIN original[c].args
         /\ FirstSize(c) = original[c].args[SizeArg(original[c])]
         /\ FirstSize(c)[1] = "int" /\ FirstSize(c)[2] \in Nat
         /\ Structs(c, t) \in Nat
         /\ \E j \in Index : Rescales(j, c)
         /\ \A j \in Index : Rescales(j, c) => original[j].type = t
<1>1. original \in [Index -> Instr] /\ WellFormed(original) /\ Compiled(original)
  BY Originals
<1>2. /\ original[c].op \in Allocs /\ CastTypes(c) = {t} /\ FirstSize(c)[1] = "int"
  BY DEF Allocates
<1>3. /\ SizeArg(original[c]) \in DOMAIN original[c].args
      /\ FirstSize(c) = original[c].args[SizeArg(original[c])]
  BY <1>2, SizeArgs DEF FirstSize
<1>4. FirstSize(c)[2] \in Nat
  <2>1. original[c].args[SizeArg(original[c])] \in Operand
    BY <1>1, <1>3, OldOperands
  <2> QED BY <1>3, <2>1 DEF Operand
<1>5. Structs(c, t) \in Nat
  <2>1. size[t] \in Nat \ {0}
    BY SizesAssumption
  <2> QED BY <1>4, <2>1, Quotient DEF Structs
<1>6. t # None
  BY SizesAssumption
<1>7. \A j \in Index : original[j].op = "cast" =>
        (val(c) \in Uses(original, j) <=> original[j].args[1] = val(c))
  BY <1>1 DEF Compiled, Uses
<1>8. \A u : u \in CastTypes(c) <=>
        \E j \in Index : Rescales(j, c) /\ original[j].type = u
  BY <1>7 DEF CastTypes, Rescales
<1> QED BY <1>2, <1>3, <1>4, <1>5, <1>8

LEMMA SizesInit == Init => SizesInv
<1> SUFFICES ASSUME Init, NEW c \in Index, NEW t \in Types, Allocates(c, t)
             PROVE  Sized(c, t)
  BY DEF SizesInv
<1>1. /\ original \in Functions /\ code = original /\ pc = "handle" /\ at = 1
      /\ heapStructInfo = << >>
  BY DEF Init
<1>2. FirstSize(c) = original[c].args[SizeArg(original[c])]
  BY <1>1, AllocatesOf
<1>3. \A j \in Index : 1 <= j
  BY NAssumption DEF Index
<1> QED BY <1>1, <1>2, <1>3 DEF Sized, SizeOf

(* What Allocates says is about the function as it was.                    *)
LEMMA AllocatesKept ==
  ASSUME original' = original, NEW c \in Index, NEW t \in Types
  PROVE  Allocates(c, t)' <=> Allocates(c, t)
<1>1. \A j : Uses(original, j)' = Uses(original, j)
  BY DEF Uses
<1>2. CastTypes(c)' = CastTypes(c)
  BY <1>1 DEF CastTypes
<1> QED BY <1>2 DEF Allocates, FirstSize

(* Steps that leave the sizes of allocations and heapStructInfo alone.     *)
LEMMA SizesKept ==
  ASSUME Sound, original \in Functions, SizesInv, UNCHANGED <<original, heapStructInfo>>,
         \A c \in Index : original[c].op \in Allocs /\ SizeOf(c)[1] = "int" =>
                            code'[c].args[SizeArg(original[c])] = SizeOf(c),
         pc = "handle" =>
           \/ /\ pc' = "handle"
              /\ \A j \in Index : original[j].op = "cast" /\ at <= j => at' <= j
           \/ at > N
  PROVE  SizesInv'
<1> SUFFICES ASSUME NEW c \in Index, NEW t \in Types, Allocates(c, t)
             PROVE  Sized(c, t)'
  BY AllocatesKept DEF SizesInv
<1>1. Sized(c, t)
  BY DEF SizesInv
<1>2. /\ original[c].op \in Allocs /\ FirstSize(c)[1] = "int"
      /\ \E j \in Index : Rescales(j, c)
  BY AllocatesOf
<1>3. SizeOf(c)[1] = "int"
  BY <1>1, <1>2 DEF Sized
<1>4. SizeOf(c)' = SizeOf(c)
  BY <1>2, <1>3 DEF SizeOf
<1>5. Structs(c, t)' = Structs(c, t) /\ FirstSize(c)' = FirstSize(c)
      /\ \A j \in Index : Rescales(j, c)' <=> Rescales(j, c)
  BY DEF Structs, FirstSize, Rescales
<1>6. CASE c \in DOMAIN heapStructInfo
  BY <1>1, <1>4, <1>5, <1>6 DEF Sized
<1>7. CASE c \notin DOMAIN heapStructInfo
  <2>1. pc = "handle" /\ SizeOf(c) = FirstSize(c) /\ \A j \in Index : Rescales(j, c) => at <= j
    BY <1>1, <1>7 DEF Sized
  <2>2. ~ (at > N)
    <3>1. \A j \in Index : ~ (at <= j /\ at > N)
      BY NAssumption DEF Index, Sound, TypeOK
    <3> QED BY <1>2, <2>1, <3>1
  <2>3. pc' = "handle" /\ \A j \in Index : Rescales(j, c) => at' <= j
    BY <2>1, <2>2 DEF Rescales
  <2> QED BY <1>4, <1>5, <1>7, <2>1, <2>3 DEF Sized
<1> QED BY <1>6, <1>7

(* Steps of which no cast of an allocation is part.                        *)
LEMMA SizesHandled ==
  ASSUME Sound, Tracked, SizesInv, HandleTyped \/ handle_icmp \/ handle_call \/ HandleNothing
  PROVE  SizesInv'
<1>1. /\ pc = "handle" /\ pc' = pc /\ at \in Index /\ at' = at + 1
      /\ UNCHANGED <<original, heapStructInfo>>
      /\ code[at].op # "cast"
  BY TypedSteps DEF handle_icmp, handle_call, HandleNothing, handle_store, NoHandler,
    Handling, Allocs, HandleOps
<1>2. /\ original \in Functions /\ code[at].op = original[at].op
      /\ code \in [Index -> Instr] /\ SameShape(original, code)
  BY <1>1 DEF Tracked, QueueInv, SameShape, Sound, TypeOK
<1>3. \A j \in Index : original[j].op = "cast" /\ at <= j => at' <= j
  BY <1>1, <1>2, NAssumption DEF Index
<1>4. ASSUME NEW c \in Index, original[c].op \in Allocs, SizeOf(c)[1] = "int"
      PROVE  code'[c].args[SizeArg(original[c])] = SizeOf(c)
  <2>1. CASE code' = code
    BY <2>1 DEF SizeOf
  <2>2. CASE code' # code
    <3> DEFINE a == [k \in DOMAIN code[at].args |->
                       IF code[at].args[k] = OldNull THEN NewNull ELSE code[at].args[k]]
               e == [code[at] EXCEPT !.args = a]
    <3>1. code' = [code EXCEPT ![at] = e]
      BY <2>2, TypedSteps DEF handle_icmp, handle_call, HandleNothing, handle_store, NoHandler
    <3>2. CASE c # at
      BY <1>1, <1>2, <3>1, <3>2 DEF SizeOf
    <3>3. CASE c = at
      <4>1. SizeArg(original[c]) \in DOMAIN code[at].args
        BY <1>2, <1>4, <3>3, SizeArgs DEF SameShape
      <4>2. a[SizeArg(original[c])] = SizeOf(c)
        BY <1>4, <3>3, <4>1 DEF SizeOf, OldNull
      <4>3. code[at] \in Instr
        BY <1>1, <1>2
      <4> HIDE DEF a
      <4>4. e.args = a
        BY <4>3 DEF Instr
      <4> HIDE DEF e
      <4>5. code'[at] = e
        BY <1>1, <1>2, <3>1
      <4> QED BY <3>3, <4>2, <4>4, <4>5
    <3> QED BY <3>2, <3>3
  <2> QED BY <2>1, <2>2
<1> QED BY <1>1, <1>2, <1>3, <1>4, SizesKept

LEMMA SizesUpdated ==
  ASSUME Sound, Tracked, SizesInv,
         \/ UpdateTyped \/ update_inst_call \/ update_inst_icmp \/ update_inst_phi
         \/ \E i \in Index : Resolve(i)
  PROVE  SizesInv'
<1>1. /\ pc # "handle" /\ UNCHANGED <<original, heapStructInfo>>
      /\ update_insts # <<>> \/ pc = "resolve"
  BY TypedSteps DEF update_inst_call, update_inst_icmp, update_inst_phi, Updating, Resolve
<1>2. /\ original \in Functions /\ SameShape(original, code)
      /\ code \in [Index -> Instr] /\ update_insts \in Seq(Index) /\ WellFormed(code)
  BY DEF Tracked, QueueInv, Sound, TypeOK
<1>3. ASSUME NEW c \in Index, original[c].op \in Allocs, SizeOf(c)[1] = "int"
      PROVE  code'[c].args[SizeArg(original[c])] = SizeOf(c)
  <2>1. SizeArg(original[c]) \in DOMAIN code[c].args /\ code[c].op = original[c].op
    BY <1>2, <1>3, SizeArgs DEF SameShape
  <2>2. CASE UpdateTyped \/ update_inst_call
    BY <2>2, TypedSteps DEF update_inst_call, SizeOf
  <2>3. CASE update_inst_icmp
    <3>1. /\ update_insts # <<>> /\ code[Head(update_insts)].op = "icmp"
      BY <2>3 DEF update_inst_icmp, Updating
    <3>2. PICK h, k : code' = [code EXCEPT ![h].args[k] = NewNull] /\ h = Head(update_insts)
      BY <2>3 DEF update_inst_icmp
    <3>3. h # c
      BY <1>3, <2>1, <3>1, <3>2 DEF Allocs
    <3> QED BY <3>2, <3>3, <1>2 DEF SizeOf
  <2>4. CASE update_inst_phi
    <3>1. PICK h : code' = Replaced(code, val(h), cast(h))
      BY <2>4 DEF update_inst_phi
    <3>2. SizeOf(c) # val(h)
      BY <1>3 DEF val
    <3> QED BY <1>2, <2>1, <3>1, <3>2, ReplacedAt DEF SizeOf
  <2>5. CASE \E i \in Index : Resolve(i)
    <3>1. PICK h : code' = Replaced(code, cast(h), val(h))
      BY <2>5 DEF Resolve
    <3>2. SizeOf(c) # cast(h)
      BY <1>3 DEF cast
    <3> QED BY <1>2, <2>1, <3>1, <3>2, ReplacedAt DEF SizeOf
  <2> QED BY <2>2, <2>3, <2>4, <2>5
<1> QED BY <1>1, <1>2, <1>3, SizesKept


(* What a cast of an allocation does to it, in terms of the first code.    *)
LEMMA CastHandled ==
  ASSUME Sound, Tracked, handle_bitcast, NEW d \in Index, original[d].op \in Allocs,
         SizeOf(d)[1] = "int"
  PROVE  IF Rescales(at, d)
         THEN /\ code'[d].args[SizeArg(original[d])] =
                   <<"int", Rescaled(SizeOf(d)[2], original[at].type)>>
              /\ heapStructInfo' = Inserted(d, original[at].type, SizeOf(d)[2])
         ELSE /\ code'[d].args[SizeArg(original[d])] = SizeOf(d)
              /\ d \in DOMAIN heapStructInfo' <=> d \in DOMAIN heapStructInfo
              /\ d \in DOMAIN heapStructInfo => heapStructInfo'[d] = heapStructInfo[d]
<1> DEFINE t == code[at].type
           o == code[at].args[1]
           c == o[2]
           k == SizeArg(code[c])
           s == code[c].args[k]
           Cond == /\ t # None /\ code[at].op = "cast" /\ Computed(o) /\ code[c].op \in Allocs
                   /\ s[1] = "int"
<1>1. /\ pc = "handle" /\ at \in Index /\ code[at].op \in {"cast", "pcast", "acast"}
      /\ IF Cond
         THEN /\ code' = [code EXCEPT ![c].args[k] = <<"int", Rescaled(s[2], t)>>]
              /\ heapStructInfo' = Inserted(c, t, s[2])
         ELSE code' = code /\ heapStructInfo' = heapStructInfo
  BY DEF handle_bitcast, Handling
<1>2. /\ original \in Functions /\ SameShape(original, code)
      /\ code \in [Index -> Instr] /\ WellFormed(code)
      /\ code[at].op = original[at].op /\ t = original[at].type
  BY <1>1 DEF Tracked, QueueInv, SameShape, Sound, TypeOK
<1>3. 1 \in DOMAIN original[at].args /\ Refers(o)
  BY <1>1, <1>2, OldOperands DEF WellFormed, SameShape
<1>4. /\ Computed(o) => o = original[at].args[1] /\ o[1] = "val"
      /\ Computed(original[at].args[1]) => o = original[at].args[1]
  <2>1. ~NullsDone(at)
    BY <1>1, <1>2 DEF NullsDone, CallOps, Allocs
  <2>2. original[at].args[1][1] = "int" <=> o[1] = "int"
    BY <1>1, <1>3, HandledOperands
  <2>3. original[at].args[1][1] # "int" => o = original[at].args[1]
    BY <1>1, <1>3, <2>1, HandledOperands
  <2>4. original[at].args[1][1] # "cast"
    BY <1>1, <1>2, <1>3, Originals DEF Compiled
  <2> HIDE DEF o
  <2> QED BY <2>2, <2>3, <2>4 DEF Computed
<1>5. o \in Operand
  BY <1>1, <1>2, <1>3, OldOperands DEF SameShape
<1>6. Rescales(at, d) <=> t # None /\ code[at].op = "cast" /\ Computed(o) /\ c = d
  <2>1. Computed(o) => o = val(c)
    BY <1>4, <1>5 DEF Operand, val
  <2>2. \A x : Computed(val(x)) /\ val(x)[2] = x
    BY DEF Computed, val
  <2>3. original[at].args[1] = val(d) <=> Computed(o) /\ c = d
    BY <1>4, <2>1, <2>2
  <2> HIDE DEF o, c, t
  <2> QED BY <1>2, <2>3 DEF Rescales
<1>7. code[d].op = original[d].op /\ SizeArg(code[d]) = SizeArg(original[d])
      /\ SizeArg(original[d]) \in DOMAIN code[d].args
  BY <1>2, SizeArgs DEF SameShape, SizeArg
<1>8. CASE Rescales(at, d)
  <2>1. c = d /\ Cond /\ s = SizeOf(d) /\ k = SizeArg(original[d])
    BY <1>6, <1>7, <1>8 DEF SizeOf
  <2>2. /\ code' = [code EXCEPT ![d].args[k] = <<"int", Rescaled(s[2], t)>>]
        /\ heapStructInfo' = Inserted(d, t, s[2])
    BY <1>1, <2>1
  <2> HIDE DEF s, k, t, Cond
  <2>3. OneChanged(code, code', d, k, <<"int", Rescaled(s[2], t)>>)
    BY <1>2, <1>7, <2>1, <2>2, OneOperandAt
  <2> HIDE DEF c, o
  <2> QED BY <1>2, <1>7, <1>8, <2>1, <2>2, <2>3 DEF OneChanged
<1>9. CASE ~Rescales(at, d)
  <2>1. CASE ~Cond
    BY <1>1, <1>9, <2>1 DEF SizeOf
  <2>2. CASE Cond
    <3>1. c # d /\ c \in Index
      BY <1>3, <1>6, <1>9, <2>2 DEF Refers
    <3>2. k \in DOMAIN code[c].args
      BY <1>2, <2>2, <3>1 DEF WellFormed, SizeArg, Allocs
    <3>3. /\ code' = [code EXCEPT ![c].args[k] = <<"int", Rescaled(s[2], t)>>]
          /\ heapStructInfo' = Inserted(c, t, s[2])
      BY <1>1, <2>2
    <3> HIDE DEF s, k, t, c, o, Cond
    <3>4. OneChanged(code, code', c, k, <<"int", Rescaled(s[2], t)>>)
      BY <1>2, <3>1, <3>2, <3>3, OneOperandAt
    <3>5. code'[d].args[SizeArg(original[d])] = SizeOf(d)
      BY <1>7, <3>1, <3>4 DEF OneChanged, SizeOf
    <3> QED BY <1>9, <3>1, <3>3, <3>5 DEF Inserted
  <2> QED BY <2>1, <2>2
<1> QED BY <1>8, <1>9

LEMMA SizesCast ==
  ASSUME Sound, Tracked, SizesInv, handle_bitcast
  PROVE  SizesInv'
<1>1. /\ pc = "handle" /\ pc' = pc /\ at \in Index /\ at' = at + 1 /\ original' = original
      /\ original \in Functions
  BY DEF handle_bitcast, Handling, Tracked, QueueInv
<1> SUFFICES ASSUME NEW c \in Index, NEW t \in Types, Allocates(c, t)
             PROVE  Sized(c, t)'
  BY <1>1, AllocatesKept DEF SizesInv
<1>2. Sized(c, t)
  BY DEF SizesInv
<1>3. /\ original[c].op \in Allocs /\ FirstSize(c)[1] = "int" /\ FirstSize(c)[2] \in Nat
      /\ Structs(c, t) \in Nat
      /\ \A j \in Index : Rescales(j, c) => original[j].type = t
  BY <1>1, AllocatesOf
<1>4. SizeOf(c)[1] = "int" /\ SizeOf(c)[2] \in Nat
  BY <1>2, <1>3 DEF Sized
<1>5. Structs(c, t)' = Structs(c, t) /\ FirstSize(c)' = FirstSize(c)
      /\ SizeOf(c)' = code'[c].args[SizeArg(original[c])]
      /\ \A j \in Index : Rescales(j, c)' <=> Rescales(j, c)
  BY <1>1 DEF Structs, FirstSize, Rescales, SizeOf
<1>6. CASE Rescales(at, c)
  <2> DEFINE m == SizeOf(c)[2]
  <2>1. /\ SizeOf(c)' = <<"int", Rescaled(m, t)>>
        /\ heapStructInfo' = Inserted(c, t, m)
    BY <1>1, <1>3, <1>4, <1>5, <1>6, CastHandled
  <2>2. /\ size[t] \in Nat \ {0} /\ inflatedSize[t] \in Nat /\ size[t] <= inflatedSize[t]
        /\ m \in Nat /\ m \div size[t] \in Nat
    BY <1>4, SizesAssumption, Quotient
  <2>3. Rescaled(m, t) = (m \div size[t]) * inflatedSize[t] /\ Rescaled(m, t) \in Nat
    <3>1. \A x, y \in Nat : x * y \in Nat
      OBVIOUS
    <3> QED BY <2>2, <3>1 DEF Rescaled
  <2>4. c \in DOMAIN heapStructInfo'
    BY <2>1 DEF Inserted
  <2>5. CASE c \in DOMAIN heapStructInfo
    <3>1. /\ heapStructInfo[c] = [type |-> t, count |-> Structs(c, t)]
          /\ Structs(c, t) * inflatedSize[t] <= m
      BY <1>2, <2>5 DEF Sized
    <3>2. heapStructInfo'[c] = heapStructInfo[c]
      BY <2>1, <2>5 DEF Inserted
    <3> HIDE DEF m
    <3>3. Structs(c, t) * inflatedSize[t] <= Rescaled(m, t)
      BY <1>3, <2>2, <2>3, <3>1, RescaledEnough
    <3> QED BY <1>5, <2>1, <2>3, <2>4, <3>1, <3>2, <3>3 DEF Sized
  <2>6. CASE c \notin DOMAIN heapStructInfo
    <3>1. m = FirstSize(c)[2] /\ m \div size[t] = Structs(c, t)
      BY <1>2, <2>6 DEF Sized, Structs
    <3>2. heapStructInfo'[c] = [type |-> t, count |-> Structs(c, t)]
      BY <2>1, <2>6, <3>1 DEF Inserted
    <3> HIDE DEF m
    <3>3. Structs(c, t) * inflatedSize[t] <= Rescaled(m, t)
      BY <2>3, <3>1
    <3> QED BY <1>5, <2>1, <2>3, <2>4, <3>2, <3>3 DEF Sized
  <2> QED BY <2>5, <2>6
<1>7. CASE ~Rescales(at, c)
  <2>1. /\ SizeOf(c)' = SizeOf(c)
        /\ c \in DOMAIN heapStructInfo' <=> c \in DOMAIN heapStructInfo
        /\ c \in DOMAIN heapStructInfo => heapStructInfo'[c] = heapStructInfo[c]
    BY <1>3, <1>4, <1>5, <1>7, CastHandled
  <2>2. \A j \in Index : Rescales(j, c) /\ at <= j => at' <= j
    <3>1. \A j \in Index : at <= j /\ j # at => at' <= j
      BY <1>1, NAssumption DEF Index
    <3> QED BY <1>7, <3>1
  <2> QED BY <1>1, <1>2, <1>5, <2>1, <2>2 DEF Sized
<1> QED BY <1>6, <1>7


LEMMA SizesStep == Sound /\ Tracked /\ SizesInv /\ [Next]_vars => SizesInv'
<1> SUFFICES ASSUME Sound, Tracked, SizesInv, [Next]_vars PROVE SizesInv'
  OBVIOUS
<1>1. CASE HandleTyped \/ handle_icmp \/ handle_call \/ HandleNothing
  BY <1>1, SizesHandled
<1>2. CASE handle_bitcast
  BY <1>2, SizesCast
<1>3. CASE \/ UpdateTyped \/ update_inst_call \/ update_inst_icmp \/ update_inst_phi
           \/ \E i \in Index : Resolve(i)
  BY <1>3, SizesUpdated
<1>4. ASSUME UNCHANGED <<original, rewriting>>,
             pc = "handle" => (pc' = "handle" /\ at' = at) \/ at > N
      PROVE  SizesInv'
  <2>1. original \in Functions /\ UNCHANGED <<original, code, heapStructInfo>>
    BY <1>4 DEF Tracked, QueueInv, rewriting
  <2>2. \A c \in Index : code'[c].args[SizeArg(original[c])] = SizeOf(c)
    BY <2>1 DEF SizeOf
  <2> QED BY <1>4, <2>1, <2>2, SizesKept
<1>5. CASE Handled \/ Updated \/ Resolved
  BY <1>4, <1>5 DEF Handled, Updated, Resolved
<1>6. CASE InstrumentOther \/ insert_heap_free \/ Walked \/ Finished
  BY <1>4, <1>6 DEF InstrumentOther, insert_heap_free, Walked, Finished
<1>7. ASSUME NEW i \in Index, Visit(i) PROVE SizesInv'
  BY <1>4, <1>7 DEF Visit
<1>8. CASE UNCHANGED vars
  BY <1>4, <1>8 DEF vars
<1> QED BY <1>1, <1>2, <1>3, <1>5, <1>6, <1>7, <1>8 DEF Next, HandleTyped,
  HandleNothing, UpdateTyped

LEMMA SizedFits == Sound /\ Tracked /\ SizesInv => SizesFit
<1> SUFFICES ASSUME Sound, Tracked, SizesInv, Rewritten,
                    NEW c \in Index, NEW t \in Types, Allocates(c, t)
             PROVE  /\ LastSize(c)[2] >= Structs(c, t) * inflatedSize[t]
                    /\ c \in DOMAIN heapStructInfo
                    /\ heapStructInfo[c] = [type |-> t, count |-> Structs(c, t)]
  BY DEF SizesFit, Structs
<1>1. /\ original \in Functions /\ SameShape(original, code) /\ original[c].op \in Allocs
      /\ code \in [Index -> Instr]
  BY AllocatesOf DEF Tracked, QueueInv, Sound, TypeOK
<1>2. Sized(c, t) /\ pc # "handle"
  BY DEF SizesInv, Rewritten
<1>3. LastSize(c) = SizeOf(c)
  <2>1. DOMAIN code[c].args = 1 .. SizeArg(original[c]) /\ SizeArg(original[c]) \in Nat
    BY <1>1, SizeArgs DEF SameShape, SizeArg
  <2>2. code[c].args \in Seq(Operand)
    BY <1>1 DEF Instr, Operand
  <2> QED BY <2>1, <2>2, LengthOf DEF LastSize, SizeOf
<1>4. Structs(c, t) * inflatedSize[t] \in Nat
  <2>1. Structs(c, t) \in Nat /\ inflatedSize[t] \in Nat
    BY <1>1, AllocatesOf, SizesAssumption
  <2> QED BY <2>1
<1> QED BY <1>2, <1>3, <1>4 DEF Sized

(***************************************************************************)
(* For every function and all sizes that inflation does not shrink: a      *)
(* block used as structs of one type is made large enough for their        *)
(* inflated forms and is entered with their number, however often its      *)
(* address is cast.                                                        *)
(***************************************************************************)
THEOREM SizesFitCorrect == Spec => []SizesFit
<1>1. Init => Sound /\ Tracked /\ SizesInv
  BY SoundInit, TrackedInit, SizesInit
<1>2. Sound /\ Tracked /\ SizesInv /\ [Next]_vars => Sound' /\ Tracked' /\ SizesInv'
  BY SoundNext, TrackedStep, SizesStep
<1> QED BY <1>1, <1>2, SizedFits, PTL DEF Spec

=============================================================================
