--------------------------- MODULE MCFunctionPass ---------------------------
(***************************************************************************)
(* FunctionPass for TLC: functions of six instructions.                    *)
(***************************************************************************)
EXTENDS FunctionPass, TLC

Size == ("A" :> 4) @@ ("B" :> 8)
InflatedSize == ("A" :> 6) @@ ("B" :> 10)

I(op, args, type) == [op |-> op, args |-> args, type |-> type]
Int(n) == <<"int", n>>
Unknown == <<"arg", 0>>

(* What clang accepts: operands come before their use, except those of phi *)
(* nodes, and have the types it calls for.                                 *)
HasResult(c, n) == c[n].op \notin {"store", "icmp", "free", "ret"}

TypeOf(c, o) == IF Computed(o) THEN c[o[2]].type ELSE None

Pointer(c, o, t) ==
  (o \in {OldNull, Parameter} /\ t # None) \/ (Computed(o) /\ TypeOf(c, o) = t)

(* A pointer to an array of structs; those of allocas are GEP operands.    *)
ArrayPointer(c, o) == Computed(o) /\ c[o[2]].op \in {"aload", "aphi", "acast"}

WellTyped(c) ==
  \A i \in Index :
    LET t == c[i].type
        a == c[i].args
    IN  /\ \A k \in DOMAIN a :
             Computed(a[k]) =>
               /\ HasResult(c, a[k][2])
               /\ c[i].op \notin {"phi", "aphi"} => a[k][2] < i
               /\ c[a[k][2]].op = "fload" <=> c[i].op = "icall" /\ k = 1
        /\ IF c[i].op = "aphi"
           THEN \A o \in Uses(c, i) : ArrayPointer(c, o)
           ELSE c[i].op \notin {"gep", "cast", "acast", "ret", "ptrtoint"} =>
                  \A o \in Uses(c, i) : ~ArrayPointer(c, o)
        /\ CASE c[i].op = "gep" -> Pointer(c, a[1], t)
             [] c[i].op = "load" -> t # None => Pointer(c, a[1], t)
             [] c[i].op = "aload" -> Computed(a[1]) /\ c[a[1][2]].op = "array"
             [] c[i].op \in {"phi", "select"} -> \A o \in Uses(c, i) : Pointer(c, o, t)
             [] c[i].op \in {"icmp", "store"} -> \E s \in Types : Pointer(c, a[1], s) /\ Pointer(c, a[2], s)
             [] c[i].op = "icall" ->
                  \E s \in Types \cup {None} :
                    (a[1] = Parameter \/ TypeOf(c, a[1]) = s) /\ Pointer(c, a[2], s)
             [] c[i].op \in {"free", "realloc"} -> Pointer(c, a[1], None)
             [] OTHER -> TRUE

(* Allocations of every kind and size, cast once or twice, and freed.      *)
Sizes ==
  {<<alloc, use1, use2, I("cast", <<o>>, None), f, I("alloca", <<>>, None)>> :
     alloc \in {I("malloc", <<Int(n)>>, None) : n \in {1, 4, 8, 12}}
               \cup {I("malloc", <<Unknown>>, None)}
               \cup {I("calloc", <<Int(k), Int(n)>>, None) : k \in {1, 2}, n \in {1, 8}},
     use1 \in {I(op, <<val(1)>>, t) : op \in {"cast", "pcast"}, t \in {"A", "B"}},
     use2 \in {I("cast", <<v>>, t) : v \in {val(1), val(2)}, t \in {"A", "B"}}
              \cup {I("realloc", <<val(1), Int(n)>>, None) : n \in {4, 16}},
     o \in {val(2), val(3)},
     f \in {I("free", <<v>>, None) : v \in {val(1), val(3), val(4)}}}

(* Instructions of all kinds, with phi nodes that form cycles.             *)
Third ==
  {I("phi", <<val(2), w>>, "A") : w \in {val(3), val(4), val(5), OldNull, Parameter}}
  \cup {I("phi", <<val(1), val(4)>>, None), I("gep", <<val(2)>>, "A")}
  \cup {I("cast", <<val(1)>>, "A"), I("cast", <<val(2)>>, None)}
  \cup {I("malloc", <<Int(4)>>, None), I("alloca", <<>>, "A"), I("array", <<>>, "A")}
  \cup {I("realloc", <<val(1), Int(4)>>, None), I("call", <<val(2)>>, "A")}
  \cup {I("fload", <<val(2)>>, "A"), I("acast", <<val(1)>>, "A"),
          I("inttoptr", <<Int(4)>>, "A")}

Fourth ==
  {I("phi", <<val(3), w>>, t) : w \in {val(1), val(2), val(4), val(5)}, t \in {"A", None}}
  \cup {I("load", <<val(3)>>, t) : t \in {"A", None}}
  \cup {I("gep", <<val(3)>>, "A"), I("cast", <<val(3)>>, "A"), I("cast", <<val(3)>>, None)}
  \cup {I("aload", <<val(3)>>, "A"), I("aphi", <<val(3), val(4)>>, "A")}
  \cup {I("select", <<val(2), w>>, "A") : w \in {val(3), OldNull}}
  \cup {I("icall", <<f, w>>, t) :
           f \in {val(3), Parameter}, w \in {val(2), OldNull}, t \in {"A", None}}

Fifth ==
  {I("cast", <<v>>, t) : v \in {val(3), val(4)}, t \in {"A", None}}
  \cup {I("phi", <<val(4), val(3)>>, "A")}

Last ==
  {I("free", <<v>>, None) : v \in {val(1), val(3), val(4), val(5)}}
  \cup {I("icmp", <<v, w>>, None) : v \in {val(2), OldNull}, w \in {val(4), OldNull}}
  \cup {I("store", <<v, val(4)>>, None) : v \in {val(2), OldNull}}
  \cup {I("ret", <<v>>, None) : v \in {val(4), OldNull}}
  \cup {I("ptrtoint", <<val(4)>>, None)}
  \cup {I("call", <<v, OldNull>>, None) : v \in {val(4), OldNull}}

Graphs ==
  {<<I("malloc", <<Int(8)>>, None), I("cast", <<val(1)>>, "A"), i, j, k, l>> :
     i \in Third, j \in Fourth, k \in Fifth, l \in Last}

SizesAndGraphs == {c \in Sizes \cup Graphs : WellTyped(c)}

=============================================================================
