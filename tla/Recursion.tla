----------------------------- MODULE Recursion -----------------------------
(***************************************************************************)
(* A recursive function  f[x \in S] == ...  names some f that satisfies    *)
(* its equation: nothing can be said of it before one is known to exist.   *)
(* This module shows that one does when S is the last of a growing chain   *)
(* of sets, Level(0), Level(1), ..., and the equation, at an argument of   *)
(* one level, asks for f only at arguments of the level below.  The trees  *)
(* of at most d levels are such a chain.  A module that uses recursive     *)
(* functions instantiates this one with their equations.                   *)
(***************************************************************************)
EXTENDS NaturalSets

CONSTANTS
  Level(_),      \* the chain of domains
  Par,           \* the parameters of the equation
  Def(_, _, _)   \* Def(f, x, p): the right-hand side of f[x], with parameter p

Grows == \A d \in Nat : Level(d) \subseteq Level(d + 1)

AsksBelow ==
  /\ \A p \in Par : \A f, g : \A x \in Level(0) : Def(f, x, p) = Def(g, x, p)
  /\ \A d \in Nat, p \in Par : \A f, g :
       (\A y \in Level(d) : f[y] = g[y]) =>
         \A x \in Level(d + 1) : Def(f, x, p) = Def(g, x, p)

Solved(d) == \A p \in Par : \E f : f = [x \in Level(d) |-> Def(f, x, p)]

(* On the lowest level the equation asks for nothing.                      *)
LEMMA SolvedFirst ==
  ASSUME AsksBelow
  PROVE  Solved(0)
<1> SUFFICES ASSUME NEW p \in Par
             PROVE  \E f : f = [x \in Level(0) |-> Def(f, x, p)]
  BY DEF Solved
<1> DEFINE e == [x \in {} |-> x]
           g == [x \in Level(0) |-> Def(e, x, p)]
<1>1. \A x \in Level(0) : Def(g, x, p) = Def(e, x, p)
  <2> HIDE DEF g, e
  <2> QED BY DEF AsksBelow
<1>2. g = [x \in Level(0) |-> Def(g, x, p)]
  <2>1. [x \in Level(0) |-> Def(e, x, p)] = [x \in Level(0) |-> Def(g, x, p)]
    <3> HIDE DEF g, e
    <3> QED BY <1>1
  <2> QED BY <2>1
<1> QED BY <1>2

(* A solution on one level extends to the next.                            *)
LEMMA SolvedNext ==
  ASSUME Grows, AsksBelow, NEW d \in Nat, Solved(d)
  PROVE  Solved(d + 1)
<1> SUFFICES ASSUME NEW p \in Par
             PROVE  \E f : f = [x \in Level(d + 1) |-> Def(f, x, p)]
  BY DEF Solved
<1>1. PICK f : f = [x \in Level(d) |-> Def(f, x, p)]
  BY DEF Solved
<1> DEFINE g == [x \in Level(d + 1) |-> Def(f, x, p)]
<1>2. \A y \in Level(d) : g[y] = f[y]
  <2> TAKE y \in Level(d)
  <2>1. y \in Level(d + 1)
    BY DEF Grows
  <2>2. g[y] = Def(f, y, p)
    BY <2>1
  <2>3. [x \in Level(d) |-> Def(f, x, p)][y] = Def(f, y, p)
    OBVIOUS
  <2>4. f[y] = Def(f, y, p)
    BY <1>1, <2>3
  <2> QED BY <2>2, <2>4
<1>3. \A x \in Level(d + 1) : Def(g, x, p) = Def(f, x, p)
  <2> HIDE DEF g
  <2> QED BY <1>2 DEF AsksBelow
<1>4. g = [x \in Level(d + 1) |-> Def(g, x, p)]
  <2>1. [x \in Level(d + 1) |-> Def(f, x, p)] = [x \in Level(d + 1) |-> Def(g, x, p)]
    <3> HIDE DEF g
    <3> QED BY <1>3
  <2> QED BY <2>1
<1> QED BY <1>4

(* So the equation has a solution on every level, for every parameter.     *)
LEMMA FunctionExists ==
  ASSUME Grows, AsksBelow
  PROVE  \A d \in Nat, p \in Par : \E f : f = [x \in Level(d) |-> Def(f, x, p)]
<1> DEFINE T == {d \in Nat : Solved(d)}
<1>1. Nat \subseteq T
  <2>1. 0 \in T
    BY SolvedFirst
  <2>2. \A d \in Nat : d \in T => d + 1 \in T
    BY SolvedNext
  <2> HIDE DEF T
  <2> QED BY <2>1, <2>2, SetInduction
<1>2. \A d \in Nat : Solved(d)
  BY <1>1
<1> QED BY <1>2 DEF Solved

=============================================================================
