--------------------------- MODULE AvlTreeProofs ---------------------------
(***************************************************************************)
(* Proofs about the AVL tree, for all addresses, sizes and depths.  The    *)
(* recursive functions of AvlTree are shown to satisfy their equations;    *)
(* what each does to a good tree - a search tree with real heights that is *)
(* balanced - follows by induction over Tree; being good is the inductive  *)
(* invariant.  For remove_between the keys its pointers lead to are        *)
(* followed through its deletions.  The last section shows that the tree   *)
(* implements the redzone store.                                           *)
(***************************************************************************)
EXTENDS AvlTree, NaturalSets, FiniteSetTheorems, TLAPS

-----------------------------------------------------------------------------
(* The recursive functions satisfy their equations.  For each: its         *)
(* equation as an operator, the instance of Recursion that says that it    *)
(* has a solution, and the equation of the operator AvlTree defines by it. *)

NoPar == {0}

UpTo(d) == 0 .. d

TreesDef(f, e, p) == IF e = 0 THEN {NULL} ELSE {NULL} \cup NodesOver(f[e - 1])

TreesRec == INSTANCE Recursion WITH Level <- UpTo, Par <- NoPar, Def <- TreesDef

(* The numbers up to d, as a chain.                                        *)
LEMMA UpToChain ==
  /\ \A d \in Nat : UpTo(d) \subseteq UpTo(d + 1)
  /\ UpTo(0) = {0}
  /\ \A d \in Nat : \A x \in UpTo(d + 1) : x = 0 \/ x - 1 \in UpTo(d)
BY DEF UpTo

(* The trees of at most d levels are the last value of a function that     *)
(* satisfies its equation.                                                 *)
LEMMA TreesSolved ==
  ASSUME NEW d \in Nat
  PROVE  \E f : /\ f = [e \in 0 .. d |-> TreesDef(f, e, 0)]
                /\ TreesUpTo(d) = f[d]
<1>1. TreesRec!Grows
  BY UpToChain DEF TreesRec!Grows
<1>2. TreesRec!AsksBelow
  BY UpToChain DEF TreesRec!AsksBelow, TreesDef
<1>3. \E f : f = [e \in 0 .. d |-> TreesDef(f, e, 0)]
  BY <1>1, <1>2, TreesRec!FunctionExists DEF NoPar, UpTo
<1> DEFINE f == CHOOSE f : f = [e \in 0 .. d |-> TreesDef(f, e, 0)]
<1>4. f = [e \in 0 .. d |-> TreesDef(f, e, 0)]
  BY <1>3, Zenon
<1>5. TreesUpTo(d) = f[d]
  BY DEF TreesUpTo, TreesDef
<1> QED BY <1>4, <1>5

(* The trees of no level, and those of one level more.                     *)
LEMMA TreesEquation ==
  /\ TreesUpTo(0) = {NULL}
  /\ \A d \in Nat : TreesUpTo(d + 1) = {NULL} \cup NodesOver(TreesUpTo(d))
<1>1. TreesUpTo(0) = {NULL}
  <2>1. PICK f : f = [e \in 0 .. 0 |-> TreesDef(f, e, 0)] /\ TreesUpTo(0) = f[0]
    BY TreesSolved
  <2>2. 0 \in 0 .. 0
    OBVIOUS
  <2>3. f[0] = TreesDef(f, 0, 0)
    BY <2>1, <2>2
  <2> QED BY <2>1, <2>3 DEF TreesDef
<1>2. ASSUME NEW d \in Nat
      PROVE  TreesUpTo(d + 1) = {NULL} \cup NodesOver(TreesUpTo(d))
  <2>1. PICK f : f = [e \in 0 .. d |-> TreesDef(f, e, 0)] /\ TreesUpTo(d) = f[d]
    BY TreesSolved
  <2>2. PICK g : g = [e \in 0 .. d + 1 |-> TreesDef(g, e, 0)] /\ TreesUpTo(d + 1) = g[d + 1]
    BY TreesSolved
  <2>3. \A e \in 0 .. d : f[e] = TreesDef(f, e, 0)
    BY <2>1
  <2>4. \A e \in 0 .. d + 1 : g[e] = TreesDef(g, e, 0)
    BY <2>2
  <2> DEFINE T == {e \in Nat : e <= d => f[e] = g[e]}
  <2>5. 0 \in T
    <3>1. 0 \in 0 .. d /\ 0 \in 0 .. d + 1
      OBVIOUS
    <3>2. f[0] = {NULL} /\ g[0] = {NULL}
      BY <3>1, <2>3, <2>4 DEF TreesDef
    <3> QED BY <3>2
  <2>6. ASSUME NEW e \in Nat, e \in T
        PROVE  e + 1 \in T
    <3>1. SUFFICES ASSUME e + 1 <= d
                   PROVE  f[e + 1] = g[e + 1]
      OBVIOUS
    <3>2. e + 1 \in 0 .. d /\ e + 1 \in 0 .. d + 1 /\ e + 1 # 0 /\ (e + 1) - 1 = e /\ e <= d
      BY <3>1
    <3>3. f[e + 1] = {NULL} \cup NodesOver(f[e])
      BY <3>2, <2>3 DEF TreesDef
    <3>4. g[e + 1] = {NULL} \cup NodesOver(g[e])
      BY <3>2, <2>4 DEF TreesDef
    <3> QED BY <2>6, <3>2, <3>3, <3>4
  <2>7. Nat \subseteq T
    <3> HIDE DEF T
    <3> QED BY <2>5, <2>6, SetInduction
  <2>8. f[d] = g[d]
    BY <2>7
  <2>9. d + 1 \in 0 .. d + 1 /\ d + 1 # 0 /\ (d + 1) - 1 = d
    OBVIOUS
  <2>10. g[d + 1] = {NULL} \cup NodesOver(g[d])
    BY <2>4, <2>9 DEF TreesDef
  <2> QED BY <2>1, <2>2, <2>8, <2>10
<1> QED BY <1>1, <1>2

(* More levels admit more trees.                                           *)
LEMMA TreesGrow ==
  \A d \in Nat : TreesUpTo(d) \subseteq TreesUpTo(d + 1)
<1> DEFINE T == {d \in Nat : TreesUpTo(d) \subseteq TreesUpTo(d + 1)}
<1>1. 0 \in T
  BY TreesEquation
<1>2. ASSUME NEW d \in Nat, d \in T
      PROVE  d + 1 \in T
  <2>1. TreesUpTo(d) \subseteq TreesUpTo(d + 1)
    BY <1>2
  <2>2. NodesOver(TreesUpTo(d)) \subseteq NodesOver(TreesUpTo(d + 1))
    BY <2>1 DEF NodesOver
  <2>3. d + 1 \in Nat
    OBVIOUS
  <2> QED BY <2>2, <2>3, TreesEquation
<1>3. Nat \subseteq T
  <2> HIDE DEF T
  <2> QED BY <1>1, <1>2, SetInduction
<1> QED BY <1>3

(* So the trees of at most d levels are among those of at most e >= d.     *)
LEMMA TreesMonotone ==
  ASSUME NEW d \in Nat, NEW e \in Nat, d <= e
  PROVE  TreesUpTo(d) \subseteq TreesUpTo(e)
<1> DEFINE T == {i \in Nat : TreesUpTo(d) \subseteq TreesUpTo(d + i)}
<1>1. 0 \in T
  OBVIOUS
<1>2. ASSUME NEW i \in Nat, i \in T
      PROVE  i + 1 \in T
  <2>1. TreesUpTo(d + i) \subseteq TreesUpTo(d + i + 1)
    <3>1. d + i \in Nat
      OBVIOUS
    <3> QED BY <3>1, TreesGrow
  <2>2. d + i + 1 = d + (i + 1)
    OBVIOUS
  <2> QED BY <1>2, <2>1, <2>2
<1>3. Nat \subseteq T
  <2> HIDE DEF T
  <2> QED BY <1>1, <1>2, SetInduction
<1>4. e - d \in Nat /\ d + (e - d) = e
  OBVIOUS
<1>5. e - d \in T
  BY <1>3, <1>4
<1> QED BY <1>4, <1>5

(* What a node of a tree is.  NULL is none, by assumption.                 *)
LEMMA TreeParts ==
  /\ NULL \in Tree
  /\ Tree \subseteq {NULL} \cup Node
  /\ \A d \in Nat : NULL \in TreesUpTo(d)
  /\ \A d \in Nat : d <= Depth => TreesUpTo(d) \subseteq Tree
  /\ \A n \in Node : n # NULL /\ n.left \in Tree /\ n.right \in Tree
<1>1. \A d \in Nat : NULL \in TreesUpTo(d)
  <2> TAKE d \in Nat
  <2>1. 0 <= d /\ 0 \in Nat
    OBVIOUS
  <2> QED BY <2>1, TreesMonotone, TreesEquation
<1>2. \A d \in Nat : d <= Depth => TreesUpTo(d) \subseteq Tree
  BY TreesMonotone, DepthAssumption DEF Tree
<1>3. Tree \subseteq {NULL} \cup Node
  BY TreesGrow, TreesEquation, DepthAssumption DEF Tree, Node
<1>4. \A n \in Node : n # NULL /\ n.left \in Tree /\ n.right \in Tree
  BY NullAssumption DEF Node, NodesOver
<1> QED BY <1>1, <1>2, <1>3, <1>4, DepthAssumption DEF Tree

(* A node of a tree of at most d + 1 levels has children of at most d.     *)
LEMMA TreeChildren ==
  ASSUME NEW d \in Nat, NEW n \in TreesUpTo(d + 1), n # NULL
  PROVE  n \in NodesOver(TreesUpTo(d)) /\ n.left \in TreesUpTo(d) /\ n.right \in TreesUpTo(d)
<1>1. n \in NodesOver(TreesUpTo(d))
  BY TreesEquation
<1> QED BY <1>1 DEF NodesOver

(* The fields of a node.                                                   *)
LEMMA NodeFields ==
  ASSUME NEW n \in Node
  PROVE  /\ n.at \in Addr /\ n.key \in Addr /\ n.size \in Sizes /\ n.height \in Nat
         /\ n.at \in Nat /\ n.key \in Nat /\ n.size \in Nat
         /\ n.left \in Tree /\ n.right \in Tree
BY AddressAssumption, SizeAssumption DEF Node, NodesOver

(***************************************************************************)
(* Induction over trees: a set that holds NULL, and every node whose       *)
(* children it holds, holds every tree.                                    *)
(***************************************************************************)
LEMMA TreeInduction ==
  ASSUME NEW T, NULL \in T,
         \A n \in Tree : n # NULL /\ n.left \in T /\ n.right \in T => n \in T
  PROVE  Tree \subseteq T
<1> DEFINE L == {d \in Nat : d <= Depth => TreesUpTo(d) \subseteq T}
<1>1. 0 \in L
  BY TreesEquation
<1>2. ASSUME NEW d \in Nat, d \in L
      PROVE  d + 1 \in L
  <2>1. SUFFICES ASSUME d + 1 <= Depth, NEW n \in TreesUpTo(d + 1)
                 PROVE  n \in T
    OBVIOUS
  <2>2. CASE n = NULL
    BY <2>2
  <2>3. CASE n # NULL
    <3>1. n.left \in TreesUpTo(d) /\ n.right \in TreesUpTo(d)
      BY <2>3, TreeChildren
    <3>2. d <= Depth /\ d + 1 \in Nat
      BY <2>1, DepthAssumption
    <3>3. n.left \in T /\ n.right \in T
      BY <1>2, <3>1, <3>2
    <3>4. n \in Tree
      BY <2>1, <3>2, TreeParts
    <3> QED BY <2>3, <3>3, <3>4
  <2> QED BY <2>2, <2>3
<1>3. Nat \subseteq L
  <2> HIDE DEF L
  <2> QED BY <1>1, <1>2, SetInduction
<1>4. Depth \in L
  BY <1>3, DepthAssumption
<1> QED BY <1>4, DepthAssumption DEF Tree

-----------------------------------------------------------------------------
(* Nodes *)

NodesDef(f, m, p) == IF m = NULL THEN {} ELSE {m} \cup f[m.left] \cup f[m.right]

NodesRec == INSTANCE Recursion WITH Level <- TreesUpTo, Par <- NoPar, Def <- NodesDef

(* The nodes of a tree are its root and the nodes of its subtrees.         *)
LEMMA NodesEquation ==
  /\ Nodes(NULL) = {}
  /\ \A n \in Tree : n # NULL => Nodes(n) = {n} \cup Nodes(n.left) \cup Nodes(n.right)
<1>1. NodesRec!Grows
  BY TreesGrow DEF NodesRec!Grows
<1>2. NodesRec!AsksBelow
  BY TreesEquation, TreeChildren DEF NodesRec!AsksBelow, NodesDef
<1>3. \E f : f = [m \in Tree |-> NodesDef(f, m, 0)]
  BY <1>1, <1>2, NodesRec!FunctionExists, DepthAssumption DEF NoPar, Tree
<1> DEFINE f == CHOOSE f : f = [m \in Tree |-> NodesDef(f, m, 0)]
<1>4. f = [m \in Tree |-> NodesDef(f, m, 0)]
  BY <1>3, Zenon
<1>5. \A n \in Tree : Nodes(n) = f[n]
  BY DEF Nodes, NodesDef
<1>6. \A n \in Tree : f[n] = NodesDef(f, n, 0)
  <2> HIDE DEF f
  <2> QED BY <1>4
<1> HIDE DEF f
<1>7. Nodes(NULL) = {}
  BY <1>5, <1>6, TreeParts DEF NodesDef
<1>8. ASSUME NEW n \in Tree, n # NULL
      PROVE  Nodes(n) = {n} \cup Nodes(n.left) \cup Nodes(n.right)
  <2>1. n.left \in Tree /\ n.right \in Tree
    BY <1>8, TreeParts
  <2>2. f[n] = {n} \cup f[n.left] \cup f[n.right]
    BY <1>6, <1>8 DEF NodesDef
  <2> QED BY <1>5, <2>1, <2>2
<1> QED BY <1>7, <1>8

-----------------------------------------------------------------------------
(* Insertion *)

InsertedDef(f, m, p) ==
  CASE m = NULL -> newNode(p.key, p.size)
    [] m # NULL /\ p.key = m.key -> m
    [] m # NULL /\ p.key < m.key ->
         RebalanceInserted(WithHeight([m EXCEPT !.left = f[@]]), p.key)
    [] OTHER ->
         RebalanceInserted(WithHeight([m EXCEPT !.right = f[@]]), p.key)

Redzones == [key : Addr, size : Sizes]

InsertedRec == INSTANCE Recursion WITH Level <- TreesUpTo, Par <- Redzones, Def <- InsertedDef

(* insertNode, case by case.                                               *)
LEMMA InsertEquation ==
  ASSUME NEW key \in Addr, NEW size \in Sizes
  PROVE  /\ insertNode(NULL, key, size) = newNode(key, size)
         /\ \A n \in Tree \ {NULL} :
              insertNode(n, key, size) =
                IF key = n.key
                  THEN n
                  ELSE IF key < n.key
                    THEN RebalanceInserted(
                           WithHeight([n EXCEPT !.left = insertNode(n.left, key, size)]), key)
                    ELSE RebalanceInserted(
                           WithHeight([n EXCEPT !.right = insertNode(n.right, key, size)]), key)
<1> DEFINE p == [key |-> key, size |-> size]
<1>1. InsertedRec!Grows
  BY TreesGrow DEF InsertedRec!Grows
<1>2. InsertedRec!AsksBelow
  BY TreesEquation, TreeChildren DEF InsertedRec!AsksBelow, InsertedDef
<1>3. \E f : f = [m \in Tree |-> InsertedDef(f, m, p)]
  BY <1>1, <1>2, InsertedRec!FunctionExists, DepthAssumption DEF Redzones, Tree
<1> DEFINE f == CHOOSE f : f = [m \in Tree |-> InsertedDef(f, m, p)]
<1>4. f = [m \in Tree |-> InsertedDef(f, m, p)]
  BY <1>3, Zenon
<1>5. \A n \in Tree : insertNode(n, key, size) = f[n]
  BY DEF insertNode, InsertedDef
<1>6. \A n \in Tree : f[n] = InsertedDef(f, n, p)
  <2> HIDE DEF f
  <2> QED BY <1>4
<1> HIDE DEF f
<1>7. insertNode(NULL, key, size) = newNode(key, size)
  BY <1>5, <1>6, TreeParts DEF InsertedDef
<1>8. ASSUME NEW n \in Tree, n # NULL
      PROVE  insertNode(n, key, size) =
               IF key = n.key
                 THEN n
                 ELSE IF key < n.key
                   THEN RebalanceInserted(WithHeight([n EXCEPT !.left = f[n.left]]), key)
                   ELSE RebalanceInserted(WithHeight([n EXCEPT !.right = f[n.right]]), key)
  <2> DEFINE L == RebalanceInserted(WithHeight([n EXCEPT !.left = f[n.left]]), key)
             R == RebalanceInserted(WithHeight([n EXCEPT !.right = f[n.right]]), key)
  <2>1. p.key = key
    OBVIOUS
  <2>2. insertNode(n, key, size) = InsertedDef(f, n, p)
    BY <1>5, <1>6
  <2>3. insertNode(n, key, size) =
          CASE n = NULL -> newNode(p.key, p.size)
            [] n # NULL /\ key = n.key -> n
            [] n # NULL /\ key < n.key -> L
            [] OTHER -> R
    <3> HIDE DEF p
    <3> QED BY <2>1, <2>2, Zenon DEF InsertedDef
  <2> HIDE DEF L, R
  <2>4. insertNode(n, key, size) = IF key = n.key THEN n ELSE IF key < n.key THEN L ELSE R
    <3>1. key \in Nat /\ n.key \in Nat
      BY <1>8, TreeParts, NodeFields, AddressAssumption
    <3>2. CASE key = n.key
      BY <2>3, <1>8, <3>1, <3>2
    <3>3. CASE key < n.key
      BY <2>3, <1>8, <3>1, <3>3
    <3>4. CASE key > n.key
      BY <2>3, <1>8, <3>1, <3>4
    <3> QED BY <3>1, <3>2, <3>3, <3>4
  <2> QED BY <2>4 DEF L, R
<1>9. \A n \in Tree : n # NULL =>
         f[n.left] = insertNode(n.left, key, size) /\ f[n.right] = insertNode(n.right, key, size)
  BY <1>5, TreeParts
<1> QED BY <1>7, <1>8, <1>9

-----------------------------------------------------------------------------
(* Deletion *)

NonNull(d) == TreesUpTo(d) \ {NULL}

LeftmostDef(f, m, p) == IF m.left = NULL THEN m ELSE f[m.left]

LeftmostRec == INSTANCE Recursion WITH Level <- NonNull, Par <- NoPar, Def <- LeftmostDef

(* The walk to the leftmost node.                                          *)
LEMMA MinimumEquation ==
  ASSUME NEW n \in Tree, n # NULL
  PROVE  nodeWithMimumValue(n) = IF n.left = NULL THEN n ELSE nodeWithMimumValue(n.left)
<1>1. LeftmostRec!Grows
  BY TreesGrow DEF LeftmostRec!Grows, NonNull
<1>2. LeftmostRec!AsksBelow
  BY TreesEquation, TreeChildren DEF LeftmostRec!AsksBelow, LeftmostDef, NonNull
<1>3. \E f : f = [m \in Tree \ {NULL} |-> LeftmostDef(f, m, 0)]
  BY <1>1, <1>2, LeftmostRec!FunctionExists, DepthAssumption DEF NoPar, Tree, NonNull
<1> DEFINE f == CHOOSE f : f = [m \in Tree \ {NULL} |-> LeftmostDef(f, m, 0)]
<1>4. f = [m \in Tree \ {NULL} |-> LeftmostDef(f, m, 0)]
  BY <1>3, Zenon
<1>5. \A m : nodeWithMimumValue(m) = f[m]
  BY DEF nodeWithMimumValue, LeftmostDef
<1>6. f[n] = LeftmostDef(f, n, 0)
  <2> HIDE DEF f
  <2> QED BY <1>4
<1> HIDE DEF f
<1> QED BY <1>5, <1>6 DEF LeftmostDef

(* What deleteNode makes of its root before it rebalances, with f for the  *)
(* recursive calls.                                                        *)
Cut(f, m, k) ==
  LET next == nodeWithMimumValue(m.right).key
  IN  CASE k < m.key -> [m EXCEPT !.left = f[@][k]]
        [] k > m.key -> [m EXCEPT !.right = f[@][k]]
        [] k = m.key /\ m.left = NULL /\ m.right = NULL -> NULL
        [] k = m.key /\ m.left = NULL /\ m.right # NULL -> [m.right EXCEPT !.at = m.at]
        [] k = m.key /\ m.left # NULL /\ m.right = NULL -> [m.left EXCEPT !.at = m.at]
        [] OTHER -> [m EXCEPT !.key = next, !.right = f[@][next]]

Repaired(r) == IF r = NULL THEN NULL ELSE RebalanceDeleted(WithHeight(r))

DeletedDef(f, m, p) ==
  [k \in Addr |-> IF m = NULL THEN NULL ELSE Repaired(Cut(f, m, k))]

DeletedRec == INSTANCE Recursion WITH Level <- TreesUpTo, Par <- NoPar, Def <- DeletedDef

(* deleteNode is Cut and repaired.                                         *)
LEMMA DeletedSolved ==
  \E f : /\ \A n \in Tree, k \in Addr : deleteNode(n, k) = f[n][k]
         /\ \A k \in Addr : f[NULL][k] = NULL
         /\ \A n \in Tree \ {NULL}, k \in Addr : f[n][k] = Repaired(Cut(f, n, k))
<1>1. DeletedRec!Grows
  BY TreesGrow DEF DeletedRec!Grows
<1>2. DeletedRec!AsksBelow
  <2>1. \A p \in NoPar : \A f, g : \A x \in TreesUpTo(0) : DeletedDef(f, x, p) = DeletedDef(g, x, p)
    BY TreesEquation DEF DeletedDef
  <2>2. ASSUME NEW d \in Nat, NEW p \in NoPar, NEW f, NEW g,
               \A y \in TreesUpTo(d) : f[y] = g[y],
               NEW x \in TreesUpTo(d + 1)
        PROVE  DeletedDef(f, x, p) = DeletedDef(g, x, p)
    <3>1. CASE x = NULL
      BY <3>1 DEF DeletedDef
    <3>2. CASE x # NULL
      <4>1. f[x.left] = g[x.left] /\ f[x.right] = g[x.right]
        BY <2>2, <3>2, TreeChildren
      <4>2. \A k \in Addr : Cut(f, x, k) = Cut(g, x, k)
        BY <4>1, Zenon DEF Cut
      <4> QED BY <4>2 DEF DeletedDef
    <3> QED BY <3>1, <3>2
  <2> QED BY <2>1, <2>2 DEF DeletedRec!AsksBelow
<1>3. \E f : f = [m \in Tree |-> DeletedDef(f, m, 0)]
  BY <1>1, <1>2, DeletedRec!FunctionExists, DepthAssumption DEF NoPar, Tree
<1> DEFINE f == CHOOSE f : f = [m \in Tree |-> DeletedDef(f, m, 0)]
<1>4. f = [m \in Tree |-> DeletedDef(f, m, 0)]
  BY <1>3, Zenon
<1>5. \A n \in Tree, k \in Addr : deleteNode(n, k) = f[n][k]
  BY DEF deleteNode, DeletedDef, Cut, Repaired
<1>6. \A n \in Tree : f[n] = DeletedDef(f, n, 0)
  <2> HIDE DEF f
  <2> QED BY <1>4
<1> HIDE DEF f
<1>7. \A n \in Tree, k \in Addr : f[n][k] = IF n = NULL THEN NULL ELSE Repaired(Cut(f, n, k))
  BY <1>6 DEF DeletedDef
<1> QED BY <1>5, <1>7, TreeParts

(* What the code makes of a node.                                          *)
WithLeft(n, t) == [n EXCEPT !.left = t]

WithRight(n, t) == [n EXCEPT !.right = t]

WithNext(n, k, t) == [n EXCEPT !.key = k, !.right = t]

MovedTo(n, a) == [n EXCEPT !.at = a]

NamedOver(n, l, r) == [n EXCEPT !.at = n.key, !.left = l, !.right = r]

(* deleteNode, case by case.                                               *)
LEMMA DeleteEquation ==
  /\ \A k \in Addr : deleteNode(NULL, k) = NULL
  /\ \A n \in Tree \ {NULL}, k \in Addr :
       /\ k < n.key =>
            deleteNode(n, k) = Repaired(WithLeft(n, deleteNode(n.left, k)))
       /\ k > n.key =>
            deleteNode(n, k) = Repaired(WithRight(n, deleteNode(n.right, k)))
       /\ k = n.key /\ n.left = NULL /\ n.right = NULL =>
            deleteNode(n, k) = NULL
       /\ k = n.key /\ n.left = NULL /\ n.right # NULL =>
            deleteNode(n, k) = Repaired(MovedTo(n.right, n.at))
       /\ k = n.key /\ n.left # NULL /\ n.right = NULL =>
            deleteNode(n, k) = Repaired(MovedTo(n.left, n.at))
       /\ k = n.key /\ n.left # NULL /\ n.right # NULL =>
            \A next \in Addr :
              next = nodeWithMimumValue(n.right).key =>
                deleteNode(n, k) =
                  Repaired(WithNext(n, next, deleteNode(n.right, next)))
<1>1. PICK f : /\ \A n \in Tree, k \in Addr : deleteNode(n, k) = f[n][k]
               /\ \A k \in Addr : f[NULL][k] = NULL
               /\ \A n \in Tree \ {NULL}, k \in Addr : f[n][k] = Repaired(Cut(f, n, k))
  BY DeletedSolved
<1>2. \A k \in Addr : deleteNode(NULL, k) = NULL
  BY <1>1, TreeParts
<1>3. ASSUME NEW n \in Tree \ {NULL}, NEW k \in Addr
      PROVE  /\ n.left \in Tree /\ n.right \in Tree
             /\ k \in Nat /\ n.key \in Nat
             /\ deleteNode(n, k) = Repaired(Cut(f, n, k))
  BY <1>1, TreeParts, NodeFields, AddressAssumption
<1>4. ASSUME NEW n \in Tree \ {NULL}, NEW k \in Addr, k < n.key
      PROVE  deleteNode(n, k) = Repaired(WithLeft(n, deleteNode(n.left, k)))
  <2>1. f[n.left][k] = deleteNode(n.left, k)
    BY <1>1, <1>3
  <2>2. ~ (k > n.key) /\ k # n.key
    BY <1>3, <1>4
  <2>3. Cut(f, n, k) = WithLeft(n, f[n.left][k])
    BY <1>4, <2>2 DEF Cut, WithLeft, WithRight, WithNext, MovedTo
  <2> QED BY <1>3, <2>1, <2>3
<1>5. ASSUME NEW n \in Tree \ {NULL}, NEW k \in Addr, k > n.key
      PROVE  deleteNode(n, k) = Repaired(WithRight(n, deleteNode(n.right, k)))
  <2>1. f[n.right][k] = deleteNode(n.right, k)
    BY <1>1, <1>3
  <2>2. ~ (k < n.key) /\ k # n.key
    BY <1>3, <1>5
  <2>3. Cut(f, n, k) = WithRight(n, f[n.right][k])
    BY <1>5, <2>2 DEF Cut, WithLeft, WithRight, WithNext, MovedTo
  <2> QED BY <1>3, <2>1, <2>3
<1>6. ASSUME NEW n \in Tree \ {NULL}, NEW k \in Addr, k = n.key
      PROVE  ~ (k < n.key) /\ ~ (k > n.key)
  BY <1>3, <1>6
<1>7. ASSUME NEW n \in Tree \ {NULL}, NEW k \in Addr, k = n.key, n.left = NULL, n.right = NULL
      PROVE  deleteNode(n, k) = NULL
  <2>1. Cut(f, n, k) = NULL
    BY <1>6, <1>7 DEF Cut, WithLeft, WithRight, WithNext, MovedTo
  <2> QED BY <1>3, <2>1 DEF Repaired
<1>8. ASSUME NEW n \in Tree \ {NULL}, NEW k \in Addr, k = n.key, n.left = NULL, n.right # NULL
      PROVE  deleteNode(n, k) = Repaired(MovedTo(n.right, n.at))
  <2>1. Cut(f, n, k) = MovedTo(n.right, n.at)
    BY <1>6, <1>8 DEF Cut, WithLeft, WithRight, WithNext, MovedTo
  <2> QED BY <1>3, <2>1
<1>9. ASSUME NEW n \in Tree \ {NULL}, NEW k \in Addr, k = n.key, n.left # NULL, n.right = NULL
      PROVE  deleteNode(n, k) = Repaired(MovedTo(n.left, n.at))
  <2>1. Cut(f, n, k) = MovedTo(n.left, n.at)
    BY <1>6, <1>9 DEF Cut, WithLeft, WithRight, WithNext, MovedTo
  <2> QED BY <1>3, <2>1
<1>10. ASSUME NEW n \in Tree \ {NULL}, NEW k \in Addr, k = n.key, n.left # NULL, n.right # NULL,
              NEW next \in Addr, next = nodeWithMimumValue(n.right).key
       PROVE  deleteNode(n, k) =
                Repaired(WithNext(n, next, deleteNode(n.right, next)))
  <2>1. f[n.right][next] = deleteNode(n.right, next)
    BY <1>1, <1>3
  <2>2. Cut(f, n, k) = WithNext(n, next, f[n.right][next])
    BY <1>6, <1>10 DEF Cut, WithLeft, WithRight, WithNext, MovedTo
  <2> QED BY <1>3, <2>1, <2>2
<1> QED BY <1>2, <1>4, <1>5, <1>7, <1>8, <1>9, <1>10

-----------------------------------------------------------------------------
(* The naming of the nodes *)

RenamedDef(f, m, p) ==
  IF m = NULL THEN NULL ELSE [m EXCEPT !.at = m.key, !.left = f[@], !.right = f[@]]

RenamedRec == INSTANCE Recursion WITH Level <- TreesUpTo, Par <- NoPar, Def <- RenamedDef

(* Renamed, case by case.                                                  *)
LEMMA RenamedEquation ==
  /\ Renamed(NULL) = NULL
  /\ \A n \in Tree \ {NULL} :
       Renamed(n) = NamedOver(n, Renamed(n.left), Renamed(n.right))
<1>1. RenamedRec!Grows
  BY TreesGrow DEF RenamedRec!Grows
<1>2. RenamedRec!AsksBelow
  BY TreesEquation, TreeChildren DEF RenamedRec!AsksBelow, RenamedDef
<1>3. \E f : f = [m \in Tree |-> RenamedDef(f, m, 0)]
  BY <1>1, <1>2, RenamedRec!FunctionExists, DepthAssumption DEF NoPar, Tree
<1> DEFINE f == CHOOSE f : f = [m \in Tree |-> RenamedDef(f, m, 0)]
<1>4. f = [m \in Tree |-> RenamedDef(f, m, 0)]
  BY <1>3, Zenon
<1>5. \A n \in Tree : Renamed(n) = f[n]
  BY DEF Renamed, RenamedDef
<1>6. \A n \in Tree : f[n] = RenamedDef(f, n, 0)
  <2> HIDE DEF f
  <2> QED BY <1>4
<1> HIDE DEF f
<1>7. ASSUME NEW n \in Tree \ {NULL}
      PROVE  Renamed(n) = NamedOver(n, Renamed(n.left), Renamed(n.right))
  <2>1. n.left \in Tree /\ n.right \in Tree
    BY TreeParts
  <2>2. f[n.left] = Renamed(n.left) /\ f[n.right] = Renamed(n.right)
    BY <1>5, <2>1
  <2>3. Renamed(n) = NamedOver(n, f[n.left], f[n.right])
    BY <1>5, <1>6 DEF RenamedDef, NamedOver
  <2> QED BY <2>2, <2>3
<1>8. Renamed(NULL) = NULL
  BY <1>5, <1>6, TreeParts DEF RenamedDef
<1> QED BY <1>7, <1>8

-----------------------------------------------------------------------------
(* Rotations.  Joined(n, l, r) is node n with the subtrees l and r and the *)
(* height they give it: all that rebalancing ever builds.                  *)

Above(l, r) == 1 + IF height(l) > height(r) THEN height(l) ELSE height(r)

Joined(n, l, r) ==
  [at |-> n.at, key |-> n.key, size |-> n.size, height |-> Above(l, r),
   left |-> l, right |-> r]

(* A node's address and the redzone it holds.                              *)
Entry(n) == <<n.at, n.key, n.size>>

IsNode(n) ==
  n = [at |-> n.at, key |-> n.key, size |-> n.size, height |-> n.height,
       left |-> n.left, right |-> n.right]

(* Nodes of trees are records of six fields.                               *)
LEMMA NodeIsNode ==
  \A n \in Node : IsNode(n)
BY DEF Node, NodesOver, IsNode

(* The fields of a joined node.                                            *)
LEMMA JoinedParts ==
  ASSUME NEW n, NEW l, NEW r
  PROVE  /\ IsNode(Joined(n, l, r))
         /\ Joined(n, l, r).at = n.at
         /\ Joined(n, l, r).key = n.key
         /\ Joined(n, l, r).size = n.size
         /\ Joined(n, l, r).height = Above(l, r)
         /\ Joined(n, l, r).left = l
         /\ Joined(n, l, r).right = r
         /\ Entry(Joined(n, l, r)) = Entry(n)
BY DEF Joined, IsNode, Entry

(* Only the label of the node that is joined again matters.                *)
LEMMA JoinedAgain ==
  ASSUME NEW n, NEW l, NEW r, NEW a, NEW b
  PROVE  Joined(Joined(n, l, r), a, b) = Joined(n, a, b)
BY DEF Joined

(* A node with a new subtree and its height set is a joined node.          *)
LEMMA WithHeightJoins ==
  ASSUME NEW n, IsNode(n)
  PROVE  /\ WithHeight(n) = Joined(n, n.left, n.right)
         /\ \A l : WithHeight([n EXCEPT !.left = l]) = Joined(n, l, n.right)
         /\ \A r : WithHeight([n EXCEPT !.right = r]) = Joined(n, n.left, r)
<1>1. \A a, k, s, h, l, r :
         LET m == [at |-> a, key |-> k, size |-> s, height |-> h, left |-> l, right |-> r]
         IN  WithHeight(m) = Joined(m, l, r)
  BY DEF WithHeight, Joined, Above
<1> DEFINE M(l, r) == [at |-> n.at, key |-> n.key, size |-> n.size, height |-> n.height,
                       left |-> l, right |-> r]
<1>2. \A l, r : WithHeight(M(l, r)) = Joined(n, l, r)
  <2> TAKE l, r
  <2>1. WithHeight(M(l, r)) = Joined(M(l, r), l, r)
    BY <1>1
  <2>2. Joined(M(l, r), l, r) = Joined(n, l, r)
    BY DEF Joined
  <2> QED BY <2>1, <2>2
<1>3. n = M(n.left, n.right)
  BY DEF IsNode
<1>4. \A l : [M(n.left, n.right) EXCEPT !.left = l] = M(l, n.right)
  OBVIOUS
<1>5. \A r : [M(n.left, n.right) EXCEPT !.right = r] = M(n.left, r)
  OBVIOUS
<1> HIDE DEF M
<1>6. \A l : [n EXCEPT !.left = l] = M(l, n.right)
  BY <1>3, <1>4
<1>7. \A r : [n EXCEPT !.right = r] = M(n.left, r)
  BY <1>3, <1>5
<1> QED BY <1>2, <1>3, <1>6, <1>7

(* A rotation to the right.                                                *)
LEMMA RightRotated ==
  ASSUME NEW y, IsNode(y), IsNode(y.left)
  PROVE  rightRotate(y) = Joined(y.left, y.left.left, Joined(y, y.left.right, y.right))
<1>1. WithHeight([y EXCEPT !.left = y.left.right]) = Joined(y, y.left.right, y.right)
  BY WithHeightJoins
<1>2. rightRotate(y) =
        WithHeight([y.left EXCEPT !.right = Joined(y, y.left.right, y.right)])
  BY <1>1 DEF rightRotate
<1> QED BY <1>2, WithHeightJoins

(* A rotation to the left.                                                 *)
LEMMA LeftRotated ==
  ASSUME NEW x, IsNode(x), IsNode(x.right)
  PROVE  leftRotate(x) = Joined(x.right, Joined(x, x.left, x.right.left), x.right.right)
<1>1. WithHeight([x EXCEPT !.right = x.right.left]) = Joined(x, x.left, x.right.left)
  BY WithHeightJoins
<1>2. leftRotate(x) =
        WithHeight([x.right EXCEPT !.left = Joined(x, x.left, x.right.left)])
  BY <1>1 DEF leftRotate
<1> QED BY <1>2, WithHeightJoins

(* Rotations of a node that was just joined, single and double.            *)
RightTurned(n, l, r) == Joined(l, l.left, Joined(n, l.right, r))

LeftTurned(n, l, r) == Joined(r, Joined(n, l, r.left), r.right)

LeftRightTurned(n, l, r) ==
  Joined(l.right, Joined(l, l.left, l.right.left), Joined(n, l.right.right, r))

RightLeftTurned(n, l, r) ==
  Joined(r.left, Joined(n, l, r.left.left), Joined(r, r.left.right, r.right))

(* The rotations of the code build these.                                  *)
LEMMA Turns ==
  ASSUME NEW n, NEW l, NEW r
  PROVE  /\ IsNode(l) => rightRotate(Joined(n, l, r)) = RightTurned(n, l, r)
         /\ IsNode(r) => leftRotate(Joined(n, l, r)) = LeftTurned(n, l, r)
         /\ IsNode(l) /\ IsNode(l.right) =>
              rightRotate([Joined(n, l, r) EXCEPT !.left = leftRotate(@)])
                = LeftRightTurned(n, l, r)
         /\ IsNode(r) /\ IsNode(r.left) =>
              leftRotate([Joined(n, l, r) EXCEPT !.right = rightRotate(@)])
                = RightLeftTurned(n, l, r)
<1> DEFINE j == Joined(n, l, r)
<1>1. IsNode(j) /\ j.left = l /\ j.right = r
  BY JoinedParts
<1>2. \A a, b : Joined(j, a, b) = Joined(n, a, b)
  BY JoinedAgain
<1>3. /\ \A a : [j EXCEPT !.left = a] =
                  [at |-> n.at, key |-> n.key, size |-> n.size, height |-> Above(l, r),
                   left |-> a, right |-> r]
      /\ \A a : [j EXCEPT !.right = a] =
                  [at |-> n.at, key |-> n.key, size |-> n.size, height |-> Above(l, r),
                   left |-> l, right |-> a]
  BY DEF Joined
<1>4. ASSUME NEW a
      PROVE  /\ IsNode([j EXCEPT !.left = a])
             /\ [j EXCEPT !.left = a].left = a
             /\ [j EXCEPT !.left = a].right = r
             /\ \A b, c : Joined([j EXCEPT !.left = a], b, c) = Joined(n, b, c)
  BY <1>3 DEF IsNode, Joined
<1>5. ASSUME NEW a
      PROVE  /\ IsNode([j EXCEPT !.right = a])
             /\ [j EXCEPT !.right = a].left = l
             /\ [j EXCEPT !.right = a].right = a
             /\ \A b, c : Joined([j EXCEPT !.right = a], b, c) = Joined(n, b, c)
  BY <1>3 DEF IsNode, Joined
<1> HIDE DEF j
<1>6. ASSUME IsNode(l)
      PROVE  rightRotate(j) = RightTurned(n, l, r)
  BY <1>1, <1>2, <1>6, RightRotated DEF RightTurned
<1>7. ASSUME IsNode(r)
      PROVE  leftRotate(j) = LeftTurned(n, l, r)
  BY <1>1, <1>2, <1>7, LeftRotated DEF LeftTurned
<1>8. ASSUME IsNode(l), IsNode(l.right)
      PROVE  rightRotate([j EXCEPT !.left = leftRotate(@)]) = LeftRightTurned(n, l, r)
  <2> DEFINE a == Joined(l.right, Joined(l, l.left, l.right.left), l.right.right)
             y == [j EXCEPT !.left = a]
  <2>1. leftRotate(j.left) = a
    BY <1>1, <1>8, LeftRotated
  <2>2. IsNode(a) /\ a.left = Joined(l, l.left, l.right.left) /\ a.right = l.right.right
    BY JoinedParts
  <2>3. \A b, c : Joined(a, b, c) = Joined(l.right, b, c)
    BY JoinedAgain
  <2> HIDE DEF a
  <2>4. IsNode(y) /\ y.left = a /\ y.right = r /\ \A b, c : Joined(y, b, c) = Joined(n, b, c)
    BY <1>4
  <2>5. [j EXCEPT !.left = leftRotate(@)] = y
    BY <2>1
  <2> HIDE DEF y
  <2>6. rightRotate(y) = Joined(a, a.left, Joined(y, a.right, r))
    BY <2>2, <2>4, RightRotated
  <2> QED BY <2>2, <2>3, <2>4, <2>5, <2>6 DEF LeftRightTurned
<1>9. ASSUME IsNode(r), IsNode(r.left)
      PROVE  leftRotate([j EXCEPT !.right = rightRotate(@)]) = RightLeftTurned(n, l, r)
  <2> DEFINE a == Joined(r.left, r.left.left, Joined(r, r.left.right, r.right))
             x == [j EXCEPT !.right = a]
  <2>1. rightRotate(j.right) = a
    BY <1>1, <1>9, RightRotated
  <2>2. IsNode(a) /\ a.left = r.left.left /\ a.right = Joined(r, r.left.right, r.right)
    BY JoinedParts
  <2>3. \A b, c : Joined(a, b, c) = Joined(r.left, b, c)
    BY JoinedAgain
  <2> HIDE DEF a
  <2>4. IsNode(x) /\ x.left = l /\ x.right = a /\ \A b, c : Joined(x, b, c) = Joined(n, b, c)
    BY <1>5
  <2>5. [j EXCEPT !.right = rightRotate(@)] = x
    BY <2>1
  <2> HIDE DEF x
  <2>6. leftRotate(x) = Joined(a, Joined(x, l, a.left), a.right)
    BY <2>2, <2>4, LeftRotated
  <2> QED BY <2>2, <2>3, <2>4, <2>5, <2>6 DEF RightLeftTurned
<1> QED BY <1>6, <1>7, <1>8, <1>9 DEF j

-----------------------------------------------------------------------------
(* Search trees with real heights *)

(* The properties of AvlTree, of any tree.                                 *)
Ordered(n) ==
  \A m \in Nodes(n) :
    /\ \A a \in Nodes(m.left) : a.key < m.key
    /\ \A b \in Nodes(m.right) : b.key > m.key

Level(n) ==
  \A m \in Nodes(n) : m = WithHeight(m) /\ getBalanceFactor(m) \in -1 .. 1

Named(n) == \A m \in Nodes(n) : m.at = m.key

Avl(n) == n \in Tree /\ Ordered(n) /\ Level(n)

(* k lies between the keys of K and those of M.                            *)
Parts(K, k, M) == (\A a \in K : a < k) /\ (\A b \in M : b > k)

(* Every node of a tree is a node, and a tree.                             *)
LEMMA NodesAreNodes ==
  \A n \in Tree : Nodes(n) \subseteq Tree \cap Node
<1> DEFINE T == {n \in Tree : Nodes(n) \subseteq Tree \cap Node}
<1>1. NULL \in T
  BY NodesEquation, TreeParts
<1>2. ASSUME NEW n \in Tree, n # NULL, n.left \in T, n.right \in T
      PROVE  n \in T
  BY <1>2, NodesEquation, TreeParts
<1>3. Tree \subseteq T
  <2> HIDE DEF T
  <2> QED BY <1>1, <1>2, TreeInduction
<1> QED BY <1>3

(* The keys of a tree are that of its root and those of its subtrees.      *)
LEMMA KeysEquation ==
  /\ KeysOf(NULL) = {}
  /\ \A n \in Tree : KeysOf(n) \subseteq Addr /\ KeysOf(n) \subseteq Nat
  /\ \A n \in Tree \ {NULL} : KeysOf(n) = {n.key} \cup KeysOf(n.left) \cup KeysOf(n.right)
<1>1. KeysOf(NULL) = {}
  BY NodesEquation DEF KeysOf
<1>2. \A n \in Tree : KeysOf(n) \subseteq Addr /\ KeysOf(n) \subseteq Nat
  BY NodesAreNodes, NodeFields DEF KeysOf
<1>3. ASSUME NEW n \in Tree \ {NULL}
      PROVE  KeysOf(n) = {n.key} \cup KeysOf(n.left) \cup KeysOf(n.right)
  <2>1. Nodes(n) = {n} \cup Nodes(n.left) \cup Nodes(n.right)
    BY NodesEquation
  <2> QED BY <2>1 DEF KeysOf
<1> QED BY <1>1, <1>2, <1>3

(* The redzones of a tree, each with the address of its node.              *)
Contents(n) == {Entry(m) : m \in Nodes(n)}

(* They are that of its root and those of its subtrees.                    *)
LEMMA ContentsEquation ==
  /\ Contents(NULL) = {}
  /\ \A n \in Tree \ {NULL} :
       Contents(n) = {Entry(n)} \cup Contents(n.left) \cup Contents(n.right)
BY NodesEquation DEF Contents

(* Heights are natural numbers, NULL's is 0.                               *)
LEMMA HeightNat ==
  /\ height(NULL) = 0
  /\ \A n \in Tree : height(n) \in Nat
  /\ \A n \in Node : height(n) = n.height /\ getBalanceFactor(n) = height(n.left) - height(n.right)
  /\ \A l, r \in Tree : Above(l, r) \in Nat \ {0}
<1>1. \A n \in Tree : height(n) \in Nat
  BY TreeParts, NodeFields DEF height
<1>2. \A l, r \in Tree : Above(l, r) \in Nat \ {0}
  BY <1>1 DEF Above
<1> QED BY <1>1, <1>2, TreeParts DEF height, getBalanceFactor

(* The conditions on a tree are conditions on its root and on its subtrees. *)
LEMMA AvlEquation ==
  /\ Avl(NULL) /\ Named(NULL)
  /\ \A n \in Tree \ {NULL} :
       /\ Avl(n) <=> /\ Avl(n.left) /\ Avl(n.right)
                     /\ Parts(KeysOf(n.left), n.key, KeysOf(n.right))
                     /\ n.height = Above(n.left, n.right)
                     /\ height(n.left) - height(n.right) \in -1 .. 1
       /\ Named(n) <=> n.at = n.key /\ Named(n.left) /\ Named(n.right)
<1>1. Avl(NULL) /\ Named(NULL)
  BY NodesEquation, TreeParts DEF Avl, Ordered, Level, Named
<1>2. ASSUME NEW n \in Tree \ {NULL}
      PROVE  Avl(n) <=> /\ Avl(n.left) /\ Avl(n.right)
                        /\ Parts(KeysOf(n.left), n.key, KeysOf(n.right))
                        /\ n.height = Above(n.left, n.right)
                        /\ height(n.left) - height(n.right) \in -1 .. 1
  <2>1. n \in Node /\ n.left \in Tree /\ n.right \in Tree
    BY TreeParts
  <2>2. Nodes(n) = {n} \cup Nodes(n.left) \cup Nodes(n.right)
    BY NodesEquation
  <2>3. Ordered(n) <=> /\ Ordered(n.left) /\ Ordered(n.right)
                       /\ Parts(KeysOf(n.left), n.key, KeysOf(n.right))
    BY <2>2 DEF Ordered, Parts, KeysOf
  <2>4. n = WithHeight(n) <=> n.height = Above(n.left, n.right)
    <3>1. IsNode(n) /\ WithHeight(n) = Joined(n, n.left, n.right)
      BY <2>1, NodeIsNode, WithHeightJoins
    <3> QED BY <3>1 DEF IsNode, Joined
  <2>5. getBalanceFactor(n) = height(n.left) - height(n.right)
    BY <2>1, HeightNat
  <2>6. Level(n) <=> /\ Level(n.left) /\ Level(n.right)
                     /\ n.height = Above(n.left, n.right)
                     /\ height(n.left) - height(n.right) \in -1 .. 1
    <3>1. Level(n) <=> /\ Level(n.left) /\ Level(n.right)
                       /\ n = WithHeight(n) /\ getBalanceFactor(n) \in -1 .. 1
      BY <2>2 DEF Level
    <3> QED BY <3>1, <2>4, <2>5
  <2> QED BY <2>1, <2>3, <2>6 DEF Avl
<1>3. ASSUME NEW n \in Tree \ {NULL}
      PROVE  Named(n) <=> n.at = n.key /\ Named(n.left) /\ Named(n.right)
  <2>1. Nodes(n) = {n} \cup Nodes(n.left) \cup Nodes(n.right)
    BY NodesEquation
  <2> QED BY <2>1 DEF Named
<1> QED BY <1>1, <1>2, <1>3

(* With real heights, a tree has as many levels as its height says.        *)
LEMMA AvlFits ==
  ASSUME NEW n \in Tree, Avl(n)
  PROVE  height(n) \in 0 .. Depth /\ n \in TreesUpTo(height(n))
<1> DEFINE L == {d \in Nat : d <= Depth =>
                   \A m \in TreesUpTo(d) :
                     Avl(m) => height(m) <= d /\ m \in TreesUpTo(height(m))}
<1>1. 0 \in L
  BY TreesEquation, HeightNat
<1>2. ASSUME NEW d \in Nat, d \in L
      PROVE  d + 1 \in L
  <2>1. SUFFICES ASSUME d + 1 <= Depth, NEW m \in TreesUpTo(d + 1), Avl(m)
                 PROVE  height(m) <= d + 1 /\ m \in TreesUpTo(height(m))
    OBVIOUS
  <2>2. CASE m = NULL
    BY <2>2, HeightNat, TreesEquation
  <2>3. CASE m # NULL
    <3>1. m \in NodesOver(TreesUpTo(d)) /\ m.left \in TreesUpTo(d) /\ m.right \in TreesUpTo(d)
      BY <2>3, TreeChildren
    <3>2. d <= Depth /\ d + 1 \in Nat
      BY <2>1, DepthAssumption
    <3>3. m \in Tree /\ m.left \in Tree /\ m.right \in Tree /\ m \in Node
      BY <2>1, <2>3, <3>1, <3>2, TreeParts
    <3>4. Avl(m.left) /\ Avl(m.right) /\ height(m) = Above(m.left, m.right)
      BY <2>1, <2>3, <3>3, AvlEquation, HeightNat
    <3>5. /\ height(m.left) <= d /\ m.left \in TreesUpTo(height(m.left))
          /\ height(m.right) <= d /\ m.right \in TreesUpTo(height(m.right))
      BY <1>2, <3>1, <3>2, <3>4
    <3>6. height(m.left) \in Nat /\ height(m.right) \in Nat
      BY <3>3, HeightNat
    <3>7. PICK e \in Nat : height(m) = e + 1 /\ height(m.left) <= e /\ height(m.right) <= e /\ e <= d
      <4> DEFINE e == IF height(m.left) > height(m.right) THEN height(m.left) ELSE height(m.right)
      <4>1. /\ e \in Nat /\ height(m) = e + 1
            /\ height(m.left) <= e /\ height(m.right) <= e /\ e <= d
        BY <3>4, <3>5, <3>6 DEF Above
      <4> QED BY <4>1
    <3>8. m.left \in TreesUpTo(e) /\ m.right \in TreesUpTo(e)
      BY <3>5, <3>6, <3>7, TreesMonotone
    <3>9. m \in NodesOver(TreesUpTo(e))
      BY <3>1, <3>8 DEF NodesOver
    <3>10. m \in TreesUpTo(e + 1)
      BY <3>9, <3>7, TreesEquation
    <3> QED BY <3>7, <3>10
  <2> QED BY <2>2, <2>3
<1>3. Nat \subseteq L
  <2> HIDE DEF L
  <2> QED BY <1>1, <1>2, SetInduction
<1>4. Depth \in L
  BY <1>3, DepthAssumption
<1> QED BY <1>4, DepthAssumption, HeightNat DEF Tree

(***************************************************************************)
(* Holds(c, n, l, r, h): c is a good tree of height h with the contents of *)
(* node n and of the subtrees l and r.                                     *)
(***************************************************************************)
Holds(c, n, l, r, h) ==
  /\ Avl(c) /\ c # NULL
  /\ KeysOf(c) = {n.key} \cup KeysOf(l) \cup KeysOf(r)
  /\ Contents(c) = {Entry(n)} \cup Contents(l) \cup Contents(r)
  /\ height(c) = h
  /\ n.at = n.key /\ Named(l) /\ Named(r) => Named(c)

Labelled(n) == n.at \in Addr /\ n.key \in Addr /\ n.size \in Sizes

(* Joining good trees of about the same height gives a good tree.          *)
LEMMA JoinedHolds ==
  ASSUME NEW n, Labelled(n), NEW l, NEW r, Avl(l), Avl(r),
         Parts(KeysOf(l), n.key, KeysOf(r)),
         height(l) - height(r) \in -1 .. 1, Above(l, r) <= Depth
  PROVE  /\ Holds(Joined(n, l, r), n, l, r, Above(l, r))
         /\ Joined(n, l, r) \in Tree \ {NULL}
<1> DEFINE j == Joined(n, l, r)
<1>1. l \in Tree /\ r \in Tree
  BY DEF Avl
<1>2. /\ height(l) \in Nat /\ l \in TreesUpTo(height(l))
      /\ height(r) \in Nat /\ r \in TreesUpTo(height(r))
  BY <1>1, AvlFits
<1>3. PICK e \in Nat : Above(l, r) = e + 1 /\ height(l) <= e /\ height(r) <= e
  <2> DEFINE e == IF height(l) > height(r) THEN height(l) ELSE height(r)
  <2>1. e \in Nat /\ Above(l, r) = e + 1 /\ height(l) <= e /\ height(r) <= e
    BY <1>2 DEF Above
  <2> QED BY <2>1
<1>4. l \in TreesUpTo(e) /\ r \in TreesUpTo(e)
  BY <1>2, <1>3, TreesMonotone
<1>5. Above(l, r) \in Nat
  BY <1>3
<1>6. j \in NodesOver(TreesUpTo(e)) /\ j \in Node
  BY <1>1, <1>4, <1>5 DEF Joined, NodesOver, Node, Labelled
<1>7. j \in Tree /\ j # NULL
  <2>1. j \in TreesUpTo(e + 1)
    BY <1>6, TreesEquation
  <2>2. e + 1 \in Nat /\ e + 1 <= Depth
    BY <1>3
  <2> QED BY <1>6, <2>1, <2>2, TreeParts
<1>8. /\ j.left = l /\ j.right = r /\ j.key = n.key /\ j.at = n.at /\ j.height = Above(l, r)
      /\ Entry(j) = Entry(n)
  BY JoinedParts
<1> HIDE DEF j
<1>9. Avl(j) /\ (n.at = n.key /\ Named(l) /\ Named(r) => Named(j))
  BY <1>7, <1>8, AvlEquation
<1>10. /\ KeysOf(j) = {n.key} \cup KeysOf(l) \cup KeysOf(r)
       /\ Contents(j) = {Entry(n)} \cup Contents(l) \cup Contents(r)
  BY <1>7, <1>8, KeysEquation, ContentsEquation
<1>11. height(j) = Above(l, r)
  BY <1>6, <1>8, HeightNat
<1> QED BY <1>7, <1>9, <1>10, <1>11 DEF Holds, j

(* The parts of a good tree.                                               *)
LEMMA AvlParts ==
  ASSUME NEW n, Avl(n), n # NULL
  PROVE  /\ n \in Node /\ IsNode(n) /\ Labelled(n) /\ n.key \in Nat
         /\ Avl(n.left) /\ Avl(n.right)
         /\ Parts(KeysOf(n.left), n.key, KeysOf(n.right))
         /\ KeysOf(n) = {n.key} \cup KeysOf(n.left) \cup KeysOf(n.right)
         /\ Contents(n) = {Entry(n)} \cup Contents(n.left) \cup Contents(n.right)
         /\ KeysOf(n.left) \subseteq Nat /\ KeysOf(n.right) \subseteq Nat
         /\ height(n) = Above(n.left, n.right) /\ height(n) <= Depth
         /\ height(n.left) \in Nat /\ height(n.right) \in Nat
         /\ getBalanceFactor(n) = height(n.left) - height(n.right)
         /\ getBalanceFactor(n) \in -1 .. 1
         /\ Named(n) <=> n.at = n.key /\ Named(n.left) /\ Named(n.right)
<1>1. n \in Tree /\ n \in Node
  BY TreeParts DEF Avl
<1>2. n.left \in Tree /\ n.right \in Tree
  BY <1>1, TreeParts
<1>3. Labelled(n) /\ n.key \in Nat
  BY <1>1, NodeFields DEF Labelled
<1>4. height(n) = Above(n.left, n.right) /\ height(n) <= Depth
  BY <1>1, AvlEquation, HeightNat, AvlFits, DepthAssumption
<1> QED BY <1>1, <1>2, <1>3, <1>4, AvlEquation, HeightNat, KeysEquation, ContentsEquation, NodeIsNode

(* A node whose left subtree is two levels higher, and how it is turned.   *)
LEMMA LeftHeavy ==
  ASSUME NEW n, Labelled(n), NEW l, NEW r, Avl(l), Avl(r),
         Parts(KeysOf(l), n.key, KeysOf(r)), height(l) = height(r) + 2
  PROVE  /\ l # NULL
         /\ getBalanceFactor(l) = 1 => Holds(RightTurned(n, l, r), n, l, r, height(l))
         /\ getBalanceFactor(l) = 0 /\ height(l) < Depth =>
              Holds(RightTurned(n, l, r), n, l, r, height(l) + 1)
         /\ getBalanceFactor(l) = -1 =>
              l.right # NULL /\ Holds(LeftRightTurned(n, l, r), n, l, r, height(l))
<1>1. height(r) \in Nat /\ r \in Tree /\ n.key \in Nat /\ KeysOf(r) \subseteq Nat
  BY HeightNat, KeysEquation, AddressAssumption DEF Avl, Labelled
<1>2. l # NULL
  BY <1>1, HeightNat
<1> DEFINE a == l.left
           b == l.right
<1>3. /\ IsNode(l) /\ Labelled(l) /\ l.key \in Nat
      /\ Avl(a) /\ Avl(b)
      /\ Parts(KeysOf(a), l.key, KeysOf(b))
      /\ KeysOf(l) = {l.key} \cup KeysOf(a) \cup KeysOf(b)
      /\ Contents(l) = {Entry(l)} \cup Contents(a) \cup Contents(b)
      /\ KeysOf(a) \subseteq Nat /\ KeysOf(b) \subseteq Nat
      /\ height(l) = Above(a, b) /\ height(l) <= Depth
      /\ height(a) \in Nat /\ height(b) \in Nat
      /\ getBalanceFactor(l) = height(a) - height(b)
      /\ Named(l) <=> l.at = l.key /\ Named(a) /\ Named(b)
  BY <1>2, AvlParts
<1> HIDE DEF a, b
<1>4. l.key < n.key /\ Parts(KeysOf(b), n.key, KeysOf(r))
  BY <1>3 DEF Parts
<1>5. ASSUME NEW h \in Nat, h <= Depth,
             height(b) - height(r) \in -1 .. 1,
             height(a) - Above(b, r) \in -1 .. 1,
             h = 1 + (IF height(a) > Above(b, r) THEN height(a) ELSE Above(b, r))
      PROVE  Holds(RightTurned(n, l, r), n, l, r, h)
  <2> DEFINE j == Joined(n, b, r)
  <2>0. Above(b, r) \in Nat /\ Above(b, r) <= Depth
    BY <1>1, <1>3, <1>5, DepthAssumption DEF Above
  <2>1. Holds(j, n, b, r, Above(b, r))
    BY <1>3, <1>4, <1>5, <2>0, JoinedHolds
  <2>2. /\ Avl(j) /\ KeysOf(j) = {n.key} \cup KeysOf(b) \cup KeysOf(r) /\ height(j) = Above(b, r)
        /\ Contents(j) = {Entry(n)} \cup Contents(b) \cup Contents(r)
        /\ n.at = n.key /\ Named(b) /\ Named(r) => Named(j)
    BY <2>1 DEF Holds
  <2> HIDE DEF j
  <2>3. Parts(KeysOf(a), l.key, KeysOf(j))
    BY <1>1, <1>3, <1>4, <2>2 DEF Parts
  <2>4. /\ Above(a, j) = h /\ height(a) - height(j) \in -1 .. 1 /\ h <= Depth
        /\ Labelled(l) /\ Avl(a) /\ Avl(j)
    BY <1>3, <1>5, <2>2 DEF Above
  <2>5. Holds(Joined(l, a, j), l, a, j, h)
    BY <2>3, <2>4, JoinedHolds
  <2>6. RightTurned(n, l, r) = Joined(l, a, j)
    BY DEF RightTurned, a, b, j
  <2> QED BY <1>3, <2>2, <2>5, <2>6 DEF Holds
<1>6. ASSUME getBalanceFactor(l) = 1
      PROVE  Holds(RightTurned(n, l, r), n, l, r, height(l))
  <2>1. height(a) = height(r) + 1 /\ height(b) = height(r)
    BY <1>1, <1>3, <1>6 DEF Above
  <2>2. Above(b, r) = height(r) + 1
    BY <1>1, <2>1 DEF Above
  <2> QED BY <1>1, <1>3, <1>5, <2>1, <2>2
<1>7. ASSUME getBalanceFactor(l) = 0, height(l) < Depth
      PROVE  Holds(RightTurned(n, l, r), n, l, r, height(l) + 1)
  <2>1. height(a) = height(r) + 1 /\ height(b) = height(r) + 1
    BY <1>1, <1>3, <1>7 DEF Above
  <2>2. Above(b, r) = height(r) + 2
    BY <1>1, <2>1 DEF Above
  <2>3. height(l) + 1 \in Nat /\ height(l) + 1 <= Depth
    BY <1>1, <1>7, DepthAssumption
  <2> QED BY <1>1, <1>3, <1>5, <2>1, <2>2, <2>3
<1>8. ASSUME getBalanceFactor(l) = -1
      PROVE  b # NULL /\ Holds(LeftRightTurned(n, l, r), n, l, r, height(l))
  <2>1. height(a) = height(r) /\ height(b) = height(r) + 1
    BY <1>1, <1>3, <1>8 DEF Above
  <2>2. b # NULL
    BY <1>1, <2>1, HeightNat
  <2> DEFINE c == b.left
             d == b.right
  <2>3. /\ Labelled(b) /\ b.key \in Nat
        /\ Avl(c) /\ Avl(d)
        /\ Parts(KeysOf(c), b.key, KeysOf(d))
        /\ KeysOf(b) = {b.key} \cup KeysOf(c) \cup KeysOf(d)
        /\ Contents(b) = {Entry(b)} \cup Contents(c) \cup Contents(d)
        /\ KeysOf(c) \subseteq Nat /\ KeysOf(d) \subseteq Nat
        /\ height(b) = Above(c, d)
        /\ height(c) \in Nat /\ height(d) \in Nat
        /\ height(c) - height(d) \in -1 .. 1
        /\ Named(b) <=> b.at = b.key /\ Named(c) /\ Named(d)
    BY <1>3, <2>2, AvlParts
  <2> HIDE DEF c, d
  <2>4. /\ height(c) \in {height(r) - 1, height(r)} /\ height(d) \in {height(r) - 1, height(r)}
        /\ height(c) = height(r) \/ height(d) = height(r)
    BY <1>1, <2>1, <2>3 DEF Above
  <2>5. Above(a, c) = height(r) + 1 /\ Above(d, r) = height(r) + 1
    BY <1>1, <2>1, <2>3, <2>4 DEF Above
  <2> DEFINE x == Joined(l, a, c)
             y == Joined(n, d, r)
  <2>6. Parts(KeysOf(a), l.key, KeysOf(c)) /\ Parts(KeysOf(d), n.key, KeysOf(r))
    BY <1>3, <1>4, <2>3 DEF Parts
  <2>7. height(r) + 1 <= Depth
    BY <1>1, <1>3, DepthAssumption
  <2>8. Holds(x, l, a, c, height(r) + 1)
    BY <1>1, <1>3, <2>1, <2>3, <2>4, <2>5, <2>6, <2>7, JoinedHolds
  <2>9. Holds(y, n, d, r, height(r) + 1)
    BY <1>1, <1>3, <2>1, <2>3, <2>4, <2>5, <2>6, <2>7, JoinedHolds
  <2> HIDE DEF x, y
  <2>10. Parts(KeysOf(x), b.key, KeysOf(y))
    <3>1. l.key < b.key /\ b.key < n.key
      BY <1>3, <1>4, <2>3 DEF Parts
    <3> QED BY <1>1, <1>3, <1>4, <2>3, <2>8, <2>9, <3>1 DEF Parts, Holds
  <2>11. Avl(x) /\ height(x) = height(r) + 1 /\ Avl(y) /\ height(y) = height(r) + 1
    BY <2>8, <2>9 DEF Holds
  <2>12. Above(x, y) = height(l) /\ height(x) - height(y) \in -1 .. 1
    BY <1>1, <2>11 DEF Above
  <2>13. Holds(Joined(b, x, y), b, x, y, height(l))
    BY <1>3, <2>3, <2>10, <2>11, <2>12, JoinedHolds
  <2>14. LeftRightTurned(n, l, r) = Joined(b, x, y)
    BY DEF LeftRightTurned, a, b, c, d, x, y
  <2>15. Holds(Joined(b, x, y), n, l, r, height(l))
    <3> DEFINE z == Joined(b, x, y)
    <3> HIDE DEF z
    <3>1. KeysOf(z) = {n.key} \cup KeysOf(l) \cup KeysOf(r)
      BY <1>3, <2>3, <2>8, <2>9, <2>13 DEF Holds, z
    <3>2. Contents(z) = {Entry(n)} \cup Contents(l) \cup Contents(r)
      BY <1>3, <2>3, <2>8, <2>9, <2>13 DEF Holds, z
    <3>3. n.at = n.key /\ Named(l) /\ Named(r) => Named(z)
      BY <1>3, <2>3, <2>8, <2>9, <2>13 DEF Holds, z
    <3> QED BY <2>13, <3>1, <3>2, <3>3 DEF Holds, z
  <2> QED BY <2>2, <2>14, <2>15
<1> QED BY <1>2, <1>6, <1>7, <1>8 DEF b

(* The same for a right subtree that is two levels higher.                 *)
LEMMA RightHeavy ==
  ASSUME NEW n, Labelled(n), NEW l, NEW r, Avl(l), Avl(r),
         Parts(KeysOf(l), n.key, KeysOf(r)), height(r) = height(l) + 2
  PROVE  /\ r # NULL
         /\ getBalanceFactor(r) = -1 => Holds(LeftTurned(n, l, r), n, l, r, height(r))
         /\ getBalanceFactor(r) = 0 /\ height(r) < Depth =>
              Holds(LeftTurned(n, l, r), n, l, r, height(r) + 1)
         /\ getBalanceFactor(r) = 1 =>
              r.left # NULL /\ Holds(RightLeftTurned(n, l, r), n, l, r, height(r))
<1>1. height(l) \in Nat /\ l \in Tree /\ n.key \in Nat /\ KeysOf(l) \subseteq Nat
  BY HeightNat, KeysEquation, AddressAssumption DEF Avl, Labelled
<1>2. r # NULL
  BY <1>1, HeightNat
<1> DEFINE a == r.right
           b == r.left
<1>3. /\ IsNode(r) /\ Labelled(r) /\ r.key \in Nat
      /\ Avl(a) /\ Avl(b)
      /\ Parts(KeysOf(b), r.key, KeysOf(a))
      /\ KeysOf(r) = {r.key} \cup KeysOf(b) \cup KeysOf(a)
      /\ Contents(r) = {Entry(r)} \cup Contents(b) \cup Contents(a)
      /\ KeysOf(a) \subseteq Nat /\ KeysOf(b) \subseteq Nat
      /\ height(r) = Above(b, a) /\ height(r) <= Depth
      /\ height(a) \in Nat /\ height(b) \in Nat
      /\ getBalanceFactor(r) = height(b) - height(a)
      /\ Named(r) <=> r.at = r.key /\ Named(b) /\ Named(a)
  BY <1>2, AvlParts
<1> HIDE DEF a, b
<1>4. r.key > n.key /\ Parts(KeysOf(l), n.key, KeysOf(b))
  BY <1>3 DEF Parts
<1>5. ASSUME NEW h \in Nat, h <= Depth,
             height(l) - height(b) \in -1 .. 1,
             Above(l, b) - height(a) \in -1 .. 1,
             h = 1 + (IF Above(l, b) > height(a) THEN Above(l, b) ELSE height(a))
      PROVE  Holds(LeftTurned(n, l, r), n, l, r, h)
  <2> DEFINE j == Joined(n, l, b)
  <2>0. Above(l, b) \in Nat /\ Above(l, b) <= Depth
    BY <1>1, <1>3, <1>5, DepthAssumption DEF Above
  <2>1. Holds(j, n, l, b, Above(l, b))
    BY <1>3, <1>4, <1>5, <2>0, JoinedHolds
  <2>2. /\ Avl(j) /\ KeysOf(j) = {n.key} \cup KeysOf(l) \cup KeysOf(b) /\ height(j) = Above(l, b)
        /\ Contents(j) = {Entry(n)} \cup Contents(l) \cup Contents(b)
        /\ n.at = n.key /\ Named(l) /\ Named(b) => Named(j)
    BY <2>1 DEF Holds
  <2> HIDE DEF j
  <2>3. Parts(KeysOf(j), r.key, KeysOf(a))
    BY <1>1, <1>3, <1>4, <2>2 DEF Parts
  <2>4. /\ Above(j, a) = h /\ height(j) - height(a) \in -1 .. 1 /\ h <= Depth
        /\ Labelled(r) /\ Avl(a) /\ Avl(j)
    BY <1>3, <1>5, <2>2 DEF Above
  <2>5. Holds(Joined(r, j, a), r, j, a, h)
    BY <2>3, <2>4, JoinedHolds
  <2>6. LeftTurned(n, l, r) = Joined(r, j, a)
    BY DEF LeftTurned, a, b, j
  <2> QED BY <1>3, <2>2, <2>5, <2>6 DEF Holds
<1>6. ASSUME getBalanceFactor(r) = -1
      PROVE  Holds(LeftTurned(n, l, r), n, l, r, height(r))
  <2>1. height(a) = height(l) + 1 /\ height(b) = height(l)
    BY <1>1, <1>3, <1>6 DEF Above
  <2>2. Above(l, b) = height(l) + 1
    BY <1>1, <2>1 DEF Above
  <2> QED BY <1>1, <1>3, <1>5, <2>1, <2>2
<1>7. ASSUME getBalanceFactor(r) = 0, height(r) < Depth
      PROVE  Holds(LeftTurned(n, l, r), n, l, r, height(r) + 1)
  <2>1. height(a) = height(l) + 1 /\ height(b) = height(l) + 1
    BY <1>1, <1>3, <1>7 DEF Above
  <2>2. Above(l, b) = height(l) + 2
    BY <1>1, <2>1 DEF Above
  <2>3. height(r) + 1 \in Nat /\ height(r) + 1 <= Depth
    BY <1>1, <1>7, DepthAssumption
  <2> QED BY <1>1, <1>3, <1>5, <2>1, <2>2, <2>3
<1>8. ASSUME getBalanceFactor(r) = 1
      PROVE  b # NULL /\ Holds(RightLeftTurned(n, l, r), n, l, r, height(r))
  <2>1. height(a) = height(l) /\ height(b) = height(l) + 1
    BY <1>1, <1>3, <1>8 DEF Above
  <2>2. b # NULL
    BY <1>1, <2>1, HeightNat
  <2> DEFINE c == b.left
             d == b.right
  <2>3. /\ Labelled(b) /\ b.key \in Nat
        /\ Avl(c) /\ Avl(d)
        /\ Parts(KeysOf(c), b.key, KeysOf(d))
        /\ KeysOf(b) = {b.key} \cup KeysOf(c) \cup KeysOf(d)
        /\ Contents(b) = {Entry(b)} \cup Contents(c) \cup Contents(d)
        /\ KeysOf(c) \subseteq Nat /\ KeysOf(d) \subseteq Nat
        /\ height(b) = Above(c, d)
        /\ height(c) \in Nat /\ height(d) \in Nat
        /\ height(c) - height(d) \in -1 .. 1
        /\ Named(b) <=> b.at = b.key /\ Named(c) /\ Named(d)
    BY <1>3, <2>2, AvlParts
  <2> HIDE DEF c, d
  <2>4. /\ height(c) \in {height(l) - 1, height(l)} /\ height(d) \in {height(l) - 1, height(l)}
        /\ height(c) = height(l) \/ height(d) = height(l)
    BY <1>1, <2>1, <2>3 DEF Above
  <2>5. Above(l, c) = height(l) + 1 /\ Above(d, a) = height(l) + 1
    BY <1>1, <2>1, <2>3, <2>4 DEF Above
  <2> DEFINE x == Joined(n, l, c)
             y == Joined(r, d, a)
  <2>6. Parts(KeysOf(l), n.key, KeysOf(c)) /\ Parts(KeysOf(d), r.key, KeysOf(a))
    BY <1>3, <1>4, <2>3 DEF Parts
  <2>7. height(l) + 1 <= Depth
    BY <1>1, <1>3, DepthAssumption
  <2>8. Holds(x, n, l, c, height(l) + 1)
    BY <1>1, <1>3, <2>1, <2>3, <2>4, <2>5, <2>6, <2>7, JoinedHolds
  <2>9. Holds(y, r, d, a, height(l) + 1)
    BY <1>1, <1>3, <2>1, <2>3, <2>4, <2>5, <2>6, <2>7, JoinedHolds
  <2> HIDE DEF x, y
  <2>10. Parts(KeysOf(x), b.key, KeysOf(y))
    <3>1. n.key < b.key /\ b.key < r.key
      BY <1>3, <1>4, <2>3 DEF Parts
    <3> QED BY <1>1, <1>3, <1>4, <2>3, <2>8, <2>9, <3>1 DEF Parts, Holds
  <2>11. Avl(x) /\ height(x) = height(l) + 1 /\ Avl(y) /\ height(y) = height(l) + 1
    BY <2>8, <2>9 DEF Holds
  <2>12. Above(x, y) = height(r) /\ height(x) - height(y) \in -1 .. 1
    BY <1>1, <2>11 DEF Above
  <2>13. Holds(Joined(b, x, y), b, x, y, height(r))
    BY <1>3, <2>3, <2>10, <2>11, <2>12, JoinedHolds
  <2>14. RightLeftTurned(n, l, r) = Joined(b, x, y)
    BY DEF RightLeftTurned, a, b, c, d, x, y
  <2>15. Holds(Joined(b, x, y), n, l, r, height(r))
    <3> DEFINE z == Joined(b, x, y)
    <3> HIDE DEF z
    <3>1. KeysOf(z) = {n.key} \cup KeysOf(l) \cup KeysOf(r)
      BY <1>3, <2>3, <2>8, <2>9, <2>13 DEF Holds, z
    <3>2. Contents(z) = {Entry(n)} \cup Contents(l) \cup Contents(r)
      BY <1>3, <2>3, <2>8, <2>9, <2>13 DEF Holds, z
    <3>3. n.at = n.key /\ Named(l) /\ Named(r) => Named(z)
      BY <1>3, <2>3, <2>8, <2>9, <2>13 DEF Holds, z
    <3> QED BY <2>13, <3>1, <3>2, <3>3 DEF Holds, z
  <2> QED BY <2>2, <2>14, <2>15
<1> QED BY <1>2, <1>6, <1>7, <1>8 DEF b

(* The balance factor the code reads off a joined node.                    *)
LEMMA JoinedBalance ==
  ASSUME NEW n, Labelled(n), NEW l \in Tree, NEW r \in Tree
  PROVE  /\ Joined(n, l, r) \in Node
         /\ getBalanceFactor(Joined(n, l, r)) = height(l) - height(r)
         /\ height(l) - height(r) \in Int
<1>1. Above(l, r) \in Nat /\ height(l) \in Nat /\ height(r) \in Nat
  BY HeightNat
<1>2. Joined(n, l, r) \in Node
  BY <1>1 DEF Joined, Node, NodesOver, Labelled
<1> QED BY <1>1, <1>2, HeightNat, JoinedParts

(* What the rebalancing of an insertion does to a joined node: it goes by  *)
(* the side of the inserted key.                                           *)
LEMMA InsertedTurns ==
  ASSUME NEW n, Labelled(n), NEW l \in Tree, NEW r \in Tree, NEW key \in Nat
  PROVE  LET j == Joined(n, l, r)
         IN  /\ height(l) - height(r) \in -1 .. 1 => RebalanceInserted(j, key) = j
             /\ height(l) - height(r) = 2 /\ l \in Node /\ key < l.key =>
                  RebalanceInserted(j, key) = RightTurned(n, l, r)
             /\ height(l) - height(r) = 2 /\ l \in Node /\ l.right \in Node /\ key > l.key =>
                  RebalanceInserted(j, key) = LeftRightTurned(n, l, r)
             /\ height(l) - height(r) = -2 /\ r \in Node /\ key > r.key =>
                  RebalanceInserted(j, key) = LeftTurned(n, l, r)
             /\ height(l) - height(r) = -2 /\ r \in Node /\ r.left \in Node /\ key < r.key =>
                  RebalanceInserted(j, key) = RightLeftTurned(n, l, r)
<1> DEFINE j == Joined(n, l, r)
<1>1. getBalanceFactor(j) = height(l) - height(r) /\ j.left = l /\ j.right = r
  BY JoinedBalance, JoinedParts
<1>2. /\ l \in Node => IsNode(l) /\ l.key \in Nat
      /\ r \in Node => IsNode(r) /\ r.key \in Nat
      /\ l.right \in Node => IsNode(l.right)
      /\ r.left \in Node => IsNode(r.left)
  BY NodeIsNode, NodeFields
<1>3. /\ IsNode(l) => rightRotate(j) = RightTurned(n, l, r)
      /\ IsNode(r) => leftRotate(j) = LeftTurned(n, l, r)
      /\ IsNode(l) /\ IsNode(l.right) =>
           rightRotate([j EXCEPT !.left = leftRotate(@)]) = LeftRightTurned(n, l, r)
      /\ IsNode(r) /\ IsNode(r.left) =>
           leftRotate([j EXCEPT !.right = rightRotate(@)]) = RightLeftTurned(n, l, r)
  BY Turns
<1> HIDE DEF j
<1>4. ASSUME height(l) - height(r) \in -1 .. 1
      PROVE  RebalanceInserted(j, key) = j
  BY <1>1, <1>4 DEF RebalanceInserted
<1>5. ASSUME height(l) - height(r) = 2, l \in Node, key < l.key
      PROVE  RebalanceInserted(j, key) = RightTurned(n, l, r)
  <2>1. RebalanceInserted(j, key) = rightRotate(j)
    BY <1>1, <1>2, <1>5 DEF RebalanceInserted
  <2> QED BY <1>2, <1>3, <1>5, <2>1
<1>6. ASSUME height(l) - height(r) = 2, l \in Node, l.right \in Node, key > l.key
      PROVE  RebalanceInserted(j, key) = LeftRightTurned(n, l, r)
  <2>1. RebalanceInserted(j, key) = rightRotate([j EXCEPT !.left = leftRotate(@)])
    BY <1>1, <1>2, <1>6 DEF RebalanceInserted
  <2> QED BY <1>2, <1>3, <1>6, <2>1
<1>7. ASSUME height(l) - height(r) = -2, r \in Node, key > r.key
      PROVE  RebalanceInserted(j, key) = LeftTurned(n, l, r)
  <2>1. RebalanceInserted(j, key) = leftRotate(j)
    BY <1>1, <1>2, <1>7 DEF RebalanceInserted
  <2> QED BY <1>2, <1>3, <1>7, <2>1
<1>8. ASSUME height(l) - height(r) = -2, r \in Node, r.left \in Node, key < r.key
      PROVE  RebalanceInserted(j, key) = RightLeftTurned(n, l, r)
  <2>1. RebalanceInserted(j, key) = leftRotate([j EXCEPT !.right = rightRotate(@)])
    BY <1>1, <1>2, <1>8 DEF RebalanceInserted
  <2> QED BY <1>2, <1>3, <1>8, <2>1
<1> QED BY <1>4, <1>5, <1>6, <1>7, <1>8 DEF j

(* The rebalancing of a deletion goes by the balance of the higher child.  *)
LEMMA DeletedTurns ==
  ASSUME NEW n, Labelled(n), NEW l \in Tree, NEW r \in Tree
  PROVE  LET j == Joined(n, l, r)
         IN  /\ height(l) - height(r) \in -1 .. 1 => RebalanceDeleted(j) = j
             /\ height(l) - height(r) = 2 /\ l \in Node /\ getBalanceFactor(l) \in {0, 1} =>
                  RebalanceDeleted(j) = RightTurned(n, l, r)
             /\ height(l) - height(r) = 2 /\ l \in Node /\ l.right \in Node
                  /\ getBalanceFactor(l) = -1 =>
                  RebalanceDeleted(j) = LeftRightTurned(n, l, r)
             /\ height(l) - height(r) = -2 /\ r \in Node /\ getBalanceFactor(r) \in {0, -1} =>
                  RebalanceDeleted(j) = LeftTurned(n, l, r)
             /\ height(l) - height(r) = -2 /\ r \in Node /\ r.left \in Node
                  /\ getBalanceFactor(r) = 1 =>
                  RebalanceDeleted(j) = RightLeftTurned(n, l, r)
<1> DEFINE j == Joined(n, l, r)
<1>1. getBalanceFactor(j) = height(l) - height(r) /\ j.left = l /\ j.right = r
  BY JoinedBalance, JoinedParts
<1>2. /\ l \in Node => IsNode(l)
      /\ r \in Node => IsNode(r)
      /\ l.right \in Node => IsNode(l.right)
      /\ r.left \in Node => IsNode(r.left)
  BY NodeIsNode
<1>3. /\ IsNode(l) => rightRotate(j) = RightTurned(n, l, r)
      /\ IsNode(r) => leftRotate(j) = LeftTurned(n, l, r)
      /\ IsNode(l) /\ IsNode(l.right) =>
           rightRotate([j EXCEPT !.left = leftRotate(@)]) = LeftRightTurned(n, l, r)
      /\ IsNode(r) /\ IsNode(r.left) =>
           leftRotate([j EXCEPT !.right = rightRotate(@)]) = RightLeftTurned(n, l, r)
  BY Turns
<1> HIDE DEF j
<1>4. ASSUME height(l) - height(r) \in -1 .. 1
      PROVE  RebalanceDeleted(j) = j
  BY <1>1, <1>4 DEF RebalanceDeleted
<1>5. ASSUME height(l) - height(r) = 2, l \in Node, getBalanceFactor(l) \in {0, 1}
      PROVE  RebalanceDeleted(j) = RightTurned(n, l, r)
  <2>1. RebalanceDeleted(j) = rightRotate(j)
    BY <1>1, <1>5 DEF RebalanceDeleted
  <2> QED BY <1>2, <1>3, <1>5, <2>1
<1>6. ASSUME height(l) - height(r) = 2, l \in Node, l.right \in Node, getBalanceFactor(l) = -1
      PROVE  RebalanceDeleted(j) = LeftRightTurned(n, l, r)
  <2>1. RebalanceDeleted(j) = rightRotate([j EXCEPT !.left = leftRotate(@)])
    BY <1>1, <1>6 DEF RebalanceDeleted
  <2> QED BY <1>2, <1>3, <1>6, <2>1
<1>7. ASSUME height(l) - height(r) = -2, r \in Node, getBalanceFactor(r) \in {0, -1}
      PROVE  RebalanceDeleted(j) = LeftTurned(n, l, r)
  <2>1. RebalanceDeleted(j) = leftRotate(j)
    BY <1>1, <1>7 DEF RebalanceDeleted
  <2> QED BY <1>2, <1>3, <1>7, <2>1
<1>8. ASSUME height(l) - height(r) = -2, r \in Node, r.left \in Node, getBalanceFactor(r) = 1
      PROVE  RebalanceDeleted(j) = RightLeftTurned(n, l, r)
  <2>1. RebalanceDeleted(j) = leftRotate([j EXCEPT !.right = rightRotate(@)])
    BY <1>1, <1>8 DEF RebalanceDeleted
  <2> QED BY <1>2, <1>3, <1>8, <2>1
<1> QED BY <1>4, <1>5, <1>6, <1>7, <1>8 DEF j

-----------------------------------------------------------------------------
(* Insertion keeps good trees, adds the redzone if its key is new, and     *)
(* makes the tree at most one level higher: then its root leans to the     *)
(* side of the key, which is what the code's choice of rotation relies on. *)

Leans(c, key) ==
  \/ key < c.key /\ getBalanceFactor(c) = 1
  \/ key > c.key /\ getBalanceFactor(c) = -1

Added(n, c, key, size) ==
  /\ Avl(c) /\ c # NULL
  /\ KeysOf(c) = KeysOf(n) \cup {key}
  /\ Contents(c) = Contents(n) \cup (IF key \in KeysOf(n) THEN {} ELSE {<<key, key, size>>})
  /\ Named(n) => Named(c)

Inserted(n, c, key, size) ==
  /\ Added(n, c, key, size)
  /\ height(c) \in {height(n), height(n) + 1}
  /\ height(c) = height(n) + 1 => n = NULL \/ Leans(c, key)

(* What a subtree gains the whole tree gains.                              *)
LEMMA AddedBelow ==
  ASSUME NEW key \in Addr, NEW size \in Sizes, NEW n, Avl(n), n # NULL,
         NEW l, NEW r, NEW c, NEW h, Holds(c, n, l, r, h),
         \/ key < n.key /\ Added(n.left, l, key, size) /\ r = n.right
         \/ key > n.key /\ Added(n.right, r, key, size) /\ l = n.left
  PROVE  Added(n, c, key, size)
<1>1. /\ n.key \in Nat
      /\ Parts(KeysOf(n.left), n.key, KeysOf(n.right))
      /\ KeysOf(n) = {n.key} \cup KeysOf(n.left) \cup KeysOf(n.right)
      /\ Contents(n) = {Entry(n)} \cup Contents(n.left) \cup Contents(n.right)
      /\ KeysOf(n.left) \subseteq Nat /\ KeysOf(n.right) \subseteq Nat
      /\ Named(n) <=> n.at = n.key /\ Named(n.left) /\ Named(n.right)
  BY AvlParts
<1>2. key \in Nat
  BY AddressAssumption
<1>3. Avl(c) /\ c # NULL
  BY DEF Holds
<1>4. KeysOf(c) = KeysOf(n) \cup {key}
  BY <1>1 DEF Holds, Added
<1>5. \/ key < n.key /\ (key \in KeysOf(n) <=> key \in KeysOf(n.left))
      \/ key > n.key /\ (key \in KeysOf(n) <=> key \in KeysOf(n.right))
  BY <1>1, <1>2 DEF Parts
<1>6. Contents(c) = Contents(n) \cup (IF key \in KeysOf(n) THEN {} ELSE {<<key, key, size>>})
  <2>1. Contents(c) = {Entry(n)} \cup Contents(l) \cup Contents(r)
    BY DEF Holds
  <2>2. CASE key < n.key
    <3>1. Contents(l) = Contents(n.left) \cup (IF key \in KeysOf(n) THEN {} ELSE {<<key, key, size>>})
      BY <1>1, <1>2, <1>5, <2>2 DEF Added
    <3>2. r = n.right
      BY <1>1, <1>2, <2>2
    <3> QED BY <1>1, <2>1, <3>1, <3>2
  <2>3. CASE key > n.key
    <3>1. Contents(r) = Contents(n.right) \cup (IF key \in KeysOf(n) THEN {} ELSE {<<key, key, size>>})
      BY <1>1, <1>2, <1>5, <2>3 DEF Added
    <3>2. l = n.left
      BY <1>1, <1>2, <2>3
    <3> QED BY <1>1, <2>1, <3>1, <3>2
  <2> QED BY <2>2, <2>3
<1>7. Named(n) => Named(c)
  BY <1>1 DEF Holds, Added
<1> QED BY <1>3, <1>4, <1>6, <1>7 DEF Added

(* A new node is a tree of one level.                                      *)
LEMMA NewNodeHolds ==
  ASSUME NEW key \in Addr, NEW size \in Sizes, 0 < Depth
  PROVE  Inserted(NULL, newNode(key, size), key, size)
<1> DEFINE c == newNode(key, size)
           label == [at |-> key, key |-> key, size |-> size]
<1>1. Above(NULL, NULL) = 1
  BY HeightNat DEF Above
<1>2. c = Joined(label, NULL, NULL)
  BY <1>1 DEF newNode, Joined
<1>3. Labelled(label) /\ Avl(NULL) /\ KeysOf(NULL) = {} /\ Contents(NULL) = {} /\ Named(NULL)
  BY AvlEquation, KeysEquation, ContentsEquation DEF Labelled
<1>4. /\ Parts(KeysOf(NULL), label.key, KeysOf(NULL))
      /\ height(NULL) - height(NULL) \in -1 .. 1 /\ Above(NULL, NULL) <= Depth
  BY <1>1, <1>3, HeightNat, DepthAssumption DEF Parts
<1>5. Holds(c, label, NULL, NULL, 1)
  <2> HIDE DEF c, label
  <2> QED BY <1>1, <1>2, <1>3, <1>4, JoinedHolds
<1>6. label.key = key /\ label.at = key /\ Entry(label) = <<key, key, size>>
  BY DEF Entry
<1> HIDE DEF c, label
<1>7. Avl(c) /\ c # NULL /\ height(c) = 1 /\ Named(c)
  BY <1>3, <1>5, <1>6 DEF Holds
<1>8. KeysOf(c) = {key} /\ Contents(c) = {<<key, key, size>>}
  BY <1>3, <1>5, <1>6 DEF Holds
<1>9. Added(NULL, c, key, size)
  BY <1>3, <1>7, <1>8 DEF Added
<1>10. height(c) \in {height(NULL), height(NULL) + 1}
  BY <1>7, HeightNat
<1> QED BY <1>9, <1>10 DEF Inserted, c

(* The step of the induction, to the left.                                 *)
LEMMA InsertLeft ==
  ASSUME NEW key \in Addr, NEW size \in Sizes, NEW n \in Tree \ {NULL}, Avl(n),
         height(n) < Depth, key < n.key,
         Inserted(n.left, insertNode(n.left, key, size), key, size)
  PROVE  Inserted(n, insertNode(n, key, size), key, size)
<1> DEFINE l == insertNode(n.left, key, size)
           r == n.right
           c == insertNode(n, key, size)
<1>1. /\ n \in Node /\ IsNode(n) /\ Labelled(n) /\ n.key \in Nat /\ key \in Nat
      /\ Avl(n.left) /\ Avl(r)
      /\ Parts(KeysOf(n.left), n.key, KeysOf(r))
      /\ height(n) = Above(n.left, r)
      /\ height(n.left) \in Nat /\ height(r) \in Nat
      /\ height(n.left) - height(r) \in -1 .. 1
  BY AvlParts, AddressAssumption
<1>2. /\ Avl(l) /\ l # NULL /\ l \in Tree /\ l \in Node /\ l.key \in Nat
      /\ height(l) \in {height(n.left), height(n.left) + 1}
      /\ height(l) = height(n.left) + 1 => n.left = NULL \/ Leans(l, key)
      /\ Added(n.left, l, key, size)
  BY AvlParts DEF Inserted, Added, Avl
<1>3. c = RebalanceInserted(Joined(n, l, r), key)
  <2>1. ~ (key = n.key)
    BY <1>1
  <2>2. c = RebalanceInserted(WithHeight([n EXCEPT !.left = l]), key)
    BY <2>1, InsertEquation
  <2>3. WithHeight([n EXCEPT !.left = l]) = Joined(n, l, r)
    BY <1>1, WithHeightJoins
  <2> QED BY <2>2, <2>3
<1> HIDE DEF l, c
<1>4. Parts(KeysOf(l), n.key, KeysOf(r))
  BY <1>1, <1>2 DEF Parts, Added
<1>5. r \in Tree
  BY <1>1 DEF Avl
<1>6. ASSUME NEW h, Holds(c, n, l, r, h)
      PROVE  Added(n, c, key, size)
  BY <1>2, <1>6, AddedBelow DEF r
<1>7. CASE height(l) - height(r) \in -1 .. 1
  <2>1. c = Joined(n, l, r)
    BY <1>1, <1>2, <1>3, <1>5, <1>7, InsertedTurns
  <2>2. Above(l, r) \in {height(n), height(n) + 1}
    BY <1>1, <1>2 DEF Above
  <2>3. Above(l, r) <= Depth
    BY <1>1, <2>2, DepthAssumption, HeightNat
  <2>4. Holds(c, n, l, r, Above(l, r))
    BY <1>1, <1>2, <1>4, <1>7, <2>1, <2>3, JoinedHolds
  <2>5. Added(n, c, key, size) /\ height(c) = Above(l, r)
    BY <2>4, <1>6 DEF Holds
  <2>6. c.key = n.key /\ getBalanceFactor(c) = height(l) - height(r)
    BY <1>1, <1>2, <1>5, <2>1, JoinedParts, JoinedBalance
  <2>7. Above(l, r) = height(n) + 1 => height(l) - height(r) = 1
    BY <1>1, <1>2, <1>7 DEF Above
  <2>8. height(c) = height(n) + 1 => Leans(c, key)
    BY <2>5, <2>6, <2>7 DEF Leans
  <2>9. height(c) \in {height(n), height(n) + 1}
    BY <2>2, <2>5
  <2> QED BY <2>5, <2>8, <2>9 DEF Inserted, c
<1>8. CASE height(l) - height(r) = 2
  <2>1. height(l) = height(n.left) + 1 /\ height(n) = height(l) /\ height(n.left) # 0
    BY <1>1, <1>2, <1>8 DEF Above
  <2>2. Leans(l, key)
    BY <1>2, <2>1, HeightNat
  <2>3. height(l) = height(r) + 2
    BY <1>1, <1>2, <1>8
  <2>4. Holds(c, n, l, r, height(l))
    <3>1. CASE key < l.key /\ getBalanceFactor(l) = 1
      <4>1. c = RightTurned(n, l, r)
        BY <1>1, <1>2, <1>3, <1>5, <1>8, <3>1, InsertedTurns
      <4>2. Holds(RightTurned(n, l, r), n, l, r, height(l))
        BY <1>1, <1>2, <1>4, <2>3, <3>1, LeftHeavy
      <4> QED BY <4>1, <4>2
    <3>2. CASE key > l.key /\ getBalanceFactor(l) = -1
      <4>1. l.right # NULL /\ Holds(LeftRightTurned(n, l, r), n, l, r, height(l))
        BY <1>1, <1>2, <1>4, <2>3, <3>2, LeftHeavy
      <4>2. l.right \in Node
        BY <1>2, <4>1, TreeParts, NodeFields
      <4>3. c = LeftRightTurned(n, l, r)
        BY <1>1, <1>2, <1>3, <1>5, <1>8, <3>2, <4>2, InsertedTurns
      <4> QED BY <4>1, <4>3
    <3> QED BY <2>2, <3>1, <3>2 DEF Leans
  <2>5. Added(n, c, key, size) /\ height(c) = height(n)
    BY <1>6, <2>1, <2>4 DEF Holds
  <2>6. height(c) \in {height(n), height(n) + 1} /\ height(c) # height(n) + 1
    BY <1>2, <2>1, <2>5, HeightNat
  <2> QED BY <2>5, <2>6 DEF Inserted, c
<1>9. height(l) - height(r) \in -1 .. 1 \/ height(l) - height(r) = 2
  BY <1>1, <1>2
<1> QED BY <1>7, <1>8, <1>9 DEF c

(* The step of the induction, to the right.                                *)
LEMMA InsertRight ==
  ASSUME NEW key \in Addr, NEW size \in Sizes, NEW n \in Tree \ {NULL}, Avl(n),
         height(n) < Depth, key > n.key,
         Inserted(n.right, insertNode(n.right, key, size), key, size)
  PROVE  Inserted(n, insertNode(n, key, size), key, size)
<1> DEFINE l == n.left
           r == insertNode(n.right, key, size)
           c == insertNode(n, key, size)
<1>1. /\ n \in Node /\ IsNode(n) /\ Labelled(n) /\ n.key \in Nat /\ key \in Nat
      /\ Avl(l) /\ Avl(n.right)
      /\ Parts(KeysOf(l), n.key, KeysOf(n.right))
      /\ height(n) = Above(l, n.right)
      /\ height(l) \in Nat /\ height(n.right) \in Nat
      /\ height(l) - height(n.right) \in -1 .. 1
  BY AvlParts, AddressAssumption
<1>2. /\ Avl(r) /\ r # NULL /\ r \in Tree /\ r \in Node /\ r.key \in Nat
      /\ height(r) \in {height(n.right), height(n.right) + 1}
      /\ height(r) = height(n.right) + 1 => n.right = NULL \/ Leans(r, key)
      /\ Added(n.right, r, key, size)
  BY AvlParts DEF Inserted, Added, Avl
<1>3. c = RebalanceInserted(Joined(n, l, r), key)
  <2>1. ~ (key = n.key) /\ ~ (key < n.key)
    BY <1>1
  <2>2. c = RebalanceInserted(WithHeight([n EXCEPT !.right = r]), key)
    BY <2>1, InsertEquation
  <2>3. WithHeight([n EXCEPT !.right = r]) = Joined(n, l, r)
    BY <1>1, WithHeightJoins
  <2> QED BY <2>2, <2>3
<1> HIDE DEF r, c
<1>4. Parts(KeysOf(l), n.key, KeysOf(r))
  BY <1>1, <1>2 DEF Parts, Added
<1>5. l \in Tree
  BY <1>1 DEF Avl
<1>6. ASSUME NEW h, Holds(c, n, l, r, h)
      PROVE  Added(n, c, key, size)
  BY <1>2, <1>6, AddedBelow DEF l
<1>7. CASE height(l) - height(r) \in -1 .. 1
  <2>1. c = Joined(n, l, r)
    BY <1>1, <1>2, <1>3, <1>5, <1>7, InsertedTurns
  <2>2. Above(l, r) \in {height(n), height(n) + 1}
    BY <1>1, <1>2 DEF Above
  <2>3. Above(l, r) <= Depth
    BY <1>1, <2>2, DepthAssumption, HeightNat
  <2>4. Holds(c, n, l, r, Above(l, r))
    BY <1>1, <1>2, <1>4, <1>7, <2>1, <2>3, JoinedHolds
  <2>5. Added(n, c, key, size) /\ height(c) = Above(l, r)
    BY <2>4, <1>6 DEF Holds
  <2>6. c.key = n.key /\ getBalanceFactor(c) = height(l) - height(r)
    BY <1>1, <1>2, <1>5, <2>1, JoinedParts, JoinedBalance
  <2>7. Above(l, r) = height(n) + 1 => height(l) - height(r) = -1
    BY <1>1, <1>2, <1>7 DEF Above
  <2>8. height(c) = height(n) + 1 => Leans(c, key)
    BY <2>5, <2>6, <2>7 DEF Leans
  <2>9. height(c) \in {height(n), height(n) + 1}
    BY <2>2, <2>5
  <2> QED BY <2>5, <2>8, <2>9 DEF Inserted, c
<1>8. CASE height(l) - height(r) = -2
  <2>1. height(r) = height(n.right) + 1 /\ height(n) = height(r) /\ height(n.right) # 0
    BY <1>1, <1>2, <1>8 DEF Above
  <2>2. Leans(r, key)
    BY <1>2, <2>1, HeightNat
  <2>3. height(r) = height(l) + 2
    BY <1>1, <1>2, <1>8
  <2>4. Holds(c, n, l, r, height(r))
    <3>1. CASE key > r.key /\ getBalanceFactor(r) = -1
      <4>1. c = LeftTurned(n, l, r)
        BY <1>1, <1>2, <1>3, <1>5, <1>8, <3>1, InsertedTurns
      <4>2. Holds(LeftTurned(n, l, r), n, l, r, height(r))
        BY <1>1, <1>2, <1>4, <2>3, <3>1, RightHeavy
      <4> QED BY <4>1, <4>2
    <3>2. CASE key < r.key /\ getBalanceFactor(r) = 1
      <4>1. r.left # NULL /\ Holds(RightLeftTurned(n, l, r), n, l, r, height(r))
        BY <1>1, <1>2, <1>4, <2>3, <3>2, RightHeavy
      <4>2. r.left \in Node
        BY <1>2, <4>1, TreeParts, NodeFields
      <4>3. c = RightLeftTurned(n, l, r)
        BY <1>1, <1>2, <1>3, <1>5, <1>8, <3>2, <4>2, InsertedTurns
      <4> QED BY <4>1, <4>3
    <3> QED BY <2>2, <3>1, <3>2 DEF Leans
  <2>5. Added(n, c, key, size) /\ height(c) = height(n)
    BY <1>6, <2>1, <2>4 DEF Holds
  <2>6. height(c) \in {height(n), height(n) + 1} /\ height(c) # height(n) + 1
    BY <1>2, <2>1, <2>5, HeightNat
  <2> QED BY <2>5, <2>6 DEF Inserted, c
<1>9. height(l) - height(r) \in -1 .. 1 \/ height(l) - height(r) = -2
  BY <1>1, <1>2
<1> QED BY <1>7, <1>8, <1>9

(* What insertNode does to a good tree.                                    *)
LEMMA InsertHolds ==
  ASSUME NEW key \in Addr, NEW size \in Sizes, NEW t \in Tree, Avl(t), height(t) < Depth
  PROVE  Inserted(t, insertNode(t, key, size), key, size)
<1> DEFINE T == {n \in Tree : Avl(n) /\ height(n) < Depth =>
                                Inserted(n, insertNode(n, key, size), key, size)}
<1>1. NULL \in T
  <2>1. NULL \in Tree
    BY TreeParts
  <2>2. ASSUME height(NULL) < Depth
        PROVE  Inserted(NULL, insertNode(NULL, key, size), key, size)
    BY <2>2, HeightNat, NewNodeHolds, InsertEquation
  <2> QED BY <2>1, <2>2
<1>2. ASSUME NEW n \in Tree, n # NULL, n.left \in T, n.right \in T
      PROVE  n \in T
  <2>1. SUFFICES ASSUME Avl(n), height(n) < Depth
                 PROVE  Inserted(n, insertNode(n, key, size), key, size)
    OBVIOUS
  <2>2. /\ Avl(n.left) /\ Avl(n.right) /\ n.key \in Nat /\ key \in Nat
        /\ height(n.left) \in Nat /\ height(n.right) \in Nat
        /\ height(n) = Above(n.left, n.right)
        /\ KeysOf(n) = {n.key} \cup KeysOf(n.left) \cup KeysOf(n.right)
    BY <1>2, <2>1, AvlParts, AddressAssumption
  <2>3. height(n.left) < Depth /\ height(n.right) < Depth
    BY <2>1, <2>2, DepthAssumption DEF Above
  <2>4. /\ Inserted(n.left, insertNode(n.left, key, size), key, size)
        /\ Inserted(n.right, insertNode(n.right, key, size), key, size)
    BY <1>2, <2>2, <2>3
  <2>5. CASE key = n.key
    <3>1. insertNode(n, key, size) = n
      BY <1>2, <2>5, InsertEquation
    <3>2. Added(n, n, key, size)
      BY <1>2, <2>1, <2>2, <2>5 DEF Added
    <3>3. height(n) \in {height(n), height(n) + 1} /\ height(n) # height(n) + 1
      BY <1>2, HeightNat
    <3> QED BY <3>1, <3>2, <3>3 DEF Inserted
  <2>6. CASE key < n.key
    BY <1>2, <2>1, <2>4, <2>6, InsertLeft
  <2>7. CASE key > n.key
    BY <1>2, <2>1, <2>4, <2>7, InsertRight
  <2> QED BY <2>2, <2>5, <2>6, <2>7
<1>3. Tree \subseteq T
  <2> HIDE DEF T
  <2> QED BY <1>1, <1>2, TreeInduction
<1> QED BY <1>3

-----------------------------------------------------------------------------
(* Deletion keeps good trees, takes away the key it is given and no other, *)
(* and makes the tree at most one level lower.                             *)

Deleted(n, c, key) ==
  /\ Avl(c)
  /\ KeysOf(c) = KeysOf(n) \ {key}
  /\ height(c) \in {height(n) - 1, height(n)}

(* The successor the code walks to is the smallest key of the tree.        *)
LEMMA MinimumHolds ==
  ASSUME NEW t \in Tree, Avl(t), t # NULL
  PROVE  /\ nodeWithMimumValue(t).key \in KeysOf(t)
         /\ \A k \in KeysOf(t) : nodeWithMimumValue(t).key <= k
<1> DEFINE Least(n) == /\ nodeWithMimumValue(n).key \in KeysOf(n)
                       /\ \A k \in KeysOf(n) : nodeWithMimumValue(n).key <= k
           T == {n \in Tree : Avl(n) /\ n # NULL => Least(n)}
<1>1. NULL \in T
  BY TreeParts
<1>2. ASSUME NEW n \in Tree, n # NULL, n.left \in T, n.right \in T
      PROVE  n \in T
  <2>1. SUFFICES ASSUME Avl(n)
                 PROVE  Least(n)
    OBVIOUS
  <2>2. /\ Avl(n.left) /\ n.key \in Nat
        /\ Parts(KeysOf(n.left), n.key, KeysOf(n.right))
        /\ KeysOf(n) = {n.key} \cup KeysOf(n.left) \cup KeysOf(n.right)
        /\ KeysOf(n.left) \subseteq Nat /\ KeysOf(n.right) \subseteq Nat
    BY <1>2, <2>1, AvlParts
  <2>3. CASE n.left = NULL
    <3>1. nodeWithMimumValue(n) = n
      BY <1>2, <2>3, MinimumEquation
    <3>2. KeysOf(n.left) = {}
      BY <2>3, KeysEquation
    <3> QED BY <2>2, <3>1, <3>2 DEF Parts
  <2>4. CASE n.left # NULL
    <3>1. nodeWithMimumValue(n) = nodeWithMimumValue(n.left)
      BY <1>2, <2>4, MinimumEquation
    <3>2. Least(n.left)
      BY <1>2, <2>2, <2>4
    <3> DEFINE m == nodeWithMimumValue(n.left).key
    <3>3. m \in KeysOf(n.left) /\ \A k \in KeysOf(n.left) : m <= k
      BY <3>2
    <3>4. nodeWithMimumValue(n).key = m
      BY <3>1
    <3> HIDE DEF m
    <3>5. m \in KeysOf(n) /\ \A k \in KeysOf(n) : m <= k
      BY <2>2, <3>3 DEF Parts
    <3> QED BY <3>4, <3>5
  <2> QED BY <2>3, <2>4
<1>3. Tree \subseteq T
  <2> HIDE DEF T
  <2> QED BY <1>1, <1>2, TreeInduction
<1> QED BY <1>3

(* The repair of a node whose subtrees are good and at most two levels     *)
(* apart.                                                                  *)
LEMMA RepairedHolds ==
  ASSUME NEW x \in Node, Avl(x.left), Avl(x.right),
         Parts(KeysOf(x.left), x.key, KeysOf(x.right)),
         height(x.left) - height(x.right) \in -2 .. 2,
         Above(x.left, x.right) <= Depth
  PROVE  /\ Avl(Repaired(x))
         /\ KeysOf(Repaired(x)) = {x.key} \cup KeysOf(x.left) \cup KeysOf(x.right)
         /\ Contents(Repaired(x)) = {Entry(x)} \cup Contents(x.left) \cup Contents(x.right)
         /\ height(Repaired(x)) \in {Above(x.left, x.right) - 1, Above(x.left, x.right)}
         /\ height(x.left) - height(x.right) \in -1 .. 1 =>
              height(Repaired(x)) = Above(x.left, x.right)
<1> DEFINE l == x.left
           r == x.right
           c == Repaired(x)
<1>1. /\ IsNode(x) /\ Labelled(x) /\ x # NULL
      /\ l \in Tree /\ r \in Tree /\ height(l) \in Nat /\ height(r) \in Nat
  BY NodeIsNode, NodeFields, TreeParts, HeightNat DEF Labelled
<1>2. c = RebalanceDeleted(Joined(x, l, r))
  BY <1>1, WithHeightJoins DEF Repaired
<1>3. Avl(l) /\ Avl(r) /\ Parts(KeysOf(l), x.key, KeysOf(r)) /\ Above(l, r) <= Depth
  OBVIOUS
<1> HIDE DEF l, r, c
<1>4. SUFFICES \E h : /\ Holds(c, x, l, r, h)
                      /\ h \in {Above(l, r) - 1, Above(l, r)}
                      /\ height(l) - height(r) \in -1 .. 1 => h = Above(l, r)
  BY DEF Holds, l, r, c
<1>5. CASE height(l) - height(r) \in -1 .. 1
  <2>1. c = Joined(x, l, r)
    BY <1>1, <1>2, <1>5, DeletedTurns
  <2>2. Holds(c, x, l, r, Above(l, r))
    BY <1>1, <1>3, <1>5, <2>1, JoinedHolds
  <2> QED BY <2>2
<1>6. CASE height(l) - height(r) = 2
  <2>1. height(l) = height(r) + 2 /\ Above(l, r) = height(l) + 1 /\ height(l) < Depth
        /\ ~ (height(l) - height(r) \in -1 .. 1)
    BY <1>1, <1>3, <1>6, DepthAssumption DEF Above
  <2>2. l # NULL
    BY <1>1, <2>1, HeightNat
  <2>3. l \in Node /\ getBalanceFactor(l) \in -1 .. 1
    BY <1>3, <2>2, AvlParts
  <2>4. CASE getBalanceFactor(l) = 1
    <3>1. Holds(RightTurned(x, l, r), x, l, r, height(l))
      BY <1>1, <1>3, <2>1, <2>4, LeftHeavy
    <3>2. c = RightTurned(x, l, r)
      BY <1>1, <1>2, <1>6, <2>3, <2>4, DeletedTurns
    <3>3. height(l) = Above(l, r) - 1
      BY <1>1, <2>1
    <3> QED BY <2>1, <3>1, <3>2, <3>3
  <2>5. CASE getBalanceFactor(l) = 0
    <3>1. Holds(RightTurned(x, l, r), x, l, r, height(l) + 1)
      BY <1>1, <1>3, <2>1, <2>5, LeftHeavy
    <3>2. c = RightTurned(x, l, r)
      BY <1>1, <1>2, <1>6, <2>3, <2>5, DeletedTurns
    <3> QED BY <2>1, <3>1, <3>2
  <2>6. CASE getBalanceFactor(l) = -1
    <3>1. l.right # NULL /\ Holds(LeftRightTurned(x, l, r), x, l, r, height(l))
      BY <1>1, <1>3, <2>1, <2>6, LeftHeavy
    <3>2. l.right \in Node
      BY <2>3, <3>1, TreeParts, NodeFields
    <3>3. c = LeftRightTurned(x, l, r)
      BY <1>1, <1>2, <1>6, <2>3, <2>6, <3>2, DeletedTurns
    <3>4. height(l) = Above(l, r) - 1
      BY <1>1, <2>1
    <3> QED BY <2>1, <3>1, <3>3, <3>4
  <2> QED BY <2>3, <2>4, <2>5, <2>6
<1>7. CASE height(l) - height(r) = -2
  <2>1. height(r) = height(l) + 2 /\ Above(l, r) = height(r) + 1 /\ height(r) < Depth
        /\ ~ (height(l) - height(r) \in -1 .. 1)
    BY <1>1, <1>3, <1>7, DepthAssumption DEF Above
  <2>2. r # NULL
    BY <1>1, <2>1, HeightNat
  <2>3. r \in Node /\ getBalanceFactor(r) \in -1 .. 1
    BY <1>3, <2>2, AvlParts
  <2>4. CASE getBalanceFactor(r) = -1
    <3>1. Holds(LeftTurned(x, l, r), x, l, r, height(r))
      BY <1>1, <1>3, <2>1, <2>4, RightHeavy
    <3>2. c = LeftTurned(x, l, r)
      BY <1>1, <1>2, <1>7, <2>3, <2>4, DeletedTurns
    <3>3. height(r) = Above(l, r) - 1
      BY <1>1, <2>1
    <3> QED BY <2>1, <3>1, <3>2, <3>3
  <2>5. CASE getBalanceFactor(r) = 0
    <3>1. Holds(LeftTurned(x, l, r), x, l, r, height(r) + 1)
      BY <1>1, <1>3, <2>1, <2>5, RightHeavy
    <3>2. c = LeftTurned(x, l, r)
      BY <1>1, <1>2, <1>7, <2>3, <2>5, DeletedTurns
    <3> QED BY <2>1, <3>1, <3>2
  <2>6. CASE getBalanceFactor(r) = 1
    <3>1. r.left # NULL /\ Holds(RightLeftTurned(x, l, r), x, l, r, height(r))
      BY <1>1, <1>3, <2>1, <2>6, RightHeavy
    <3>2. r.left \in Node
      BY <2>3, <3>1, TreeParts, NodeFields
    <3>3. c = RightLeftTurned(x, l, r)
      BY <1>1, <1>2, <1>7, <2>3, <2>6, <3>2, DeletedTurns
    <3>4. height(r) = Above(l, r) - 1
      BY <1>1, <2>1
    <3> QED BY <2>1, <3>1, <3>3, <3>4
  <2> QED BY <2>3, <2>4, <2>5, <2>6
<1>8. height(l) - height(r) \in -2 .. 2
  BY DEF l, r
<1> QED BY <1>1, <1>5, <1>6, <1>7, <1>8

(* A node with another left or right subtree is still a node.              *)
LEMMA NodeChanged ==
  ASSUME NEW n \in Node, NEW t \in Tree, NEW k \in Addr
  PROVE  /\ WithLeft(n, t) \in Node
         /\ WithLeft(n, t).left = t
         /\ WithLeft(n, t).right = n.right
         /\ WithLeft(n, t).key = n.key
         /\ Entry(WithLeft(n, t)) = Entry(n)
         /\ WithRight(n, t) \in Node
         /\ WithRight(n, t).left = n.left
         /\ WithRight(n, t).right = t
         /\ WithRight(n, t).key = n.key
         /\ Entry(WithRight(n, t)) = Entry(n)
         /\ WithNext(n, k, t) \in Node
         /\ WithNext(n, k, t).left = n.left
         /\ WithNext(n, k, t).right = t
         /\ WithNext(n, k, t).key = k
         /\ Entry(WithNext(n, k, t)) = <<n.at, k, n.size>>
         /\ MovedTo(n, k) \in Node
         /\ MovedTo(n, k).left = n.left
         /\ MovedTo(n, k).right = n.right
         /\ MovedTo(n, k).key = n.key
         /\ Entry(MovedTo(n, k)) = <<k, n.key, n.size>>
BY DEF Node, NodesOver, WithLeft, WithRight, WithNext, MovedTo, Entry

(* A deletion below on the left.                                           *)
LEMMA DeleteLeft ==
  ASSUME NEW n, Avl(n), n # NULL, NEW key \in Addr, key < n.key,
         NEW l, Deleted(n.left, l, key)
  PROVE  /\ Deleted(n, Repaired(WithLeft(n, l)), key)
         /\ Contents(Repaired(WithLeft(n, l))) = {Entry(n)} \cup Contents(l) \cup Contents(n.right)
<1> DEFINE r == n.right
           x == WithLeft(n, l)
<1>1. /\ n \in Node /\ n.key \in Nat /\ key \in Nat
      /\ Avl(n.left) /\ Avl(r)
      /\ Parts(KeysOf(n.left), n.key, KeysOf(r))
      /\ KeysOf(n) = {n.key} \cup KeysOf(n.left) \cup KeysOf(r)
      /\ KeysOf(n.left) \subseteq Nat /\ KeysOf(r) \subseteq Nat
      /\ height(n) = Above(n.left, r) /\ height(n) <= Depth
      /\ height(n.left) \in Nat /\ height(r) \in Nat
      /\ height(n.left) - height(r) \in -1 .. 1
  BY AvlParts, AddressAssumption
<1>2. /\ Avl(l) /\ l \in Tree
      /\ KeysOf(l) = KeysOf(n.left) \ {key}
      /\ height(l) \in {height(n.left) - 1, height(n.left)} /\ height(l) \in Nat
  BY HeightNat DEF Deleted, Avl
<1>3. x \in Node /\ x.left = l /\ x.right = r /\ x.key = n.key /\ Entry(x) = Entry(n)
  BY <1>1, <1>2, NodeChanged
<1> HIDE DEF x, r
<1>4. Parts(KeysOf(l), n.key, KeysOf(r))
  BY <1>1, <1>2 DEF Parts
<1>5. /\ height(l) - height(r) \in -2 .. 2
      /\ Above(l, r) \in {height(n) - 1, height(n)}
      /\ Above(l, r) = height(n) - 1 => height(l) - height(r) \in -1 .. 1
  <2>1. /\ height(n) = Above(n.left, r) /\ height(n.left) \in Nat /\ height(r) \in Nat
        /\ height(n.left) - height(r) \in -1 .. 1
        /\ height(l) = height(n.left) - 1 \/ height(l) = height(n.left)
    BY <1>1, <1>2
  <2> QED BY <2>1 DEF Above
<1>6. Above(l, r) <= Depth /\ Above(l, r) \in Nat /\ height(n) \in Nat
  BY <1>1, <1>2, <1>5, DepthAssumption, HeightNat DEF Avl
<1>7. /\ Avl(Repaired(x))
      /\ KeysOf(Repaired(x)) = {n.key} \cup KeysOf(l) \cup KeysOf(r)
      /\ Contents(Repaired(x)) = {Entry(n)} \cup Contents(l) \cup Contents(r)
      /\ height(Repaired(x)) \in {Above(l, r) - 1, Above(l, r)}
      /\ height(l) - height(r) \in -1 .. 1 => height(Repaired(x)) = Above(l, r)
  BY <1>1, <1>2, <1>3, <1>4, <1>5, <1>6, RepairedHolds
<1>8. KeysOf(Repaired(x)) = KeysOf(n) \ {key}
  BY <1>1, <1>2, <1>7 DEF Parts
<1>9. height(Repaired(x)) \in {height(n) - 1, height(n)}
  BY <1>5, <1>6, <1>7
<1> QED BY <1>7, <1>8, <1>9 DEF Deleted, x, r

(* A deletion below on the right.  With a key of its own the node keeps it, *)
(* and it may take over that of its successor instead.                     *)
LEMMA DeleteRight ==
  ASSUME NEW n, Avl(n), n # NULL, NEW key \in Addr,
         NEW r, Deleted(n.right, r, key),
         NEW x \in Node, x.left = n.left, x.right = r,
         \A a \in KeysOf(n.left) : a < x.key,
         \A b \in KeysOf(r) : b > x.key
  PROVE  /\ Avl(Repaired(x))
         /\ KeysOf(Repaired(x)) = {x.key} \cup KeysOf(n.left) \cup (KeysOf(n.right) \ {key})
         /\ Contents(Repaired(x)) = {Entry(x)} \cup Contents(n.left) \cup Contents(r)
         /\ height(Repaired(x)) \in {height(n) - 1, height(n)}
<1> DEFINE l == n.left
<1>1. /\ Avl(l) /\ Avl(n.right)
      /\ height(n) = Above(l, n.right) /\ height(n) <= Depth
      /\ height(l) \in Nat /\ height(n.right) \in Nat
      /\ height(l) - height(n.right) \in -1 .. 1
  BY AvlParts
<1>2. /\ Avl(r) /\ r \in Tree
      /\ KeysOf(r) = KeysOf(n.right) \ {key}
      /\ height(r) \in {height(n.right) - 1, height(n.right)} /\ height(r) \in Nat
  BY HeightNat DEF Deleted, Avl
<1>3. Parts(KeysOf(l), x.key, KeysOf(r))
  BY DEF Parts
<1> HIDE DEF l
<1>4. /\ height(l) - height(r) \in -2 .. 2
      /\ Above(l, r) \in {height(n) - 1, height(n)}
      /\ Above(l, r) = height(n) - 1 => height(l) - height(r) \in -1 .. 1
  BY <1>1, <1>2 DEF Above
<1>5. Above(l, r) <= Depth /\ Above(l, r) \in Nat /\ height(n) \in Nat
  BY <1>1, <1>2, <1>4, DepthAssumption, HeightNat DEF Avl
<1>6. x.left = l /\ x.right = r
  BY DEF l
<1>7. /\ Avl(Repaired(x))
      /\ KeysOf(Repaired(x)) = {x.key} \cup KeysOf(l) \cup KeysOf(r)
      /\ Contents(Repaired(x)) = {Entry(x)} \cup Contents(l) \cup Contents(r)
      /\ height(Repaired(x)) \in {Above(l, r) - 1, Above(l, r)}
      /\ height(l) - height(r) \in -1 .. 1 => height(Repaired(x)) = Above(l, r)
  BY <1>1, <1>2, <1>3, <1>4, <1>5, <1>6, RepairedHolds
<1>8. height(Repaired(x)) \in {height(n) - 1, height(n)}
  BY <1>4, <1>5, <1>7
<1> QED BY <1>2, <1>7, <1>8 DEF l

(* The node that holds the key, without a child or with one.               *)
LEMMA DeleteFew ==
  ASSUME NEW n, Avl(n), n # NULL, n.left = NULL \/ n.right = NULL
  PROVE  Deleted(n, deleteNode(n, n.key), n.key)
<1> DEFINE l == n.left
           r == n.right
           c == deleteNode(n, n.key)
<1>1. /\ n \in Tree \ {NULL} /\ n.key \in Nat /\ n.key \in Addr /\ n.at \in Addr
      /\ Avl(l) /\ Avl(r)
      /\ Parts(KeysOf(l), n.key, KeysOf(r))
      /\ KeysOf(n) = {n.key} \cup KeysOf(l) \cup KeysOf(r)
      /\ height(n) = Above(l, r) /\ height(n) <= Depth
      /\ height(l) \in Nat /\ height(r) \in Nat
      /\ height(l) - height(r) \in -1 .. 1
  BY AvlParts DEF Avl, Labelled
<1>2. height(NULL) = 0 /\ KeysOf(NULL) = {} /\ Avl(NULL)
  BY HeightNat, KeysEquation, AvlEquation
<1> HIDE DEF l, r, c
<1>3. ASSUME NEW m, Avl(m), m # NULL, Parts(KeysOf(m), n.key, {}) \/ Parts({}, n.key, KeysOf(m)),
             KeysOf(n) = {n.key} \cup KeysOf(m),
             height(m) = height(n) - 1, c = Repaired(MovedTo(m, n.at))
      PROVE  Deleted(n, c, n.key)
  <2> DEFINE x == MovedTo(m, n.at)
  <2>1. /\ m \in Node
        /\ Avl(m.left) /\ Avl(m.right) /\ Parts(KeysOf(m.left), m.key, KeysOf(m.right))
        /\ KeysOf(m) = {m.key} \cup KeysOf(m.left) \cup KeysOf(m.right)
        /\ height(m) = Above(m.left, m.right) /\ height(m) <= Depth
        /\ height(m.left) \in Nat /\ height(m.right) \in Nat
        /\ height(m.left) - height(m.right) \in -1 .. 1
    BY <1>3, AvlParts
  <2>2. m.left \in Tree
    BY <2>1 DEF Avl
  <2>3. x \in Node /\ x.left = m.left /\ x.right = m.right /\ x.key = m.key
    BY <1>1, <2>1, <2>2, NodeChanged
  <2> HIDE DEF x
  <2>4. height(m.left) - height(m.right) \in -2 .. 2
    BY <2>1
  <2>5. Avl(Repaired(x)) /\ KeysOf(Repaired(x)) = KeysOf(m) /\ height(Repaired(x)) = height(m)
    BY <2>1, <2>3, <2>4, RepairedHolds
  <2>6. KeysOf(m) = KeysOf(n) \ {n.key}
    BY <1>1, <1>3 DEF Parts
  <2> QED BY <1>3, <2>5, <2>6 DEF Deleted, x
<1>4. CASE l = NULL /\ r = NULL
  <2>1. c = NULL
    BY <1>1, <1>4, DeleteEquation DEF l, r, c
  <2>2. height(n) = 1
    BY <1>1, <1>2, <1>4 DEF Above
  <2>3. KeysOf(n) \ {n.key} = {}
    BY <1>1, <1>2, <1>4
  <2> QED BY <1>2, <2>1, <2>2, <2>3 DEF Deleted, c
<1>5. CASE l = NULL /\ r # NULL
  <2>1. c = Repaired(MovedTo(r, n.at))
    BY <1>1, <1>5, DeleteEquation DEF l, r, c
  <2>2. height(r) = height(n) - 1
    BY <1>1, <1>2, <1>5 DEF Above
  <2>3. Parts({}, n.key, KeysOf(r)) /\ KeysOf(n) = {n.key} \cup KeysOf(r)
    BY <1>1, <1>2, <1>5
  <2> QED BY <1>1, <1>3, <1>5, <2>1, <2>2, <2>3 DEF c
<1>6. CASE l # NULL /\ r = NULL
  <2>1. c = Repaired(MovedTo(l, n.at))
    BY <1>1, <1>6, DeleteEquation DEF l, r, c
  <2>2. height(l) = height(n) - 1
    BY <1>1, <1>2, <1>6 DEF Above
  <2>3. Parts(KeysOf(l), n.key, {}) /\ KeysOf(n) = {n.key} \cup KeysOf(l)
    BY <1>1, <1>2, <1>6
  <2> QED BY <1>1, <1>3, <1>6, <2>1, <2>2, <2>3 DEF c
<1> QED BY <1>4, <1>5, <1>6 DEF l, r

(* The node that holds the key, with two children: it takes over the       *)
(* smallest key on its right, which is deleted there.                      *)
LEMMA DeleteFull ==
  ASSUME NEW n, Avl(n), n # NULL, n.left # NULL, n.right # NULL,
         \A k \in Addr : Deleted(n.right, deleteNode(n.right, k), k)
  PROVE  Deleted(n, deleteNode(n, n.key), n.key)
<1> DEFINE next == nodeWithMimumValue(n.right).key
           r == deleteNode(n.right, next)
           x == WithNext(n, next, r)
           c == deleteNode(n, n.key)
<1>1. /\ n \in Tree \ {NULL} /\ n \in Node /\ n.key \in Nat /\ n.key \in Addr
      /\ Avl(n.left) /\ Avl(n.right)
      /\ Parts(KeysOf(n.left), n.key, KeysOf(n.right))
      /\ KeysOf(n) = {n.key} \cup KeysOf(n.left) \cup KeysOf(n.right)
      /\ KeysOf(n.left) \subseteq Nat /\ KeysOf(n.right) \subseteq Nat
      /\ n.right \in Tree
  BY AvlParts DEF Avl, Labelled
<1>2. /\ next \in KeysOf(n.right) /\ next \in Addr /\ next \in Nat
      /\ \A k \in KeysOf(n.right) : next <= k
  BY <1>1, MinimumHolds, KeysEquation
<1>3. c = Repaired(x)
  <2> HIDE DEF next
  <2> QED BY <1>1, <1>2, DeleteEquation DEF next
<1>4. Deleted(n.right, r, next)
  BY <1>2
<1> HIDE DEF next, r, c
<1>5. r \in Tree /\ KeysOf(r) = KeysOf(n.right) \ {next}
  BY <1>4 DEF Deleted, Avl
<1>6. x \in Node /\ x.left = n.left /\ x.right = r /\ x.key = next
  <2>1. n \in Node /\ next \in Addr /\ r \in Tree
    BY <1>1, <1>2, <1>5
  <2> QED BY <2>1, NodeChanged
<1> HIDE DEF x
<1>7. \A a \in KeysOf(n.left) : a < next
  BY <1>1, <1>2 DEF Parts
<1>8. \A b \in KeysOf(r) : b > next
  <2> TAKE b \in KeysOf(r)
  <2>1. b \in Nat /\ next <= b /\ b # next
    BY <1>1, <1>2, <1>5
  <2> QED BY <1>2, <2>1
<1>9. /\ Avl(Repaired(x))
      /\ KeysOf(Repaired(x)) = {next} \cup KeysOf(n.left) \cup (KeysOf(n.right) \ {next})
      /\ height(Repaired(x)) \in {height(n) - 1, height(n)}
  BY <1>2, <1>4, <1>6, <1>7, <1>8, DeleteRight
<1>10. KeysOf(Repaired(x)) = KeysOf(n) \ {n.key}
  BY <1>1, <1>2, <1>9 DEF Parts
<1> QED BY <1>3, <1>9, <1>10 DEF Deleted, c

(* What deleteNode does to a good tree, whichever case applies.            *)
LEMMA DeleteHolds ==
  ASSUME NEW t, Avl(t), NEW k \in Addr
  PROVE  Deleted(t, deleteNode(t, k), k)
<1> DEFINE T == {n \in Tree : Avl(n) => \A key \in Addr : Deleted(n, deleteNode(n, key), key)}
<1>1. NULL \in T
  <2>1. NULL \in Tree /\ Avl(NULL) /\ KeysOf(NULL) = {}
    BY TreeParts, AvlEquation, KeysEquation
  <2> QED BY <2>1, DeleteEquation DEF Deleted
<1>2. ASSUME NEW n \in Tree, n # NULL, n.left \in T, n.right \in T
      PROVE  n \in T
  <2>1. SUFFICES ASSUME Avl(n), NEW key \in Addr
                 PROVE  Deleted(n, deleteNode(n, key), key)
    OBVIOUS
  <2>2. /\ n \in Node /\ n.key \in Nat /\ key \in Nat
        /\ Avl(n.left) /\ Avl(n.right)
        /\ Parts(KeysOf(n.left), n.key, KeysOf(n.right))
        /\ KeysOf(n) = {n.key} \cup KeysOf(n.left) \cup KeysOf(n.right)
        /\ KeysOf(n.left) \subseteq Nat /\ KeysOf(n.right) \subseteq Nat
    BY <1>2, <2>1, AvlParts, AddressAssumption
  <2>3. /\ \A k2 \in Addr : Deleted(n.left, deleteNode(n.left, k2), k2)
        /\ \A k2 \in Addr : Deleted(n.right, deleteNode(n.right, k2), k2)
    BY <1>2, <2>2
  <2>4. CASE key < n.key
    <3>1. deleteNode(n, key) = Repaired(WithLeft(n, deleteNode(n.left, key)))
      BY <1>2, <2>4, DeleteEquation
    <3>2. Deleted(n.left, deleteNode(n.left, key), key)
      BY <2>3
    <3> QED BY <1>2, <2>1, <2>4, <3>1, <3>2, DeleteLeft
  <2>5. CASE key > n.key
    <3> DEFINE r == deleteNode(n.right, key)
               x == WithRight(n, r)
    <3>1. deleteNode(n, key) = Repaired(x)
      BY <1>2, <2>5, DeleteEquation
    <3>2. Deleted(n.right, r, key)
      BY <2>3
    <3> HIDE DEF r
    <3>3. r \in Tree /\ KeysOf(r) = KeysOf(n.right) \ {key}
      BY <3>2 DEF Deleted, Avl
    <3>4. x \in Node /\ x.left = n.left /\ x.right = r /\ x.key = n.key
      BY <2>2, <3>3, NodeChanged
    <3> HIDE DEF x
    <3>5. (\A a \in KeysOf(n.left) : a < x.key) /\ (\A b \in KeysOf(r) : b > x.key)
      BY <2>2, <3>3, <3>4 DEF Parts
    <3>6. /\ Avl(Repaired(x))
          /\ KeysOf(Repaired(x)) = {n.key} \cup KeysOf(n.left) \cup (KeysOf(n.right) \ {key})
          /\ height(Repaired(x)) \in {height(n) - 1, height(n)}
      BY <1>2, <2>1, <3>2, <3>4, <3>5, DeleteRight
    <3>7. KeysOf(Repaired(x)) = KeysOf(n) \ {key}
      BY <2>2, <2>5, <3>6 DEF Parts
    <3> QED BY <3>1, <3>6, <3>7 DEF Deleted
  <2>6. CASE key = n.key /\ (n.left = NULL \/ n.right = NULL)
    BY <1>2, <2>1, <2>6, DeleteFew
  <2>7. CASE key = n.key /\ n.left # NULL /\ n.right # NULL
    BY <1>2, <2>1, <2>3, <2>7, DeleteFull
  <2> QED BY <2>2, <2>4, <2>5, <2>6, <2>7
<1>3. Tree \subseteq T
  <2> HIDE DEF T
  <2> QED BY <1>1, <1>2, TreeInduction
<1> QED BY <1>3 DEF Avl

-----------------------------------------------------------------------------
(* Where a deletion moves keys.  Of the nodes that stay, each keeps its    *)
(* key or takes over a larger one - but for the node of the deleted key,   *)
(* which may take over the next smaller one.                               *)

Moved(n, c, key) ==
  \A f \in Contents(c) : \E e \in Contents(n) :
    /\ e[1] = f[1]
    /\ \/ e[2] <= f[2]
       \/ e[2] = key /\ f[2] < key /\ \A q \in KeysOf(n) : ~ (f[2] < q /\ q < key)

Ats(C) == {e[1] : e \in C}

(* No two nodes have the same address.                                     *)
Apart(C) == \A d, e \in C : d[1] = e[1] => d[2] = e[2]

Moves(n, c, key) ==
  /\ Moved(n, c, key)
  /\ Apart(Contents(n)) => Apart(Contents(c))

(* Keys and addresses of a tree's contents.                                *)
LEMMA EntryParts ==
  ASSUME NEW n \in Tree
  PROVE  /\ \A e \in Contents(n) : e[1] \in Addr /\ e[2] \in KeysOf(n) /\ e[2] \in Nat
         /\ \A k \in KeysOf(n) : \E e \in Contents(n) : e[2] = k
         /\ \A m \in Nodes(n) : Entry(m) \in Contents(n)
<1>1. \A m : Entry(m)[1] = m.at /\ Entry(m)[2] = m.key
  BY DEF Entry
<1>2. \A m \in Nodes(n) : m.at \in Addr /\ m.key \in Nat
  BY NodesAreNodes, NodeFields
<1> QED BY <1>1, <1>2 DEF Contents, KeysOf

(* Parts at distinct addresses make a whole at distinct addresses.         *)
LEMMA ApartWhole ==
  ASSUME NEW a, NEW k, NEW s, NEW L, NEW R, Apart(L), Apart(R),
         a \notin Ats(L), a \notin Ats(R), Ats(L) \cap Ats(R) = {}
  PROVE  Apart({<<a, k, s>>} \cup L \cup R)
BY DEF Apart, Ats

(* The parts of a good tree whose nodes are at distinct addresses.         *)
LEMMA ApartParts ==
  ASSUME NEW n, Avl(n), n # NULL, Apart(Contents(n))
  PROVE  /\ Apart(Contents(n.left)) /\ Apart(Contents(n.right))
         /\ n.at \notin Ats(Contents(n.left)) /\ n.at \notin Ats(Contents(n.right))
         /\ Ats(Contents(n.left)) \cap Ats(Contents(n.right)) = {}
<1>1. /\ Avl(n.left) /\ Avl(n.right) /\ n.key \in Nat
      /\ Parts(KeysOf(n.left), n.key, KeysOf(n.right))
      /\ Contents(n) = {Entry(n)} \cup Contents(n.left) \cup Contents(n.right)
  BY AvlParts
<1>2. /\ \A e \in Contents(n.left) : e[2] \in Nat /\ e[2] < n.key
      /\ \A e \in Contents(n.right) : e[2] \in Nat /\ e[2] > n.key
  BY <1>1, EntryParts DEF Avl, Parts
<1>3. Entry(n)[1] = n.at /\ Entry(n)[2] = n.key
  BY DEF Entry
<1>4. /\ \A e \in Contents(n.left) : e[1] # n.at
      /\ \A e \in Contents(n.right) : e[1] # n.at
      /\ \A d \in Contents(n.left), e \in Contents(n.right) : d[1] # e[1]
  BY <1>1, <1>2, <1>3 DEF Apart
<1>5. Apart(Contents(n.left)) /\ Apart(Contents(n.right))
  BY <1>1 DEF Apart
<1> QED BY <1>4, <1>5 DEF Ats

(* Where nodes only move keys, no address is new.                          *)
LEMMA MovedAts ==
  ASSUME NEW n, NEW c, NEW key, Moved(n, c, key)
  PROVE  Ats(Contents(c)) \subseteq Ats(Contents(n))
BY DEF Moved, Ats

(* A deletion below on the left.                                           *)
LEMMA MovesLeft ==
  ASSUME NEW n, Avl(n), n # NULL, NEW key \in Addr, key < n.key,
         NEW l, Moves(n.left, l, key),
         NEW c, Contents(c) = {Entry(n)} \cup Contents(l) \cup Contents(n.right)
  PROVE  Moves(n, c, key)
<1>1. /\ Avl(n.left) /\ Avl(n.right) /\ n.key \in Nat /\ key \in Nat
      /\ n.left \in Tree /\ n.right \in Tree
      /\ Parts(KeysOf(n.left), n.key, KeysOf(n.right))
      /\ KeysOf(n) = {n.key} \cup KeysOf(n.left) \cup KeysOf(n.right)
      /\ Contents(n) = {Entry(n)} \cup Contents(n.left) \cup Contents(n.right)
      /\ KeysOf(n.right) \subseteq Nat
  BY AvlParts, AddressAssumption DEF Avl
<1>2. Entry(n) = <<n.at, n.key, n.size>> /\ Entry(n)[2] \in Nat
  BY <1>1 DEF Entry
<1>3. Moved(n, c, key)
  <2>1. SUFFICES ASSUME NEW f \in Contents(c)
                 PROVE  \E e \in Contents(n) :
                          /\ e[1] = f[1]
                          /\ \/ e[2] <= f[2]
                             \/ /\ e[2] = key /\ f[2] < key
                                /\ \A q \in KeysOf(n) : ~ (f[2] < q /\ q < key)
    BY DEF Moved
  <2>2. CASE f = Entry(n)
    BY <1>1, <1>2, <2>2
  <2>3. CASE f \in Contents(n.right)
    <3>1. f[2] <= f[2]
      BY <1>1, <2>3, EntryParts
    <3> QED BY <1>1, <2>3, <3>1
  <2>4. CASE f \in Contents(l)
    <3>1. PICK e \in Contents(n.left) :
             /\ e[1] = f[1]
             /\ \/ e[2] <= f[2]
                \/ /\ e[2] = key /\ f[2] < key
                   /\ \A q \in KeysOf(n.left) : ~ (f[2] < q /\ q < key)
      BY <2>4 DEF Moves, Moved
    <3>2. \A q \in KeysOf(n) \ KeysOf(n.left) : q \in Nat /\ q >= n.key
      BY <1>1 DEF Parts
    <3> QED BY <1>1, <3>1, <3>2
  <2> QED BY <2>1, <2>2, <2>3, <2>4
<1>4. Apart(Contents(n)) => Apart(Contents(c))
  <2>1. Ats(Contents(l)) \subseteq Ats(Contents(n.left))
    BY MovedAts DEF Moves
  <2> SUFFICES ASSUME Apart(Contents(n))
               PROVE  Apart(Contents(c))
    OBVIOUS
  <2>2. /\ Apart(Contents(n.left)) /\ Apart(Contents(n.right))
        /\ n.at \notin Ats(Contents(n.left)) /\ n.at \notin Ats(Contents(n.right))
        /\ Ats(Contents(n.left)) \cap Ats(Contents(n.right)) = {}
    BY ApartParts
  <2>3. Apart(Contents(l)) /\ n.at \notin Ats(Contents(l))
        /\ Ats(Contents(l)) \cap Ats(Contents(n.right)) = {}
    BY <2>1, <2>2 DEF Moves
  <2>4. Apart({<<n.at, n.key, n.size>>} \cup Contents(l) \cup Contents(n.right))
    BY <2>2, <2>3, ApartWhole
  <2> QED BY <1>2, <2>4
<1> QED BY <1>3, <1>4 DEF Moves

(* A deletion below on the right, of a node that keeps its key or takes    *)
(* over the smallest one there.                                            *)
LEMMA MovesRight ==
  ASSUME NEW n, Avl(n), n # NULL, NEW key \in Addr,
         NEW below \in Addr, NEW r, Moves(n.right, r, below),
         Avl(r), KeysOf(r) \subseteq KeysOf(n.right),
         NEW k \in Nat, NEW c,
         Contents(c) = {<<n.at, k, n.size>>} \cup Contents(n.left) \cup Contents(r),
         \/ k = n.key /\ below = key /\ key > n.key
         \/ k = below /\ k \in KeysOf(n.right) /\ \A q \in KeysOf(n.right) : k <= q
  PROVE  Moves(n, c, key)
<1>1. /\ Avl(n.left) /\ Avl(n.right) /\ n.key \in Nat /\ key \in Nat /\ below \in Nat
      /\ n.left \in Tree /\ n.right \in Tree /\ r \in Tree
      /\ Parts(KeysOf(n.left), n.key, KeysOf(n.right))
      /\ KeysOf(n) = {n.key} \cup KeysOf(n.left) \cup KeysOf(n.right)
      /\ Contents(n) = {Entry(n)} \cup Contents(n.left) \cup Contents(n.right)
      /\ KeysOf(n.left) \subseteq Nat /\ KeysOf(n.right) \subseteq Nat
  BY AvlParts, AddressAssumption DEF Avl
<1>2. Entry(n) = <<n.at, n.key, n.size>> /\ n.key <= k
  BY <1>1 DEF Entry, Parts
<1>3. Moved(n, c, key)
  <2>1. SUFFICES ASSUME NEW f \in Contents(c)
                 PROVE  \E e \in Contents(n) :
                          /\ e[1] = f[1]
                          /\ \/ e[2] <= f[2]
                             \/ /\ e[2] = key /\ f[2] < key
                                /\ \A q \in KeysOf(n) : ~ (f[2] < q /\ q < key)
    BY DEF Moved
  <2>2. CASE f = <<n.at, k, n.size>>
    <3>1. Entry(n)[1] = f[1] /\ Entry(n)[2] <= f[2]
      BY <1>2, <2>2
    <3> QED BY <1>1, <3>1
  <2>3. CASE f \in Contents(n.left)
    <3>1. f[2] <= f[2]
      BY <1>1, <2>3, EntryParts
    <3> QED BY <1>1, <2>3, <3>1
  <2>4. CASE f \in Contents(r)
    <3>1. PICK e \in Contents(n.right) :
             /\ e[1] = f[1]
             /\ \/ e[2] <= f[2]
                \/ /\ e[2] = below /\ f[2] < below
                   /\ \A q \in KeysOf(n.right) : ~ (f[2] < q /\ q < below)
      BY <2>4 DEF Moves, Moved
    <3>2. e \in Contents(n)
      BY <1>1
    <3>3. f[2] \in KeysOf(n.right) /\ f[2] \in Nat /\ f[2] > n.key
      BY <1>1, <2>4, EntryParts DEF Parts
    <3>4. CASE k = n.key /\ below = key /\ key > n.key
      <4>1. \A q \in KeysOf(n) \ KeysOf(n.right) : q \in Nat /\ q <= n.key
        BY <1>1 DEF Parts
      <4>2. \A q \in KeysOf(n) \ KeysOf(n.right) : ~ (f[2] < q)
        BY <1>1, <3>3, <4>1
      <4> QED BY <3>1, <3>2, <3>4, <4>2
    <3>5. CASE k = below /\ \A q \in KeysOf(n.right) : k <= q
      <4>1. ~ (f[2] < below)
        BY <1>1, <3>3, <3>5
      <4> QED BY <3>1, <3>2, <4>1
    <3> QED BY <3>4, <3>5
  <2> QED BY <2>1, <2>2, <2>3, <2>4
<1>4. Apart(Contents(n)) => Apart(Contents(c))
  <2>1. Ats(Contents(r)) \subseteq Ats(Contents(n.right))
    BY MovedAts DEF Moves
  <2> SUFFICES ASSUME Apart(Contents(n))
               PROVE  Apart(Contents(c))
    OBVIOUS
  <2>2. /\ Apart(Contents(n.left)) /\ Apart(Contents(n.right))
        /\ n.at \notin Ats(Contents(n.left)) /\ n.at \notin Ats(Contents(n.right))
        /\ Ats(Contents(n.left)) \cap Ats(Contents(n.right)) = {}
    BY ApartParts
  <2>3. Apart(Contents(r)) /\ n.at \notin Ats(Contents(r))
        /\ Ats(Contents(n.left)) \cap Ats(Contents(r)) = {}
    BY <2>1, <2>2 DEF Moves
  <2>4. Apart({<<n.at, k, n.size>>} \cup Contents(n.left) \cup Contents(r))
    BY <2>2, <2>3, ApartWhole
  <2> QED BY <2>4
<1> QED BY <1>3, <1>4 DEF Moves

(* The node that holds the key, without a child or with one.               *)
LEMMA MovesFew ==
  ASSUME NEW n, Avl(n), n # NULL, n.left = NULL \/ n.right = NULL
  PROVE  Moves(n, deleteNode(n, n.key), n.key)
<1> DEFINE l == n.left
           r == n.right
           c == deleteNode(n, n.key)
<1>1. /\ n \in Tree \ {NULL} /\ n.key \in Nat /\ n.key \in Addr /\ n.at \in Addr
      /\ Avl(l) /\ Avl(r)
      /\ Parts(KeysOf(l), n.key, KeysOf(r))
      /\ KeysOf(n) = {n.key} \cup KeysOf(l) \cup KeysOf(r)
      /\ Contents(n) = {Entry(n)} \cup Contents(l) \cup Contents(r)
      /\ height(n) <= Depth
      /\ height(l) \in Nat /\ height(r) \in Nat
      /\ height(l) - height(r) \in -1 .. 1
  BY AvlParts DEF Avl, Labelled
<1>2. height(NULL) = 0 /\ Contents(NULL) = {} /\ KeysOf(NULL) = {}
  BY HeightNat, ContentsEquation, KeysEquation
<1>3. Entry(n)[1] = n.at /\ Entry(n)[2] = n.key
  BY DEF Entry
<1>4. Apart(Contents(n)) =>
        /\ Apart(Contents(l)) /\ Apart(Contents(r))
        /\ n.at \notin Ats(Contents(l)) /\ n.at \notin Ats(Contents(r))
  BY ApartParts
<1> HIDE DEF l, r, c
(* A child m that moves up.                                                *)
<1>5. ASSUME NEW m, Avl(m), m # NULL, Contents(n) = {Entry(n)} \cup Contents(m),
             KeysOf(n) = {n.key} \cup KeysOf(m),
             n.key <= m.key \/ (m.key < n.key /\ KeysOf(m) = {m.key}),
             Apart(Contents(n)) => Apart(Contents(m)) /\ n.at \notin Ats(Contents(m)),
             c = Repaired(MovedTo(m, n.at))
      PROVE  Moves(n, c, n.key)
  <2> DEFINE x == MovedTo(m, n.at)
  <2>1. /\ m \in Node /\ m.key \in Nat
        /\ Avl(m.left) /\ Avl(m.right) /\ Parts(KeysOf(m.left), m.key, KeysOf(m.right))
        /\ Contents(m) = {Entry(m)} \cup Contents(m.left) \cup Contents(m.right)
        /\ height(m) = Above(m.left, m.right) /\ height(m) <= Depth
        /\ height(m.left) \in Nat /\ height(m.right) \in Nat
        /\ height(m.left) - height(m.right) \in -1 .. 1
    BY <1>5, AvlParts
  <2>2. m.left \in Tree /\ m.right \in Tree
    BY <2>1 DEF Avl
  <2>3. /\ x \in Node /\ x.left = m.left /\ x.right = m.right /\ x.key = m.key
        /\ Entry(x) = <<n.at, m.key, m.size>>
    BY <1>1, <2>1, <2>2, NodeChanged
  <2> HIDE DEF x
  <2>4. height(m.left) - height(m.right) \in -2 .. 2
    BY <2>1
  <2>5. Contents(Repaired(x)) = {Entry(x)} \cup Contents(m.left) \cup Contents(m.right)
    BY <2>1, <2>3, <2>4, RepairedHolds
  <2>6. Contents(c) = {<<n.at, m.key, m.size>>} \cup Contents(m.left) \cup Contents(m.right)
    BY <1>5, <2>3, <2>5 DEF x
  <2>7. Moved(n, c, n.key)
    <3>1. SUFFICES ASSUME NEW f \in Contents(c)
                   PROVE  \E e \in Contents(n) :
                            /\ e[1] = f[1]
                            /\ \/ e[2] <= f[2]
                               \/ /\ e[2] = n.key /\ f[2] < n.key
                                  /\ \A q \in KeysOf(n) : ~ (f[2] < q /\ q < n.key)
      BY DEF Moved
    <3>2. CASE f = <<n.at, m.key, m.size>>
      <4>1. f[1] = n.at /\ f[2] = m.key /\ Entry(n) \in Contents(n)
        BY <1>5, <3>2
      <4>2. \/ n.key <= f[2]
            \/ f[2] < n.key /\ \A q \in KeysOf(n) : ~ (f[2] < q /\ q < n.key)
        BY <1>1, <1>5, <2>1, <4>1
      <4> QED BY <1>3, <4>1, <4>2
    <3>3. CASE f \in Contents(m.left) \cup Contents(m.right)
      <4>1. f[2] \in Nat /\ f \in Contents(n)
        BY <1>5, <2>1, <2>2, <3>3, EntryParts
      <4>2. f[2] <= f[2]
        BY <4>1
      <4> QED BY <4>1, <4>2
    <3> QED BY <2>6, <3>1, <3>2, <3>3
  <2>8. Apart(Contents(n)) => Apart(Contents(c))
    <3> SUFFICES ASSUME Apart(Contents(n))
                 PROVE  Apart(Contents(c))
      OBVIOUS
    <3>1. Apart(Contents(m)) /\ n.at \notin Ats(Contents(m))
      BY <1>5
    <3>2. /\ Apart(Contents(m.left)) /\ Apart(Contents(m.right))
          /\ Ats(Contents(m.left)) \cap Ats(Contents(m.right)) = {}
      BY <1>5, <3>1, ApartParts
    <3>3. n.at \notin Ats(Contents(m.left)) /\ n.at \notin Ats(Contents(m.right))
      BY <2>1, <3>1 DEF Ats
    <3>4. Apart({<<n.at, m.key, m.size>>} \cup Contents(m.left) \cup Contents(m.right))
      BY <3>2, <3>3, ApartWhole
    <3> QED BY <2>6, <3>4
  <2> QED BY <2>7, <2>8 DEF Moves
<1>6. CASE l = NULL /\ r = NULL
  <2>1. c = NULL
    BY <1>1, <1>6, DeleteEquation DEF l, r, c
  <2> QED BY <1>2, <2>1 DEF Moves, Moved, Apart, c
<1>7. CASE l = NULL /\ r # NULL
  <2>1. c = Repaired(MovedTo(r, n.at))
    BY <1>1, <1>7, DeleteEquation DEF l, r, c
  <2>2. Contents(n) = {Entry(n)} \cup Contents(r) /\ KeysOf(n) = {n.key} \cup KeysOf(r)
    BY <1>1, <1>2, <1>7
  <2>3. r.key \in KeysOf(r) /\ r.key \in Nat
    BY <1>1, <1>7, AvlParts
  <2>4. n.key <= r.key
    BY <1>1, <2>3 DEF Parts
  <2> QED BY <1>1, <1>4, <1>5, <1>7, <2>1, <2>2, <2>4 DEF c
<1>8. CASE l # NULL /\ r = NULL
  <2>1. c = Repaired(MovedTo(l, n.at))
    BY <1>1, <1>8, DeleteEquation DEF l, r, c
  <2>2. Contents(n) = {Entry(n)} \cup Contents(l) /\ KeysOf(n) = {n.key} \cup KeysOf(l)
    BY <1>1, <1>2, <1>8
  <2>3. /\ l.key \in KeysOf(l) /\ l.key \in Nat
        /\ KeysOf(l) = {l.key} \cup KeysOf(l.left) \cup KeysOf(l.right)
        /\ Avl(l.left) /\ Avl(l.right)
        /\ height(l) = Above(l.left, l.right)
        /\ height(l.left) \in Nat /\ height(l.right) \in Nat
    BY <1>1, <1>8, AvlParts
  <2>4. l.key < n.key
    BY <1>1, <2>3 DEF Parts
  <2>5. height(l.left) = 0 /\ height(l.right) = 0
    BY <1>1, <1>2, <1>8, <2>3 DEF Above
  <2>6. l.left = NULL /\ l.right = NULL
    <3>1. ASSUME NEW m, Avl(m), m # NULL
          PROVE  height(m) # 0
      <4>1. height(m) = Above(m.left, m.right) /\ m.left \in Tree /\ m.right \in Tree
        BY <3>1, AvlParts DEF Avl
      <4> QED BY <4>1, HeightNat
    <3> QED BY <2>3, <2>5, <3>1
  <2>7. KeysOf(l) = {l.key}
    BY <1>2, <2>3, <2>6
  <2> QED BY <1>1, <1>4, <1>5, <1>8, <2>1, <2>2, <2>4, <2>7 DEF c
<1> QED BY <1>6, <1>7, <1>8 DEF l, r, c

(* The node that holds the key, with two children.                         *)
LEMMA MovesFull ==
  ASSUME NEW n, Avl(n), n # NULL, n.left # NULL, n.right # NULL,
         \A k \in Addr : Moves(n.right, deleteNode(n.right, k), k)
  PROVE  Moves(n, deleteNode(n, n.key), n.key)
<1> DEFINE next == nodeWithMimumValue(n.right).key
           r == deleteNode(n.right, next)
           x == WithNext(n, next, r)
           c == deleteNode(n, n.key)
<1>1. /\ n \in Tree \ {NULL} /\ n \in Node /\ n.key \in Nat /\ n.key \in Addr
      /\ Avl(n.left) /\ Avl(n.right)
      /\ Parts(KeysOf(n.left), n.key, KeysOf(n.right))
      /\ KeysOf(n.left) \subseteq Nat /\ KeysOf(n.right) \subseteq Nat
      /\ n.right \in Tree
  BY AvlParts DEF Avl, Labelled
<1>2. /\ next \in KeysOf(n.right) /\ next \in Addr /\ next \in Nat
      /\ \A k \in KeysOf(n.right) : next <= k
  BY <1>1, MinimumHolds, KeysEquation
<1>3. c = Repaired(x)
  <2> HIDE DEF next
  <2> QED BY <1>1, <1>2, DeleteEquation DEF next
<1>4. Deleted(n.right, r, next) /\ Moves(n.right, r, next)
  BY <1>1, <1>2, DeleteHolds
<1> HIDE DEF next, r, c
<1>5. r \in Tree /\ Avl(r) /\ KeysOf(r) = KeysOf(n.right) \ {next}
  BY <1>4 DEF Deleted, Avl
<1>6. x \in Node /\ x.left = n.left /\ x.right = r /\ x.key = next /\ Entry(x) = <<n.at, next, n.size>>
  <2>1. n \in Node /\ next \in Addr /\ r \in Tree
    BY <1>1, <1>2, <1>5
  <2> QED BY <2>1, NodeChanged
<1> HIDE DEF x
<1>7. \A a \in KeysOf(n.left) : a < next
  BY <1>1, <1>2 DEF Parts
<1>8. \A b \in KeysOf(r) : b > next
  <2> TAKE b \in KeysOf(r)
  <2>1. b \in Nat /\ next <= b /\ b # next
    BY <1>1, <1>2, <1>5
  <2> QED BY <1>2, <2>1
<1>9. Contents(Repaired(x)) = {<<n.at, next, n.size>>} \cup Contents(n.left) \cup Contents(r)
  BY <1>2, <1>4, <1>6, <1>7, <1>8, DeleteRight
<1>10. KeysOf(r) \subseteq KeysOf(n.right)
  BY <1>5
<1>11. Moves(n, Repaired(x), n.key)
  <2> DEFINE d == Repaired(x)
  <2> HIDE DEF d
  <2>1. Contents(d) = {<<n.at, next, n.size>>} \cup Contents(n.left) \cup Contents(r)
    BY <1>9 DEF d
  <2>2. Moves(n, d, n.key)
    BY <1>1, <1>2, <1>4, <1>5, <1>10, <2>1, MovesRight
  <2> QED BY <2>2 DEF d
<1> QED BY <1>3, <1>11 DEF c

(* Where any deletion from a good tree moves keys.                         *)
LEMMA DeleteMoves ==
  ASSUME NEW t, Avl(t), NEW k \in Addr
  PROVE  Moves(t, deleteNode(t, k), k)
<1> DEFINE T == {n \in Tree : Avl(n) => \A key \in Addr : Moves(n, deleteNode(n, key), key)}
<1>1. NULL \in T
  <2>1. NULL \in Tree /\ Contents(NULL) = {}
    BY TreeParts, ContentsEquation
  <2> QED BY <2>1, DeleteEquation DEF Moves, Moved, Apart
<1>2. ASSUME NEW n \in Tree, n # NULL, n.left \in T, n.right \in T
      PROVE  n \in T
  <2>1. SUFFICES ASSUME Avl(n), NEW key \in Addr
                 PROVE  Moves(n, deleteNode(n, key), key)
    OBVIOUS
  <2>2. /\ n \in Node /\ n.key \in Nat /\ key \in Nat
        /\ Avl(n.left) /\ Avl(n.right)
        /\ Parts(KeysOf(n.left), n.key, KeysOf(n.right))
    BY <1>2, <2>1, AvlParts, AddressAssumption
  <2>3. /\ \A k2 \in Addr : Moves(n.left, deleteNode(n.left, k2), k2)
        /\ \A k2 \in Addr : Moves(n.right, deleteNode(n.right, k2), k2)
    BY <1>2, <2>2
  <2>4. CASE key < n.key
    <3> DEFINE l == deleteNode(n.left, key)
    <3>1. deleteNode(n, key) = Repaired(WithLeft(n, l))
      BY <1>2, <2>4, DeleteEquation
    <3>2. Deleted(n.left, l, key) /\ Moves(n.left, l, key)
      BY <2>2, <2>3, DeleteHolds
    <3> HIDE DEF l
    <3>3. Contents(Repaired(WithLeft(n, l))) = {Entry(n)} \cup Contents(l) \cup Contents(n.right)
      BY <1>2, <2>1, <2>4, <3>2, DeleteLeft
    <3> DEFINE c == Repaired(WithLeft(n, l))
    <3> HIDE DEF c
    <3>4. Contents(c) = {Entry(n)} \cup Contents(l) \cup Contents(n.right)
      BY <3>3 DEF c
    <3>5. Moves(n, c, key)
      BY <1>2, <2>1, <2>4, <3>2, <3>4, MovesLeft
    <3> QED BY <3>1, <3>5 DEF c
  <2>5. CASE key > n.key
    <3> DEFINE r == deleteNode(n.right, key)
               x == WithRight(n, r)
    <3>1. deleteNode(n, key) = Repaired(x)
      BY <1>2, <2>5, DeleteEquation
    <3>2. Deleted(n.right, r, key) /\ Moves(n.right, r, key)
      BY <2>2, <2>3, DeleteHolds
    <3> HIDE DEF r
    <3>3. r \in Tree /\ Avl(r) /\ KeysOf(r) \subseteq KeysOf(n.right)
      BY <3>2 DEF Deleted, Avl
    <3>4. /\ x \in Node /\ x.left = n.left /\ x.right = r /\ x.key = n.key
          /\ Entry(x) = <<n.at, n.key, n.size>>
      BY <2>2, <3>3, NodeChanged DEF Entry
    <3> HIDE DEF x
    <3>5. (\A a \in KeysOf(n.left) : a < x.key) /\ (\A b \in KeysOf(r) : b > x.key)
      BY <2>2, <3>3, <3>4 DEF Parts
    <3> DEFINE c == Repaired(x)
    <3>6. Contents(c) = {<<n.at, n.key, n.size>>} \cup Contents(n.left) \cup Contents(r)
      BY <1>2, <2>1, <3>2, <3>4, <3>5, DeleteRight
    <3> HIDE DEF c
    <3>7. Moves(n, c, key)
      BY <1>2, <2>1, <2>2, <2>5, <3>2, <3>3, <3>6, MovesRight
    <3> QED BY <3>1, <3>7 DEF c
  <2>6. CASE key = n.key /\ (n.left = NULL \/ n.right = NULL)
    BY <1>2, <2>1, <2>6, MovesFew
  <2>7. CASE key = n.key /\ n.left # NULL /\ n.right # NULL
    BY <1>2, <2>1, <2>3, <2>7, MovesFull
  <2> QED BY <2>2, <2>4, <2>5, <2>6, <2>7
<1>3. Tree \subseteq T
  <2> HIDE DEF T
  <2> QED BY <1>1, <1>2, TreeInduction
<1> QED BY <1>3 DEF Avl

-----------------------------------------------------------------------------
(* A good tree with the same keys, named after them.                       *)
Same(n, c) ==
  /\ Avl(c) /\ Named(c)
  /\ KeysOf(c) = KeysOf(n)
  /\ height(c) = height(n)

(* Naming the nodes after their keys changes no key and no shape.          *)
LEMMA RenamedHolds ==
  ASSUME NEW t, Avl(t)
  PROVE  Same(t, Renamed(t))
<1> DEFINE T == {n \in Tree : Avl(n) => Same(n, Renamed(n))}
<1>1. NULL \in T
  BY TreeParts, AvlEquation, RenamedEquation DEF Same
<1>2. ASSUME NEW n \in Tree, n # NULL, n.left \in T, n.right \in T
      PROVE  n \in T
  <2>1. SUFFICES ASSUME Avl(n)
                 PROVE  Same(n, Renamed(n))
    OBVIOUS
  <2> DEFINE x == [at |-> n.key, key |-> n.key, size |-> n.size]
             l == Renamed(n.left)
             r == Renamed(n.right)
             c == Renamed(n)
  <2>2. /\ n \in Node /\ IsNode(n) /\ Labelled(n)
        /\ Avl(n.left) /\ Avl(n.right)
        /\ Parts(KeysOf(n.left), n.key, KeysOf(n.right))
        /\ KeysOf(n) = {n.key} \cup KeysOf(n.left) \cup KeysOf(n.right)
        /\ Contents(n) = {Entry(n)} \cup Contents(n.left) \cup Contents(n.right)
        /\ height(n) = Above(n.left, n.right) /\ height(n) <= Depth
        /\ height(n.left) - height(n.right) \in -1 .. 1
    BY <1>2, <2>1, AvlParts
  <2>3. Same(n.left, l) /\ Same(n.right, r)
    BY <1>2, <2>2
  <2>4. c = NamedOver(n, l, r)
    BY <1>2, RenamedEquation
  <2> HIDE DEF l, r, c
  <2>5. Above(l, r) = height(n) /\ n.height = height(n)
    BY <2>2, <2>3, HeightNat DEF Same, Above
  <2>6. c = [at |-> n.key, key |-> n.key, size |-> n.size, height |-> n.height,
             left |-> l, right |-> r]
    BY <2>2, <2>4 DEF IsNode, NamedOver
  <2>7. c = Joined(x, l, r)
    BY <2>5, <2>6 DEF Joined
  <2>8. x.key = n.key /\ x.at = n.key /\ Labelled(x)
    BY <2>2 DEF Labelled
  <2> HIDE DEF x
  <2>9. Holds(c, x, l, r, height(n))
    <3>1. Avl(l) /\ Avl(r) /\ KeysOf(l) = KeysOf(n.left) /\ KeysOf(r) = KeysOf(n.right)
          /\ height(l) = height(n.left) /\ height(r) = height(n.right)
      BY <2>3 DEF Same
    <3>2. /\ Parts(KeysOf(l), x.key, KeysOf(r))
          /\ height(l) - height(r) \in -1 .. 1 /\ Above(l, r) <= Depth
      BY <2>2, <2>5, <2>8, <3>1
    <3> QED BY <2>5, <2>7, <2>8, <3>1, <3>2, JoinedHolds
  <2>10. KeysOf(c) = KeysOf(n)
    BY <2>2, <2>3, <2>8, <2>9 DEF Holds, Same
  <2>11. Avl(c) /\ Named(c) /\ height(c) = height(n)
    BY <2>3, <2>8, <2>9 DEF Holds, Same
  <2> QED BY <2>10, <2>11 DEF Same, c
<1>3. Tree \subseteq T
  <2> HIDE DEF T
  <2> QED BY <1>1, <1>2, TreeInduction
<1> QED BY <1>3 DEF Avl

-----------------------------------------------------------------------------
(* What remove_between collects *)

CollectedDef(f, m, p) ==
  CASE m = NULL -> <<>>
    [] m # NULL /\ m.key > p.end   -> f[m.left]
    [] m # NULL /\ m.key < p.start -> f[m.right]
    [] OTHER -> <<m.at>> \o f[m.left] \o f[m.right]

Ranges == [start : Addr, end : Addr]

CollectedRec == INSTANCE Recursion WITH Level <- TreesUpTo, Par <- Ranges, Def <- CollectedDef

(* _get_between, case by case.                                             *)
LEMMA CollectEquation ==
  ASSUME NEW start \in Addr, NEW end \in Addr, start < end
  PROVE  /\ _get_between(NULL, start, end) = <<>>
         /\ \A n \in Tree \ {NULL} :
              _get_between(n, start, end) =
                IF n.key > end
                  THEN _get_between(n.left, start, end)
                  ELSE IF n.key < start
                    THEN _get_between(n.right, start, end)
                    ELSE <<n.at>> \o _get_between(n.left, start, end)
                                  \o _get_between(n.right, start, end)
<1> DEFINE p == [start |-> start, end |-> end]
<1>1. CollectedRec!Grows
  BY TreesGrow DEF CollectedRec!Grows
<1>2. CollectedRec!AsksBelow
  BY TreesEquation, TreeChildren DEF CollectedRec!AsksBelow, CollectedDef
<1>3. \E f : f = [m \in Tree |-> CollectedDef(f, m, p)]
  BY <1>1, <1>2, CollectedRec!FunctionExists, DepthAssumption DEF Ranges, Tree
<1> DEFINE f == CHOOSE f : f = [m \in Tree |-> CollectedDef(f, m, p)]
<1>4. f = [m \in Tree |-> CollectedDef(f, m, p)]
  BY <1>3, Zenon
<1>5. \A n \in Tree : _get_between(n, start, end) = f[n]
  BY DEF _get_between, CollectedDef
<1>6. \A n \in Tree : f[n] = CollectedDef(f, n, p)
  <2> HIDE DEF f
  <2> QED BY <1>4
<1> HIDE DEF f
<1>7. _get_between(NULL, start, end) = <<>>
  BY <1>5, <1>6, TreeParts DEF CollectedDef
<1>8. ASSUME NEW n \in Tree, n # NULL
      PROVE  _get_between(n, start, end) =
               IF n.key > end
                 THEN f[n.left]
                 ELSE IF n.key < start
                   THEN f[n.right]
                   ELSE <<n.at>> \o f[n.left] \o f[n.right]
  <2> DEFINE A == f[n.left]
             B == f[n.right]
             C == <<n.at>> \o f[n.left] \o f[n.right]
  <2>1. p.start = start /\ p.end = end
    OBVIOUS
  <2>2. _get_between(n, start, end) = CollectedDef(f, n, p)
    BY <1>5, <1>6
  <2>3. _get_between(n, start, end) =
          CASE n = NULL -> <<>>
            [] n # NULL /\ n.key > end -> A
            [] n # NULL /\ n.key < start -> B
            [] OTHER -> C
    <3> HIDE DEF p
    <3> QED BY <2>1, <2>2, Zenon DEF CollectedDef
  <2> HIDE DEF A, B, C
  <2>4. start \in Nat /\ end \in Nat /\ n.key \in Nat
    BY <1>8, TreeParts, NodeFields, AddressAssumption
  <2>5. _get_between(n, start, end) = IF n.key > end THEN A ELSE IF n.key < start THEN B ELSE C
    <3>1. CASE n.key > end
      <4>1. ~ (n.key < start)
        BY <2>4, <3>1
      <4> QED BY <2>3, <1>8, <3>1, <4>1
    <3>2. CASE ~ (n.key > end) /\ n.key < start
      BY <2>3, <1>8, <3>2
    <3>3. CASE ~ (n.key > end) /\ ~ (n.key < start)
      BY <2>3, <1>8, <3>3
    <3> QED BY <3>1, <3>2, <3>3
  <2> QED BY <2>5 DEF A, B, C
<1>9. \A n \in Tree : n # NULL =>
        /\ f[n.left] = _get_between(n.left, start, end)
        /\ f[n.right] = _get_between(n.right, start, end)
  BY <1>5, TreeParts
<1> QED BY <1>7, <1>8, <1>9

(* The keys of a tree that lie in a range.                                 *)
Doomed(n, start, end) == {k \in KeysOf(n) : start <= k /\ k <= end}

(* No element of a sequence comes twice.                                   *)
Distinct(q) == \A i, j \in 1 .. Len(q) : q[i] = q[j] => i = j

(* Distinct sequences over disjoint sets make a distinct sequence.         *)
LEMMA DistinctWhole ==
  ASSUME NEW k, NEW L, NEW R, k \notin L, k \notin R, L \cap R = {},
         NEW p \in Seq(L), NEW q \in Seq(R), Distinct(p), Distinct(q)
  PROVE  Distinct(<<k>> \o p \o q)
<1> DEFINE S == {k} \cup L \cup R
           s == <<k>> \o p \o q
<1>1. p \in Seq(S) /\ q \in Seq(S) /\ <<k>> \in Seq(S)
  OBVIOUS
<1>2. Len(p) \in Nat /\ Len(q) \in Nat /\ Len(<<k>>) = 1 /\ <<k>>[1] = k
  OBVIOUS
<1> HIDE DEF S
<1>3. /\ Len(s) = 1 + Len(p) + Len(q)
      /\ s[1] = k
      /\ \A i \in 2 .. Len(p) + 1 : s[i] = p[i - 1]
      /\ \A i \in Len(p) + 2 .. 1 + Len(p) + Len(q) : s[i] = q[i - 1 - Len(p)]
  BY <1>1, <1>2
<1> HIDE DEF s
<1>4. /\ \A i \in 2 .. Len(p) + 1 : i - 1 \in 1 .. Len(p) /\ s[i] \in L
      /\ \A i \in Len(p) + 2 .. 1 + Len(p) + Len(q) :
           i - 1 - Len(p) \in 1 .. Len(q) /\ s[i] \in R
  <2>1. /\ \A i \in 2 .. Len(p) + 1 : i - 1 \in 1 .. Len(p)
        /\ \A i \in Len(p) + 2 .. 1 + Len(p) + Len(q) : i - 1 - Len(p) \in 1 .. Len(q)
    BY <1>2
  <2>2. (\A i \in 1 .. Len(p) : p[i] \in L) /\ (\A i \in 1 .. Len(q) : q[i] \in R)
    OBVIOUS
  <2> QED BY <1>3, <2>1, <2>2
<1>5. ASSUME NEW i \in 1 .. Len(s), NEW j \in 1 .. Len(s), s[i] = s[j]
      PROVE  i = j
  <2>1. /\ i = 1 \/ i \in 2 .. Len(p) + 1 \/ i \in Len(p) + 2 .. 1 + Len(p) + Len(q)
        /\ j = 1 \/ j \in 2 .. Len(p) + 1 \/ j \in Len(p) + 2 .. 1 + Len(p) + Len(q)
    BY <1>2, <1>3
  <2>2. \/ i = 1 /\ j = 1
        \/ i \in 2 .. Len(p) + 1 /\ j \in 2 .. Len(p) + 1
        \/ /\ i \in Len(p) + 2 .. 1 + Len(p) + Len(q)
           /\ j \in Len(p) + 2 .. 1 + Len(p) + Len(q)
    BY <1>3, <1>4, <1>5, <2>1
  <2>3. CASE i \in 2 .. Len(p) + 1 /\ j \in 2 .. Len(p) + 1
    <3>1. i - 1 = j - 1
      BY <1>3, <1>4, <1>5, <2>3 DEF Distinct
    <3> QED BY <3>1, <2>3
  <2>4. CASE /\ i \in Len(p) + 2 .. 1 + Len(p) + Len(q)
             /\ j \in Len(p) + 2 .. 1 + Len(p) + Len(q)
    <3>1. i - 1 - Len(p) = j - 1 - Len(p)
      BY <1>3, <1>4, <1>5, <2>4 DEF Distinct
    <3> QED BY <1>2, <3>1, <2>4
  <2> QED BY <2>2, <2>3, <2>4
<1> QED BY <1>5 DEF Distinct, s

(* A tree has finitely many keys.                                          *)
LEMMA FiniteKeys ==
  \A n \in Tree : IsFiniteSet(KeysOf(n))
<1> DEFINE T == {n \in Tree : IsFiniteSet(KeysOf(n))}
<1>1. NULL \in T
  BY TreeParts, KeysEquation, FS_EmptySet
<1>2. ASSUME NEW n \in Tree, n # NULL, n.left \in T, n.right \in T
      PROVE  n \in T
  <2>1. KeysOf(n) = (KeysOf(n.left) \cup KeysOf(n.right)) \cup {n.key}
    BY <1>2, KeysEquation
  <2>2. IsFiniteSet(KeysOf(n.left) \cup KeysOf(n.right))
    BY <1>2, FS_Union
  <2> QED BY <2>1, <2>2, FS_AddElement
<1>3. Tree \subseteq T
  <2> HIDE DEF T
  <2> QED BY <1>1, <1>2, TreeInduction
<1> QED BY <1>3

(* One pointer for each redzone in range.                                  *)
Collects(n, q, start, end) ==
  /\ q \in Seq(Doomed(n, start, end))
  /\ Distinct(q)
  /\ IsFiniteSet(Doomed(n, start, end))
  /\ Len(q) = Cardinality(Doomed(n, start, end))

(* That is what _get_between collects.                                     *)
LEMMA CollectHolds ==
  ASSUME NEW t, Avl(t), Named(t), NEW start \in Addr, NEW end \in Addr, start < end
  PROVE  Collects(t, _get_between(t, start, end), start, end)
<1> DEFINE D(n) == Doomed(n, start, end)
           q(n) == _get_between(n, start, end)
           T == {n \in Tree : Avl(n) /\ Named(n) => Collects(n, q(n), start, end)}
<1>1. NULL \in T
  <2>1. D(NULL) = {} /\ q(NULL) = <<>>
    BY KeysEquation, CollectEquation DEF Doomed
  <2>2. IsFiniteSet(D(NULL)) /\ Cardinality(D(NULL)) = 0
    BY <2>1, FS_EmptySet
  <2> HIDE DEF q, D
  <2>3. q(NULL) \in Seq(D(NULL)) /\ Len(q(NULL)) = 0 /\ Distinct(q(NULL))
    BY <2>1 DEF Distinct
  <2> QED BY <2>2, <2>3, TreeParts DEF Collects, D
<1>2. ASSUME NEW n \in Tree, n # NULL, n.left \in T, n.right \in T
      PROVE  n \in T
  <2>1. SUFFICES ASSUME Avl(n), Named(n)
                 PROVE  Collects(n, q(n), start, end)
    OBVIOUS
  <2>2. /\ n.key \in Nat /\ start \in Nat /\ end \in Nat
        /\ Avl(n.left) /\ Avl(n.right) /\ Named(n.left) /\ Named(n.right) /\ n.at = n.key
        /\ Parts(KeysOf(n.left), n.key, KeysOf(n.right))
        /\ KeysOf(n) = {n.key} \cup KeysOf(n.left) \cup KeysOf(n.right)
        /\ KeysOf(n.left) \subseteq Nat /\ KeysOf(n.right) \subseteq Nat
    BY <1>2, <2>1, AvlParts, AddressAssumption
  <2>3. /\ Collects(n.left, q(n.left), start, end)
        /\ Collects(n.right, q(n.right), start, end)
    BY <1>2, <2>2
  <2>4. q(n) = IF n.key > end
                 THEN q(n.left)
                 ELSE IF n.key < start THEN q(n.right) ELSE <<n.at>> \o q(n.left) \o q(n.right)
    BY <1>2, CollectEquation
  <2>5. CASE n.key > end
    <3>1. q(n) = q(n.left)
      BY <2>4, <2>5
    <3>2. D(n) = D(n.left)
      BY <2>2, <2>5 DEF Doomed, Parts
    <3> QED BY <2>3, <3>1, <3>2 DEF Collects
  <2>6. CASE ~ (n.key > end) /\ n.key < start
    <3>1. q(n) = q(n.right)
      BY <2>4, <2>6
    <3>2. D(n) = D(n.right)
      BY <2>2, <2>6 DEF Doomed, Parts
    <3> QED BY <2>3, <3>1, <3>2 DEF Collects
  <2>7. CASE ~ (n.key > end) /\ ~ (n.key < start)
    <3>1. q(n) = <<n.key>> \o q(n.left) \o q(n.right)
      BY <2>2, <2>4, <2>7
    <3>2. D(n) = (D(n.left) \cup D(n.right)) \cup {n.key} /\ n.key \in D(n)
      BY <2>2, <2>7 DEF Doomed
    <3>3. D(n.left) \cap D(n.right) = {} /\ n.key \notin D(n.left) \cup D(n.right)
      BY <2>2 DEF Doomed, Parts
    <3> HIDE DEF D, q
    <3>4. /\ IsFiniteSet(D(n.left)) /\ IsFiniteSet(D(n.right))
          /\ q(n.left) \in Seq(D(n.left)) /\ q(n.right) \in Seq(D(n.right))
          /\ Distinct(q(n.left)) /\ Distinct(q(n.right))
          /\ Len(q(n.left)) = Cardinality(D(n.left))
          /\ Len(q(n.right)) = Cardinality(D(n.right))
      BY <2>3 DEF Collects, D
    <3>5. /\ IsFiniteSet(D(n.left) \cup D(n.right))
          /\ Cardinality(D(n.left) \cup D(n.right)) = Len(q(n.left)) + Len(q(n.right))
      <4>1. Cardinality(D(n.left) \cap D(n.right)) = 0
        BY <3>3, FS_EmptySet
      <4>2. Cardinality(D(n.left)) \in Nat /\ Cardinality(D(n.right)) \in Nat
        BY <3>4, FS_CardinalityType
      <4>3. /\ IsFiniteSet(D(n.left) \cup D(n.right))
            /\ Cardinality(D(n.left) \cup D(n.right)) =
                 Cardinality(D(n.left)) + Cardinality(D(n.right))
                 - Cardinality(D(n.left) \cap D(n.right))
        BY <3>4, FS_Union
      <4> QED BY <3>4, <4>1, <4>2, <4>3
    <3>6. IsFiniteSet(D(n)) /\ Cardinality(D(n)) = Len(q(n.left)) + Len(q(n.right)) + 1
      BY <3>2, <3>3, <3>5, FS_AddElement
    <3>7. q(n.left) \in Seq(D(n)) /\ q(n.right) \in Seq(D(n)) /\ <<n.key>> \in Seq(D(n))
      BY <3>2, <3>4
    <3>8. q(n) \in Seq(D(n)) /\ Len(q(n)) = 1 + Len(q(n.left)) + Len(q(n.right))
      BY <3>1, <3>7
    <3>9. Len(q(n)) = Cardinality(D(n))
      BY <3>4, <3>6, <3>8
    <3>10. Distinct(q(n))
      <4>1. Distinct(<<n.key>> \o q(n.left) \o q(n.right))
        BY <3>3, <3>4, DistinctWhole
      <4> QED BY <3>1, <4>1
    <3> QED BY <3>6, <3>8, <3>9, <3>10 DEF Collects, D
  <2> QED BY <2>5, <2>6, <2>7
<1>3. Tree \subseteq T
  <2> HIDE DEF T
  <2> QED BY <1>1, <1>2, TreeInduction
<1> QED BY <1>3 DEF Avl

-----------------------------------------------------------------------------
(* The loop of remove_between *)

Entrance(n) == [tree |-> n, held |-> [p \in {m.at : m \in Nodes(n)} |-> p]]

SweptDef(f, i, p) ==
  IF i = 0 THEN {Entrance(p.tree)} ELSE UNION {Turn(s, p.todo[i]) : s \in f[i - 1]}

Sweeps == [tree : Tree, todo : Seq(Addr)]

SweptRec == INSTANCE Recursion WITH Level <- UpTo, Par <- Sweeps, Def <- SweptDef

(* The states after each turn: one to start with, and then those that a    *)
(* turn leads to.                                                          *)
LEMMA SweepEquation ==
  ASSUME NEW n \in Tree, NEW todo \in Seq(Addr)
  PROVE  \E f : /\ f[0] = {Entrance(n)}
                /\ \A i \in Nat : i < Len(todo) =>
                     f[i + 1] = UNION {Turn(s, todo[i + 1]) : s \in f[i]}
                /\ Sweep(n, todo) = {s.tree : s \in f[Len(todo)]}
<1> DEFINE p == [tree |-> n, todo |-> todo]
<1>1. SweptRec!Grows
  BY UpToChain DEF SweptRec!Grows
<1>2. SweptRec!AsksBelow
  BY UpToChain DEF SweptRec!AsksBelow, SweptDef
<1>3. \E f : f = [i \in 0 .. Len(todo) |-> SweptDef(f, i, p)]
  <2>1. p \in Sweeps /\ Len(todo) \in Nat
    BY DEF Sweeps
  <2> HIDE DEF p
  <2> QED BY <1>1, <1>2, <2>1, SweptRec!FunctionExists DEF UpTo
<1> DEFINE f == CHOOSE f : f = [i \in 0 .. Len(todo) |-> SweptDef(f, i, p)]
<1>4. f = [i \in 0 .. Len(todo) |-> SweptDef(f, i, p)]
  BY <1>3, Zenon
<1>5. Sweep(n, todo) = {s.tree : s \in f[Len(todo)]}
  BY DEF Sweep, SweptDef, Entrance
<1>6. \A i \in 0 .. Len(todo) : f[i] = SweptDef(f, i, p)
  <2> HIDE DEF f
  <2> QED BY <1>4
<1> HIDE DEF f
<1>7. p.tree = n /\ p.todo = todo
  OBVIOUS
<1> HIDE DEF p
<1>8. f[0] = {Entrance(n)}
  <2>1. 0 \in 0 .. Len(todo)
    OBVIOUS
  <2>2. f[0] = SweptDef(f, 0, p)
    BY <1>6, <2>1
  <2> QED BY <1>7, <2>2 DEF SweptDef
<1>9. ASSUME NEW i \in Nat, i < Len(todo)
      PROVE  f[i + 1] = UNION {Turn(s, todo[i + 1]) : s \in f[i]}
  <2>1. i + 1 \in 0 .. Len(todo) /\ i + 1 # 0 /\ (i + 1) - 1 = i
    BY <1>9
  <2>2. f[i + 1] = SweptDef(f, i + 1, p)
    BY <1>6, <2>1
  <2>3. SweptDef(f, i + 1, p) = UNION {Turn(s, p.todo[i + 1]) : s \in f[(i + 1) - 1]}
    BY <2>1, Zenon DEF SweptDef
  <2> QED BY <1>7, <2>1, <2>2, <2>3
<1> QED BY <1>5, <1>8, <1>9

(* What is true of a state of the loop over the nodes of n: the tree is    *)
(* good, at most i redzones are gone, and every pointer leads to a key.    *)
SweptOf(n, s, i) ==
  /\ Avl(s.tree) /\ KeysOf(s.tree) \subseteq KeysOf(n)
  /\ s.held \in [KeysOf(n) -> KeysOf(n)]
  /\ IsFiniteSet(KeysOf(n) \ KeysOf(s.tree))
  /\ Cardinality(KeysOf(n) \ KeysOf(s.tree)) <= i

Now(s) ==
  [p \in DOMAIN s.held |->
     IF \E m \in Nodes(s.tree) : m.at = p
       THEN (CHOOSE m \in Nodes(s.tree) : m.at = p).key
       ELSE s.held[p]]

(* A turn ends with the keys read now, and a deletion or none.             *)
LEMMA TurnParts ==
  ASSUME NEW s, NEW a
  PROVE  /\ \A u \in Turn(s, a) :
              /\ u.held = Now(s)
              /\ \/ u.tree = deleteNode(s.tree, Now(s)[a])
                 \/ u.tree = s.tree /\ ~ \E m \in Nodes(s.tree) : m.at = a
<1> DEFINE now == Now(s)
           D == [tree |-> deleteNode(s.tree, now[a]), held |-> now]
           K == [tree |-> s.tree, held |-> now]
<1>1. Turn(s, a) = {D} \cup IF \E m \in Nodes(s.tree) : m.at = a THEN {} ELSE {K}
  BY DEF Turn, Now
<1>2. D.tree = deleteNode(s.tree, now[a]) /\ D.held = now /\ K.tree = s.tree /\ K.held = now
  OBVIOUS
<1> HIDE DEF D, K
<1> QED BY <1>1, <1>2

(* The keys read are keys of the tree the loop started with.               *)
LEMMA NowHolds ==
  ASSUME NEW n, NEW s, NEW i, SweptOf(n, s, i)
  PROVE  Now(s) \in [KeysOf(n) -> KeysOf(n)]
<1>1. DOMAIN s.held = KeysOf(n) /\ \A p \in KeysOf(n) : s.held[p] \in KeysOf(n)
  BY DEF SweptOf
<1>2. \A m \in Nodes(s.tree) : m.key \in KeysOf(n)
  BY DEF SweptOf, KeysOf
<1>3. ASSUME NEW p \in KeysOf(n)
      PROVE  (IF \E m \in Nodes(s.tree) : m.at = p
                THEN (CHOOSE m \in Nodes(s.tree) : m.at = p).key
                ELSE s.held[p]) \in KeysOf(n)
  BY <1>1, <1>2
<1> QED BY <1>1, <1>3 DEF Now

(* A turn of the loop.                                                     *)
LEMMA TurnHolds ==
  ASSUME NEW n, Avl(n), NEW i \in Nat, NEW s, SweptOf(n, s, i), NEW a \in KeysOf(n),
         NEW u \in Turn(s, a)
  PROVE  SweptOf(n, u, i + 1) /\ KeysOf(u.tree) \subseteq KeysOf(s.tree)
<1> DEFINE k == Now(s)[a]
<1>1. Now(s) \in [KeysOf(n) -> KeysOf(n)] /\ KeysOf(n) \subseteq Addr
  BY NowHolds, KeysEquation DEF Avl
<1>2. k \in KeysOf(n) /\ k \in Addr
  BY <1>1
<1> HIDE DEF k
<1>3. u.held = Now(s) /\ (u.tree = deleteNode(s.tree, k) \/ u.tree = s.tree)
  BY TurnParts DEF k
<1>4. Avl(s.tree) /\ KeysOf(s.tree) \subseteq KeysOf(n)
      /\ IsFiniteSet(KeysOf(n) \ KeysOf(s.tree))
      /\ Cardinality(KeysOf(n) \ KeysOf(s.tree)) <= i
  BY DEF SweptOf
<1>5. Cardinality(KeysOf(n) \ KeysOf(s.tree)) \in Nat
  BY <1>4, FS_CardinalityType
<1>6. CASE u.tree = s.tree
  BY <1>1, <1>3, <1>4, <1>5, <1>6 DEF SweptOf
<1>7. CASE u.tree = deleteNode(s.tree, k)
  <2>1. Deleted(s.tree, u.tree, k)
    BY <1>2, <1>4, <1>7, DeleteHolds
  <2>2. Avl(u.tree) /\ KeysOf(u.tree) = KeysOf(s.tree) \ {k}
    BY <2>1 DEF Deleted
  <2>3. KeysOf(n) \ KeysOf(u.tree) = (KeysOf(n) \ KeysOf(s.tree)) \cup {k}
    BY <1>2, <1>4, <2>2
  <2>4. /\ IsFiniteSet(KeysOf(n) \ KeysOf(u.tree))
        /\ Cardinality(KeysOf(n) \ KeysOf(u.tree)) <= i + 1
    <3> DEFINE D == KeysOf(n) \ KeysOf(s.tree)
    <3>1. IsFiniteSet(D) /\ Cardinality(D) \in Nat /\ Cardinality(D) <= i
      BY <1>4, <1>5
    <3>2. KeysOf(n) \ KeysOf(u.tree) = D \cup {k}
      BY <2>3
    <3> HIDE DEF D
    <3>3. IsFiniteSet(D \cup {k})
      BY <3>1, FS_AddElement
    <3>4. Cardinality(D \cup {k}) = Cardinality(D) \/ Cardinality(D \cup {k}) = Cardinality(D) + 1
      BY <3>1, FS_AddElement
    <3>5. Cardinality(D \cup {k}) <= i + 1
      BY <3>1, <3>4
    <3> QED BY <3>2, <3>3, <3>5
  <2> QED BY <1>1, <1>3, <1>4, <2>2, <2>4 DEF SweptOf
<1> QED BY <1>3, <1>6, <1>7

(* While the nodes are named after their keys the loop starts well, and    *)
(* its first turn deletes the redzone of its pointer.                      *)
LEMMA EntranceHolds ==
  ASSUME NEW n, Avl(n), Named(n)
  PROVE  /\ SweptOf(n, Entrance(n), 0)
         /\ \A a \in KeysOf(n) : \A u \in Turn(Entrance(n), a) :
              KeysOf(u.tree) = KeysOf(n) \ {a}
<1> DEFINE s == Entrance(n)
<1>1. {m.at : m \in Nodes(n)} = KeysOf(n)
  BY DEF Named, KeysOf
<1>2. s.tree = n /\ s.held = [p \in KeysOf(n) |-> p]
  BY <1>1 DEF Entrance
<1> HIDE DEF s
<1>3. SweptOf(n, s, 0)
  <2>1. KeysOf(n) \ KeysOf(s.tree) = {}
    BY <1>2
  <2>2. IsFiniteSet({}) /\ Cardinality({}) = 0
    BY FS_EmptySet
  <2> QED BY <1>2, <2>1, <2>2 DEF SweptOf
<1>4. ASSUME NEW a \in KeysOf(n), NEW u \in Turn(s, a)
      PROVE  KeysOf(u.tree) = KeysOf(n) \ {a}
  <2>1. \E m \in Nodes(s.tree) : m.at = a
    BY <1>1, <1>2
  <2>2. Now(s)[a] = a
    <3>1. Now(s)[a] = (CHOOSE m \in Nodes(s.tree) : m.at = a).key
      BY <1>2, <2>1 DEF Now
    <3>2. (CHOOSE m \in Nodes(s.tree) : m.at = a) \in Nodes(s.tree)
          /\ (CHOOSE m \in Nodes(s.tree) : m.at = a).at = a
      BY <2>1
    <3> QED BY <1>2, <3>1, <3>2 DEF Named
  <2>3. u.tree = deleteNode(n, a)
    BY <1>2, <2>1, <2>2, TurnParts
  <2>4. a \in Addr
    BY KeysEquation DEF Avl
  <2> QED BY <2>3, <2>4, DeleteHolds DEF Deleted
<1> QED BY <1>3, <1>4 DEF s

(***************************************************************************)
(* What the loop may leave of a good tree: a good tree without some of its *)
(* redzones, no more than there are pointers; the redzone of the first     *)
(* pointer is gone; without pointers nothing is.                           *)
(***************************************************************************)
Swept(n, c, todo) ==
  /\ Avl(c) /\ KeysOf(c) \subseteq KeysOf(n)
  /\ IsFiniteSet(KeysOf(n) \ KeysOf(c))
  /\ Cardinality(KeysOf(n) \ KeysOf(c)) <= Len(todo)
  /\ todo # <<>> => todo[1] \notin KeysOf(c)

(* So the loop leaves it.                                                  *)
LEMMA SweepHolds ==
  ASSUME NEW n, Avl(n), Named(n), NEW todo \in Seq(KeysOf(n)), NEW c \in Sweep(n, todo)
  PROVE  Swept(n, c, todo)
<1>1. n \in Tree /\ KeysOf(n) \subseteq Addr
  BY KeysEquation DEF Avl
<1>2. todo \in Seq(Addr) /\ Len(todo) \in Nat
  BY <1>1
<1>3. PICK f : /\ f[0] = {Entrance(n)}
               /\ \A i \in Nat : i < Len(todo) =>
                    f[i + 1] = UNION {Turn(s, todo[i + 1]) : s \in f[i]}
               /\ Sweep(n, todo) = {s.tree : s \in f[Len(todo)]}
  BY <1>1, <1>2, SweepEquation
<1> DEFINE L == {i \in Nat : i <= Len(todo) =>
                   \A s \in f[i] :
                     /\ SweptOf(n, s, i)
                     /\ i = 0 => s = Entrance(n)
                     /\ i > 0 => todo[1] \notin KeysOf(s.tree)}
<1>4. 0 \in L
  BY <1>3, EntranceHolds
<1>5. ASSUME NEW i \in Nat, i \in L
      PROVE  i + 1 \in L
  <2>1. SUFFICES ASSUME i + 1 <= Len(todo), NEW u \in f[i + 1]
                 PROVE  SweptOf(n, u, i + 1) /\ todo[1] \notin KeysOf(u.tree)
    OBVIOUS
  <2>2. i < Len(todo) /\ i <= Len(todo) /\ i + 1 \in 1 .. Len(todo)
    BY <1>2, <2>1
  <2>3. f[i + 1] = UNION {Turn(s, todo[i + 1]) : s \in f[i]}
    BY <1>3, <2>2
  <2>4. PICK s \in f[i] : u \in Turn(s, todo[i + 1])
    BY <2>1, <2>3
  <2>5. todo[i + 1] \in KeysOf(n)
    BY <2>2
  <2>6. SweptOf(n, s, i) /\ (i = 0 => s = Entrance(n)) /\ (i > 0 => todo[1] \notin KeysOf(s.tree))
    BY <1>5, <2>2, <2>4
  <2>7. SweptOf(n, u, i + 1) /\ KeysOf(u.tree) \subseteq KeysOf(s.tree)
    BY <2>4, <2>5, <2>6, TurnHolds
  <2>8. CASE i = 0
    <3>1. s = Entrance(n) /\ todo[i + 1] = todo[1]
      BY <2>6, <2>8
    <3>2. KeysOf(u.tree) = KeysOf(n) \ {todo[1]}
      BY <2>4, <2>5, <3>1, EntranceHolds
    <3> QED BY <2>7, <3>2
  <2>9. CASE i > 0
    BY <2>6, <2>7, <2>9
  <2> QED BY <2>8, <2>9
<1>6. Nat \subseteq L
  <2> HIDE DEF L
  <2> QED BY <1>4, <1>5, SetInduction
<1>7. PICK s \in f[Len(todo)] : c = s.tree
  BY <1>3
<1>8. SweptOf(n, s, Len(todo)) /\ (Len(todo) > 0 => todo[1] \notin KeysOf(s.tree))
  BY <1>2, <1>6, <1>7
<1>9. todo # <<>> => Len(todo) > 0
  BY <1>2
<1> QED BY <1>7, <1>8, <1>9 DEF Swept, SweptOf

-----------------------------------------------------------------------------
(* Why the loop of remove_between never deletes below its range.  At each  *)
(* turn and for each bound v, the pointers still to be visited that lead   *)
(* to keys below v are at most as many as the redzones between start and   *)
(* v.  A deletion may lead pointers down to the next smaller key, and then *)
(* it is that key which makes up for the one that is gone.                 *)

Covered(P, cur, K, start) ==
  \A v \in Nat :
    Cardinality({p \in P : cur[p] < v}) <= Cardinality({k \in K : start <= k /\ k < v})

(* A turn for pointer a, of any such pointers and keys.                    *)
LEMMA CoveredKept ==
  ASSUME NEW P, IsFiniteSet(P), NEW a \in P,
         NEW cur, \A p \in P : cur[p] \in Nat,
         NEW new, \A p \in P : new[p] \in Nat,
         NEW K \in SUBSET Nat, IsFiniteSet(K), NEW start \in Nat, NEW L,
         Covered(P, cur, K, start),
         \/ L = K \ {cur[a]}
         \/ L = K /\ \A p \in P : cur[p] <= new[p],
         \A p \in P :
           \/ cur[p] <= new[p]
           \/ /\ cur[p] = cur[a] /\ cur[a] \in K
              /\ \A q \in K : ~ (new[p] < q /\ q < cur[a])
  PROVE  cur[a] >= start /\ Covered(P \ {a}, new, L, start)
<1> DEFINE V(v) == {p \in P : cur[p] < v}
           W(v) == {p \in P \ {a} : new[p] < v}
           R(v) == {q \in K : start <= q /\ q < v}
           S(v) == {q \in L : start <= q /\ q < v}
           k == cur[a]
<1>1. /\ k \in Nat /\ L \subseteq K /\ IsFiniteSet(L)
      /\ \A p \in P : cur[p] <= new[p] \/ cur[p] = k
  BY FS_Subset
<1>2. \A v \in Nat : /\ IsFiniteSet(V(v)) /\ Cardinality(V(v)) \in Nat
                     /\ IsFiniteSet(R(v)) /\ Cardinality(R(v)) \in Nat
                     /\ IsFiniteSet(S(v)) /\ Cardinality(S(v)) \in Nat
                     /\ IsFiniteSet(W(v)) /\ Cardinality(W(v)) \in Nat
  <2> TAKE v \in Nat
  <2>1. V(v) \subseteq P /\ W(v) \subseteq P /\ R(v) \subseteq K /\ S(v) \subseteq K
    BY <1>1
  <2> HIDE DEF V, W, R, S
  <2>2. IsFiniteSet(V(v)) /\ IsFiniteSet(W(v)) /\ IsFiniteSet(R(v)) /\ IsFiniteSet(S(v))
    BY <2>1, FS_Subset
  <2> QED BY <2>2, FS_CardinalityType
<1>3. \A v \in Nat : Cardinality(V(v)) <= Cardinality(R(v))
  BY DEF Covered
<1>4. k >= start
  <2>1. SUFFICES ASSUME k < start
                 PROVE  FALSE
    BY <1>1
  <2>2. a \in V(start) /\ R(start) = {}
    <3>1. \A q \in K : q \in Nat /\ ~ (start <= q /\ q < start)
      OBVIOUS
    <3>2. a \in V(start)
      BY <2>1
    <3> QED BY <3>1, <3>2
  <2> HIDE DEF V, W, R, S
  <2>3. Cardinality(R(start)) = 0
    BY <2>2, FS_EmptySet
  <2>4. Cardinality(V(start)) # 0 /\ Cardinality(V(start)) \in Nat
    BY <1>2, <2>2, FS_EmptySet
  <2>5. Cardinality(V(start)) <= Cardinality(R(start))
    BY <1>3
  <2> QED BY <2>3, <2>4, <2>5
<1>5. ASSUME NEW v \in Nat, v > k
      PROVE  Cardinality(W(v)) <= Cardinality(S(v))
  <2>1. W(v) \subseteq V(v) \ {a} /\ a \in V(v)
    BY <1>1, <1>5
  <2>2. S(v) = R(v) \/ S(v) = R(v) \ {k}
    BY <1>1
  <2> HIDE DEF V, W, R, S, k
  <2>3. IsFiniteSet(V(v) \ {a}) /\ Cardinality(V(v) \ {a}) = Cardinality(V(v)) - 1
    BY <1>2, <2>1, FS_RemoveElement
  <2>4. Cardinality(W(v)) <= Cardinality(V(v) \ {a})
    BY <2>1, <2>3, FS_Subset
  <2>5. Cardinality(R(v) \ {k}) >= Cardinality(R(v)) - 1
    <3>1. Cardinality(R(v) \ {k}) = IF k \in R(v) THEN Cardinality(R(v)) - 1 ELSE Cardinality(R(v))
      BY <1>2, FS_RemoveElement
    <3> QED BY <1>2, <3>1
  <2>6. Cardinality(S(v)) >= Cardinality(R(v)) - 1
    <3>1. Cardinality(R(v)) \in Nat
      BY <1>2
    <3>2. Cardinality(R(v)) >= Cardinality(R(v)) - 1
      BY <3>1
    <3> QED BY <2>2, <2>5, <3>2
  <2> QED BY <1>2, <1>3, <2>3, <2>4, <2>6
<1>6. ASSUME NEW v \in Nat, v <= k, NEW p \in P, new[p] < v, ~ (cur[p] <= new[p])
      PROVE  Cardinality(W(v)) <= Cardinality(S(v))
  <2>1. L = K \ {k} /\ k \in K /\ \A q \in K : ~ (new[p] < q /\ q < k)
    BY <1>6
  <2>2. W(v) \subseteq V(k + 1) \ {a} /\ a \in V(k + 1) /\ k + 1 \in Nat
    BY <1>1, <1>6
  <2>3. R(k + 1) = S(v) \cup {k} /\ k \notin S(v)
    <3>1. \A q \in K : q \in Nat /\ (q < v \/ q = k \/ k < q)
      BY <1>1, <1>6, <2>1
    <3>2. \A q \in K : (start <= q /\ q < k + 1) <=> (q # k /\ start <= q /\ q < v) \/ q = k
      BY <1>1, <1>4, <1>6, <3>1
    <3>3. k \in K /\ L = K \ {k}
      BY <2>1
    <3> HIDE DEF k
    <3>4. R(k + 1) = {q \in L : start <= q /\ q < v} \cup {k}
      BY <3>2, <3>3
    <3> QED BY <3>3, <3>4
  <2> HIDE DEF V, W, R, S, k
  <2>4. IsFiniteSet(V(k + 1) \ {a}) /\ Cardinality(V(k + 1) \ {a}) = Cardinality(V(k + 1)) - 1
    <3> DEFINE Q == V(k + 1)
    <3>1. IsFiniteSet(Q) /\ a \in Q
      BY <1>2, <2>2
    <3> HIDE DEF Q
    <3>2. IsFiniteSet(Q \ {a}) /\ Cardinality(Q \ {a}) = Cardinality(Q) - 1
      BY <3>1, FS_RemoveElement
    <3> QED BY <3>2 DEF Q
  <2>5. Cardinality(W(v)) <= Cardinality(V(k + 1) \ {a})
    BY <2>2, <2>4, FS_Subset
  <2>6. Cardinality(R(k + 1)) = Cardinality(S(v)) + 1
    BY <1>2, <2>3, FS_AddElement
  <2> QED BY <1>2, <1>3, <2>2, <2>4, <2>5, <2>6
<1>7. ASSUME NEW v \in Nat, v <= k, \A p \in P : new[p] < v => cur[p] <= new[p]
      PROVE  Cardinality(W(v)) <= Cardinality(S(v))
  <2>1. W(v) \subseteq V(v)
    BY <1>7
  <2>2. S(v) = R(v)
    BY <1>1, <1>7
  <2> HIDE DEF V, W, R, S
  <2>3. Cardinality(W(v)) <= Cardinality(V(v))
    BY <1>2, <2>1, FS_Subset
  <2> QED BY <1>2, <1>3, <2>2, <2>3
<1>8. \A v \in Nat : Cardinality(W(v)) <= Cardinality(S(v))
  <2> TAKE v \in Nat
  <2>1. v > k \/ v <= k
    BY <1>1
  <2> QED BY <1>5, <1>6, <1>7, <2>1
<1> QED BY <1>4, <1>8 DEF Covered

(* The pointers the loop has yet to visit after turn i.                    *)
Pending(todo, i) == {todo[j] : j \in i + 1 .. Len(todo)}

(* What is true of a state of the loop over the nodes of n, besides        *)
(* SweptOf: nothing below start is gone, and the pointers are covered.     *)
Spares(n, s, start, P) ==
  /\ Apart(Contents(s.tree))
  /\ \A k \in KeysOf(n) : k < start => k \in KeysOf(s.tree)
  /\ Covered(P, Now(s), KeysOf(s.tree), start)

(* A pointer to a node leads to the key of that node, one to a freed node  *)
(* to the key last seen.                                                   *)
LEMMA NowRead ==
  ASSUME NEW n, NEW s, NEW i, SweptOf(n, s, i), Apart(Contents(s.tree)), NEW p \in KeysOf(n)
  PROVE  /\ \A e \in Contents(s.tree) : e[1] = p => Now(s)[p] = e[2]
         /\ (\A e \in Contents(s.tree) : e[1] # p) => Now(s)[p] = s.held[p]
<1>1. p \in DOMAIN s.held
  BY DEF SweptOf
<1>2. Now(s)[p] = IF \E m \in Nodes(s.tree) : m.at = p
                    THEN (CHOOSE m \in Nodes(s.tree) : m.at = p).key
                    ELSE s.held[p]
  BY <1>1 DEF Now
<1>3. \A m : Entry(m)[1] = m.at /\ Entry(m)[2] = m.key
  BY DEF Entry
<1>4. ASSUME NEW m \in Nodes(s.tree), m.at = p
      PROVE  \A e \in Contents(s.tree) : e[1] = p => Now(s)[p] = e[2]
  <2> DEFINE c == CHOOSE x \in Nodes(s.tree) : x.at = p
  <2>1. c \in Nodes(s.tree) /\ c.at = p
    BY <1>4
  <2>2. Now(s)[p] = c.key
    BY <1>2, <1>4
  <2> HIDE DEF c
  <2>3. Entry(c) \in Contents(s.tree)
    BY <2>1 DEF Contents
  <2> QED BY <1>3, <2>1, <2>2, <2>3 DEF Apart
<1>5. \A e \in Contents(s.tree) : \E m \in Nodes(s.tree) : e[1] = m.at
  BY <1>3 DEF Contents
<1>6. (\A e \in Contents(s.tree) : e[1] # p) => ~ \E m \in Nodes(s.tree) : m.at = p
  BY <1>3 DEF Contents
<1> QED BY <1>2, <1>4, <1>5, <1>6

(* Where a turn of the loop leads the pointers.                            *)
LEMMA NowMoves ==
  ASSUME NEW n, Avl(n), NEW i \in Nat, NEW s, SweptOf(n, s, i), Apart(Contents(s.tree)),
         NEW a \in KeysOf(n), NEW u \in Turn(s, a)
  PROVE  /\ Apart(Contents(u.tree))
         /\ \/ KeysOf(u.tree) = KeysOf(s.tree) \ {Now(s)[a]}
            \/ /\ KeysOf(u.tree) = KeysOf(s.tree)
               /\ \A p \in KeysOf(n) : Now(s)[p] <= Now(u)[p]
         /\ \A p \in KeysOf(n) :
              \/ Now(s)[p] <= Now(u)[p]
              \/ /\ Now(s)[p] = Now(s)[a] /\ Now(s)[a] \in KeysOf(s.tree)
                 /\ \A q \in KeysOf(s.tree) : ~ (Now(u)[p] < q /\ q < Now(s)[a])
<1> DEFINE k == Now(s)[a]
<1>1. Now(s) \in [KeysOf(n) -> KeysOf(n)] /\ KeysOf(n) \subseteq Addr /\ KeysOf(n) \subseteq Nat
  BY NowHolds, KeysEquation DEF Avl
<1>2. k \in KeysOf(n) /\ k \in Addr
  BY <1>1
<1> HIDE DEF k
<1>3. /\ u.held = Now(s)
      /\ u.tree = deleteNode(s.tree, k) \/ u.tree = s.tree
  BY TurnParts DEF k
<1>4. Avl(s.tree) /\ s.tree \in Tree
  BY DEF SweptOf, Avl
<1>5. SweptOf(n, u, i + 1)
  BY TurnHolds
<1>6. CASE u.tree = s.tree
  <2>1. \A p \in KeysOf(n) : Now(u)[p] = Now(s)[p]
    <3> TAKE p \in KeysOf(n)
    <3>1. CASE \E e \in Contents(s.tree) : e[1] = p
      <4>1. PICK e \in Contents(s.tree) : e[1] = p
        BY <3>1
      <4>2. Now(s)[p] = e[2]
        BY <4>1, NowRead
      <4>3. Now(u)[p] = e[2]
        <5>1. Apart(Contents(u.tree)) /\ e \in Contents(u.tree)
          BY <1>6
        <5> QED BY <1>5, <4>1, <5>1, NowRead
      <4> QED BY <4>2, <4>3
    <3>2. CASE \A e \in Contents(s.tree) : e[1] # p
      <4>1. Apart(Contents(u.tree)) /\ \A e \in Contents(u.tree) : e[1] # p
        BY <1>6, <3>2
      <4>2. Now(u)[p] = u.held[p]
        BY <1>5, <4>1, NowRead
      <4> QED BY <1>3, <4>2
    <3> QED BY <3>1, <3>2
  <2>2. \A p \in KeysOf(n) : Now(s)[p] <= Now(u)[p]
    BY <1>1, <2>1
  <2> QED BY <1>6, <2>2
<1>7. CASE u.tree = deleteNode(s.tree, k)
  <2>1. Moves(s.tree, u.tree, k) /\ Deleted(s.tree, u.tree, k)
    BY <1>2, <1>4, <1>7, DeleteMoves, DeleteHolds
  <2>2. Apart(Contents(u.tree)) /\ KeysOf(u.tree) = KeysOf(s.tree) \ {k}
    BY <2>1 DEF Moves, Deleted
  <2>3. ASSUME NEW p \in KeysOf(n)
        PROVE  \/ Now(s)[p] <= Now(u)[p]
               \/ /\ Now(s)[p] = k /\ k \in KeysOf(s.tree)
                  /\ \A q \in KeysOf(s.tree) : ~ (Now(u)[p] < q /\ q < k)
    <3>1. CASE \E f \in Contents(u.tree) : f[1] = p
      <4>1. PICK f \in Contents(u.tree) : f[1] = p
        BY <3>1
      <4>2. PICK e \in Contents(s.tree) :
               /\ e[1] = f[1]
               /\ \/ e[2] <= f[2]
                  \/ /\ e[2] = k /\ f[2] < k
                     /\ \A q \in KeysOf(s.tree) : ~ (f[2] < q /\ q < k)
        BY <2>1 DEF Moves, Moved
      <4>3. Now(u)[p] = f[2]
        BY <1>5, <2>2, <4>1, NowRead
      <4>4. Now(s)[p] = e[2]
        BY <4>1, <4>2, NowRead
      <4>5. e[2] \in KeysOf(s.tree)
        BY <1>4, EntryParts
      <4> QED BY <4>2, <4>3, <4>4, <4>5
    <3>2. CASE \A f \in Contents(u.tree) : f[1] # p
      <4>1. Now(u)[p] = u.held[p]
        BY <1>5, <2>2, <3>2, NowRead
      <4>2. Now(u)[p] = Now(s)[p] /\ Now(s)[p] \in Nat
        BY <1>1, <1>3, <4>1
      <4> QED BY <4>2
    <3> QED BY <3>1, <3>2
  <2> QED BY <2>2, <2>3 DEF k
<1> QED BY <1>3, <1>6, <1>7

(* A turn of the loop deletes no key below start and keeps the cover.      *)
LEMMA SparesKept ==
  ASSUME NEW n, Avl(n), NEW i \in Nat, NEW s, SweptOf(n, s, i), NEW start \in Nat,
         NEW P, IsFiniteSet(P), P \subseteq KeysOf(n), Spares(n, s, start, P),
         NEW a \in P, NEW u \in Turn(s, a)
  PROVE  Spares(n, u, start, P \ {a})
<1> DEFINE cur == Now(s)
           new == Now(u)
           K == KeysOf(s.tree)
           L == KeysOf(u.tree)
<1>1. Apart(Contents(s.tree)) /\ Covered(P, cur, K, start)
      /\ \A k \in KeysOf(n) : k < start => k \in K
  BY DEF Spares
<1>2. /\ Apart(Contents(u.tree))
      /\ \/ L = K \ {cur[a]}
         \/ L = K /\ \A p \in KeysOf(n) : cur[p] <= new[p]
      /\ \A p \in KeysOf(n) :
           \/ cur[p] <= new[p]
           \/ /\ cur[p] = cur[a] /\ cur[a] \in K
              /\ \A q \in K : ~ (new[p] < q /\ q < cur[a])
  BY <1>1, NowMoves
<1>3. KeysOf(n) \subseteq Nat
  BY KeysEquation DEF Avl
<1>4. /\ \A p \in P : cur[p] \in Nat
      /\ \A p \in P : new[p] \in Nat
  <2>1. SweptOf(n, u, i + 1)
    BY TurnHolds
  <2>2. Now(s) \in [KeysOf(n) -> KeysOf(n)] /\ Now(u) \in [KeysOf(n) -> KeysOf(n)]
    BY <2>1, NowHolds
  <2> QED BY <1>3, <2>2
<1>5. K \in SUBSET Nat /\ IsFiniteSet(K)
  BY FiniteKeys, KeysEquation DEF SweptOf, Avl
<1> HIDE DEF cur, new, K, L
<1>6. cur[a] >= start /\ Covered(P \ {a}, new, L, start)
  <2>1. \/ L = K \ {cur[a]}
        \/ L = K /\ \A p \in P : cur[p] <= new[p]
    BY <1>2
  <2>2. \A p \in P :
          \/ cur[p] <= new[p]
          \/ /\ cur[p] = cur[a] /\ cur[a] \in K
             /\ \A q \in K : ~ (new[p] < q /\ q < cur[a])
    BY <1>2
  <2> QED BY <1>1, <1>4, <1>5, <2>1, <2>2, CoveredKept
<1>7. \A k \in KeysOf(n) : k < start => k \in L
  <2> TAKE k \in KeysOf(n)
  <2>1. k \in Nat /\ cur[a] \in Nat
    BY <1>3, <1>4
  <2> QED BY <1>1, <1>2, <1>6, <2>1
<1> QED BY <1>2, <1>6, <1>7 DEF Spares, new, L

(* At the start of the loop every pointer leads to a key of its own.       *)
LEMMA SparesInitially ==
  ASSUME NEW n, Avl(n), Named(n), NEW start \in Nat,
         NEW P, P \subseteq KeysOf(n), \A p \in P : start <= p
  PROVE  Spares(n, Entrance(n), start, P)
<1> DEFINE s == Entrance(n)
<1>1. s.tree = n /\ s.held = [p \in KeysOf(n) |-> p]
  BY DEF Entrance, Named, KeysOf
<1>2. n \in Tree
  BY DEF Avl
<1>3. \A e \in Contents(n) : e[1] = e[2]
  BY DEF Contents, Entry, Named
<1>4. SweptOf(n, s, 0)
  BY EntranceHolds
<1> HIDE DEF s
<1>5. Apart(Contents(s.tree))
  BY <1>1, <1>3 DEF Apart
<1>6. \A p \in KeysOf(n) : Now(s)[p] = p
  <2> TAKE p \in KeysOf(n)
  <2>1. PICK e \in Contents(n) : e[2] = p
    BY <1>2, EntryParts
  <2> QED BY <1>1, <1>3, <1>4, <1>5, <2>1, NowRead
<1>7. Covered(P, Now(s), KeysOf(n), start)
  <2> SUFFICES ASSUME NEW v \in Nat
               PROVE  Cardinality({p \in P : Now(s)[p] < v})
                        <= Cardinality({k \in KeysOf(n) : start <= k /\ k < v})
    BY DEF Covered
  <2> DEFINE V == {p \in P : Now(s)[p] < v}
             R == {k \in KeysOf(n) : start <= k /\ k < v}
  <2>1. V \subseteq R /\ R \subseteq KeysOf(n)
    BY <1>6
  <2> HIDE DEF V, R
  <2>2. IsFiniteSet(R)
    BY <1>2, <2>1, FiniteKeys, FS_Subset
  <2>3. Cardinality(V) <= Cardinality(R)
    BY <2>1, <2>2, FS_Subset
  <2> QED BY <2>3 DEF V, R
<1> QED BY <1>1, <1>5, <1>7 DEF Spares, s

(* The loop over distinct pointers from start on spares the keys below it. *)
LEMMA SweepSpares ==
  ASSUME NEW n, Avl(n), Named(n), NEW start \in Nat,
         NEW todo \in Seq(KeysOf(n)), Distinct(todo),
         \A i \in 1 .. Len(todo) : start <= todo[i],
         NEW c \in Sweep(n, todo)
  PROVE  \A k \in KeysOf(n) : k < start => k \in KeysOf(c)
<1>1. n \in Tree /\ KeysOf(n) \subseteq Addr
  BY KeysEquation DEF Avl
<1>2. todo \in Seq(Addr) /\ Len(todo) \in Nat
  BY <1>1
<1>3. PICK f : /\ f[0] = {Entrance(n)}
               /\ \A i \in Nat : i < Len(todo) =>
                    f[i + 1] = UNION {Turn(s, todo[i + 1]) : s \in f[i]}
               /\ Sweep(n, todo) = {s.tree : s \in f[Len(todo)]}
  BY <1>1, <1>2, SweepEquation
<1> DEFINE L == {i \in Nat : i <= Len(todo) =>
                   \A s \in f[i] : /\ SweptOf(n, s, i)
                                   /\ Spares(n, s, start, Pending(todo, i))}
<1>4. \A i \in Nat : /\ Pending(todo, i) \subseteq KeysOf(n)
                     /\ \A p \in Pending(todo, i) : start <= p
                     /\ IsFiniteSet(Pending(todo, i))
  <2> TAKE i \in Nat
  <2>1. i + 1 \in Nat /\ \A j \in i + 1 .. Len(todo) : j \in 1 .. Len(todo)
    BY <1>2
  <2>2. Pending(todo, i) \subseteq KeysOf(n) /\ \A p \in Pending(todo, i) : start <= p
    BY <2>1 DEF Pending
  <2>3. IsFiniteSet(Pending(todo, i))
    BY <1>1, <2>2, FiniteKeys, FS_Subset
  <2> QED BY <2>2, <2>3
<1>5. 0 \in L
  <2>1. SweptOf(n, Entrance(n), 0)
    BY EntranceHolds
  <2>2. Spares(n, Entrance(n), start, Pending(todo, 0))
    BY <1>4, SparesInitially
  <2> QED BY <1>3, <2>1, <2>2
<1>6. ASSUME NEW i \in Nat, i \in L
      PROVE  i + 1 \in L
  <2>1. SUFFICES ASSUME i + 1 <= Len(todo), NEW u \in f[i + 1]
                 PROVE  SweptOf(n, u, i + 1) /\ Spares(n, u, start, Pending(todo, i + 1))
    OBVIOUS
  <2>2. i < Len(todo) /\ i <= Len(todo) /\ i + 1 \in 1 .. Len(todo)
    BY <1>2, <2>1
  <2>3. f[i + 1] = UNION {Turn(s, todo[i + 1]) : s \in f[i]}
    BY <1>3, <2>2
  <2>4. PICK s \in f[i] : u \in Turn(s, todo[i + 1])
    BY <2>1, <2>3
  <2>5. todo[i + 1] \in KeysOf(n)
    BY <2>2
  <2>6. SweptOf(n, s, i) /\ Spares(n, s, start, Pending(todo, i))
    BY <1>6, <2>2, <2>4
  <2>7. SweptOf(n, u, i + 1)
    BY <2>4, <2>5, <2>6, TurnHolds
  <2>8. /\ todo[i + 1] \in Pending(todo, i)
        /\ Pending(todo, i + 1) = Pending(todo, i) \ {todo[i + 1]}
    <3>1. i + 1 .. Len(todo) = {i + 1} \cup ((i + 1) + 1 .. Len(todo))
      BY <1>2, <2>2
    <3>2. \A j \in (i + 1) + 1 .. Len(todo) : j \in 1 .. Len(todo) /\ j # i + 1
      BY <1>2
    <3>3. \A j \in (i + 1) + 1 .. Len(todo) : todo[j] # todo[i + 1]
      BY <2>2, <3>2 DEF Distinct
    <3> QED BY <3>1, <3>3 DEF Pending
  <2>9. Spares(n, u, start, Pending(todo, i) \ {todo[i + 1]})
    BY <1>4, <2>4, <2>6, <2>8, SparesKept
  <2> QED BY <2>7, <2>8, <2>9
<1>7. Nat \subseteq L
  <2> HIDE DEF L
  <2> QED BY <1>5, <1>6, SetInduction
<1>8. PICK s \in f[Len(todo)] : c = s.tree
  BY <1>3
<1>9. Spares(n, s, start, Pending(todo, Len(todo)))
  BY <1>2, <1>7, <1>8
<1> QED BY <1>8, <1>9 DEF Spares

-----------------------------------------------------------------------------
(* The query *)

WalkedAt(f, m, probe, width, par) ==
  CASE m # NULL /\ m.key < probe -> f[m.right][[par EXCEPT !.left = m]]
    [] m # NULL /\ m.key > probe -> f[m.left][[par EXCEPT !.right = m]]
    [] OTHER -> Hit(probe, width, IF m = NULL THEN par ELSE [par EXCEPT !.left = m])

WalkedDef(f, m, p) ==
  [par \in [left : Tree, right : Tree] |-> WalkedAt(f, m, p.probe, p.width, par)]

Accesses == [probe : Addr, width : Widths]

WalkedRec == INSTANCE Recursion WITH Level <- TreesUpTo, Par <- Accesses, Def <- WalkedDef

(* One step of the walk.                                                   *)
ChecksOn(n, probe, width, l, r) ==
  _CheckPoison(n, probe, width, l, r) =
    IF n.key < probe
      THEN _CheckPoison(n.right, probe, width, n, r)
      ELSE IF n.key > probe
        THEN _CheckPoison(n.left, probe, width, l, n)
        ELSE Hit(probe, width, [left |-> n, right |-> r])

(* _CheckPoison, case by case.                                             *)
LEMMA CheckEquation ==
  ASSUME NEW probe \in Addr, NEW width \in Widths, NEW l \in Tree, NEW r \in Tree
  PROVE  /\ _CheckPoison(NULL, probe, width, l, r) = Hit(probe, width, [left |-> l, right |-> r])
         /\ \A n \in Tree \ {NULL} : ChecksOn(n, probe, width, l, r)
<1> DEFINE p == [probe |-> probe, width |-> width]
<1>1. WalkedRec!Grows
  BY TreesGrow DEF WalkedRec!Grows
<1>2. WalkedRec!AsksBelow
  <2>1. \A q \in Accesses : \A f, g : \A x \in TreesUpTo(0) : WalkedDef(f, x, q) = WalkedDef(g, x, q)
    <3> SUFFICES ASSUME NEW q \in Accesses, NEW f, NEW g
                 PROVE  WalkedDef(f, NULL, q) = WalkedDef(g, NULL, q)
      BY TreesEquation
    <3>1. \A par : WalkedAt(f, NULL, q.probe, q.width, par) = WalkedAt(g, NULL, q.probe, q.width, par)
      BY DEF WalkedAt
    <3> QED BY <3>1 DEF WalkedDef
  <2>2. ASSUME NEW d \in Nat, NEW q \in Accesses, NEW f, NEW g,
               \A y \in TreesUpTo(d) : f[y] = g[y],
               NEW x \in TreesUpTo(d + 1)
        PROVE  WalkedDef(f, x, q) = WalkedDef(g, x, q)
    <3>1. x # NULL => f[x.left] = g[x.left] /\ f[x.right] = g[x.right]
      BY <2>2, TreeChildren
    <3>2. \A par : WalkedAt(f, x, q.probe, q.width, par) = WalkedAt(g, x, q.probe, q.width, par)
      BY <3>1, Zenon DEF WalkedAt
    <3> QED BY <3>2 DEF WalkedDef
  <2> QED BY <2>1, <2>2 DEF WalkedRec!AsksBelow
<1>3. \E f : f = [m \in Tree |-> WalkedDef(f, m, p)]
  BY <1>1, <1>2, WalkedRec!FunctionExists, DepthAssumption DEF Accesses, Tree
<1> DEFINE f == CHOOSE f : f = [m \in Tree |-> WalkedDef(f, m, p)]
<1>4. f = [m \in Tree |-> WalkedDef(f, m, p)]
  BY <1>3, Zenon
<1>5. \A n, a, b : _CheckPoison(n, probe, width, a, b) = f[n][[left |-> a, right |-> b]]
  BY DEF _CheckPoison, WalkedDef, WalkedAt
<1>6. \A n \in Tree : f[n] = WalkedDef(f, n, p)
  <2> HIDE DEF f
  <2> QED BY <1>4
<1> HIDE DEF f
<1>7. p.probe = probe /\ p.width = width
  OBVIOUS
<1> HIDE DEF p
<1>8. \A n \in Tree, a, b \in Tree :
        f[n][[left |-> a, right |-> b]] = WalkedAt(f, n, probe, width, [left |-> a, right |-> b])
  <2> TAKE n \in Tree, a, b \in Tree
  <2>1. [left |-> a, right |-> b] \in [left : Tree, right : Tree]
    OBVIOUS
  <2>2. f[n] = [par \in [left : Tree, right : Tree] |-> WalkedAt(f, n, probe, width, par)]
    BY <1>6, <1>7 DEF WalkedDef
  <2> QED BY <2>1, <2>2
<1>9. NULL \in Tree
  BY TreeParts
<1>10. _CheckPoison(NULL, probe, width, l, r) = Hit(probe, width, [left |-> l, right |-> r])
  <2> DEFINE par == [left |-> l, right |-> r]
  <2>1. f[NULL][par] = WalkedAt(f, NULL, probe, width, par)
    BY <1>8, <1>9
  <2> HIDE DEF par
  <2>2. WalkedAt(f, NULL, probe, width, par) = Hit(probe, width, par)
    BY Zenon DEF WalkedAt
  <2>3. _CheckPoison(NULL, probe, width, l, r) = f[NULL][par]
    BY <1>5 DEF par
  <2> QED BY <2>1, <2>2, <2>3 DEF par
<1>11. ASSUME NEW n \in Tree, n # NULL
       PROVE  _CheckPoison(n, probe, width, l, r) =
                IF n.key < probe
                  THEN _CheckPoison(n.right, probe, width, n, r)
                  ELSE IF n.key > probe
                    THEN _CheckPoison(n.left, probe, width, l, n)
                    ELSE Hit(probe, width, [left |-> n, right |-> r])
  <2> DEFINE par == [left |-> l, right |-> r]
  <2>1. /\ [par EXCEPT !.left = n] = [left |-> n, right |-> r]
        /\ [par EXCEPT !.right = n] = [left |-> l, right |-> n]
    OBVIOUS
  <2>2. _CheckPoison(n, probe, width, l, r) = WalkedAt(f, n, probe, width, par)
    BY <1>5, <1>8
  <2> HIDE DEF par
  <2>3. n.key \in Nat /\ probe \in Nat
    BY <1>11, TreeParts, NodeFields, AddressAssumption
  <2>4. CASE n.key < probe
    <3>1. WalkedAt(f, n, probe, width, par) = f[n.right][[left |-> n, right |-> r]]
      <4>1. ~ (n.key > probe)
        BY <2>3, <2>4
      <4>2. WalkedAt(f, n, probe, width, par) = f[n.right][[par EXCEPT !.left = n]]
        BY <1>11, <2>4, <4>1, Zenon DEF WalkedAt
      <4> QED BY <2>1, <4>2
    <3> QED BY <1>5, <2>2, <2>4, <3>1
  <2>5. CASE n.key > probe
    <3>1. WalkedAt(f, n, probe, width, par) = f[n.left][[left |-> l, right |-> n]]
      BY <1>11, <2>1, <2>3, <2>5 DEF WalkedAt
    <3> QED BY <1>5, <2>2, <2>3, <2>5, <3>1
  <2>6. CASE n.key = probe
    <3>1. WalkedAt(f, n, probe, width, par) = Hit(probe, width, [left |-> n, right |-> r])
      BY <1>11, <2>1, <2>3, <2>6 DEF WalkedAt
    <3> QED BY <2>2, <2>3, <2>6, <3>1
  <2> QED BY <2>3, <2>4, <2>5, <2>6
<1> QED BY <1>10, <1>11 DEF ChecksOn

(* The redzone of S that starts last at or before the probe, and the one   *)
(* that starts first behind it.                                            *)
NearestLeft(S, m, probe) ==
  m \in S /\ m.key <= probe /\ \A k \in S : k.key <= probe => k.key <= m.key

NearestRight(S, m, probe) ==
  m \in S /\ m.key > probe /\ \A k \in S : k.key > probe => m.key <= k.key

(* The nodes the walk may still decide by, in subtree n with parents l, r. *)
With(n, l) == Nodes(n) \cup ({l} \ {NULL})

Answer(n, probe, width, l, r) ==
  \/ \E m : NearestLeft(With(n, l), m, probe) /\ m.key + m.size > probe
  \/ \E m : NearestRight(With(n, r), m, probe) /\ m.key < probe + width

(* Nodes left of one that is left of the probe are not the nearest, nor    *)
(* are nodes right of one that is right of it.                             *)
LEMMA NearestOf ==
  ASSUME NEW S, NEW T, S \subseteq T, NEW probe \in Nat, \A m \in T : m.key \in Nat
  PROVE  /\ (\E a \in S : a.key <= probe /\ \A b \in T \ S : b.key < a.key) =>
              \A m : NearestLeft(S, m, probe) <=> NearestLeft(T, m, probe)
         /\ (\E a \in S : a.key > probe /\ \A b \in T \ S : b.key > a.key) =>
              \A m : NearestRight(S, m, probe) <=> NearestRight(T, m, probe)
         /\ (\A b \in T \ S : b.key > probe) =>
              \A m : NearestLeft(S, m, probe) <=> NearestLeft(T, m, probe)
         /\ (\A b \in T \ S : b.key <= probe) =>
              \A m : NearestRight(S, m, probe) <=> NearestRight(T, m, probe)
<1>1. ASSUME NEW a \in S, a.key <= probe, \A b \in T \ S : b.key < a.key, NEW m
      PROVE  NearestLeft(S, m, probe) <=> NearestLeft(T, m, probe)
  <2>1. NearestLeft(S, m, probe) => NearestLeft(T, m, probe)
    <3> SUFFICES ASSUME NearestLeft(S, m, probe)
                 PROVE  NearestLeft(T, m, probe)
      OBVIOUS
    <3>1. m \in S /\ m.key <= probe /\ a.key <= m.key
      BY <1>1 DEF NearestLeft
    <3>2. ASSUME NEW k \in T, k.key <= probe
          PROVE  k.key <= m.key
      BY <1>1, <3>1, <3>2 DEF NearestLeft
    <3> QED BY <3>1, <3>2 DEF NearestLeft
  <2>2. NearestLeft(T, m, probe) => NearestLeft(S, m, probe)
    <3> SUFFICES ASSUME NearestLeft(T, m, probe)
                 PROVE  NearestLeft(S, m, probe)
      OBVIOUS
    <3>1. m \in T /\ m.key <= probe /\ a.key <= m.key
      BY <1>1 DEF NearestLeft
    <3>2. m \in S
      BY <1>1, <3>1
    <3> QED BY <3>1, <3>2 DEF NearestLeft
  <2> QED BY <2>1, <2>2
<1>2. ASSUME NEW a \in S, a.key > probe, \A b \in T \ S : b.key > a.key, NEW m
      PROVE  NearestRight(S, m, probe) <=> NearestRight(T, m, probe)
  <2>1. NearestRight(S, m, probe) => NearestRight(T, m, probe)
    <3> SUFFICES ASSUME NearestRight(S, m, probe)
                 PROVE  NearestRight(T, m, probe)
      OBVIOUS
    <3>1. m \in S /\ m.key > probe /\ m.key <= a.key
      BY <1>2 DEF NearestRight
    <3>2. ASSUME NEW k \in T, k.key > probe
          PROVE  m.key <= k.key
      BY <1>2, <3>1, <3>2 DEF NearestRight
    <3> QED BY <3>1, <3>2 DEF NearestRight
  <2>2. NearestRight(T, m, probe) => NearestRight(S, m, probe)
    <3> SUFFICES ASSUME NearestRight(T, m, probe)
                 PROVE  NearestRight(S, m, probe)
      OBVIOUS
    <3>1. m \in T /\ m.key > probe /\ m.key <= a.key
      BY <1>2 DEF NearestRight
    <3>2. m \in S
      BY <1>2, <3>1
    <3> QED BY <3>1, <3>2 DEF NearestRight
  <2> QED BY <2>1, <2>2
<1>3. ASSUME \A b \in T \ S : b.key > probe, NEW m
      PROVE  NearestLeft(S, m, probe) <=> NearestLeft(T, m, probe)
  <2>1. \A b \in T : b.key <= probe => b \in S
    BY <1>3
  <2> QED BY <2>1 DEF NearestLeft
<1>4. ASSUME \A b \in T \ S : b.key <= probe, NEW m
      PROVE  NearestRight(S, m, probe) <=> NearestRight(T, m, probe)
  <2>1. \A b \in T : b.key > probe => b \in S
    BY <1>4
  <2> QED BY <2>1 DEF NearestRight
<1>5. (\E a \in S : a.key <= probe /\ \A b \in T \ S : b.key < a.key) =>
        \A m : NearestLeft(S, m, probe) <=> NearestLeft(T, m, probe)
  BY <1>1
<1>6. (\E a \in S : a.key > probe /\ \A b \in T \ S : b.key > a.key) =>
        \A m : NearestRight(S, m, probe) <=> NearestRight(T, m, probe)
  BY <1>2
<1>7. (\A b \in T \ S : b.key > probe) =>
        \A m : NearestLeft(S, m, probe) <=> NearestLeft(T, m, probe)
  BY <1>3
<1>8. (\A b \in T \ S : b.key <= probe) =>
        \A m : NearestRight(S, m, probe) <=> NearestRight(T, m, probe)
  BY <1>4
<1> QED BY <1>5, <1>6, <1>7, <1>8

(* The parents lie on their sides of the probe and of the subtree.         *)
Around(n, probe, l, r) ==
  /\ l # NULL => l.key < probe /\ \A k \in KeysOf(n) : l.key < k
  /\ r # NULL => r.key > probe /\ \A k \in KeysOf(n) : k < r.key

(* What the walk through a good subtree answers: with the parents passed   *)
(* down, what the nodes of the subtree and those parents tell.             *)
LEMMA CheckHolds ==
  ASSUME NEW t, Avl(t), NEW probe \in Addr, NEW width \in Widths
  PROVE  \A l, r \in Tree : Around(t, probe, l, r) =>
           (_CheckPoison(t, probe, width, l, r) <=> Answer(t, probe, width, l, r))
<1> DEFINE C(n, l, r) == _CheckPoison(n, probe, width, l, r)
           A(n, l, r) == Answer(n, probe, width, l, r)
           T == {n \in Tree : Avl(n) =>
                   \A l, r \in Tree : Around(n, probe, l, r) => (C(n, l, r) <=> A(n, l, r))}
<1>0. /\ probe \in Nat
      /\ \A m \in Tree : m # NULL => m.key \in Nat /\ m.size \in Nat \ {0}
  <2>1. \A m \in Node : m.key \in Nat /\ m.size \in Nat \ {0}
    BY SizeAssumption, AddressAssumption DEF Node, NodesOver
  <2> QED BY <2>1, TreeParts, AddressAssumption
<1>1. NULL \in T
  <2>1. ASSUME NEW l \in Tree, NEW r \in Tree, Around(NULL, probe, l, r)
        PROVE  C(NULL, l, r) <=> A(NULL, l, r)
    <3> DEFINE par == [left |-> l, right |-> r]
    <3>1. C(NULL, l, r) = Hit(probe, width, par)
      BY CheckEquation
    <3>2. par.left = l /\ par.right = r
      OBVIOUS
    <3> HIDE DEF par
    <3>3. Hit(probe, width, par) <=> \/ l # NULL /\ l.key + l.size > probe
                                     \/ r # NULL /\ r.key < probe + width
      BY <3>2 DEF Hit
    <3>4. With(NULL, l) = {l} \ {NULL} /\ With(NULL, r) = {r} \ {NULL}
      BY NodesEquation DEF With
    <3>5. \A m : NearestLeft(With(NULL, l), m, probe) <=> m = l /\ l # NULL
      BY <1>0, <2>1, <3>4 DEF NearestLeft, Around
    <3>6. \A m : NearestRight(With(NULL, r), m, probe) <=> m = r /\ r # NULL
      BY <1>0, <2>1, <3>4 DEF NearestRight, Around
    <3>7. A(NULL, l, r) <=> \/ l # NULL /\ l.key + l.size > probe
                            \/ r # NULL /\ r.key < probe + width
      BY <3>5, <3>6, Zenon DEF Answer
    <3> QED BY <3>1, <3>3, <3>7
  <2> QED BY <2>1, TreeParts
<1>2. ASSUME NEW n \in Tree, n # NULL, n.left \in T, n.right \in T
      PROVE  n \in T
  <2>1. SUFFICES ASSUME Avl(n), NEW l \in Tree, NEW r \in Tree, Around(n, probe, l, r)
                 PROVE  C(n, l, r) <=> A(n, l, r)
    OBVIOUS
  <2>2. /\ n.key \in Nat /\ n.size \in Nat \ {0}
        /\ Avl(n.left) /\ Avl(n.right)
        /\ Parts(KeysOf(n.left), n.key, KeysOf(n.right))
        /\ KeysOf(n) = {n.key} \cup KeysOf(n.left) \cup KeysOf(n.right)
        /\ KeysOf(n.left) \subseteq Nat /\ KeysOf(n.right) \subseteq Nat
        /\ Nodes(n) = {n} \cup Nodes(n.left) \cup Nodes(n.right)
    BY <1>0, <1>2, <2>1, AvlParts, NodesEquation
  <2>3. /\ \A a \in Nodes(n.left) : a.key < n.key /\ a.key \in Nat
        /\ \A b \in Nodes(n.right) : b.key > n.key /\ b.key \in Nat
    <3>1. /\ \A a \in Nodes(n.left) : a.key \in KeysOf(n.left)
          /\ \A b \in Nodes(n.right) : b.key \in KeysOf(n.right)
      BY DEF KeysOf
    <3> QED BY <2>2, <3>1 DEF Parts
  <2>4. /\ l # NULL => l.key \in Nat /\ l.key < probe /\ l.key < n.key
        /\ r # NULL => r.key \in Nat /\ r.key > probe /\ r.key > n.key
    BY <1>0, <2>1, <2>2 DEF Around
  <2>5. \A m \in With(n, l) \cup With(n, r) : m.key \in Nat
    BY <2>2, <2>3, <2>4 DEF With
  <2>6. C(n, l, r) = IF n.key < probe
                       THEN C(n.right, n, r)
                       ELSE IF n.key > probe
                         THEN C(n.left, l, n)
                         ELSE Hit(probe, width, [left |-> n, right |-> r])
    <3>1. n \in Tree \ {NULL}
      BY <1>2
    <3> HIDE DEF T, A
    <3>2. ChecksOn(n, probe, width, l, r)
      BY <2>1, <3>1, CheckEquation
    <3> QED BY <3>2 DEF ChecksOn
  <2>7. CASE n.key < probe
    <3>1. Around(n.right, probe, n, r)
      BY <2>1, <2>2, <2>7 DEF Around, Parts
    <3>2. C(n, l, r) <=> A(n.right, n, r)
      BY <1>2, <2>1, <2>2, <2>6, <2>7, <3>1
    <3> DEFINE S == With(n.right, n)
               U == With(n, l)
               V == With(n.right, r)
               W == With(n, r)
    <3>3. S = Nodes(n.right) \cup {n} /\ S \subseteq U /\ V \subseteq W
      BY <1>2, <2>2 DEF With
    <3>4. \A m : NearestLeft(S, m, probe) <=> NearestLeft(U, m, probe)
      <4>1. \A b \in U \ S : b.key < n.key
        BY <1>2, <2>2, <2>3, <2>4 DEF With
      <4>2. n \in S /\ n.key <= probe
        BY <1>0, <2>2, <2>7, <3>3
      <4>3. \A m \in U : m.key \in Nat
        BY <2>5
      <4> HIDE DEF S, U
      <4> QED BY <1>0, <3>3, <4>1, <4>2, <4>3, NearestOf
    <3>5. \A m : NearestRight(V, m, probe) <=> NearestRight(W, m, probe)
      <4>1. \A b \in W \ V : b.key <= n.key /\ b.key \in Nat
        BY <1>2, <2>2, <2>3, <2>4 DEF With
      <4>2. \A b \in W \ V : b.key <= probe
        BY <1>0, <2>2, <2>7, <4>1
      <4>3. \A m \in W : m.key \in Nat
        BY <2>5
      <4> HIDE DEF V, W
      <4> QED BY <1>0, <3>3, <4>2, <4>3, NearestOf
    <3>6. A(n.right, n, r) <=> A(n, l, r)
      BY <3>4, <3>5, Zenon DEF Answer
    <3> QED BY <3>2, <3>6
  <2>8. CASE n.key > probe
    <3>1. Around(n.left, probe, l, n)
      BY <2>1, <2>2, <2>8 DEF Around, Parts
    <3>2. C(n, l, r) <=> A(n.left, l, n)
      <4>1. ~ (n.key < probe)
        BY <1>0, <2>2, <2>8
      <4> QED BY <1>2, <2>1, <2>2, <2>6, <2>8, <3>1, <4>1
    <3> DEFINE S == With(n.left, l)
               U == With(n, l)
               V == With(n.left, n)
               W == With(n, r)
    <3>3. V = Nodes(n.left) \cup {n} /\ S \subseteq U /\ V \subseteq W
      BY <1>2, <2>2 DEF With
    <3>4. \A m : NearestLeft(S, m, probe) <=> NearestLeft(U, m, probe)
      <4>1. \A b \in U \ S : b.key >= n.key /\ b.key \in Nat
        BY <1>2, <2>2, <2>3, <2>4 DEF With
      <4>2. \A b \in U \ S : b.key > probe
        BY <1>0, <2>2, <2>8, <4>1
      <4>3. \A m \in U : m.key \in Nat
        BY <2>5
      <4> HIDE DEF S, U
      <4> QED BY <1>0, <3>3, <4>2, <4>3, NearestOf
    <3>5. \A m : NearestRight(V, m, probe) <=> NearestRight(W, m, probe)
      <4>1. \A b \in W \ V : b.key > n.key
        BY <1>2, <2>2, <2>3, <2>4 DEF With
      <4>2. n \in V /\ n.key > probe
        BY <2>8, <3>3
      <4>3. \A m \in W : m.key \in Nat
        BY <2>5
      <4> HIDE DEF V, W
      <4> QED BY <1>0, <3>3, <4>1, <4>2, <4>3, NearestOf
    <3>6. A(n.left, l, n) <=> A(n, l, r)
      BY <3>4, <3>5, Zenon DEF Answer
    <3> QED BY <3>2, <3>6
  <2>9. CASE n.key = probe
    <3>1. NearestLeft(With(n, l), n, probe) /\ n.key + n.size > probe
      BY <1>0, <1>2, <2>2, <2>3, <2>4, <2>9 DEF With, NearestLeft
    <3>2. A(n, l, r)
      BY <3>1 DEF Answer
    <3>3. Hit(probe, width, [left |-> n, right |-> r])
      BY <1>2, <3>1 DEF Hit
    <3>4. C(n, l, r) = Hit(probe, width, [left |-> n, right |-> r])
      <4>1. ~ (n.key < probe) /\ ~ (n.key > probe)
        BY <1>0, <2>9
      <4> QED BY <2>6, <4>1
    <3> QED BY <3>2, <3>3, <3>4
  <2> QED BY <1>0, <2>2, <2>7, <2>8, <2>9
<1>3. Tree \subseteq T
  <2> HIDE DEF T
  <2> QED BY <1>1, <1>2, TreeInduction
<1> QED BY <1>3 DEF Avl

-----------------------------------------------------------------------------
(* The redzones of a good tree *)

(* No two nodes of a good tree have the same key.                          *)
LEMMA KeysDiffer ==
  ASSUME NEW t, Avl(t)
  PROVE  \A a, b \in Nodes(t) : a.key = b.key => a = b
<1> DEFINE T == {n \in Tree : Avl(n) => \A a, b \in Nodes(n) : a.key = b.key => a = b}
<1>1. NULL \in T
  BY NodesEquation, TreeParts
<1>2. ASSUME NEW n \in Tree, n # NULL, n.left \in T, n.right \in T
      PROVE  n \in T
  <2>1. SUFFICES ASSUME Avl(n), NEW a \in Nodes(n), NEW b \in Nodes(n), a.key = b.key
                 PROVE  a = b
    OBVIOUS
  <2>2. /\ n.key \in Nat
        /\ Avl(n.left) /\ Avl(n.right)
        /\ Parts(KeysOf(n.left), n.key, KeysOf(n.right))
        /\ KeysOf(n.left) \subseteq Nat /\ KeysOf(n.right) \subseteq Nat
        /\ Nodes(n) = {n} \cup Nodes(n.left) \cup Nodes(n.right)
    BY <1>2, <2>1, AvlParts, NodesEquation
  <2>3. /\ \A m \in Nodes(n.left) : m.key \in Nat /\ m.key < n.key
        /\ \A m \in Nodes(n.right) : m.key \in Nat /\ m.key > n.key
    <3>1. /\ \A m \in Nodes(n.left) : m.key \in KeysOf(n.left)
          /\ \A m \in Nodes(n.right) : m.key \in KeysOf(n.right)
      BY DEF KeysOf
    <3> QED BY <2>2, <3>1 DEF Parts
  <2>4. CASE a \in Nodes(n.left) /\ b \in Nodes(n.left)
    BY <1>2, <2>1, <2>2, <2>4
  <2>5. CASE a \in Nodes(n.right) /\ b \in Nodes(n.right)
    BY <1>2, <2>1, <2>2, <2>5
  <2>6. \/ a = n /\ b = n
        \/ a \in Nodes(n.left) /\ b \in Nodes(n.left)
        \/ a \in Nodes(n.right) /\ b \in Nodes(n.right)
    BY <2>1, <2>2, <2>3
  <2> QED BY <2>4, <2>5, <2>6
<1>3. Tree \subseteq T
  <2> HIDE DEF T
  <2> QED BY <1>1, <1>2, TreeInduction
<1> QED BY <1>3 DEF Avl

(* So each key has the size of its node.                                   *)
LEMMA SizeOfNode ==
  ASSUME NEW t, Avl(t), NEW m \in Nodes(t)
  PROVE  SizeOf(t, m.key) = m.size /\ m.key \in KeysOf(t)
<1>1. (CHOOSE a \in Nodes(t) : a.key = m.key) = m
  <2> DEFINE c == CHOOSE a \in Nodes(t) : a.key = m.key
  <2>1. c \in Nodes(t) /\ c.key = m.key
    OBVIOUS
  <2> HIDE DEF c
  <2>2. c = m
    BY <2>1, KeysDiffer
  <2> QED BY <2>2 DEF c
<1> QED BY <1>1 DEF SizeOf, KeysOf

-----------------------------------------------------------------------------
(* The inductive invariant, and what follows from it *)

Inv == Avl(tree) /\ Named(tree)

(* It holds of the empty tree.                                             *)
LEMMA InvInitially ==
  Init => Inv
BY AvlEquation DEF Init, Inv

(* What a removal leaves.                                                  *)
LEMMA RemovedHolds ==
  ASSUME NEW t, Avl(t), NEW k \in Addr
  PROVE  /\ Avl(Renamed(deleteNode(t, k))) /\ Named(Renamed(deleteNode(t, k)))
         /\ KeysOf(Renamed(deleteNode(t, k))) = KeysOf(t) \ {k}
<1>1. Avl(deleteNode(t, k)) /\ KeysOf(deleteNode(t, k)) = KeysOf(t) \ {k}
  BY DeleteHolds DEF Deleted
<1> QED BY <1>1, RenamedHolds DEF Same

(* What a sweep leaves.                                                    *)
LEMMA SweptHolds ==
  ASSUME NEW t, Avl(t), Named(t), NEW start \in Addr, NEW end \in Addr, start < end,
         NEW c \in Sweep(t, _get_between(t, start, end))
  PROVE  /\ Avl(Renamed(c)) /\ Named(Renamed(c)) /\ KeysOf(Renamed(c)) = KeysOf(c)
         /\ Swept(t, c, _get_between(t, start, end))
<1>1. _get_between(t, start, end) \in Seq(Doomed(t, start, end))
  BY CollectHolds DEF Collects
<1>2. Doomed(t, start, end) \subseteq KeysOf(t)
  BY DEF Doomed
<1>3. _get_between(t, start, end) \in Seq(KeysOf(t))
  BY <1>1, <1>2
<1>4. Swept(t, c, _get_between(t, start, end))
  BY <1>3, SweepHolds
<1> QED BY <1>4, RenamedHolds DEF Swept, Same

(* Every call of a public method keeps the invariant.                      *)
LEMMA InvKept ==
  Inv /\ [Next]_tree => Inv'
<1> SUFFICES ASSUME Inv, [Next]_tree
             PROVE  Inv'
  OBVIOUS
<1>0. Avl(tree) /\ Named(tree) /\ tree \in Tree
  BY DEF Inv, Avl
<1>1. ASSUME NEW start \in Addr, NEW size \in Sizes, InsertRedzone(start, size)
      PROVE  Inv'
  <2>1. height(tree) < Depth /\ tree' = insertNode(tree, start, size)
    BY <1>1 DEF InsertRedzone
  <2>2. Inserted(tree, tree', start, size)
    BY <1>0, <2>1, InsertHolds
  <2>3. Avl(tree') /\ Named(tree')
    BY <1>0, <2>2 DEF Inserted, Added
  <2> QED BY <2>3 DEF Inv
<1>2. ASSUME NEW start \in Addr, RemoveRedzone(start)
      PROVE  Inv'
  <2>1. Avl(tree') /\ Named(tree')
    BY <1>0, <1>2, RemovedHolds DEF RemoveRedzone
  <2> QED BY <2>1 DEF Inv
<1>3. ASSUME NEW start \in Addr, NEW end \in Addr, remove_between(start, end)
      PROVE  Inv'
  <2>1. PICK t \in Sweep(tree, _get_between(tree, start, end)) : start < end /\ tree' = Renamed(t)
    BY <1>3 DEF remove_between
  <2>2. Avl(tree') /\ Named(tree')
    BY <1>0, <2>1, SweptHolds
  <2> QED BY <2>2 DEF Inv
<1>4. CASE reset
  <2>1. Avl(tree') /\ Named(tree')
    BY <1>4, AvlEquation DEF reset
  <2> QED BY <2>1 DEF Inv
<1>5. CASE UNCHANGED tree
  BY <1>0, <1>5 DEF Inv
<1> QED BY <1>1, <1>2, <1>3, <1>4, <1>5 DEF Next

(* So it always holds.                                                     *)
THEOREM InvAlways == Spec => []Inv
BY InvInitially, InvKept, PTL DEF Spec

(* The tree only ever holds registered addresses and sizes, and after each *)
(* call its nodes are named after their keys.                              *)
THEOREM TypeCorrect == Spec => []TypeOK
<1>1. Inv => TypeOK
  BY DEF Inv, TypeOK, Avl, Named
<1> QED BY <1>1, InvAlways, PTL

(***************************************************************************)
(* However redzones are inserted, removed, swept and reset, the tree stays *)
(* a search tree: every redzone is found by the walks of the code.         *)
(***************************************************************************)
THEOREM StaysSearchTree == Spec => []SearchTree
<1>1. Inv => SearchTree
  BY DEF Inv, SearchTree, Avl, Ordered
<1> QED BY <1>1, InvAlways, PTL

(***************************************************************************)
(* The heights in the nodes stay the real ones and the tree stays          *)
(* balanced: the rotations of insertNode and deleteNode cover every case.  *)
(***************************************************************************)
THEOREM StaysBalanced == Spec => []Balanced
<1>1. Inv => Balanced
  BY DEF Inv, Balanced, Avl, Level
<1> QED BY <1>1, InvAlways, PTL

(* The neighbours among the nodes are the neighbours among the redzones.   *)
LEMMA NeighboursAgree ==
  ASSUME Avl(tree), NEW probe \in Addr, NEW width \in Widths
  PROVE  Answer(tree, probe, width, NULL, NULL) <=> Store!NeighbourCheck(Zones, probe, width)
<1>1. /\ DOMAIN Zones = KeysOf(tree)
      /\ \A m \in Nodes(tree) : m.key \in KeysOf(tree) /\ Zones[m.key] = m.size
      /\ \A k \in KeysOf(tree) : \E m \in Nodes(tree) : m.key = k
  BY SizeOfNode DEF Zones, Keys, KeysOf
<1>2. With(tree, NULL) = Nodes(tree)
  BY DEF With
<1> DEFINE z == Zones
<1> HIDE DEF z
<1>3. /\ DOMAIN z = KeysOf(tree)
      /\ \A m \in Nodes(tree) : m.key \in KeysOf(tree) /\ z[m.key] = m.size
      /\ \A k \in KeysOf(tree) : \E m \in Nodes(tree) : m.key = k
  BY <1>1 DEF z
<1>4. (\E m : NearestLeft(Nodes(tree), m, probe) /\ m.key + m.size > probe)
        <=> \E l \in DOMAIN z : Store!IsLeftPar(z, l, probe) /\ l + z[l] > probe
  <2>1. \A m \in Nodes(tree) : NearestLeft(Nodes(tree), m, probe) <=> Store!IsLeftPar(z, m.key, probe)
    BY <1>3 DEF NearestLeft, Store!IsLeftPar
  <2>2. \A m : NearestLeft(Nodes(tree), m, probe) => m \in Nodes(tree)
    BY DEF NearestLeft
  <2> QED BY <1>3, <2>1, <2>2
<1>5. (\E m : NearestRight(Nodes(tree), m, probe) /\ m.key < probe + width)
        <=> \E r \in DOMAIN z : Store!IsRightPar(z, r, probe) /\ r < probe + width
  <2>1. \A m \in Nodes(tree) : NearestRight(Nodes(tree), m, probe) <=> Store!IsRightPar(z, m.key, probe)
    BY <1>3 DEF NearestRight, Store!IsRightPar
  <2>2. \A m : NearestRight(Nodes(tree), m, probe) => m \in Nodes(tree)
    BY DEF NearestRight
  <2> QED BY <1>3, <2>1, <2>2
<1>6. Store!NeighbourCheck(z, probe, width) <=>
        \/ \E l \in DOMAIN z : Store!IsLeftPar(z, l, probe) /\ l + z[l] > probe
        \/ \E r \in DOMAIN z : Store!IsRightPar(z, r, probe) /\ r < probe + width
  BY DEF Store!NeighbourCheck
<1> QED BY <1>2, <1>4, <1>5, <1>6 DEF Answer, z

(***************************************************************************)
(* Whatever redzones the tree holds and however it was built, CheckPoison  *)
(* decides by the two redzones next to the probe.                          *)
(***************************************************************************)
THEOREM DecidesByNeighbours == Spec => []ChecksNeighbours
<1>1. ASSUME Inv, NEW probe \in Addr, NEW width \in Widths
      PROVE  CheckPoison(probe, width) <=> Store!NeighbourCheck(Zones, probe, width)
  <2>1. Avl(tree) /\ NULL \in Tree
    BY <1>1, TreeParts DEF Inv
  <2>2. Around(tree, probe, NULL, NULL)
    BY DEF Around
  <2>3. CheckPoison(probe, width) <=> Answer(tree, probe, width, NULL, NULL)
    BY <2>1, <2>2, CheckHolds DEF CheckPoison
  <2> QED BY <2>1, <2>3, NeighboursAgree
<1>2. Inv => ChecksNeighbours
  BY <1>1 DEF ChecksNeighbours
<1> QED BY <1>2, InvAlways, PTL

(***************************************************************************)
(* RemoveRedzone takes away the redzone it names and no other.             *)
(***************************************************************************)
THEOREM RemovesExactly == Spec => RemovalExact
<1> DEFINE Exact == \A start \in Addr : RemoveRedzone(start) => Keys' = Keys \ {start}
<1>1. Inv => Exact
  <2> SUFFICES ASSUME Inv, NEW start \in Addr, RemoveRedzone(start)
               PROVE  Keys' = Keys \ {start}
    OBVIOUS
  <2>1. KeysOf(Renamed(deleteNode(tree, start))) = KeysOf(tree) \ {start}
    BY RemovedHolds DEF Inv
  <2> QED BY <2>1 DEF RemoveRedzone, Keys
<1> QED BY <1>1, InvAlways, PTL DEF RemovalExact

-----------------------------------------------------------------------------
(* The tree implements the promise of the redzone store *)

(* Sizes are sizes, and Zones maps the keys to them.                       *)
LEMMA ZonesParts ==
  /\ DOMAIN Zones = Keys
  /\ \A k \in Keys : Zones[k] = SizeOf(tree, k)
  /\ Avl(tree) => \A k \in Keys : Zones[k] \in Sizes
<1>1. DOMAIN Zones = Keys /\ \A k \in Keys : Zones[k] = SizeOf(tree, k)
  BY DEF Zones
<1>2. ASSUME Avl(tree), NEW k \in Keys
      PROVE  SizeOf(tree, k) \in Sizes
  <2>1. PICK m \in Nodes(tree) : m.key = k
    BY DEF Keys, KeysOf
  <2>2. SizeOf(tree, k) = m.size
    BY <1>2, <2>1, SizeOfNode
  <2>3. m.size \in Sizes
    BY <1>2, NodesAreNodes DEF Avl, Node, NodesOver
  <2> QED BY <2>2, <2>3
<1> QED BY <1>1, <1>2

(* An insertion registers the redzone with its size, unless there is one   *)
(* at that address; every other redzone keeps its size.                    *)
LEMMA InsertsZone ==
  ASSUME Inv, NEW start \in Addr, NEW size \in Sizes, InsertRedzone(start, size)
  PROVE  Store!InsertRedzone(start, size)
<1>1. Avl(tree) /\ tree \in Tree /\ height(tree) < Depth /\ tree' = insertNode(tree, start, size)
  BY DEF Inv, InsertRedzone, Avl
<1>2. /\ Avl(tree') /\ KeysOf(tree') = KeysOf(tree) \cup {start}
      /\ Contents(tree') = Contents(tree) \cup
           (IF start \in KeysOf(tree) THEN {} ELSE {<<start, start, size>>})
  BY <1>1, InsertHolds DEF Inserted, Added
<1>3. /\ DOMAIN Zones = KeysOf(tree) /\ DOMAIN Zones' = KeysOf(tree')
      /\ \A k \in KeysOf(tree) : Zones[k] = SizeOf(tree, k)
      /\ \A k \in KeysOf(tree') : Zones'[k] = SizeOf(tree', k)
  BY DEF Zones, Keys
<1>4. ASSUME NEW k \in KeysOf(tree')
      PROVE  \/ k \in KeysOf(tree) /\ SizeOf(tree', k) = SizeOf(tree, k)
             \/ k = start /\ start \notin KeysOf(tree) /\ SizeOf(tree', k) = size
  <2>1. PICK m \in Nodes(tree') : m.key = k
    BY <1>4 DEF KeysOf
  <2>2. SizeOf(tree', k) = m.size /\ Entry(m) \in Contents(tree')
    BY <1>2, <2>1, SizeOfNode DEF Contents
  <2>3. Entry(m) = <<m.at, k, m.size>>
    BY <2>1 DEF Entry
  <2>4. CASE Entry(m) \in Contents(tree)
    <3>1. PICK b \in Nodes(tree) : Entry(m) = Entry(b)
      BY <2>4 DEF Contents
    <3>2. b.key = k /\ b.size = m.size
      BY <2>3, <3>1 DEF Entry
    <3> QED BY <1>1, <2>2, <3>2, SizeOfNode
  <2>5. CASE Entry(m) \notin Contents(tree)
    <3>1. start \notin KeysOf(tree) /\ Entry(m) = <<start, start, size>>
      BY <1>2, <2>2, <2>5
    <3> QED BY <2>2, <2>3, <3>1
  <2> QED BY <2>4, <2>5
<1>5. CASE start \in KeysOf(tree)
  <2>1. KeysOf(tree') = KeysOf(tree)
    BY <1>2, <1>5
  <2>2. \A k \in KeysOf(tree) : SizeOf(tree', k) = SizeOf(tree, k)
    BY <1>4, <1>5, <2>1
  <2>3. Zones' = Zones
    BY <2>1, <2>2 DEF Zones, Keys
  <2> QED BY <1>3, <1>5, <2>3 DEF Store!InsertRedzone
<1>6. CASE start \notin KeysOf(tree)
  <2> DEFINE z == Zones
             y == [k \in KeysOf(tree) \cup {start} |-> IF k = start THEN size ELSE z[k]]
  <2>1. \A k \in KeysOf(tree') : SizeOf(tree', k) = IF k = start THEN size ELSE SizeOf(tree, k)
    BY <1>4, <1>6
  <2>2. Zones' = [k \in KeysOf(tree') |-> SizeOf(tree', k)]
    BY DEF Zones, Keys
  <2>3. \A k \in KeysOf(tree') : SizeOf(tree', k) = IF k = start THEN size ELSE z[k]
    BY <1>2, <1>3, <2>1
  <2> HIDE DEF z
  <2>4. Zones' = y
    BY <1>2, <2>2, <2>3
  <2>5. DOMAIN z = KeysOf(tree)
    BY <1>3 DEF z
  <2>6. Zones' = IF start \in DOMAIN z
                   THEN z
                   ELSE [k \in DOMAIN z \cup {start} |-> IF k = start THEN size ELSE z[k]]
    BY <1>6, <2>4, <2>5
  <2> QED BY <2>6 DEF Store!InsertRedzone, z
<1> QED BY <1>5, <1>6

(* The redzones a sweep takes away are an outcome the store allows.        *)
LEMMA SweepAllowed ==
  ASSUME Avl(tree), Named(tree), NEW start \in Addr, NEW end \in Addr, start < end,
         NEW c \in Sweep(tree, _get_between(tree, start, end))
  PROVE  /\ KeysOf(tree) \ KeysOf(c) \in Store!SweepOutcomes(Zones, start, end)
         /\ KeysOf(c) = KeysOf(tree) \ (KeysOf(tree) \ KeysOf(c))
<1> DEFINE todo == _get_between(tree, start, end)
           doomed == Doomed(tree, start, end)
           gone == KeysOf(tree) \ KeysOf(c)
<1>1. /\ todo \in Seq(doomed) /\ Distinct(todo)
      /\ IsFiniteSet(doomed) /\ Len(todo) = Cardinality(doomed)
  BY CollectHolds DEF Collects
<1>2. doomed \subseteq KeysOf(tree) /\ \A k \in doomed : start <= k
  BY DEF Doomed
<1>3. Swept(tree, c, todo)
  BY SweptHolds
<1>4. \A k \in KeysOf(tree) : k \in Nat
  BY KeysEquation DEF Avl
<1> HIDE DEF todo, doomed
<1>5. \A k \in gone : k \in KeysOf(tree) /\ k >= start
  <2>1. todo \in Seq(KeysOf(tree)) /\ \A i \in 1 .. Len(todo) : start <= todo[i]
    BY <1>1, <1>2
  <2>2. \A k \in KeysOf(tree) : k < start => k \in KeysOf(c)
    BY <1>1, <2>1, AddressAssumption, SweepSpares DEF todo
  <2> QED BY <1>4, <2>2, AddressAssumption
<1>6. KeysOf(c) = KeysOf(tree) \ gone
  BY <1>3 DEF Swept
<1>7. IsFiniteSet(gone) /\ Cardinality(gone) <= Cardinality(doomed)
  BY <1>1, <1>3 DEF Swept
<1>8. doomed # {} => todo # <<>> /\ todo[1] \in doomed /\ todo[1] \in gone
  <2> SUFFICES ASSUME doomed # {}
               PROVE  todo # <<>> /\ todo[1] \in doomed /\ todo[1] \in gone
    OBVIOUS
  <2>1. Cardinality(doomed) # 0
    BY <1>1, FS_EmptySet
  <2>2. todo # <<>> /\ todo[1] \in doomed
    BY <1>1, <2>1
  <2> QED BY <1>2, <1>3, <2>2 DEF Swept
<1> HIDE DEF gone
<1>9. Cardinality(doomed) = 1 => gone = doomed
  <2> SUFFICES ASSUME Cardinality(doomed) = 1
               PROVE  gone = doomed
    OBVIOUS
  <2>1. PICK k : doomed = {k}
    BY <1>1, FS_Singleton
  <2>2. k \in gone
    BY <1>8, <2>1
  <2>3. Cardinality(gone) = 1
    <3>1. Cardinality(gone) \in Nat /\ Cardinality(gone) # 0
      BY <1>7, <2>2, FS_EmptySet, FS_CardinalityType
    <3> QED BY <1>7, <3>1
  <2>4. PICK j : gone = {j}
    BY <1>7, <2>3, FS_Singleton
  <2> QED BY <2>1, <2>2, <2>4
<1>10. DOMAIN Zones = KeysOf(tree)
  BY DEF Zones, Keys
<1>11. Store!Between(Zones, start, end) = doomed
  BY <1>10 DEF Store!Between, doomed, Doomed
<1>12. gone \in SUBSET {k \in DOMAIN Zones : k >= start}
  BY <1>5, <1>10
<1>13. \A S : Store!Cardinality(S) = Cardinality(S)
  BY DEF Store!Cardinality, Cardinality
<1>14. gone \in Store!SweepOutcomes(Zones, start, end)
  BY <1>7, <1>8, <1>9, <1>11, <1>12, <1>13 DEF Store!SweepOutcomes
<1> QED BY <1>6, <1>14 DEF gone

(* With one size, redzones are known by their keys.                        *)
LEMMA ZonesWithout ==
  ASSUME Store!UniformSizes, Avl(tree), Avl(tree'), NEW G, Keys' = Keys \ G
  PROVE  Zones' = Store!Without(Zones, G)
<1>1. \A k \in Keys : SizeOf(tree, k) \in Sizes
  BY ZonesParts
<1>2. \A k \in Keys' : SizeOf(tree', k) \in Sizes
  <2>1. \A t : Avl(t) => \A k \in KeysOf(t) : SizeOf(t, k) \in Sizes
    <3> SUFFICES ASSUME NEW t, Avl(t), NEW k \in KeysOf(t)
                 PROVE  SizeOf(t, k) \in Sizes
      OBVIOUS
    <3>1. PICK m \in Nodes(t) : m.key = k
      BY DEF KeysOf
    <3>2. m.size \in Sizes
      BY NodesAreNodes DEF Avl, Node, NodesOver
    <3> QED BY <3>1, <3>2, SizeOfNode
  <2> QED BY <2>1 DEF Keys
<1>3. \A k \in Keys' : SizeOf(tree', k) = SizeOf(tree, k)
  BY <1>1, <1>2 DEF Store!UniformSizes
<1>4. Zones' = [k \in Keys \ G |-> SizeOf(tree, k)]
  BY <1>3 DEF Zones
<1>5. DOMAIN Zones = Keys /\ \A k \in Keys \ G : Zones[k] = SizeOf(tree, k)
  BY ZonesParts
<1> DEFINE z == Zones
<1> HIDE DEF z
<1>6. [k \in Keys \ G |-> SizeOf(tree, k)] = [k \in DOMAIN z \ G |-> z[k]]
  BY <1>5 DEF z
<1> QED BY <1>4, <1>6 DEF Store!Without, z

(* Every call of a public method is a step of the store.                   *)
LEMMA StepsOfStore ==
  ASSUME Store!UniformSizes, Inv, Inv', [Next]_tree
  PROVE  [Store!Next]_Zones
<1>0. Avl(tree) /\ Named(tree) /\ Avl(tree')
  BY DEF Inv
<1>1. ASSUME NEW start \in Addr, NEW size \in Sizes, InsertRedzone(start, size)
      PROVE  Store!Next
  BY <1>1, InsertsZone DEF Store!Next
<1>2. ASSUME NEW start \in Addr, RemoveRedzone(start)
      PROVE  Store!Next
  <2>1. Keys' = Keys \ {start}
    BY <1>0, <1>2, RemovedHolds DEF RemoveRedzone, Keys
  <2>2. Zones' = Store!Without(Zones, {start})
    BY <1>0, <2>1, ZonesWithout
  <2> QED BY <2>2 DEF Store!Next, Store!RemoveRedzone
<1>3. ASSUME NEW start \in Addr, NEW end \in Addr, remove_between(start, end)
      PROVE  Store!Next
  <2>1. start < end
    BY <1>3 DEF remove_between
  <2>2. PICK c \in Sweep(tree, _get_between(tree, start, end)) : tree' = Renamed(c)
    BY <1>3 DEF remove_between
  <2>3. /\ KeysOf(tree) \ KeysOf(c) \in Store!SweepOutcomes(Zones, start, end)
        /\ KeysOf(c) = KeysOf(tree) \ (KeysOf(tree) \ KeysOf(c))
    BY <1>0, <2>1, SweepAllowed
  <2>4. KeysOf(tree') = KeysOf(c)
    BY <1>0, <2>1, <2>2, SweptHolds
  <2> DEFINE gone == KeysOf(tree) \ KeysOf(c)
  <2>5. Keys' = Keys \ gone
    BY <2>3, <2>4 DEF Keys
  <2>6. gone \in Store!SweepOutcomes(Zones, start, end)
    BY <2>3
  <2> HIDE DEF gone
  <2>7. Zones' = Store!Without(Zones, gone)
    BY <1>0, <2>5, ZonesWithout
  <2> QED BY <2>1, <2>6, <2>7 DEF Store!Next, Store!remove_between
<1>4. CASE reset
  <2>1. Zones' = [k \in {} |-> 0]
    BY <1>4, KeysEquation DEF reset, Zones, Keys
  <2> QED BY <2>1 DEF Store!Next, Store!reset
<1>5. CASE UNCHANGED tree
  BY <1>5 DEF Zones, Keys
<1> QED BY <1>1, <1>2, <1>3, <1>4, <1>5 DEF Next

(***************************************************************************)
(* The tree implements the redzone store.  Redzones of one size, as the    *)
(* pass makes them, are assumed because deleteNode copies the successor's  *)
(* key and not its size: with two sizes a removal may change the size of a *)
(* redzone that stays.                                                     *)
(***************************************************************************)
THEOREM ImplementsStore ==
  ASSUME Store!UniformSizes
  PROVE  Spec => StoreSpec
<1>1. Init => Store!Init
  <2> SUFFICES ASSUME Init
               PROVE  Zones = [k \in {} |-> 0]
    BY DEF Store!Init
  <2>1. Keys = {}
    BY KeysEquation DEF Init, Keys
  <2> QED BY <2>1 DEF Zones
<1>2. Inv /\ Inv' /\ [Next]_tree => [Store!Next]_Zones
  BY StepsOfStore
<1> QED BY <1>1, <1>2, InvAlways, PTL DEF Spec, StoreSpec, Store!Spec

(***************************************************************************)
(* Whatever sizes the redzones have, an insertion registers exactly the    *)
(* redzone it is given and changes the size of no other, and a sweep takes *)
(* away a set of redzones that the store allows.                           *)
(***************************************************************************)
THEOREM InsertsAndSweeps ==
  Spec => [][/\ \A start \in Addr, size \in Sizes :
                  InsertRedzone(start, size) => Store!InsertRedzone(start, size)
             /\ \A start, end \in Addr :
                  remove_between(start, end) =>
                    \E gone \in Store!SweepOutcomes(Zones, start, end) :
                      Keys' = Keys \ gone]_tree
<1> DEFINE Promised == /\ \A start \in Addr, size \in Sizes :
                            InsertRedzone(start, size) => Store!InsertRedzone(start, size)
                       /\ \A start, end \in Addr :
                            remove_between(start, end) =>
                              \E gone \in Store!SweepOutcomes(Zones, start, end) :
                                Keys' = Keys \ gone
<1>1. Inv => Promised
  <2>1. ASSUME Inv, NEW start \in Addr, NEW end \in Addr, remove_between(start, end)
        PROVE  \E gone \in Store!SweepOutcomes(Zones, start, end) : Keys' = Keys \ gone
    <3>1. start < end /\ Avl(tree) /\ Named(tree)
      BY <2>1 DEF remove_between, Inv
    <3>2. PICK c \in Sweep(tree, _get_between(tree, start, end)) : tree' = Renamed(c)
      BY <2>1 DEF remove_between
    <3>3. /\ KeysOf(tree) \ KeysOf(c) \in Store!SweepOutcomes(Zones, start, end)
          /\ KeysOf(c) = KeysOf(tree) \ (KeysOf(tree) \ KeysOf(c))
      BY <3>1, SweepAllowed
    <3>4. KeysOf(tree') = KeysOf(c)
      BY <3>1, <3>2, SweptHolds
    <3>5. Keys' = Keys \ (KeysOf(tree) \ KeysOf(c))
      BY <3>3, <3>4 DEF Keys
    <3> QED BY <3>3, <3>5
  <2> QED BY <2>1, InsertsZone
<1> QED BY <1>1, InvAlways, PTL

=============================================================================
