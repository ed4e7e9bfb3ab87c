------------------------------ MODULE AvlTree ------------------------------
(***************************************************************************)
(* The AVL tree of runtime/src/Runtime.cpp, pointer operation by pointer   *)
(* operation.  A tree is the value of its root: NULL or a node that holds  *)
(* its two subtrees.  The field "at" stands for the node's address, which  *)
(* matters inside remove_between only: there the code holds Node pointers  *)
(* while it deletes.  Between calls no one keeps a pointer to a node, so   *)
(* after every call the nodes are renamed to the keys they hold.           *)
(*                                                                         *)
(* The recursion of the code is written as functions over Tree, the trees  *)
(* of at most Depth levels, so that it can be reasoned about: Depth is the *)
(* bound up to which the model lets the tree grow.                         *)
(***************************************************************************)
EXTENDS Integers, Sequences, FiniteSets

CONSTANTS
  Addr,    \* the addresses a redzone may start at
  Sizes,   \* the sizes a redzone may have
  Widths,  \* the widths of the accesses that are checked
  NULL,    \* the null Node pointer
  Depth    \* bound: the levels a tree may have

ASSUME AddressAssumption == Addr \subseteq Nat
ASSUME SizeAssumption == Sizes \subseteq Nat \ {0}
ASSUME DepthAssumption == Depth \in Nat

VARIABLE tree   \* AVLTree::root

-----------------------------------------------------------------------------
(* Trees *)

(* The nodes whose children come from a given set of trees.                *)
NodesOver(below) ==
  [at : Addr, key : Addr, size : Sizes, height : Nat, left : below, right : below]

(* The trees of at most d levels.                                          *)
TreesUpTo(d) ==
  LET trees[e \in 0 .. d] ==
        IF e = 0 THEN {NULL} ELSE {NULL} \cup NodesOver(trees[e - 1])
  IN  trees[d]

Tree == TreesUpTo(Depth)

Node == NodesOver(Tree)

ASSUME NullAssumption == NULL \notin Node

-----------------------------------------------------------------------------
(* Nodes and rotations *)

(* Mutation: the key is set from the size.                                 *)
newNode_KeyFromSize(key, size) ==
  [at |-> key, key |-> size, size |-> size, height |-> 1,
   left |-> NULL, right |-> NULL]

newNode(key, size) ==
  [at |-> key, key |-> key, size |-> size, height |-> 1,
   left |-> NULL, right |-> NULL]

height(n) == IF n = NULL THEN 0 ELSE n.height

WithHeight(n) ==
  LET l == height(n.left)
      r == height(n.right)
  IN  [n EXCEPT !.height = 1 + IF l > r THEN l ELSE r]

rightRotate(y) ==
  WithHeight([y.left EXCEPT !.right = WithHeight([y EXCEPT !.left = y.left.right])])

(* Mutation: the middle subtree T2 ends up on the wrong side of x.         *)
leftRotate_WrongSide(x) ==
  WithHeight([x.right EXCEPT !.left =
                WithHeight([x EXCEPT !.right = NULL, !.left = x.right.left])])

leftRotate(x) ==
  WithHeight([x.right EXCEPT !.left = WithHeight([x EXCEPT !.right = x.right.left])])

getBalanceFactor(n) == IF n = NULL THEN 0 ELSE height(n.left) - height(n.right)

-----------------------------------------------------------------------------
(* Insertion *)

RebalanceInserted(n, key) ==
  LET bf == getBalanceFactor(n)
  IN  CASE bf > 1 /\ key < n.left.key   -> rightRotate(n)
        [] bf > 1 /\ key > n.left.key   -> rightRotate([n EXCEPT !.left = leftRotate(@)])
        [] bf < -1 /\ key > n.right.key -> leftRotate(n)
        [] bf < -1 /\ key < n.right.key -> leftRotate([n EXCEPT !.right = rightRotate(@)])
        [] OTHER -> n

insertNode(n, key, size) ==
  LET inserted[m \in Tree] ==
        CASE m = NULL -> newNode(key, size)
          [] m # NULL /\ key = m.key -> m
          [] m # NULL /\ key < m.key ->
               RebalanceInserted(WithHeight([m EXCEPT !.left = inserted[@]]), key)
          [] OTHER ->
               RebalanceInserted(WithHeight([m EXCEPT !.right = inserted[@]]), key)
  IN  inserted[n]

-----------------------------------------------------------------------------
(* Deletion *)

(* Mutation: the right child is taken for the successor.                   *)
nodeWithMimumValue_Child(n) == n

nodeWithMimumValue(n) ==
  LET leftmost[m \in Tree \ {NULL}] == IF m.left = NULL THEN m ELSE leftmost[m.left]
  IN  leftmost[n]

(* Mutation: a left-heavy node is always rotated once, as if its left      *)
(* child could not be right-heavy.                                         *)
RebalanceDeleted_SingleRotation(n) ==
  LET bf == getBalanceFactor(n)
  IN  CASE bf > 1                                      -> rightRotate(n)
        [] bf < -1 /\ getBalanceFactor(n.right) <= 0 -> leftRotate(n)
        [] bf < -1 /\ getBalanceFactor(n.right) > 0  ->
             leftRotate([n EXCEPT !.right = rightRotate(@)])
        [] OTHER -> n

RebalanceDeleted(n) ==
  LET bf == getBalanceFactor(n)
  IN  CASE bf > 1 /\ getBalanceFactor(n.left) >= 0   -> rightRotate(n)
        [] bf > 1 /\ getBalanceFactor(n.left) < 0    ->
             rightRotate([n EXCEPT !.left = leftRotate(@)])
        [] bf < -1 /\ getBalanceFactor(n.right) <= 0 -> leftRotate(n)
        [] bf < -1 /\ getBalanceFactor(n.right) > 0  ->
             leftRotate([n EXCEPT !.right = rightRotate(@)])
        [] OTHER -> n

(***************************************************************************)
(* The node that holds key is unlinked.  Without a child it is freed; with *)
(* one, it takes over the child's contents and the child is freed; with    *)
(* two, it takes over the key of its successor - and not its size - and    *)
(* the successor's key is deleted below.                                   *)
(***************************************************************************)
deleteNode(n, key) ==
  LET deleted[m \in Tree] == [k \in Addr |->
        IF m = NULL
          THEN NULL
          ELSE LET next == nodeWithMimumValue(m.right).key
                   r == CASE k < m.key -> [m EXCEPT !.left = deleted[@][k]]
                          [] k > m.key -> [m EXCEPT !.right = deleted[@][k]]
                          [] k = m.key /\ m.left = NULL /\ m.right = NULL -> NULL
                          [] k = m.key /\ m.left = NULL /\ m.right # NULL ->
                               [m.right EXCEPT !.at = m.at]
                          [] k = m.key /\ m.left # NULL /\ m.right = NULL ->
                               [m.left EXCEPT !.at = m.at]
                          [] OTHER ->
                               [m EXCEPT !.key = next, !.right = deleted[@][next]]
               IN  IF r = NULL THEN NULL ELSE RebalanceDeleted(WithHeight(r))]
  IN  deleted[n][key]

-----------------------------------------------------------------------------
(* The query.  l and r are the parents passed down: the last node the walk *)
(* turned right at, and the last one it turned left at.                    *)

(* The decision at the end of the walk.                                    *)
Hit(probe, width, par) ==
  \/ par.left # NULL /\ par.left.key + par.left.size > probe
  \/ par.right # NULL /\ par.right.key < probe + width

(* Mutation: the walk to the left forgets the right parent it just met.    *)
_CheckPoison_NoRightPar(n, probe, width, l, r) ==
  LET walked[m \in Tree] == [par \in [left : Tree, right : Tree] |->
        CASE m # NULL /\ m.key < probe -> walked[m.right][[par EXCEPT !.left = m]]
          [] m # NULL /\ m.key > probe -> walked[m.left][par]
          [] OTHER -> Hit(probe, width, IF m = NULL THEN par ELSE [par EXCEPT !.left = m])]
  IN  walked[n][[left |-> l, right |-> r]]

_CheckPoison(n, probe, width, l, r) ==
  LET walked[m \in Tree] == [par \in [left : Tree, right : Tree] |->
        CASE m # NULL /\ m.key < probe -> walked[m.right][[par EXCEPT !.left = m]]
          [] m # NULL /\ m.key > probe -> walked[m.left][[par EXCEPT !.right = m]]
          [] OTHER -> Hit(probe, width, IF m = NULL THEN par ELSE [par EXCEPT !.left = m])]
  IN  walked[n][[left |-> l, right |-> r]]

CheckPoison(probe, width) == _CheckPoison(tree, probe, width, NULL, NULL)

-----------------------------------------------------------------------------
(* remove_between *)

Nodes(n) ==
  LET nodes[m \in Tree] ==
        IF m = NULL THEN {} ELSE {m} \cup nodes[m.left] \cup nodes[m.right]
  IN  nodes[n]

(* The addresses of the nodes in range, in the order they are collected.   *)
_get_between(n, start, end) ==
  LET collected[m \in Tree] ==
        CASE m = NULL -> <<>>
          [] m # NULL /\ m.key > end   -> collected[m.left]
          [] m # NULL /\ m.key < start -> collected[m.right]
          [] OTHER -> <<m.at>> \o collected[m.left] \o collected[m.right]
  IN  collected[n]

(***************************************************************************)
(* One turn of the loop over the collected pointers, at pointer a in state *)
(* s, as the set of states it may lead to.  s.held maps each pointer to    *)
(* the key last seen in its node.  A node that an earlier deletion freed   *)
(* is read after free: it yields the key it held when freed, or a word of  *)
(* the allocator's that is no redzone's key.                               *)
(***************************************************************************)
Turn(s, a) ==
  LET live == Nodes(s.tree)
      now  == [p \in DOMAIN s.held |->
                 IF \E m \in live : m.at = p
                   THEN (CHOOSE m \in live : m.at = p).key
                   ELSE s.held[p]]
  IN  {[tree |-> deleteNode(s.tree, now[a]), held |-> now]} \cup
      IF \E m \in live : m.at = a THEN {} ELSE {[tree |-> s.tree, held |-> now]}

(* The trees the loop over the pointers of todo may leave of n, whose      *)
(* nodes are still named after their keys.                                 *)
Sweep(n, todo) ==
  LET entry == [tree |-> n, held |-> [p \in {m.at : m \in Nodes(n)} |-> p]]
      after[i \in 0 .. Len(todo)] ==
        IF i = 0 THEN {entry} ELSE UNION {Turn(s, todo[i]) : s \in after[i - 1]}
  IN  {s.tree : s \in after[Len(todo)]}

Renamed(n) ==
  LET renamed[m \in Tree] ==
        IF m = NULL
          THEN NULL
          ELSE [m EXCEPT !.at = m.key, !.left = renamed[@], !.right = renamed[@]]
  IN  renamed[n]

-----------------------------------------------------------------------------
(* The public methods *)

Init == tree = NULL

InsertRedzone(start, size) ==
  /\ height(tree) < Depth
  /\ tree' = insertNode(tree, start, size)

RemoveRedzone(start) == tree' = Renamed(deleteNode(tree, start))

remove_between(start, end) ==
  /\ start < end
  /\ \E t \in Sweep(tree, _get_between(tree, start, end)) : tree' = Renamed(t)

reset == tree' = NULL

Next ==
  \/ \E start \in Addr, size \in Sizes : InsertRedzone(start, size)
  \/ \E start \in Addr : RemoveRedzone(start)
  \/ \E start, end \in Addr : remove_between(start, end)
  \/ reset

Spec == Init /\ [][Next]_tree

-----------------------------------------------------------------------------
(* Properties *)

KeysOf(n) == {m.key : m \in Nodes(n)}

SizeOf(n, key) == (CHOOSE m \in Nodes(n) : m.key = key).size

Keys == KeysOf(tree)

Zones == [k \in Keys |-> SizeOf(tree, k)]

Store == INSTANCE RedzoneStore WITH zones <- Zones

(* A tree of registered addresses and sizes, its nodes named after their   *)
(* keys.                                                                   *)
TypeOK == tree \in Tree /\ \A n \in Nodes(tree) : n.at = n.key

(***************************************************************************)
(* The tree is a search tree: every key left of a node is smaller and      *)
(* every key right of it larger.  The insertions, deletions and rotations  *)
(* of a long run of calls must all keep it, or redzones become invisible.  *)
(***************************************************************************)
SearchTree ==
  \A n \in Nodes(tree) :
    /\ \A m \in Nodes(n.left) : m.key < n.key
    /\ \A m \in Nodes(n.right) : m.key > n.key

(***************************************************************************)
(* The heights kept in the nodes are the real ones and siblings differ by  *)
(* at most one, whatever sequence of insertions, deletions and sweeps led  *)
(* here: the rebalancing decisions of the code read those heights.         *)
(***************************************************************************)
Balanced ==
  \A n \in Nodes(tree) :
    /\ n = WithHeight(n)
    /\ getBalanceFactor(n) \in -1 .. 1

(***************************************************************************)
(* CheckPoison decides by the redzones immediately left and right of the   *)
(* probe, whatever their sizes: the last nodes at which the walk turned    *)
(* right and left are the neighbours of the probe among all keys.          *)
(***************************************************************************)
ChecksNeighbours ==
  \A probe \in Addr, width \in Widths :
    CheckPoison(probe, width) <=> Store!NeighbourCheck(Zones, probe, width)

(***************************************************************************)
(* Every removal takes away the redzone it names and no other, whichever   *)
(* of the cases of deleteNode applies and however the tree is rotated.     *)
(***************************************************************************)
RemovalExact ==
  [][\A start \in Addr : RemoveRedzone(start) => Keys' = Keys \ {start}]_tree

(* The tree implements the promise of the redzone store.                   *)
StoreSpec == Store!Spec

(***************************************************************************)
(* remove_between removes the redzones in the range and no others, which   *)
(* is what RuntimeTest.cpp asserts of its one example.                     *)
(***************************************************************************)
RemoveBetweenExact ==
  [][\A start, end \in Addr :
       remove_between(start, end) =>
         Keys' = {k \in Keys : ~(start <= k /\ k <= end)}]_tree

=============================================================================
