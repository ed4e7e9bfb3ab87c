----------------------------- MODULE MCAvlTree -----------------------------
(***************************************************************************)
(* AvlTree for TLC.  All calls are made on trees over the addresses of     *)
(* Small.  Deletions that rotate at two levels need a tree of twelve       *)
(* nodes: the sparsest trees of that height are grown by insertions in a   *)
(* fixed order, and then redzones are removed in every order.              *)
(***************************************************************************)
EXTENDS AvlTree

CONSTANT Small

Sparsest == <<7, 4, 10, 2, 6, 9, 11, 1, 3, 5, 8, 0>>

Mirrored == [i \in DOMAIN Sparsest |-> 11 - Sparsest[i]]

Grow(order) ==
  \E i \in DOMAIN order :
    /\ Keys = {order[j] : j \in 1 .. i - 1}
    /\ InsertRedzone(order[i], 2)

MCNext ==
  \/ Keys \subseteq Small /\ Next /\ Keys' \subseteq Small
  \/ Grow(Sparsest) \/ Grow(Mirrored)
  \/ \E start \in Addr : RemoveRedzone(start)

MCSpec == Init /\ [][MCNext]_tree
=============================================================================
