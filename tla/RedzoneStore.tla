---------------------------- MODULE RedzoneStore ----------------------------
(***************************************************************************)
(* What the runtime library promises about the redzones it keeps: a finite *)
(* map from the start address of a redzone to its size, one operation per  *)
(* public method of class AVLTree (runtime/src/Runtime.cpp).  Module       *)
(* AvlTree is the tree that implements it; module Sanitized is the         *)
(* instrumented program that uses it.                                      *)
(***************************************************************************)
EXTENDS Naturals, FiniteSets

CONSTANTS
  Addr,    \* the addresses a redzone may start at
  Sizes,   \* the sizes a redzone may have
  Widths   \* the widths of the accesses that are checked

ASSUME AddrAssumption == Addr \subseteq Nat
ASSUME SizesAssumption == Sizes \subseteq Nat \ {0}
ASSUME WidthsAssumption == Widths \subseteq Nat \ {0}

VARIABLE zones  \* zones[k] is the size of the redzone registered at k

Without(f, S) == [k \in DOMAIN f \ S |-> f[k]]

Between(f, start, end) == {k \in DOMAIN f : start <= k /\ k <= end}

-----------------------------------------------------------------------------
(* The query CheckPoison: does the access of width bytes at probe touch a  *)
(* redzone?  Poisoned is the promise; NeighbourCheck is how the code       *)
(* answers it, from the redzones immediately left and right of the probe.  *)

Poisoned(f, probe, width) ==
  \E k \in DOMAIN f : k < probe + width /\ probe < k + f[k]

IsLeftPar(f, l, probe) ==
  l \in DOMAIN f /\ l <= probe /\ \A k \in DOMAIN f : k <= probe => k <= l

IsRightPar(f, r, probe) ==
  r \in DOMAIN f /\ r > probe /\ \A k \in DOMAIN f : k > probe => r <= k

(* Mutation: the byte just behind a redzone counts as part of it.          *)
NeighbourCheck_Closed(f, probe, width) ==
  \/ \E l \in DOMAIN f : IsLeftPar(f, l, probe) /\ l + f[l] >= probe
  \/ \E r \in DOMAIN f : IsRightPar(f, r, probe) /\ r < probe + width

(* Mutation: the left redzone counts only if it covers the whole access.   *)
NeighbourCheck_WholeAccess(f, probe, width) ==
  \/ \E l \in DOMAIN f : IsLeftPar(f, l, probe) /\ l + f[l] >= probe + width
  \/ \E r \in DOMAIN f : IsRightPar(f, r, probe) /\ r < probe + width

NeighbourCheck(f, probe, width) ==
  \/ \E l \in DOMAIN f : IsLeftPar(f, l, probe) /\ l + f[l] > probe
  \/ \E r \in DOMAIN f : IsRightPar(f, r, probe) /\ r < probe + width

-----------------------------------------------------------------------------
Init == zones = [k \in {} |-> 0]

(* Mutation: the arguments of newNode swapped.                             *)
InsertRedzone_Swapped(start, size) ==
  zones' = IF size \in DOMAIN zones
             THEN zones
             ELSE [k \in DOMAIN zones \cup {size} |->
                     IF k = size THEN start ELSE zones[k]]

(* A redzone that is already registered keeps the size it has.             *)
InsertRedzone(start, size) ==
  zones' = IF start \in DOMAIN zones
             THEN zones
             ELSE [k \in DOMAIN zones \cup {start} |->
                     IF k = start THEN size ELSE zones[k]]

RemoveRedzone(start) == zones' = Without(zones, {start})

(***************************************************************************)
(* remove_between collects the nodes in range and then deletes node after  *)
(* node by the key the node holds at that time, while each deletion may    *)
(* move keys between nodes and free nodes.  What survives of its purpose   *)
(* is this: some redzone in range goes if there is one, no more redzones   *)
(* go than were in range, none below start goes, and a single redzone in   *)
(* range is removed exactly.                                               *)
(***************************************************************************)
SweepOutcomes(f, start, end) ==
  LET doomed == Between(f, start, end)
  IN  {gone \in SUBSET {k \in DOMAIN f : k >= start} :
         /\ Cardinality(gone) <= Cardinality(doomed)
         /\ doomed # {} => gone \cap doomed # {}
         /\ Cardinality(doomed) = 1 => gone = doomed}

remove_between(start, end) ==
  /\ start < end
  /\ \E gone \in SweepOutcomes(zones, start, end) : zones' = Without(zones, gone)

reset == zones' = [k \in {} |-> 0]

Next ==
  \/ \E start \in Addr, size \in Sizes : InsertRedzone(start, size)
  \/ \E start \in Addr : RemoveRedzone(start)
  \/ \E start, end \in Addr : remove_between(start, end)
  \/ reset

Spec == Init /\ [][Next]_zones

-----------------------------------------------------------------------------
(* Every registered redzone starts at an address and has a known size.     *)
TypeOK == \E S \in SUBSET Addr : zones \in [S -> Sizes]

UniformSizes == \A s, t \in Sizes : s = t

(***************************************************************************)
(* When all redzones have one size, as those of the pass do, the two       *)
(* neighbours that CheckPoison looks at decide whether an access touches   *)
(* any redzone at all, also where redzones of dead and live objects        *)
(* overlap.                                                                *)
(***************************************************************************)
NeighboursSuffice ==
  UniformSizes =>
    \A probe \in Addr, width \in Widths :
      NeighbourCheck(zones, probe, width) <=> Poisoned(zones, probe, width)

=============================================================================
