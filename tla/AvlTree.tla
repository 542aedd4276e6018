------------------------------ MODULE AvlTree ------------------------------
(***************************************************************************)
(* The AVL tree behind Volvox maps and sets, and behind the compiler's     *)
(* symbol tables: linked nodes with a parent pointer and a balance factor. *)
(* Source: clib/map.cc.                                                    *)
(*                                                                         *)
(* A tree is a record t: t.root is a node or Nil, t.node maps every        *)
(* allocated node to its fields. "left" and "right" are the child fields.  *)
(* Keys are integers: of a key only its place in the order matters.        *)
(***************************************************************************)
EXTENDS Integers, Sequences

CONSTANT Nil      \* the null pointer

Opp(side)  == IF side = "left" THEN "right" ELSE "left"
Sign(side) == IF side = "left" THEN -1 ELSE 1

EmptyTree == [root |-> Nil, node |-> <<>>]

NewNode(k, v) == [key |-> k, val |-> v, left |-> Nil, right |-> Nil,
                  parent |-> Nil, bf |-> 0]

\* SET_PARENT, skipped for a null child. The balance factor in the low bits
\* of the same word stays.
SetParent(nd, child, mom) ==
  IF child = Nil THEN nd ELSE [nd EXCEPT ![child].parent = mom]

\* parent_ptr, the address of a child field or of the root.
RootSlot == [owner |-> Nil, side |-> "left"]
SetSlot(t, slot, n) ==
  IF slot.owner = Nil THEN [t EXCEPT !.root = n]
  ELSE [t EXCEPT !.node[slot.owner][slot.side] = n]

-----------------------------------------------------------------------------
(* Finding.                                                                *)

RECURSIVE FindFrom(_, _, _, _)
FindFrom(t, k, curr, slot) ==
  IF curr = Nil THEN [node |-> slot.owner, is_parent |-> TRUE, slot |-> slot]
  ELSE IF k = t.node[curr].key
       THEN [node |-> curr, is_parent |-> FALSE, slot |-> slot]
  ELSE LET side == IF k > t.node[curr].key THEN "right" ELSE "left"
       IN FindFrom(t, k, t.node[curr][side], [owner |-> curr, side |-> side])

\* The node with key k, or the node and the field where it would be linked.
Find(t, k) == FindFrom(t, k, t.root, RootSlot)

-----------------------------------------------------------------------------
(* Rotations. The child m of node a on the given side moves up.            *)

\* rotLeft(a, m) for the right side, rotRight(a, m) for the left one. m is in
\* balance only in a deletion.
Rotate(nd, a, m, side) ==
  LET b    == nd[m][Opp(side)]
      rest == IF nd[m].bf = 0 THEN Sign(side) ELSE 0
  IN SetParent([nd EXCEPT ![a][side] = b, ![a].parent = m, ![a].bf = rest,
                          ![m][Opp(side)] = a, ![m].bf = -rest], b, a)

\* rotRightLeft(a, m) for the right side, rotLeftRight(a, m) for the left one:
\* the inner grandchild c moves up twice and shares its children out.
RotateTwice(nd, a, m, side) ==
  LET c == nd[m][Opp(side)]
      b == nd[c][Opp(side)]
      d == nd[c][side]
      lean == Sign(side) * nd[c].bf
      moved == [nd EXCEPT
        ![a][side] = b, ![a].parent = c, ![a].bf = IF lean > 0 THEN -Sign(side) ELSE 0,
        ![m][Opp(side)] = d, ![m].parent = c, ![m].bf = IF lean < 0 THEN Sign(side) ELSE 0,
        ![c][Opp(side)] = a, ![c][side] = m, ![c].bf = 0]
  IN SetParent(SetParent(moved, b, a), d, m)

\* Node a is two deeper on the given side than on the other: one rotation, or
\* two when the child leans the other way, and the new top n0 takes a's place
\* below a's old parent.
Rebalance(t, a, side) ==
  LET nd == t.node
      m  == nd[a][side]
      twice == Sign(side) * nd[m].bf < 0
      n0 == IF twice THEN nd[m][Opp(side)] ELSE m
      up == nd[a].parent
      rotated == IF twice THEN RotateTwice(nd, a, m, side)
                 ELSE Rotate(nd, a, m, side)
      slot == IF up = Nil THEN RootSlot
              ELSE [owner |-> up,
                    side |-> IF rotated[up].left = a THEN "left" ELSE "right"]
  IN [tree |-> SetSlot([t EXCEPT !.node = SetParent(rotated, n0, up)], slot, n0),
      top |-> n0]

-----------------------------------------------------------------------------
(* Insertion.                                                              *)

\* The loop from the new leaf to the root: the subtree n of a became deeper.
RECURSIVE Deeper(_, _, _)
Deeper(t, n, a) ==
  IF a = Nil THEN t ELSE
  LET side == IF t.node[a].right = n THEN "right" ELSE "left"
      bf   == Sign(side) * t.node[a].bf
  IN IF bf < 0 THEN [t EXCEPT !.node[a].bf = 0]
     ELSE IF bf = 0
          THEN Deeper([t EXCEPT !.node[a].bf = Sign(side)], a, t.node[a].parent)
     ELSE Rebalance(t, a, side).tree

\* insert_priv.
InsertPriv(t, n, mom, slot) ==
  Deeper(SetSlot([t EXCEPT !.node[n].parent = mom], slot, n), n, mom)

\* A replaced node hands its links, and its balance factor, to the new one.
TakeOver(t, n, old) ==
  [t EXCEPT !.node[n].parent = t.node[old].parent, !.node[n].bf = t.node[old].bf,
            !.node[n].left  = t.node[old].left,
            !.node[n].right = t.node[old].right,
            !.node[old].parent = Nil, !.node[old].bf = 0,
            !.node[old].left = Nil, !.node[old].right = Nil]

\* T_insert with *target null, as every caller passes it; n is the address
\* malloc returns. The functions for numeric keys test target itself instead
\* of *target, so they always replace an existing node.
Insert(t, n, k, v, numeric) ==
  LET pos   == Find(t, k)
      fresh == [t EXCEPT !.node = [i \in DOMAIN @ \cup {n} |->
                                     IF i = n THEN NewNode(k, v) ELSE @[i]]]
      linked == InsertPriv(fresh, n, pos.node, pos.slot)
  IN CASE pos.is_parent -> [tree |-> linked, existed |-> FALSE]
       [] ~pos.is_parent /\ numeric ->
            [tree |-> TakeOver(linked, n, pos.node), existed |-> TRUE]
       [] OTHER -> [tree |-> t, existed |-> TRUE]

-----------------------------------------------------------------------------
(* Deletion.                                                               *)

RECURSIVE Extreme(_, _, _)
\* Min and Max, and the inner loops of delete_priv and the iterators.
Extreme(t, n, side) ==
  IF t.node[n][side] = Nil THEN n ELSE Extreme(t, t.node[n][side], side)

SideOf(t, a, n) == IF a # Nil /\ t.node[a].left = n THEN "left" ELSE "right"

\* Mutant: the loop ends after the first rotation, as in an insertion.
RECURSIVE ShallowerOnce(_, _, _)
ShallowerOnce(t, a, side) ==
  IF a = Nil THEN t ELSE
  LET up == t.node[a].parent
      bf == Sign(side) * t.node[a].bf
  IN IF bf > 0 THEN ShallowerOnce([t EXCEPT !.node[a].bf = 0], up, SideOf(t, up, a))
     ELSE IF bf = 0 THEN [t EXCEPT !.node[a].bf = -Sign(side)]
     ELSE Rebalance(t, a, Opp(side)).tree

\* The loop from the action point to the root: a lost one level on that side.
\* After a rotation it goes on unless the risen child was in balance.
RECURSIVE Shallower(_, _, _)
Shallower(t, a, side) ==
  IF a = Nil THEN t ELSE
  LET up == t.node[a].parent
      bf == Sign(side) * t.node[a].bf
  IN IF bf > 0 THEN Shallower([t EXCEPT !.node[a].bf = 0], up, SideOf(t, up, a))
     ELSE IF bf = 0 THEN [t EXCEPT !.node[a].bf = -Sign(side)]
     ELSE LET new  == Rebalance(t, a, Opp(side))
              flat == t.node[t.node[a][Opp(side)]].bf = 0
          IN IF flat THEN new.tree
             ELSE Shallower(new.tree, up, SideOf(new.tree, up, new.top))

\* Mutant: only a left child is looked at.
UnlinkLeafLeft(t, curr, slot) ==
  LET c       == t.node[curr]
      linked  == SetSlot(t, slot, c.left)
  IN Shallower([linked EXCEPT !.node = SetParent(@, c.left, c.parent)],
               c.parent, slot.side)

\* curr has at most one child, which takes its place.
UnlinkLeaf(t, curr, slot) ==
  LET c       == t.node[curr]
      new_mom == IF c.left # Nil THEN c.left ELSE c.right
      linked  == SetSlot(t, slot, new_mom)
  IN Shallower([linked EXCEPT !.node = SetParent(@, new_mom, c.parent)],
               c.parent, slot.side)

\* curr has two children: its neighbour new_mom on the deeper side takes its
\* place and its balance factor; what new_mom had below goes to new_mom's old
\* parent, where the tree became shallower.
UnlinkInner(t, curr, slot) ==
  LET c       == t.node[curr]
      side    == IF c.bf <= 0 THEN "left" ELSE "right"
      new_mom == Extreme(t, c[side], Opp(side))
      old     == t.node[new_mom].parent
      far     == [SetParent(t.node, c[Opp(side)], new_mom) EXCEPT
                    ![new_mom][Opp(side)] = c[Opp(side)], ![new_mom].bf = c.bf]
      n0      == t.node[new_mom][side]
      near    == IF old = curr THEN far
                 ELSE SetParent(SetParent([far EXCEPT ![old][Opp(side)] = n0,
                                                      ![new_mom][side] = c[side]],
                                          n0, old), c[side], new_mom)
      linked  == SetSlot([t EXCEPT !.node = near], slot, new_mom)
      done    == [linked EXCEPT !.node[new_mom].parent = c.parent]
  IN IF old = curr THEN Shallower(done, new_mom, side)
     ELSE Shallower(done, old, Opp(side))

Free(t, n) == [t EXCEPT !.node = [i \in DOMAIN @ \ {n} |-> @[i]]]

\* Mutant: a node with two children takes the content of its neighbour, which
\* is removed in its place.
DeleteByCopy(t, k) ==
  LET pos  == Find(t, k)
      curr == pos.node
      c    == t.node[curr]
      side == IF c.bf <= 0 THEN "left" ELSE "right"
      near == Extreme(t, c[side], Opp(side))
      copied == [t EXCEPT !.node[curr].key = t.node[near].key,
                          !.node[curr].val = t.node[near].val]
      slot == [owner |-> t.node[near].parent,
               side |-> SideOf(t, t.node[near].parent, near)]
  IN IF pos.is_parent THEN t
     ELSE IF c.left # Nil /\ c.right # Nil
          THEN Free(UnlinkLeaf(copied, near, slot), near)
     ELSE Free(UnlinkLeaf(t, curr, pos.slot), curr)

\* T_delete and delete_priv.
Delete(t, k) ==
  LET pos  == Find(t, k)
      curr == pos.node
  IN IF pos.is_parent THEN t
     ELSE IF t.node[curr].left # Nil /\ t.node[curr].right # Nil
          THEN Free(UnlinkInner(t, curr, pos.slot), curr)
     ELSE Free(UnlinkLeaf(t, curr, pos.slot), curr)

\* destroy: children first, then the node.
RECURSIVE DestroyNode(_, _)
DestroyNode(t, n) ==
  IF n = Nil THEN t
  ELSE Free(DestroyNode(DestroyNode(t, t.node[n].left), t.node[n].right), n)

Destroy(t) == [DestroyNode(t, t.root) EXCEPT !.root = Nil]

-----------------------------------------------------------------------------
(* Iteration: iter_up for the side "right", iter_down for "left".          *)

RECURSIVE Climb(_, _, _)
Climb(t, old, side) ==
  LET elem == t.node[old].parent
  IN IF elem = Nil \/ t.node[elem][side] # old THEN elem
     ELSE Climb(t, elem, side)

Iterate(t, elem, side) ==
  IF t.node[elem][side] # Nil
  THEN Extreme(t, t.node[elem][side], Opp(side))
  ELSE Climb(t, elem, side)

-----------------------------------------------------------------------------
(* What the tree must look like.                                           *)

RECURSIVE NodesBelow(_, _)
NodesBelow(t, n) ==
  IF n = Nil THEN {}
  ELSE {n} \cup NodesBelow(t, t.node[n].left) \cup NodesBelow(t, t.node[n].right)

RECURSIVE Depth(_, _)
Depth(t, n) ==
  IF n = Nil THEN 0
  ELSE LET l == Depth(t, t.node[n].left)
           r == Depth(t, t.node[n].right)
       IN (IF r > l THEN r ELSE l) + 1

\* check_avl_get_depth reports nothing for node n: its children point back to
\* it, are on the right side of it, and its balance factor is exact.
NodeChecks(t, n) ==
  LET c == t.node[n]
      diff == Depth(t, c.right) - Depth(t, c.left)
  IN /\ c.left  # Nil => t.node[c.left].parent = n /\ t.node[c.left].key < c.key
     /\ c.right # Nil => t.node[c.right].parent = n /\ t.node[c.right].key > c.key
     /\ c.bf = diff
     /\ diff \in -1 .. 1
=============================================================================
