-------------------------------- MODULE Avl --------------------------------
(***************************************************************************)
(* avl.cpp: the intrusive balanced tree behind a sorted set.  A tree is a  *)
(* function t from nodes to AVLNode records, the memory the pointers name; *)
(* an operation takes the memory and returns what it leaves there, with    *)
(* the node pointer the C++ function returns.  rot_left and rot_right, and *)
(* the two avl_fix_ halves, are mirror images: the side is a parameter,    *)
(* and t[n][side] is the child pointer on that side.                       *)
(***************************************************************************)
EXTENDS Integers

Nil == 0
Other(side) == IF side = "left" THEN "right" ELSE "left"

avl_init == [parent |-> Nil, left |-> Nil, right |-> Nil, height |-> 1, cnt |-> 1]

avl_height(t, n) == IF n = Nil THEN 0 ELSE t[n].height
avl_cnt(t, n)    == IF n = Nil THEN 0 ELSE t[n].cnt

avl_update(t, n) ==
    LET l == avl_height(t, t[n].left)
        r == avl_height(t, t[n].right)
    IN  [t EXCEPT ![n].height = 1 + (IF l < r THEN r ELSE l),
                  ![n].cnt = 1 + avl_cnt(t, t[n].left) + avl_cnt(t, t[n].right)]

\* "if (child) child->parent = p"
SetParent(t, child, p) == IF child = Nil THEN t ELSE [t EXCEPT ![child].parent = p]

\* "from = parent->left == node ? &parent->left : &parent->right"
SlotOf(t, p, n) == IF t[p].left = n THEN "left" ELSE "right"

\* The subtree r.ret of memory r.t hung in a slot of node n.
Hang(r, n, side) == [r.t EXCEPT ![n][side] = r.ret]

\* rot_left when side is "left", rot_right when it is "right".
Rotate(t, n, side) ==
    LET up     == Other(side)
        parent == t[n].parent
        new    == t[n][up]
        inner  == t[new][side]
        u      == [SetParent(t, inner, n) EXCEPT ![n][up] = inner, ![new].parent = parent,
                                                 ![new][side] = n, ![n].parent = new]
    IN  [t |-> avl_update(avl_update(u, n), new), ret |-> new]

\* Mutant: rotates once, whatever the shape of the high side.
FixSide_Single(t, n, side) == Rotate(t, n, Other(side))

\* avl_fix_left when side is "left" (the left subtree is too high).
FixSide(t, n, side) ==
    LET c     == t[n][side]
        inner == avl_height(t, t[c][side]) < avl_height(t, t[c][Other(side)])
    IN  Rotate(IF inner THEN Hang(Rotate(t, c, side), n, side) ELSE t, n, Other(side))

\* One turn of avl_fix's loop at node n: its new subtree and what heads it.
Rebalance(t, n) ==
    LET u == avl_update(t, n)
        l == avl_height(u, u[n].left)
        r == avl_height(u, u[n].right)
    IN  IF l = r + 2 THEN FixSide(u, n, "left")
        ELSE IF l + 2 = r THEN FixSide(u, n, "right")
        ELSE [t |-> u, ret |-> n]

RECURSIVE avl_fix(_, _)
avl_fix(t, n) ==
    LET parent == t[n].parent
    IN  IF parent = Nil THEN Rebalance(t, n)
        ELSE avl_fix(Hang(Rebalance(t, n), parent, SlotOf(t, parent, n)), parent)

\* Mutant: empties the slot: the only child is no longer linked.
avl_del_easy_DropsChild(t, n) ==
    LET parent == t[n].parent
    IN  IF parent = Nil THEN [t |-> t, ret |-> Nil]
        ELSE avl_fix([t EXCEPT ![parent][SlotOf(t, parent, n)] = Nil], parent)

avl_del_easy(t, n) ==
    LET child  == IF t[n].left # Nil THEN t[n].left ELSE t[n].right
        parent == t[n].parent
        u      == SetParent(t, child, parent)
    IN  IF parent = Nil THEN [t |-> u, ret |-> child]
        ELSE avl_fix([u EXCEPT ![parent][SlotOf(u, parent, n)] = child], parent)

RECURSIVE Leftmost(_, _)
Leftmost(t, n) == IF t[n].left = Nil THEN n ELSE Leftmost(t, t[n].left)

(***************************************************************************)
(* A node with two children is replaced by the least node of its right     *)
(* subtree.  Taking that victim out (d) may rotate n itself, so its links  *)
(* are copied, and its parent and slot read, afterwards.                   *)
(***************************************************************************)
Replace(d, n, victim) ==
    LET u      == [d.t EXCEPT ![victim] = d.t[n]]
        v      == SetParent(SetParent(u, u[victim].left, victim), u[victim].right, victim)
        parent == v[n].parent
    IN  IF parent = Nil THEN [t |-> v, ret |-> victim]
        ELSE [t |-> [v EXCEPT ![parent][SlotOf(v, parent, n)] = victim], ret |-> d.ret]

avl_del(t, n) ==
    LET victim == Leftmost(t, t[n].right)
    IN  IF t[n].left = Nil \/ t[n].right = Nil THEN avl_del_easy(t, n)
        ELSE Replace(avl_del_easy(t, victim), n, victim)

\* avl_offset's loop: the walk is at node n, pos places from where it began.
RECURSIVE Walk(_, _, _, _)
Walk(t, n, pos, offset) ==
    LET left   == t[n].left
        right  == t[n].right
        parent == t[n].parent
    IN  IF offset = pos THEN n
        ELSE IF pos < offset /\ pos + avl_cnt(t, right) >= offset
             THEN Walk(t, right, pos + avl_cnt(t, t[right].left) + 1, offset)
        ELSE IF pos > offset /\ pos - avl_cnt(t, left) <= offset
             THEN Walk(t, left, pos - (avl_cnt(t, t[left].right) + 1), offset)
        ELSE IF parent = Nil THEN Nil
        ELSE IF t[parent].right = n THEN Walk(t, parent, pos - (avl_cnt(t, left) + 1), offset)
        ELSE Walk(t, parent, pos + avl_cnt(t, right) + 1, offset)

avl_offset(t, n, offset) == Walk(t, n, 0, offset)
=============================================================================
