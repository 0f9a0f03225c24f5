------------------------------- MODULE ZSet --------------------------------
(***************************************************************************)
(* zset.cpp: a sorted set is a hash table of its members by name and an    *)
(* AVL tree of the same members by score and name.  A member's ZNode is    *)
(* named after the member; names are naturals in memcmp order, 0 standing  *)
(* for the empty string a query may name.  The hash table is its contract  *)
(* (KeySet, which HMap implements): the set of names it holds.             *)
(***************************************************************************)
EXTENDS Avl, FiniteSets, Sequences, SequencesExt

CONSTANTS Member,   \* the names, 1 .. N
          Score     \* the scores

ASSUME MemberAssumption == Member \subseteq Nat \ {Nil}
ASSUME ScoreAssumption  == Score \subseteq Int

VARIABLES root,     \* zset->root
          tree,     \* the AVLNode of every ZNode
          score,    \* the score of every ZNode
          hmap,     \* the names in zset->hmap
          live,     \* the ZNodes allocated and not freed
          added     \* what the last zset_insert returned
vars == <<root, tree, score, hmap, live, added>>

S == INSTANCE SortedSet

Init ==
    /\ root = Nil
    /\ tree = [m \in Member |-> avl_init]
    /\ score = [m \in Member |-> 0]
    /\ hmap = {}
    /\ live = {}
    /\ added = FALSE

\* zless(lhs, score, name, len)
zless(sc, n, p) == S!zless(<<sc[n], n>>, p)

\* tree_insert's descent: the last node on the way and the empty slot there.
RECURSIVE Descend(_, _, _, _)
Descend(t, sc, at, n) ==
    LET side == IF zless(sc, n, <<sc[at], at>>) THEN "left" ELSE "right"
    IN  IF t[at][side] = Nil THEN [parent |-> at, side |-> side]
        ELSE Descend(t, sc, t[at][side], n)

tree_insert(r, t, sc, n) ==
    IF r = Nil THEN avl_fix([t EXCEPT ![n].parent = Nil], n)
    ELSE LET at == Descend(t, sc, r, n)
         IN  avl_fix([t EXCEPT ![at.parent][at.side] = n, ![n].parent = at.parent], n)

\* "zset->root = ..." of a result of the tree's operations.
SetTree(r) == root' = r.ret /\ tree' = r.t

zset_lookup(m) == root # Nil /\ m \in hmap

zset_update(m, s) ==
    LET sc          == [score EXCEPT ![m] = s]
        Reinsert(d) == tree_insert(d.ret, [d.t EXCEPT ![m] = avl_init], sc, m)
    IN  IF score[m] = s THEN UNCHANGED <<root, tree, score>>
        ELSE SetTree(Reinsert(avl_del(tree, m))) /\ score' = sc

zset_insert(m, s) ==
    \/ /\ zset_lookup(m)
       /\ zset_update(m, s)
       /\ added' = FALSE
       /\ UNCHANGED <<hmap, live>>
    \/ LET sc == [score EXCEPT ![m] = s]
       IN  /\ ~zset_lookup(m)
           /\ live' = live \cup {m}
           /\ hmap' = hmap \cup {m}
           /\ SetTree(tree_insert(root, [tree EXCEPT ![m] = avl_init], sc, m))
           /\ score' = sc
           /\ added' = TRUE

\* The caller, do_zrem, looks the member up first.  A freed node is blank.
zset_delete(m) ==
    LET Free(d) == [d EXCEPT !.t[m] = avl_init]
    IN  /\ zset_lookup(m)
        /\ hmap' = hmap \ {m}
        /\ SetTree(Free(avl_del(tree, m)))
        /\ score' = [score EXCEPT ![m] = 0]
        /\ live' = live \ {m}
        /\ UNCHANGED added

\* The nodes tree_dispose frees, in its order.
RECURSIVE tree_dispose(_, _)
tree_dispose(t, n) ==
    IF n = Nil THEN <<>>
    ELSE tree_dispose(t, t[n].left) \o tree_dispose(t, t[n].right) \o <<n>>

\* entry_del_sync destroys the whole set; Member then names a new, empty one.
zset_clear ==
    /\ live # {}
    /\ hmap' = {}
    /\ live' = live \ ToSet(tree_dispose(tree, root))
    /\ root' = Nil
    /\ tree' = [m \in Member |-> avl_init]
    /\ score' = [m \in Member |-> 0]
    /\ UNCHANGED added

Next ==
    \/ \E m \in Member, s \in Score : zset_insert(m, s)
    \/ \E m \in Member : zset_delete(m)
    \/ zset_clear

Spec == Init /\ [][Next]_vars
-----------------------------------------------------------------------------
\* Mutant: takes the first node on the way down that is not below p.
zset_seekge_First(p) ==
    LET RECURSIVE Seek(_)
        Seek(n) == IF n = Nil THEN Nil
                   ELSE IF zless(score, n, p) THEN Seek(tree[n].right) ELSE n
    IN  Seek(root)

zset_seekge(p) ==
    LET RECURSIVE Seek(_, _)
        Seek(n, found) == IF n = Nil THEN found
                          ELSE IF zless(score, n, p) THEN Seek(tree[n].right, found)
                          ELSE Seek(tree[n].left, n)
    IN  Seek(root, Nil)

znode_offset(n, offset) == IF n = Nil THEN Nil ELSE avl_offset(tree, n, offset)

\* The loop of do_zquery: pairs while fewer than limit elements are out.
RECURSIVE Emit(_, _, _)
Emit(n, count, limit) ==
    IF n = Nil \/ count >= limit THEN <<>>
    ELSE <<<<score[n], n>>>> \o Emit(znode_offset(n, 1), count + 2, limit)

do_zquery(p, offset, limit) ==
    IF limit <= 0 THEN <<>> ELSE Emit(znode_offset(zset_seekge(p), offset), 0, limit)
-----------------------------------------------------------------------------
RECURSIVE InOrder(_)
InOrder(n) == IF n = Nil THEN <<>>
              ELSE InOrder(tree[n].left) \o <<n>> \o InOrder(tree[n].right)

Children(n) == {tree[n].left, tree[n].right} \ {Nil}

(***************************************************************************)
(* After every operation the tree is the one avl.cpp means to keep: parent *)
(* and child pointers agree, every height and count is exact, no two sides *)
(* differ by more than one level, its nodes in order are sorted by zless,  *)
(* and they are the allocated nodes and the members of the hash table.     *)
(***************************************************************************)
TreeExact ==
    /\ live = hmap
    /\ root = Nil <=> live = {}
    /\ root # Nil => root \in live /\ tree[root].parent = Nil
    /\ \A n \in live :
          LET l == tree[n].left
              r == tree[n].right
              h == {avl_height(tree, l), avl_height(tree, r)}
          IN  /\ n # root => n \in Children(tree[n].parent)
              /\ \A c \in Children(n) : c \in live /\ tree[c].parent = n
              /\ \A x, y \in h : x < tree[n].height /\ x <= y + 1
              /\ tree[n].height - 1 \in h
              /\ tree[n].cnt = 1 + avl_cnt(tree, l) + avl_cnt(tree, r)
    /\ LET order == InOrder(root)
       IN  /\ ToSet(order) = live
           /\ \A i \in 1 .. Len(order) - 1 :
                 S!zless(<<score[order[i]], order[i]>>, <<score[order[i+1]], order[i+1]>>)

\* The nodes linked in the tree.
Linked == {n \in Member : n = root \/ (tree[n].parent # Nil /\ n \in Children(tree[n].parent))}

Contents == [m \in Linked |-> score[m]]

(***************************************************************************)
(* Whatever a ZQUERY asks (the place to seek, an offset to either side and *)
(* off both ends, a limit that is zero, even or odd), the walk over the    *)
(* tree emits what the contract says: the seek finds the least member not  *)
(* below the place, and avl_offset, climbing and descending by counts,     *)
(* lands on the member that many ranks away or on nothing.                 *)
(***************************************************************************)
QueriesExact ==
    LET z     == Contents
        order == InOrder(root)
    IN  /\ \A r \in DOMAIN order, d \in -Cardinality(Member) .. Cardinality(Member) :
              avl_offset(tree, order[r], d) =
                 IF r + d \in DOMAIN order THEN order[r + d] ELSE Nil
        /\ \A s \in Score, m \in Member \cup {Nil}, d \in {-1, 1}, limit \in {0, 2, 3} :
              do_zquery(<<s, m>>, d, limit) = S!zquery(z, <<s, m>>, d, limit)

Map == INSTANCE SortedMap WITH z <- Contents

(***************************************************************************)
(* ZSet implements SortedMap: every zset_insert, zset_delete and           *)
(* zset_clear does to the members linked in the tree and their scores what *)
(* the contract says, a member whose score changes being neither lost nor  *)
(* joined by another, and zset_insert returns whether the member is new.   *)
(***************************************************************************)
ImplementsSortedMap == Map!Spec
=============================================================================
