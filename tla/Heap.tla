-------------------------------- MODULE Heap --------------------------------
(***************************************************************************)
(* The timer heap: the array heap with the loops of src/heap.cpp that sift *)
(* an item through it, and the operations of src/kv_store.cpp on it.  Each *)
(* item points back at the heap_idx of its Entry, which every move of the  *)
(* item has to update: a later update or delete of the timer starts from   *)
(* heap_idx.  One iteration of a loop is one step; t is the item in hand,  *)
(* a[pos] the hole it left.                                                *)
(***************************************************************************)
EXTENDS Integers

CONSTANTS
    Ref,        \* entries, standing for the address of their heap_idx
    Val,        \* deadlines
    Null

ASSUME HeapAssumption == Val \subseteq Nat /\ Null \notin Ref

VARIABLES
    len,        \* heap.size()
    a,          \* heap: [0 .. len - 1 -> Item]
    idx,        \* heap_idx of each entry; None is size_t(-1)
    sift,       \* idle, up (in heap_up), down (in heap_down)
    pos, t,     \* the locals of heap_up and heap_down
    victim      \* the entry entry_set_ttl(ent, -1) removes, Null if none

heapVars == <<len, a, idx, sift, pos, t, victim>>

None == -1
Item == [val : Val, ref : Ref]

heap_parent(i) == (i + 1) \div 2 - 1
heap_left(i)   == i * 2 + 1
heap_right(i)  == i * 2 + 2

HeapInit ==
    /\ len = 0
    /\ a = [i \in {} |-> 0]
    /\ idx = [r \in Ref |-> None]
    /\ sift = "idle" /\ pos = 0 /\ t = Null /\ victim = Null

\* heap_update on the array b, up to the first test of a loop.
heap_update(b, p) ==
    /\ a' = b
    /\ pos' = p /\ t' = b[p]
    /\ sift' = IF p > 0 /\ b[heap_parent(p)].val > b[p].val THEN "up" ELSE "down"

\* Mutant: an entry that has a timer gets a second item.
heap_upsert_Pushes(r, v) ==
    LET b == [i \in 0 .. len |-> IF i = len THEN [val |-> v, ref |-> r] ELSE a[i]]
    IN  /\ sift = "idle"
        /\ len' = len + 1
        /\ heap_update(b, len)
        /\ UNCHANGED <<idx, victim>>

\* entry_set_ttl(ent, ttl), ttl >= 0: replace the item at heap_idx, or push.
heap_upsert(r, v) ==
    LET p == IF idx[r] \in 0 .. len - 1 THEN idx[r] ELSE len
        n == IF p < len THEN len ELSE len + 1
        b == [i \in 0 .. n - 1 |-> IF i = p THEN [val |-> v, ref |-> r] ELSE a[i]]
    IN  /\ sift = "idle"
        /\ len' = n
        /\ heap_update(b, p)
        /\ UNCHANGED <<idx, victim>>

\* Mutant: the item moved into the gap is only sifted down.
heap_delete_DownOnly(r) ==
    LET p == idx[r]
        b == [i \in 0 .. len - 2 |-> IF i = p THEN a[len - 1] ELSE a[i]]
    IN  /\ sift = "idle" /\ idx[r] # None
        /\ len' = len - 1 /\ a' = b
        /\ \/ /\ p < len - 1
              /\ pos' = p /\ t' = b[p] /\ sift' = "down" /\ victim' = r
              /\ UNCHANGED idx
           \/ /\ p = len - 1
              /\ idx' = [idx EXCEPT ![r] = None]
              /\ UNCHANGED <<sift, pos, t, victim>>

\* entry_set_ttl(ent, -1): the last item fills the gap and is sifted; heap_idx
\* is reset when heap_delete returns.
heap_delete(r) ==
    LET p == idx[r]
        b == [i \in 0 .. len - 2 |-> IF i = p THEN a[len - 1] ELSE a[i]]
    IN  /\ sift = "idle" /\ idx[r] # None
        /\ len' = len - 1
        /\ \/ /\ p < len - 1
              /\ heap_update(b, p)
              /\ victim' = r
              /\ UNCHANGED idx
           \/ /\ p = len - 1
              /\ a' = b
              /\ idx' = [idx EXCEPT ![r] = None]
              /\ UNCHANGED <<sift, pos, t, victim>>

\* Mutant: the back-reference of the item that moves is forgotten.
Shift_NoBackRef(p) ==
    /\ a' = [a EXCEPT ![pos] = a[p]]
    /\ pos' = p
    /\ UNCHANGED <<len, idx, sift, t, victim>>

\* Mutant: the position of the hole is not advanced.
Shift_Stays(p) ==
    /\ a' = [a EXCEPT ![pos] = a[p]]
    /\ idx' = [idx EXCEPT ![a[p].ref] = pos]
    /\ UNCHANGED <<len, sift, pos, t, victim>>

\* The item at p moves into the hole, the hole moves to p.
Shift(p) ==
    /\ a' = [a EXCEPT ![pos] = a[p]]
    /\ idx' = [idx EXCEPT ![a[p].ref] = pos]
    /\ pos' = p
    /\ UNCHANGED <<len, sift, t, victim>>

\* The item in hand fills the hole; then heap_delete's caller resets heap_idx.
Fill ==
    /\ a' = [a EXCEPT ![pos] = t]
    /\ idx' = [r \in Ref |-> IF r = victim THEN None ELSE IF r = t.ref THEN pos ELSE idx[r]]
    /\ sift' = "idle" /\ pos' = 0 /\ t' = Null /\ victim' = Null
    /\ UNCHANGED len

heap_up ==
    LET p == heap_parent(pos)
    IN  /\ sift = "up"
        /\ IF pos > 0 /\ a[p].val > t.val THEN Shift(p) ELSE Fill

\* The least of the item in hand and the children of the hole.
min_pos ==
    LET l == heap_left(pos)
        r == heap_right(pos)
        m == IF l < len /\ a[l].val < t.val THEN l ELSE pos
    IN  IF r < len /\ a[r].val < (IF m = pos THEN t.val ELSE a[m].val) THEN r ELSE m

heap_down == sift = "down" /\ IF min_pos = pos THEN Fill ELSE Shift(min_pos)

HeapNext ==
    \/ heap_up \/ heap_down
    \/ \E r \in Ref : heap_delete(r) \/ \E v \in Val : heap_upsert(r, v)

HeapSpec == HeapInit /\ [][HeapNext]_heapVars

-----------------------------------------------------------------------------
(***************************************************************************)
(* Properties.                                                             *)
(***************************************************************************)
Index == 0 .. len - 1

\* The values the variables range over.
HeapTypeOK ==
    /\ len \in Nat
    /\ a \in [Index -> Item]
    /\ idx \in [Ref -> Nat \cup {None}]
    /\ sift \in {"idle", "up", "down"}
    /\ sift # "idle" => pos \in Index /\ t \in Item
    /\ victim \in Ref \cup {Null}

\* Between operations no item is due before its parent.
HeapOrder ==
    sift = "idle" => \A i \in Index : i > 0 => a[heap_parent(i)].val <= a[i].val

\* Between operations heap_idx and the array point at each other, whatever
\* moves the sifting made: the next update of a timer finds its own item.
BackRefs ==
    sift = "idle" =>
        /\ \A i \in Index : idx[a[i].ref] = i
        /\ \A r \in Ref : idx[r] # None => idx[r] \in Index /\ a[idx[r]].ref = r

\* The root, the only item process_timers and next_timer_ms look at, has the
\* earliest deadline of all.
RootIsLeast == sift = "idle" => \A i \in Index : a[0].val <= a[i].val

\* The array with the item in hand in the hole.
Array == IF sift = "idle" THEN a ELSE [a EXCEPT ![pos] = t]
Items == {Array[i] : i \in Index}

AbsTimers == INSTANCE Timers WITH items <- Items

\* The heap implements the set of timers: an operation replaces or removes the
\* timer of its own entry and no other, and sifting changes none.
ImplementsTimers == AbsTimers!Spec

\* heap_up and heap_down terminate: every iteration moves the hole strictly up,
\* or strictly down and inside the array.
SiftProgresses ==
    [][/\ sift = "up" /\ sift' = "up" => pos' < pos
       /\ sift = "down" /\ sift' = "down" => pos < pos' /\ pos' < len]_heapVars
=============================================================================
