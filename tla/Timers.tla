------------------------------- MODULE Timers -------------------------------
(***************************************************************************)
(* What the timer heap promises KVStore: a set of items with at most one   *)
(* item per entry.  KVStore's variable heap is this set, its operators     *)
(* TimersWith and TimersWithout are these two actions.                     *)
(***************************************************************************)
CONSTANTS Ref, Val

VARIABLE items

Without(r) == {it \in items : it.ref # r}

Init == items = {}

Upsert(r, v) == items' = Without(r) \cup {[val |-> v, ref |-> r]}

Delete(r) == items' = Without(r)

Next == \E r \in Ref : Delete(r) \/ \E v \in Val : Upsert(r, v)

Spec == Init /\ [][Next]_items
=============================================================================
