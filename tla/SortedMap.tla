----------------------------- MODULE SortedMap -----------------------------
(***************************************************************************)
(* The contract of SortedSet as a state machine: one map from member names *)
(* to scores, updated by one operation at a time.  added is what the last  *)
(* zset_insert returned.  ZSet is shown to implement this specification.   *)
(***************************************************************************)
EXTENDS SortedSet

CONSTANTS Member, Score

VARIABLES z, added

Init == z = EmptyZSet /\ added = FALSE

Insert(m, s) == z' = zset_insert(z, m, s) /\ added' = (m \notin DOMAIN z)

Delete(m) == z' = zset_delete(z, m) /\ added' = added

Clear == z' = EmptyZSet /\ added' = added

Next ==
    \/ \E m \in Member, s \in Score : Insert(m, s)
    \/ \E m \in Member : Delete(m)
    \/ Clear

Spec == Init /\ [][Next]_<<z, added>>
=============================================================================
