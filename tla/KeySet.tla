------------------------------- MODULE KeySet -------------------------------
(***************************************************************************)
(* What the hash map promises its callers: a set of nodes, found by their  *)
(* keys.  reply is the set of nodes the last call handed out.              *)
(***************************************************************************)
CONSTANT Node

VARIABLES nodes, reply

vars == <<nodes, reply>>

Init == nodes = {} /\ reply = {}

Insert(x) == x \notin nodes /\ nodes' = nodes \cup {x} /\ reply' = {}

Lookup(k) == reply' = nodes \cap {k} /\ UNCHANGED nodes

Delete(k) == reply' = nodes \cap {k} /\ nodes' = nodes \ {k}

Foreach == reply' = nodes /\ UNCHANGED nodes

Clear == nodes' = {} /\ reply' = {}

Next == (\E k \in Node : Insert(k) \/ Lookup(k) \/ Delete(k)) \/ Foreach \/ Clear

Spec == Init /\ [][Next]_vars
=============================================================================
