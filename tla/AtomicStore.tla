---------------------------- MODULE AtomicStore ----------------------------
(***************************************************************************)
(* What the cluster promises a client that sends keyed commands through    *)
(* the proxy: one map, and every request takes effect at most once, at one *)
(* moment.  A request answered without an error took effect while it was   *)
(* being served.  One answered with an error has an unknown outcome: it    *)
(* took effect, or never will, or will at some later moment.  A volatile   *)
(* key, one with a deadline, can expire; the keys of one shard are lost    *)
(* when it crashes; nothing else is.  A set writes the number of its       *)
(* request.  keys and ping have no effect on the map.                      *)
(***************************************************************************)
EXTENDS Naturals

CONSTANTS Key, Volatile, Part, Null

VARIABLES data, op, eff, lost, out, crashes
vars == <<data, op, eff, lost, out, crashes>>

Keyed == {"get", "set", "del"}

\* The key's value after request o, and what o returns.
After(o, d) == CASE o.cmd = "set" -> o.id [] o.cmd = "del" -> Null [] OTHER -> d[o.key]
Value(o, d) == IF o.cmd = "get" THEN d[o.key] ELSE Null

Idle    == [id |-> 0, cmd |-> "none", key |-> Null]
NoAns   == [err |-> "none", val |-> Null, set |-> FALSE]
Took(v) == [err |-> "none", val |-> v, set |-> TRUE]

Init ==
    /\ data = [k \in Key |-> Null]
    /\ op = Idle
    /\ eff = NoAns
    /\ lost = {}
    /\ out = [id |-> 0, err |-> "none", val |-> Null]
    /\ crashes = 0

Begin ==
    /\ op = Idle
    /\ op'.id > out.id /\ op'.key \in Key \cup {Null}
    /\ UNCHANGED <<data, eff, lost, out, crashes>>

Effect ==
    /\ op.cmd \in Keyed /\ eff = NoAns
    /\ eff' = Took(Value(op, data))
    /\ data' = [data EXCEPT ![op.key] = After(op, data)]
    /\ UNCHANGED <<op, lost, out, crashes>>

\* An answer without an error: the request has taken effect.
Ok ==
    /\ op.cmd \in Keyed /\ eff # NoAns
    /\ out' = [id |-> op.id, err |-> "none", val |-> eff.val]
    /\ op' = Idle /\ eff' = NoAns
    /\ UNCHANGED <<data, lost, crashes>>

\* An error: if it has not taken effect yet, it may still.
Fail ==
    /\ op # Idle
    /\ out'.id = op.id /\ out'.err # "none"
    /\ lost' = lost \/ (op.cmd \in Keyed /\ eff = NoAns /\ lost' = lost \cup {op})
    /\ op' = Idle /\ eff' = NoAns
    /\ UNCHANGED <<data, crashes>>

\* ping and keys.
Other ==
    /\ op.cmd \notin Keyed /\ out'.id > out.id
    /\ op' = Idle
    /\ UNCHANGED <<data, eff, lost, crashes>>

Late(o) ==
    /\ lost' = lost \ {o}
    /\ data' = [data EXCEPT ![o.key] = After(o, data)]
    /\ UNCHANGED <<op, eff, out, crashes>>

Forget ==
    /\ lost' \subseteq lost
    /\ UNCHANGED <<data, op, eff, out, crashes>>

Expire(k) ==
    /\ data' = [data EXCEPT ![k] = Null]
    /\ UNCHANGED <<op, eff, lost, out, crashes>>

\* A shard dies with its keys and the requests that were on their way to it.
Crash(P) ==
    /\ crashes' = crashes + 1
    /\ data' = [k \in Key |-> IF k \in P THEN Null ELSE data[k]]
    /\ lost' \subseteq lost
    /\ UNCHANGED <<op, eff, out>>

Next ==
    \/ Begin \/ Effect \/ Ok \/ Fail \/ Other \/ Forget
    \/ \E o \in lost : Late(o)
    \/ \E k \in Volatile : Expire(k)
    \/ \E P \in Part : Crash(P)

Spec == Init /\ [][Next]_vars
=============================================================================
