------------------------------ MODULE Cluster ------------------------------
(***************************************************************************)
(* The proxy in front of its shards: proxy.cpp, sharding.cpp, tcp_rpc.cpp  *)
(* and the request handler of shard_main.cpp.  The proxy serves one        *)
(* request at a time and blocks in tcp_rpc, which opens a connection for   *)
(* one call, gives up after two seconds and never tries again.  A call the *)
(* proxy gave up on is still in the socket of its shard, which may execute *)
(* it at any later moment, after requests that came later.  A shard keeps  *)
(* its data in memory and loses it when it stops.                          *)
(*                                                                         *)
(* A value is the number of the set request that wrote it.  Commands are   *)
(* represented by get, set and del for every keyed one, ping, keys, and    *)
(* "other" for a command the proxy cannot route.  The list of endpoints    *)
(* given to the proxy need not be in the order of the shards' ids.         *)
(***************************************************************************)
EXTENDS Naturals

CONSTANTS Key,
          Volatile,     \* the keys that are given a deadline
          N,            \* number of shards, given to the proxy and to each shard
          Hash,         \* str_hash
          TooBig,       \* the sets of keys that do not fit in k_max_msg bytes
          MaxReq,       \* bound on the number of requests
          MaxCrash,     \* bound on the number of shard crashes
          Null

Shard == 0 .. N - 1

ASSUME NAssumption    == N \in Nat \ {0}
ASSUME KeyAssumption  == Hash \in [Key -> Nat] /\ Volatile \subseteq Key
ASSUME NullAssumption == Null \notin Key /\ Null \notin Nat
ASSUME MaxAssumption  == MaxReq \in Nat /\ MaxCrash \in Nat

VARIABLES
    route,      \* the proxy's endpoint list: position -> shard id
    up,         \* the shards that run
    data,       \* the keys of each shard
    net,        \* calls in the sockets of the shards
    pc,         \* where on_request of the proxy is: idle, call or wait
    op,         \* the request it serves
    pos,        \* the position of the endpoint it calls
    got,        \* keys: the bodies received so far, by position
    answer,     \* the response in the socket of the current call
    out,        \* the last answer to a client
    crashes,
    always,     \* history, while keys is served: the keys present all along
    ever        \* and those present at some moment
vars == <<route, up, data, net, pc, op, pos, got, answer, out, crashes, always, ever>>

Keyed == {"get", "set", "del"}
Cmd   == Keyed \cup {"ping", "keys", "other"}

shard_for_key(k) == Hash[k] % N

Idle  == [id |-> 0, cmd |-> "none", key |-> Null]
NoAns == [err |-> "none", val |-> Null, set |-> FALSE]

Body(e, v) == [err |-> e, val |-> v, set |-> TRUE]

Present == {k \in Key : \E s \in Shard : data[s][k] # Null}

Init ==
    /\ route \in {f \in [Shard -> Shard] : \A i, j \in Shard : f[i] = f[j] => i = j}
    /\ up = Shard
    /\ data = [s \in Shard |-> [k \in Key |-> Null]]
    /\ net = {}
    /\ pc = "idle"
    /\ op = Idle
    /\ pos = 0
    /\ got = [i \in Shard |-> NoAns]
    /\ answer = NoAns
    /\ out = [id |-> 0, err |-> "none", val |-> Null]
    /\ crashes = 0
    /\ always = {}
    /\ ever = {}

Answer(o, e, v) ==
    /\ out' = [id |-> o.id, err |-> e, val |-> v]
    /\ op' = Idle
    /\ pc' = "idle"
    /\ pos' = 0
    /\ got' = [i \in Shard |-> NoAns]
    /\ answer' = NoAns

\* routing_key_for_command and the first endpoint to call.
FirstPos(o) == IF o.cmd = "keys" THEN 0 ELSE shard_for_key(o.key)

\* The proxy takes the next request of some client from its event loop.
on_request(c, k) ==
    LET o == [id |-> out.id + 1, cmd |-> c, key |-> IF c \in Keyed THEN k ELSE Null]
    IN  /\ pc = "idle" /\ out.id < MaxReq
        /\ \/ c = "ping" /\ Answer(o, "none", Null)
           \/ c = "other" /\ Answer(o, "cannot route", Null)
           \/ /\ c \in Keyed \cup {"keys"}
              /\ op' = o
              /\ pc' = "call"
              /\ pos' = FirstPos(o)
              /\ UNCHANGED <<got, answer, out>>
        /\ UNCHANGED <<route, up, data, net, crashes>>

\* tcp_rpc: connect and write_full succeed.
Send ==
    /\ pc = "call" /\ route[pos] \in up
    /\ net' = net \cup {[op |-> op, to |-> route[pos]]}
    /\ pc' = "wait"
    /\ answer' = NoAns
    /\ UNCHANGED <<route, up, data, op, pos, got, out, crashes>>

\* Mutant: tries the call again, on a new connection.
tcp_rpc_fails_Retries ==
    /\ pc \in {"call", "wait"}
    /\ \/ pc = "call" /\ Answer(op, "shard unreachable", Null)
       \/ pc' = "call" /\ UNCHANGED <<op, pos, got, answer, out>>
    /\ UNCHANGED <<route, up, data, net, crashes>>

\* Mutant: waits for the response for as long as it takes.
tcp_rpc_fails_NoTimeout ==
    /\ pc = "call"
    /\ Answer(op, "shard unreachable", Null)
    /\ UNCHANGED <<route, up, data, net, crashes>>

\* tcp_rpc returns false: connect or write_full fails or times out, or the
\* response does not come in time, is cut off, or the shard closes.
tcp_rpc_fails ==
    /\ pc \in {"call", "wait"}
    /\ Answer(op, "shard unreachable", Null)
    /\ UNCHANGED <<route, up, data, net, crashes>>

\* Mutant: skips the bodies that hold no array.
merge_key_arrays_Skips(bodies) ==
    LET keys == UNION {bodies[i].val : i \in {j \in Shard : bodies[j].err = "none"}}
    IN  IF keys \in TooBig THEN Answer(op, "too big", Null)
        ELSE Answer(op, "none", keys)

\* merge_key_arrays, then response_end of the proxy's own response.
merge_key_arrays(bodies) ==
    LET keys == UNION {bodies[i].val : i \in Shard}
    IN  IF \E i \in Shard : bodies[i].err # "none" THEN Answer(op, "failed to merge", Null)
        ELSE IF keys \in TooBig THEN Answer(op, "too big", Null)
        ELSE Answer(op, "none", keys)

\* tcp_rpc returns the response: the next shard of a keys request, or the end.
Receive ==
    /\ pc = "wait" /\ answer # NoAns
    /\ \/ op.cmd \in Keyed /\ Answer(op, answer.err, answer.val)
       \/ /\ op.cmd = "keys" /\ pos + 1 = N
          /\ merge_key_arrays([got EXCEPT ![pos] = answer])
       \/ /\ op.cmd = "keys" /\ pos + 1 < N
          /\ got' = [got EXCEPT ![pos] = answer]
          /\ pos' = pos + 1
          /\ pc' = "call"
          /\ answer' = NoAns
          /\ UNCHANGED <<op, out>>
    /\ UNCHANGED <<route, up, data, net, crashes>>

\* The keys of shard s, or the error of response_end when they do not fit.
do_keys(s) ==
    LET keys == {k \in Key : data[s][k] # Null}
    IN  IF keys \in TooBig THEN Body("too big", Null) ELSE Body("none", keys)

\* Mutant: serves any key the proxy sends.
Misplaced_Never(s, o) == FALSE

\* The shard's own test of the key.
Misplaced(s, o) == N > 1 /\ o.cmd \in Keyed /\ shard_for_key(o.key) # s

\* on_request of the shard that call c went to; nobody reads the response
\* of a call that was given up.
Serve(c) ==
    LET o    == c.op
        k    == o.key
        s    == c.to
        body == IF Misplaced(s, o) THEN Body("misplaced", Null)
                ELSE IF o.cmd = "keys" THEN do_keys(s)
                ELSE Body("none", IF o.cmd = "get" THEN data[s][k] ELSE Null)
        val  == CASE o.cmd = "set" -> o.id [] o.cmd = "del" -> Null [] OTHER -> data[s][k]
    IN  /\ c \in net /\ s \in up
        /\ net' = net \ {c}
        /\ answer' = IF pc = "wait" /\ op = o /\ route[pos] = s THEN body ELSE answer
        /\ data' = IF Misplaced(s, o) \/ o.cmd \notin Keyed THEN data
                   ELSE [data EXCEPT ![s][k] = val]
        /\ UNCHANGED <<route, up, pc, op, pos, got, out, crashes>>

\* The shard closes the connection as idle with the request unread.
Reap(c) ==
    /\ c \in net
    /\ net' = net \ {c}
    /\ UNCHANGED <<route, up, data, pc, op, pos, got, answer, out, crashes>>

\* process_timers of shard s drops a key with a deadline.
Expire(s, k) ==
    /\ s \in up /\ data[s][k] # Null
    /\ data' = [data EXCEPT ![s][k] = Null]
    /\ UNCHANGED <<route, up, net, pc, op, pos, got, answer, out, crashes>>

Crash(s) ==
    /\ s \in up /\ crashes < MaxCrash
    /\ crashes' = crashes + 1
    /\ up' = up \ {s}
    /\ data' = [data EXCEPT ![s] = [k \in Key |-> Null]]
    /\ net' = {c \in net : c.to # s}
    /\ UNCHANGED <<route, pc, op, pos, got, answer, out>>

Restart(s) ==
    /\ s \in Shard \ up
    /\ up' = up \cup {s}
    /\ UNCHANGED <<route, data, net, pc, op, pos, got, answer, out, crashes>>

Proxy == Send \/ tcp_rpc_fails \/ Receive

Step ==
    \/ \E c \in Cmd, k \in Key : on_request(c, k)
    \/ Proxy
    \/ \E c \in net : Serve(c) \/ Reap(c)
    \/ \E s \in Shard : Crash(s) \/ Restart(s) \/ \E k \in Volatile : Expire(s, k)

\* The history of a keys request, from its arrival on.
Track ==
    /\ always' = IF op'.cmd # "keys" THEN {} ELSE IF op = op' THEN always \cap Present' ELSE Present'
    /\ ever' = IF op'.cmd # "keys" THEN {} ELSE ever \cup Present'

Next == Step /\ Track

Spec == Init /\ [][Next]_vars

\* The proxy's thread runs, and its timeouts fire.
FairSpec == Spec /\ WF_vars(Next /\ Proxy)
-----------------------------------------------------------------------------
\* A key is held by no shard but its own, in whatever order the proxy lists
\* the shards: the shard itself refuses a key that is not its own.
KeyPlacement ==
    \A s \in Shard, k \in Key : data[s][k] # Null => s = shard_for_key(k)

(***************************************************************************)
(* What a successful keys returns, gathered shard by shard while keys      *)
(* expire, shards restart and late calls arrive: every key that was there  *)
(* all along and no key that never was there.  If one shard did not answer *)
(* or its answer is no array the request fails as a whole.                 *)
(***************************************************************************)
KeysBracketed ==
    [][op.cmd = "keys" /\ op' = Idle /\ out'.err = "none"
          => always \subseteq out'.val /\ out'.val \subseteq ever]_vars

AbsData == [k \in Key |-> data[shard_for_key(k)][k]]
Parts   == {{k \in Key : shard_for_key(k) = s} : s \in Shard}

\* A response in the socket has taken effect; a call given up on still may.
Eff  == IF op.cmd \in Keyed /\ answer.err = "none" THEN answer ELSE NoAns
Lost == {o \in {c.op : c \in net} : o.cmd \in Keyed /\ o # op}

Abs == INSTANCE AtomicStore WITH data <- AbsData, Part <- Parts, eff <- Eff, lost <- Lost

(***************************************************************************)
(* The cluster implements AtomicStore: every keyed request is executed at  *)
(* most once, and if it was answered without an error exactly once between *)
(* its arrival and its answer, whose value is the one it met; timeouts,    *)
(* late execution and crashes included.                                    *)
(***************************************************************************)
ImplementsAtomicStore == Abs!Spec

\* The proxy answers every request it takes up, although shards are down,
\* slow or silent: the thread that serves all clients never hangs.
RequestEnds == pc # "idle" ~> pc = "idle"
=============================================================================
