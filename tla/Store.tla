------------------------------- MODULE Store -------------------------------
(***************************************************************************)
(* What KVStore promises its callers, with no entry objects, no timer heap *)
(* and no worker threads: a map from keys to values with an optional       *)
(* deadline, one command at a time, and the reply each command gives.      *)
(* A command first drops every key whose deadline has passed and then      *)
(* acts; while it runs the clock may move on.  Between commands any due    *)
(* key may disappear.  KVStore is shown to implement this specification.   *)
(***************************************************************************)
EXTENDS SortedSet

CONSTANTS Key, Text, MinInt, MaxInt, SetArg, TtlArg, ScoreArg, Member,
          QueryArg, MaxClock, Null

VARIABLES clock, pc, data, reply
vars == <<clock, pc, data, reply>>

Int64  == MinInt .. MaxInt
Never  == -1
Absent == [type |-> "none", str |-> Null, zset |-> EmptyZSet, exp |-> Never]

String(v, x) == [type |-> "str", str |-> v, zset |-> EmptyZSet, exp |-> x]
Sorted(z, x) == [type |-> "zset", str |-> Null, zset |-> z, exp |-> x]

IsType(k, t) == data[k].type = t
Due(k)       == data[k].exp # Never /\ data[k].exp <= clock
Empty        == [k \in Key |-> Absent]
Drop(S)      == [k \in Key |-> IF k \in S THEN Absent ELSE data[k]]

Init ==
    /\ clock = 0
    /\ pc = "idle"
    /\ data = Empty
    /\ reply = <<>>

Tick ==
    /\ pc \in {"idle", "run"} /\ clock < MaxClock
    /\ clock' = clock + 1
    /\ UNCHANGED <<pc, data, reply>>

Begin ==
    /\ pc = "idle"
    /\ pc' = "run"
    /\ data' = Drop({k \in Key : Due(k)})
    /\ reply' = <<>>
    /\ UNCHANGED clock

Expire ==
    /\ pc = "idle"
    /\ \E S \in SUBSET {k \in Key : Due(k)} : data' = Drop(S)
    /\ UNCHANGED <<clock, pc, reply>>

\* Process exit: the data is held in memory only.
Close ==
    /\ pc = "idle"
    /\ pc' = "closed"
    /\ data' = Empty
    /\ UNCHANGED <<clock, reply>>

Return(r) == pc = "run" /\ pc' = "idle" /\ reply' = r /\ UNCHANGED clock
Query(r)  == Return(r) /\ UNCHANGED data
Put(k, d) == data' = [data EXCEPT ![k] = d]
Err(c)    == <<"err", c>>
One(b)    == <<"int", IF b THEN 1 ELSE 0>>

ping == Query(<<"status", "PONG">>)
unknown == Query(Err("UNKNOWN"))

get(k) ==
    Query(CASE IsType(k, "none") -> <<"nil", Null>>
            [] IsType(k, "zset") -> Err("BAD_TYP")
            [] OTHER             -> <<"str", data[k].str>>)

exists(k) == Query(One(~IsType(k, "none")))
type(k)   == Query(<<"status", data[k].type>>)
keys      == Query(<<"arr", {k \in Key : ~IsType(k, "none")}>>)

pttl(k) ==
    Query(<<"int", IF IsType(k, "none") THEN -2
                   ELSE IF data[k].exp = Never THEN -1
                   ELSE IF data[k].exp > clock THEN data[k].exp - clock
                   ELSE 0>>)

\* Replaces a string and forgets its deadline; refuses a sorted set.
set(k, v) ==
    \/ IsType(k, "zset") /\ Query(Err("BAD_TYP"))
    \/ ~IsType(k, "zset") /\ Put(k, String(v, Never)) /\ Return(<<"status", "OK">>)

del(k) == Put(k, Absent) /\ Return(One(~IsType(k, "none")))

\* A deadline counts from the moment the command runs; a duration that is
\* not positive deletes the key.
pexpire(k, a) ==
    \/ a \notin Int64 /\ Query(Err("BAD_ARG"))
    \/ /\ a \in Int64
       /\ IF IsType(k, "none") THEN Put(k, Absent)
          ELSE IF a <= 0 THEN Put(k, Absent)
          ELSE Put(k, [data[k] EXCEPT !.exp = clock + a])
       /\ Return(One(~IsType(k, "none")))

persist(k) ==
    /\ Put(k, [data[k] EXCEPT !.exp = Never])
    /\ Return(One(data[k].exp # Never))

\* Keeps the deadline, never wraps around.
incr(k) ==
    \/ IsType(k, "zset") /\ Query(Err("BAD_TYP"))
    \/ IsType(k, "str") /\ data[k].str \notin Int64 \ {MaxInt} /\ Query(Err("BAD_ARG"))
    \/ LET n == IF IsType(k, "none") THEN 1 ELSE data[k].str + 1
       IN  /\ ~IsType(k, "zset")
           /\ IsType(k, "str") => data[k].str \in Int64 \ {MaxInt}
           /\ Put(k, String(n, data[k].exp))
           /\ Return(<<"int", n>>)

zadd(k, s, m) ==
    \/ s \in Text /\ Query(Err("BAD_ARG"))
    \/ s \notin Text /\ IsType(k, "str") /\ Query(Err("BAD_TYP"))
    \/ /\ s \notin Text /\ ~IsType(k, "str")
       /\ Put(k, Sorted(zset_insert(data[k].zset, m, s), data[k].exp))
       /\ Return(One(m \notin DOMAIN data[k].zset))

\* Removing the last member leaves an empty sorted set behind.
zrem(k, m) ==
    \/ IsType(k, "str") /\ Query(Err("BAD_TYP"))
    \/ /\ ~IsType(k, "str")
       /\ Put(k, [data[k] EXCEPT !.zset = zset_delete(@, m)])
       /\ Return(One(m \in DOMAIN data[k].zset))

zscore(k, m) ==
    Query(IF IsType(k, "str") THEN Err("BAD_TYP")
          ELSE IF m \in DOMAIN data[k].zset THEN <<"dbl", data[k].zset[m]>>
          ELSE <<"nil", Null>>)

zquery_cmd(k, a) ==
    Query(IF \E i \in DOMAIN a : a[i] \in Text THEN Err("BAD_ARG")
          ELSE IF IsType(k, "str") THEN Err("BAD_TYP")
          ELSE <<"pairs", zquery(data[k].zset, <<a[1], a[2]>>, a[3], a[4])>>)

Command ==
    \/ ping \/ unknown \/ keys
    \/ \E k \in Key :
          \/ get(k) \/ exists(k) \/ type(k) \/ pttl(k)
          \/ del(k) \/ persist(k) \/ incr(k)
          \/ \E v \in SetArg : set(k, v)
          \/ \E a \in TtlArg : pexpire(k, a)
          \/ \E m \in Member : zrem(k, m) \/ zscore(k, m)
          \/ \E m \in Member, s \in ScoreArg : zadd(k, s, m)
          \/ \E a \in QueryArg : zquery_cmd(k, a)

Next == Tick \/ Begin \/ Expire \/ Close \/ Command

Spec == Init /\ [][Next]_vars
=============================================================================
