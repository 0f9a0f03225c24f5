------------------------------ MODULE KVStore ------------------------------
(***************************************************************************)
(* The storage engine of one node (src/kv_store.cpp): Entry objects owned  *)
(* by the table, a timer heap that points back into them, commands run one *)
(* at a time by the event loop, and worker threads that free large sorted  *)
(* sets after the command that removed them has returned.                  *)
(*                                                                         *)
(* Abstractions.  The HMap is the map from keys to entries it implements;  *)
(* the heap array is the set of its items, of which any one with the least *)
(* val may be at the root (module Heap); a ZSet is a SortedSet.  A decimal *)
(* string is the integer it spells, any other string an element of Text.   *)
(* Deadlines do not wrap: the clock and every ttl are below 2^63 and their *)
(* sum is a uint64_t.                                                      *)
(***************************************************************************)
EXTENDS SortedSet, Sequences

CONSTANTS
    Key, Member, Worker,
    Addr,               \* addresses malloc can return for an Entry (a bound)
    Text,               \* strings that neither str2int nor str2dbl accepts
    MinInt, MaxInt,     \* the range of int64_t
    SetArg, TtlArg, ScoreArg, QueryArg,     \* arguments the clients send
    MaxWorks,           \* k_max_works
    LargeSize,          \* k_large_container_size
    MaxClock,           \* bound on the clock
    Null

Int64 == MinInt .. MaxInt
Str   == Text \cup Int64

ASSUME StoreAssumption ==
    /\ Null \notin Key \cup Addr \cup Str
    /\ MinInt \in Int /\ MaxInt \in Int /\ MinInt <= 0 /\ 1 <= MaxInt
    /\ Text \cap Int = {}
    /\ SetArg \subseteq Str /\ TtlArg \subseteq Str
    /\ ScoreArg \subseteq Text \cup Int
    /\ Member \subseteq Nat
    /\ MaxWorks \in Nat /\ LargeSize \in Nat /\ MaxClock \in Nat

VARIABLES
    clock,      \* CLOCK_MONOTONIC, in ms
    pc,         \* the event loop: idle, expire (the loop that begins execute),
                \* run (the command proper), timers (on_timer), stopping, gone
    now,        \* the clock as execute or on_timer sampled it; 0 outside them
    works,      \* nworks, in process_timers
    mem,        \* the Entry at each address; type "free" when not allocated
    db,         \* the table: the address of each key's entry
    heap,       \* the timer heap's items
    queue,      \* the pool's queue of entries to free
    busy,       \* the entry each worker is freeing
    reply       \* the response buffer of the last command

vars == <<clock, pc, now, works, mem, db, heap, queue, busy, reply>>

Blank == [key |-> Null, type |-> "free", str |-> Null, zset |-> EmptyZSet,
          timed |-> FALSE]

(***************************************************************************)
(* Entry's field heap_idx is abstracted to timed: it is -1 exactly when    *)
(* timed is FALSE.                                                         *)
(***************************************************************************)
Allocated(e) == mem[e].type # "free"
Live(k)      == db[k] # Null
Ent(k)       == mem[db[k]]
IsType(k, t) == Live(k) /\ Ent(k).type = t
Large(e)     == mem[e].type = "zset" /\ Cardinality(DOMAIN mem[e].zset) > LargeSize

Init ==
    /\ clock = 0
    /\ pc = "idle"
    /\ now = 0 /\ works = 0
    /\ mem = [e \in Addr |-> Blank]
    /\ db = [k \in Key |-> Null]
    /\ heap = {}
    /\ queue = <<>>
    /\ busy = [w \in Worker |-> Null]
    /\ reply = <<>>

-----------------------------------------------------------------------------
(***************************************************************************)
(* Internal operations.                                                    *)
(***************************************************************************)

\* entry_set_ttl(ent, -1): delete the item heap_idx designates, if any.
TimersWithout(e) == {it \in heap : ~(it.ref = e /\ mem[e].timed)}

\* entry_set_ttl(ent, ttl) for ttl >= 0: heap_upsert at heap_idx.
TimersWith(e, ttl) == TimersWithout(e) \cup {[val |-> clock + ttl, ref |-> e]}

\* The timer goes first; then a large set is handed to the pool, if the pool
\* has threads, and anything else is freed here.
entry_del(e) ==
    /\ heap' = TimersWithout(e)
    /\ \/ /\ Large(e) /\ Worker # {}
          /\ queue' = Append(queue, e)
          /\ mem' = [mem EXCEPT ![e].timed = FALSE]
       \/ /\ ~(Large(e) /\ Worker # {})
          /\ mem' = [mem EXCEPT ![e] = Blank]
          /\ UNCHANGED queue

\* Mutant: the entry is disposed of but stays in the table.
Remove_StaysLinked(e) == entry_del(e) /\ UNCHANGED db

\* hm_delete, then entry_del.
Remove(e) ==
    /\ db' = [k \in Key |-> IF db[k] = e THEN Null ELSE db[k]]
    /\ entry_del(e)

\* entry_new and hm_insert: malloc returns any free address.
Create(k, t, v, z) ==
    \E e \in Addr :
        /\ ~Allocated(e)
        /\ mem' = [mem EXCEPT ![e] = [Blank EXCEPT !.key = k, !.type = t,
                                                   !.str = v, !.zset = z]]
        /\ db' = [db EXCEPT ![k] = e]

Due(t) == {it \in heap : it.val <= t}

Tick ==
    /\ pc \notin {"stopping", "gone"} /\ clock < MaxClock
    /\ clock' = clock + 1
    /\ UNCHANGED <<pc, now, works, mem, db, heap, queue, busy, reply>>

\* Mutant: expiry is left to execute alone.
on_timer_Unused == FALSE /\ UNCHANGED vars

\* The event loop calls on_timer with a fresh sample of the clock.
on_timer ==
    /\ pc = "idle" /\ Due(clock) # {}
    /\ pc' = "timers" /\ now' = clock /\ works' = 0
    /\ UNCHANGED <<clock, mem, db, heap, queue, busy, reply>>

\* execute samples the clock and starts a response; its expiry loop is not
\* entered when nothing is due at the sample.
execute ==
    /\ pc = "idle"
    /\ pc' = IF Due(clock) # {} THEN "expire" ELSE "run"
    /\ now' = clock /\ works' = 0
    /\ reply' = <<>>
    /\ UNCHANGED <<clock, mem, db, heap, queue, busy>>

\* The item at the root of the heap is one with the least deadline.
Roots == {it \in heap : \A x \in heap : it.val <= x.val}

\* Mutant: execute calls process_timers once, not until nothing is due.
process_timers_OneBatch ==
    /\ pc \in {"expire", "timers"}
    /\ \E it \in Roots : it.val <= now /\ Remove(it.ref)
    /\ LET again == {it \in heap' : it.val <= now} # {} /\ works < MaxWorks
       IN  /\ pc' = IF again THEN pc ELSE IF pc = "expire" THEN "run" ELSE "idle"
           /\ works' = IF again THEN works + 1 ELSE 0
    /\ now' = IF pc' = "idle" THEN 0 ELSE now
    /\ UNCHANGED <<clock, busy, reply>>

\* One round of the loop in process_timers, with the tests that follow it: a
\* call ends when nothing is due at the sample or after k_max_works + 1
\* entries; on_timer makes one call, execute calls again while entries are due.
process_timers ==
    /\ pc \in {"expire", "timers"}
    /\ \E it \in Roots : it.val <= now /\ Remove(it.ref)
    /\ LET more == {it \in heap' : it.val <= now} # {}
           full == works >= MaxWorks
       IN  /\ pc' = IF more /\ (pc = "expire" \/ ~full) THEN pc
                    ELSE IF pc = "expire" THEN "run" ELSE "idle"
           /\ works' = IF more /\ ~full THEN works + 1 ELSE 0
    /\ now' = IF pc' = "idle" THEN 0 ELSE now
    /\ UNCHANGED <<clock, busy, reply>>

-----------------------------------------------------------------------------
(***************************************************************************)
(* Commands.  Each ends execute with one response.                         *)
(***************************************************************************)
Return(r) ==
    /\ pc = "run"
    /\ pc' = "idle"
    /\ reply' = r
    /\ now' = 0
    /\ UNCHANGED <<clock, works, busy>>

Query(r) == Return(r) /\ UNCHANGED <<mem, db, heap, queue>>

Err(c) == <<"err", c>>
One(b) == <<"int", IF b THEN 1 ELSE 0>>

ping == Query(<<"status", "PONG">>)

unknown == Query(Err("UNKNOWN"))

exists(k) == Query(One(Live(k)))

type(k) == Query(<<"status", IF Live(k) THEN Ent(k).type ELSE "none">>)

do_get(k) ==
    Query(IF ~Live(k) THEN <<"nil", Null>>
          ELSE IF Ent(k).type # "str" THEN Err("BAD_TYP")
          ELSE <<"str", Ent(k).str>>)

do_keys == Query(<<"arr", {k \in Key : Live(k)}>>)

\* heap[heap_idx].val: the deadline of an entry whose heap_idx is not -1.
ExpireAt(e) == (CHOOSE it \in heap : it.ref = e).val

\* Reads the clock again: it may have passed the deadline since the sample.
do_ttl(k) ==
    Query(<<"int", IF ~Live(k) THEN -2
                   ELSE IF ~Ent(k).timed THEN -1
                   ELSE IF ExpireAt(db[k]) > clock THEN ExpireAt(db[k]) - clock
                   ELSE 0>>)

\* Mutant: overwriting a string keeps its deadline.
do_set_KeepsTimer(k, v) ==
    /\ IsType(k, "str")
    /\ mem' = [mem EXCEPT ![db[k]].str = v]
    /\ Return(<<"status", "OK">>)
    /\ UNCHANGED <<db, heap, queue>>

do_set(k, v) ==
    \/ /\ IsType(k, "zset")
       /\ Query(Err("BAD_TYP"))
    \/ /\ IsType(k, "str")
       /\ mem' = [mem EXCEPT ![db[k]].str = v, ![db[k]].timed = FALSE]
       /\ heap' = TimersWithout(db[k])
       /\ Return(<<"status", "OK">>)
       /\ UNCHANGED <<db, queue>>
    \/ /\ ~Live(k)
       /\ Create(k, "str", v, EmptyZSet)
       /\ Return(<<"status", "OK">>)
       /\ UNCHANGED <<heap, queue>>

do_del(k) ==
    \/ /\ Live(k)
       /\ Remove(db[k])
       /\ Return(One(TRUE))
    \/ /\ ~Live(k)
       /\ Query(One(FALSE))

\* Mutant: a ttl that is not positive frees the entry, hm_delete is forgotten.
do_expire_NoUnlink(k, a) ==
    /\ a \in Int64 /\ a <= 0 /\ Live(k)
    /\ entry_del(db[k])
    /\ Return(One(TRUE))
    /\ UNCHANGED db

do_expire(k, a) ==
    \/ /\ a \notin Int64
       /\ Query(Err("BAD_ARG"))
    \/ /\ a \in Int64 /\ ~Live(k)
       /\ Query(One(FALSE))
    \/ /\ a \in Int64 /\ a <= 0 /\ Live(k)
       /\ Remove(db[k])
       /\ Return(One(TRUE))
    \/ /\ a \in Int64 /\ a > 0 /\ Live(k)
       /\ heap' = TimersWith(db[k], a)
       /\ mem' = [mem EXCEPT ![db[k]].timed = TRUE]
       /\ Return(One(TRUE))
       /\ UNCHANGED <<db, queue>>

\* Mutant: the item is deleted, heap_idx is not reset.
persist_StaleIndex(k) ==
    /\ Live(k) /\ Ent(k).timed
    /\ heap' = TimersWithout(db[k])
    /\ Return(One(TRUE))
    /\ UNCHANGED <<mem, db, queue>>

persist(k) ==
    \/ /\ Live(k) /\ Ent(k).timed
       /\ heap' = TimersWithout(db[k])
       /\ mem' = [mem EXCEPT ![db[k]].timed = FALSE]
       /\ Return(One(TRUE))
       /\ UNCHANGED <<db, queue>>
    \/ /\ ~(Live(k) /\ Ent(k).timed)
       /\ Query(One(FALSE))

\* Mutant: no overflow test.
incr_Overflows(k) ==
    /\ IsType(k, "str") /\ Ent(k).str \in Int64
    /\ mem' = [mem EXCEPT ![db[k]].str = @ + 1]
    /\ Return(<<"int", Ent(k).str + 1>>)
    /\ UNCHANGED <<db, heap, queue>>

incr(k) ==
    \/ /\ IsType(k, "zset")
       /\ Query(Err("BAD_TYP"))
    \/ /\ IsType(k, "str") /\ Ent(k).str \notin Int64 \ {MaxInt}
       /\ Query(Err("BAD_ARG"))
    \/ /\ IsType(k, "str") /\ Ent(k).str \in Int64 \ {MaxInt}
       /\ mem' = [mem EXCEPT ![db[k]].str = @ + 1]
       /\ Return(<<"int", Ent(k).str + 1>>)
       /\ UNCHANGED <<db, heap, queue>>
    \/ /\ ~Live(k)
       /\ Create(k, "str", 1, EmptyZSet)
       /\ Return(<<"int", 1>>)
       /\ UNCHANGED <<heap, queue>>

do_zadd(k, s, m) ==
    \/ /\ s \in Text
       /\ Query(Err("BAD_ARG"))
    \/ /\ s \notin Text /\ IsType(k, "str")
       /\ Query(Err("BAD_TYP"))
    \/ /\ s \notin Text /\ IsType(k, "zset")
       /\ mem' = [mem EXCEPT ![db[k]].zset = zset_insert(@, m, s)]
       /\ Return(One(m \notin DOMAIN Ent(k).zset))
       /\ UNCHANGED <<db, heap, queue>>
    \/ /\ s \notin Text /\ ~Live(k)
       /\ Create(k, "zset", Null, zset_insert(EmptyZSet, m, s))
       /\ Return(One(TRUE))
       /\ UNCHANGED <<heap, queue>>

\* The set a read of key k works on: k_empty_zset when there is no such key.
expect_zset(k) == IF Live(k) THEN Ent(k).zset ELSE EmptyZSet

\* The entry stays when its last member goes.
do_zrem(k, m) ==
    \/ /\ IsType(k, "str")
       /\ Query(Err("BAD_TYP"))
    \/ /\ ~IsType(k, "str") /\ m \in DOMAIN expect_zset(k)
       /\ mem' = [mem EXCEPT ![db[k]].zset = zset_delete(@, m)]
       /\ Return(One(TRUE))
       /\ UNCHANGED <<db, heap, queue>>
    \/ /\ ~IsType(k, "str") /\ m \notin DOMAIN expect_zset(k)
       /\ Query(One(FALSE))

do_zscore(k, m) ==
    Query(IF IsType(k, "str") THEN Err("BAD_TYP")
          ELSE IF m \in DOMAIN expect_zset(k) THEN <<"dbl", expect_zset(k)[m]>>
          ELSE <<"nil", Null>>)

\* a = <<score, name, offset, limit>>.  The numbers are parsed before the
\* key is looked up.
do_zquery(k, a) ==
    Query(IF \E i \in DOMAIN a : a[i] \in Text THEN Err("BAD_ARG")
          ELSE IF IsType(k, "str") THEN Err("BAD_TYP")
          ELSE <<"pairs", zquery(expect_zset(k), <<a[1], a[2]>>, a[3], a[4])>>)

Command ==
    \/ ping \/ unknown \/ do_keys
    \/ \E k \in Key :
          \/ do_get(k) \/ exists(k) \/ type(k) \/ do_ttl(k)
          \/ do_del(k) \/ persist(k) \/ incr(k)
          \/ \E v \in SetArg : do_set(k, v)
          \/ \E a \in TtlArg : do_expire(k, a)
          \/ \E m \in Member : do_zrem(k, m) \/ do_zscore(k, m)
          \/ \E m \in Member, s \in ScoreArg : do_zadd(k, s, m)
          \/ \E a \in QueryArg : do_zquery(k, a)

-----------------------------------------------------------------------------
(***************************************************************************)
(* The pool's threads, and the end of the process.                         *)
(***************************************************************************)

\* A worker pops the queue.
Take(w) ==
    /\ busy[w] = Null /\ queue # <<>>
    /\ busy' = [busy EXCEPT ![w] = Head(queue)]
    /\ queue' = Tail(queue)
    /\ UNCHANGED <<clock, pc, now, works, mem, db, heap, reply>>

\* entry_del_func: the worker frees the entry.
entry_del_func(w) ==
    /\ busy[w] # Null
    /\ mem' = [mem EXCEPT ![busy[w]] = Blank]
    /\ busy' = [busy EXCEPT ![w] = Null]
    /\ UNCHANGED <<clock, pc, now, works, db, heap, queue, reply>>

\* run_tcp_server has returned and ~Impl begins: thread_pool_destroy tells
\* the workers to stop, which they do once the queue is empty.
Stop ==
    /\ pc = "idle"
    /\ pc' = "stopping"
    /\ UNCHANGED <<clock, now, works, mem, db, heap, queue, busy, reply>>

\* Mutant: the workers are not joined.
Destroy_NoJoin ==
    /\ pc = "stopping"
    /\ pc' = "gone"
    /\ mem' = [e \in Addr |-> IF \E k \in Key : db[k] = e THEN Blank ELSE mem[e]]
    /\ db' = [k \in Key |-> Null]
    /\ heap' = {}
    /\ UNCHANGED <<clock, now, works, queue, busy, reply>>

\* The workers are joined; ~Impl frees the entries still in the table.
Destroy ==
    /\ pc = "stopping"
    /\ queue = <<>> /\ \A w \in Worker : busy[w] = Null
    /\ pc' = "gone"
    /\ mem' = [e \in Addr |-> IF \E k \in Key : db[k] = e THEN Blank ELSE mem[e]]
    /\ db' = [k \in Key |-> Null]
    /\ heap' = {}
    /\ UNCHANGED <<clock, now, works, queue, busy, reply>>

Terminated == pc = "gone" /\ UNCHANGED vars

Next ==
    \/ Tick \/ on_timer \/ execute \/ process_timers \/ Command
    \/ \E w \in Worker : Take(w) \/ entry_del_func(w)
    \/ Stop \/ Destroy \/ Terminated

(***************************************************************************)
(* The event loop finishes a command it has begun, runs on_timer in every  *)
(* round (poll waits at most a second) and completes ~Impl; the scheduler  *)
(* lets every worker run.  No client has to send anything.                 *)
(***************************************************************************)
Fairness ==
    /\ WF_vars(on_timer)
    /\ WF_vars(process_timers)
    /\ WF_vars(Command)
    /\ WF_vars(Destroy)
    /\ \A w \in Worker : WF_vars(Take(w)) /\ WF_vars(entry_del_func(w))

Spec == Init /\ [][Next]_vars

FairSpec == Spec /\ Fairness

-----------------------------------------------------------------------------
(***************************************************************************)
(* Properties.                                                             *)
(***************************************************************************)
Score == ScoreArg \ Text

ZSets == UNION {[S -> Score] : S \in SUBSET Member}

EntryType ==
    [key : Key \cup {Null}, type : {"free", "str", "zset"}, str : Str \cup {Null},
     zset : ZSets, timed : BOOLEAN]

\* The values the engine's variables range over.
TypeOK ==
    /\ clock \in Nat /\ now \in Nat /\ works \in Nat
    /\ pc \in {"idle", "expire", "run", "timers", "stopping", "gone"}
    /\ mem \in [Addr -> EntryType]
    /\ db \in [Key -> Addr \cup {Null}]
    /\ heap \subseteq [val : Nat, ref : Addr]
    /\ queue \in Seq(Addr)
    /\ busy \in [Worker -> Addr \cup {Null}]

Queued(e)  == \E i \in DOMAIN queue : queue[i] = e
InTable(e) == \E k \in Key : db[k] = e
Freeing(e) == \E w \in Worker : busy[w] = e

TableOwns == \A k \in Key : Live(k) => Allocated(db[k]) /\ Ent(k).key = k

QueueOwns ==
    /\ \A e \in Addr : Queued(e) => Allocated(e) /\ ~InTable(e) /\ ~Freeing(e)
    /\ \A i, j \in DOMAIN queue : queue[i] = queue[j] => i = j

WorkersOwn ==
    /\ \A w \in Worker : busy[w] # Null => Allocated(busy[w]) /\ ~InTable(busy[w])
    /\ \A v, w \in Worker : busy[v] = busy[w] /\ busy[v] # Null => v = w

NoneLost == \A e \in Addr : Allocated(e) => InTable(e) \/ Queued(e) \/ Freeing(e)

\* Every allocated Entry has exactly one owner: the table, under the entry's
\* own key, the pool's queue, or one worker; and no owner holds a freed one.
\* So entry_del_sync never runs twice on an entry and none is lost.
EntryOwnership == TableOwns /\ QueueOwns /\ WorkersOwn /\ NoneLost

\* heap_idx and the heap agree: an entry believes it is timed iff exactly one
\* item refers to it, and every item refers to an entry of the table, as the
\* assert in process_timers demands after hm_delete.
TimerConsistency ==
    /\ \A it \in heap : mem[it.ref].timed /\ InTable(it.ref)
    /\ \A x, y \in heap : x.ref = y.ref => x = y
    /\ \A e \in Addr : mem[e].timed => \E it \in heap : it.ref = e

\* A command proper runs only when every deadline left in the heap is later
\* than execute's sample, however many batches of process_timers that took.
NoExpiredVisible == pc = "run" => \A it \in heap : it.val > now

\* Once ~Impl has returned no Entry is still allocated, however the shutdown
\* interleaves with deletions that were handed to the pool.
NoLeakAtExit == pc = "gone" => \A e \in Addr : ~Allocated(e)

\* After entry_del has handed an entry to the pool nothing writes to it, and
\* only the worker that popped it frees it: entry_del_func runs without a lock.
DisposedUntouched ==
    [][\A e \in Addr : (Queued(e) \/ Freeing(e)) /\ mem'[e] # mem[e]
          => \E w \in Worker : busy[w] = e /\ busy'[w] = Null]_vars

(***************************************************************************)
(* The engine implements the abstract Store: entries, timers and deferred  *)
(* deletion are invisible in what the commands reply and keep.             *)
(***************************************************************************)
Closed == pc \in {"stopping", "gone"}
Absent == [type |-> "none", str |-> Null, zset |-> EmptyZSet, exp |-> -1]

AbsPc == CASE Closed -> "closed" [] pc = "expire" -> "run" [] pc = "timers" -> "idle"
           [] OTHER -> pc

\* An entry execute is about to expire is gone for the caller already.
Doomed(k) == pc = "expire" /\ Ent(k).timed /\ ExpireAt(db[k]) <= now

AbsData ==
    [k \in Key |->
        IF Closed \/ ~Live(k) \/ Doomed(k) THEN Absent
        ELSE [type |-> Ent(k).type, str |-> Ent(k).str, zset |-> Ent(k).zset,
              exp |-> IF Ent(k).timed THEN ExpireAt(db[k]) ELSE -1]]

Abs == INSTANCE Store WITH pc <- AbsPc, data <- AbsData

\* Every reply and every change of the keyspace is one the Store allows.
ImplementsStore == Abs!Spec

\* A key whose deadline has passed is removed although no command names it
\* again, even when more keys are due than one batch of process_timers takes.
DueEntriesExpire ==
    \A e \in Addr : (\E it \in Due(clock) : it.ref = e) /\ ~Closed
                     ~> (\A it \in Due(clock) : it.ref # e) \/ Closed
=============================================================================
