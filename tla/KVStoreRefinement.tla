------------------------- MODULE KVStoreRefinement -------------------------
(***************************************************************************)
(* KVStore implements Store: entries at addresses, the timer heap, expiry  *)
(* in batches and deletion by other threads are invisible to the callers.  *)
(***************************************************************************)
EXTENDS KVStoreProofs

\* An entry has nothing in the fields of the other type.
Plain(r) ==
    /\ r.type = "str" => r.zset = EmptyZSet
    /\ r.type = "zset" => r.str = Null

Canonical == \A e \in Addr : Plain(mem[e])

\* The clock is not behind the sample.
RInv == IInv /\ Canonical /\ now <= clock

\* The deadline of a key's entry, in the Store's form.
Expiry(k) == IF Ent(k).timed THEN ExpireAt(db[k]) ELSE -1

\* What the callers know of a key that execute is not about to expire.
Val(k) ==
    IF ~Live(k) THEN Absent
    ELSE [type |-> Ent(k).type, str |-> Ent(k).str, zset |-> Ent(k).zset,
          exp |-> Expiry(k)]
-----------------------------------------------------------------------------
\* The deadline found by way of heap_idx is that of the entry's only item.
LEMMA ChosenItem ==
    ASSUME NEW h, NEW it \in h, \A x, y \in h : x.ref = y.ref => x = y
    PROVE  (CHOOSE x \in h : x.ref = it.ref) = it
BY Zenon

\* What the invariant says of an entry in the table.
LEMMA LiveEntry ==
    ASSUME EntriesOK, NEW k \in Key, Live(k)
    PROVE  /\ db[k] \in Addr /\ InTable(db[k]) /\ Ent(k) = mem[db[k]]
           /\ Ent(k) \in EntryType /\ Ent(k).key = k /\ Ent(k).type \in {"str", "zset"}
           /\ Ent(k).timed => \E it \in heap : /\ it.ref = db[k] /\ it.val \in Nat
                                               /\ ExpireAt(db[k]) = it.val
<1>1. db[k] \in Addr /\ InTable(db[k])
  BY Zenon DEF EntriesOK, Live, InTable
<1>2. Ent(k) = mem[db[k]] /\ Ent(k) \in EntryType
  BY <1>1, Zenon DEF EntriesOK, Ent
<1>3. Ent(k).key = k /\ Ent(k).type # "free"
  BY Zenon DEF EntriesOK, EntryOwnership, TableOwns, Ent, Allocated
<1>4. Ent(k).type \in {"str", "zset"}
  BY <1>2, <1>3, Zenon DEF EntryType
<1>5. ASSUME Ent(k).timed
      PROVE  \E it \in heap : it.ref = db[k] /\ it.val \in Nat /\ ExpireAt(db[k]) = it.val
  <2>1. PICK it \in heap : it.ref = db[k]
    BY <1>1, <1>2, <1>5, Zenon DEF EntriesOK, TimerConsistency
  <2>2. (CHOOSE x \in heap : x.ref = it.ref) = it
    BY ChosenItem, Zenon DEF EntriesOK, TimerConsistency
  <2>3. it.val \in Nat
    BY Zenon DEF EntriesOK
  <2> QED
    BY <2>1, <2>2, <2>3, Zenon DEF ExpireAt
<1> QED
  BY <1>1, <1>2, <1>3, <1>4, <1>5, Zenon

\* Different keys have different entries.
LEMMA OwnEntry ==
    ASSUME EntriesOK, NEW j \in Key, NEW k \in Key, j # k, Live(k)
    PROVE  db[j] # db[k]
<1>1. Ent(k).key = k
  BY LiveEntry, Zenon
<1>2. Live(j) => Ent(j).key = j
  BY LiveEntry, Zenon
<1> QED
  BY <1>1, <1>2, Zenon DEF Live, Ent

\* A key keeps what is known of it when its entry and its item are left alone.
LEMMA SameVal ==
    ASSUME EntriesOK, EntriesOK', NEW k \in Key, db'[k] = db[k],
           Live(k) => mem'[db[k]] = mem[db[k]],
           \A it \in heap : it.ref = db[k] => it \in heap'
    PROVE  Val(k)' = Val(k)
<1>1. CASE ~Live(k)
  BY <1>1, Zenon DEF Val, Live, Absent
<1>2. CASE Live(k)
  <2>1. Live(k)' /\ Ent(k)' = Ent(k)
    BY <1>2, Zenon DEF Live, Ent
  <2>2. Ent(k).timed => ExpireAt(db[k])' = ExpireAt(db[k])
    <3>1. SUFFICES ASSUME Ent(k).timed PROVE ExpireAt(db[k])' = ExpireAt(db[k])
      BY Zenon
    <3>2. PICK it \in heap : it.ref = db[k] /\ ExpireAt(db[k]) = it.val
      BY <1>2, <3>1, LiveEntry, ZenonT(60)
    <3>3. it \in heap' /\ \A x, y \in heap' : x.ref = y.ref => x = y
      BY <3>2, Zenon DEF EntriesOK, TimerConsistency
    <3>4. (CHOOSE x \in heap' : x.ref = it.ref) = it
      BY <3>3, ChosenItem, Zenon
    <3> QED
      BY <3>2, <3>4, Zenon DEF ExpireAt
  <2> QED
    BY <1>2, <2>1, <2>2, Zenon DEF Val, Expiry
<1> QED
  BY <1>1, <1>2, Zenon

\* Unlinking and disposing of an entry makes its key absent and no other.
LEMMA RemoveVal ==
    ASSUME EntriesOK, NEW k \in Key, Live(k), Remove(db[k]), UNCHANGED busy
    PROVE  /\ EntriesOK' /\ ~Live(k)' /\ Val(k)' = Absent
           /\ \A j \in Key : j # k => Val(j)' = Val(j) /\ db'[j] = db[j]
           /\ heap' \subseteq heap
<1>1. db[k] \in Addr /\ InTable(db[k])
  BY LiveEntry, Zenon
<1>2. EntriesOK' /\ heap' \subseteq heap
  BY <1>1, RemoveKeeps, Zenon
<1>3. db' = [j \in Key |-> IF db[j] = db[k] THEN Null ELSE db[j]]
  BY Zenon DEF Remove
<1>4. ~Live(k)' /\ Val(k)' = Absent
  BY <1>3, Zenon DEF Live, Val, Absent
<1>5. /\ \A f \in Addr : f # db[k] => mem'[f] = mem[f]
      /\ \A it \in heap : it.ref # db[k] => it \in heap'
  <2>1. heap' = TimersWithout(db[k])
    BY Zenon DEF Remove, entry_del
  <2>2. mem' = [mem EXCEPT ![db[k]].timed = FALSE] \/ mem' = [mem EXCEPT ![db[k]] = Blank]
    BY Zenon DEF Remove, entry_del
  <2> QED
    BY <2>1, <2>2, Zenon DEF TimersWithout, EntriesOK
<1>6. ASSUME NEW j \in Key, j # k PROVE Val(j)' = Val(j) /\ db'[j] = db[j]
  <2>1. db[j] # db[k]
    BY <1>6, OwnEntry, Zenon
  <2>2. db'[j] = db[j]
    BY <1>3, <2>1, Zenon
  <2>3. Live(j) => db[j] \in Addr
    BY LiveEntry, Zenon
  <2>4. Val(j)' = Val(j)
    BY <1>2, <1>5, <2>1, <2>2, <2>3, SameVal, Zenon
  <2> QED
    BY <2>2, <2>4, Zenon
<1> QED
  BY <1>2, <1>4, <1>6, Zenon

\* entry_new and hm_insert give the key its first value and touch no other.
LEMMA CreateVal ==
    ASSUME EntriesOK, EntriesOK', NEW k \in Key, ~Live(k), NEW t, NEW v, NEW z,
           Create(k, t, v, z), UNCHANGED heap
    PROVE  /\ Val(k)' = [type |-> t, str |-> v, zset |-> z, exp |-> -1]
           /\ \A j \in Key : j # k => Val(j)' = Val(j)
<1>1. PICK e \in Addr :
        /\ ~Allocated(e)
        /\ mem' = [mem EXCEPT ![e] = [Blank EXCEPT !.key = k, !.type = t,
                                                   !.str = v, !.zset = z]]
        /\ db' = [db EXCEPT ![k] = e]
  BY Zenon DEF Create
<1>2. /\ mem'[e] = [Blank EXCEPT !.key = k, !.type = t, !.str = v, !.zset = z]
      /\ \A f \in Addr : f # e => mem'[f] = mem[f]
      /\ db'[k] = e /\ \A j \in Key : j # k => db'[j] = db[j]
  BY <1>1, Zenon DEF EntriesOK
<1>3. e # Null
  BY StoreAssumption, Zenon
<1>4. Val(k)' = [type |-> t, str |-> v, zset |-> z, exp |-> -1]
  BY <1>2, <1>3, Zenon DEF Val, Expiry, Live, Ent, Blank
<1>5. ASSUME NEW j \in Key, j # k PROVE Val(j)' = Val(j)
  <2>1. Live(j) => db[j] \in Addr /\ Ent(j).type # "free" /\ Ent(j) = mem[db[j]]
    BY LiveEntry, Zenon
  <2>2. Live(j) => mem'[db[j]] = mem[db[j]]
    BY <1>1, <1>2, <2>1, Zenon DEF Allocated
  <2> QED
    BY <1>2, <1>5, <2>2, SameVal, Zenon
<1> QED
  BY <1>4, <1>5, Zenon

\* A command that writes to the key's own entry, leaving it the deadline x.
LEMMA UpdateVal ==
    ASSUME EntriesOK, EntriesOK', NEW k \in Key, Live(k), UNCHANGED db,
           \A f \in Addr : f # db[k] => mem'[f] = mem[f],
           \A it \in heap : it.ref # db[k] => it \in heap',
           NEW x,
           mem'[db[k]].timed => \E it \in heap' : it.ref = db[k] /\ it.val = x,
           ~mem'[db[k]].timed => x = -1
    PROVE  /\ Val(k)' = [type |-> mem'[db[k]].type, str |-> mem'[db[k]].str,
                         zset |-> mem'[db[k]].zset, exp |-> x]
           /\ \A j \in Key : j # k => Val(j)' = Val(j)
<1>1. mem'[db[k]].timed => ExpireAt(db[k])' = x
  <2>1. SUFFICES ASSUME mem'[db[k]].timed PROVE ExpireAt(db[k])' = x
    BY Zenon
  <2>2. PICK it \in heap' : it.ref = db[k] /\ it.val = x
    BY <2>1, Zenon
  <2>3. \A a, b \in heap' : a.ref = b.ref => a = b
    BY Zenon DEF EntriesOK, TimerConsistency
  <2>4. (CHOOSE a \in heap' : a.ref = it.ref) = it
    BY <2>3, ChosenItem, Zenon
  <2> QED
    BY <2>2, <2>4, Zenon DEF ExpireAt
<1>2. Live(k)' /\ Ent(k)' = mem'[db[k]]
  BY Zenon DEF Live, Ent
<1>3. Val(k)' = [type |-> mem'[db[k]].type, str |-> mem'[db[k]].str,
                 zset |-> mem'[db[k]].zset, exp |-> x]
  BY <1>1, <1>2, Zenon DEF Val, Expiry
<1>4. ASSUME NEW j \in Key, j # k PROVE Val(j)' = Val(j)
  <2>1. db[j] # db[k]
    BY <1>4, OwnEntry, Zenon
  <2>2. Live(j) => db[j] \in Addr
    BY LiveEntry, Zenon
  <2> QED
    BY <2>1, <2>2, SameVal, Zenon
<1> QED
  BY <1>3, <1>4, Zenon
-----------------------------------------------------------------------------
(***************************************************************************)
(* The refinement mapping.                                                 *)
(***************************************************************************)

\* Outside execute's expiry loop and ~Impl the callers see every key's value.
LEMMA View ==
    /\ pc \in {"idle", "run", "timers"} => AbsData = [k \in Key |-> Val(k)]
    /\ (pc \in {"idle", "run", "timers"} => AbsData = [k \in Key |-> Val(k)])'
BY Zenon DEF AbsData, Val, Expiry, Closed, Doomed

\* The engine's control as the Store has it.
LEMMA Control ==
    /\ /\ pc \in {"idle", "timers"} => AbsPc = "idle"
       /\ pc \in {"run", "expire"} => AbsPc = "run"
       /\ pc \in {"stopping", "gone"} => AbsPc = "closed"
    /\ (/\ pc \in {"idle", "timers"} => AbsPc = "idle"
        /\ pc \in {"run", "expire"} => AbsPc = "run"
        /\ pc \in {"stopping", "gone"} => AbsPc = "closed")'
BY Zenon DEF AbsPc, Closed

\* What a command finds of its key, in the engine and in the Store.
LEMMA KeyView ==
    ASSUME EntriesOK, Canonical, pc = "run", NEW k \in Key
    PROVE  /\ ~Live(k) => AbsData[k] = Absent
           /\ Live(k) =>
                /\ AbsData[k] = [type |-> Ent(k).type, str |-> Ent(k).str,
                                 zset |-> Ent(k).zset, exp |-> Expiry(k)]
                /\ Ent(k).type \in {"str", "zset"}
                /\ Ent(k).type = "str" => Ent(k).zset = EmptyZSet
                /\ Ent(k).type = "zset" => Ent(k).str = Null
                /\ ~Ent(k).timed => Expiry(k) = -1
                /\ Ent(k).timed =>
                     /\ Expiry(k) = ExpireAt(db[k]) /\ Expiry(k) \in Nat
                     /\ \E it \in heap : it.ref = db[k] /\ it.val = Expiry(k)
<1>1. AbsData[k] = Val(k)
  BY View, Zenon
<1>2. Live(k) => Val(k) = [type |-> Ent(k).type, str |-> Ent(k).str,
                           zset |-> Ent(k).zset, exp |-> Expiry(k)]
  BY Zenon DEF Val
<1>3. ASSUME Live(k)
      PROVE  /\ Ent(k).type \in {"str", "zset"}
             /\ Ent(k).type = "str" => Ent(k).zset = EmptyZSet
             /\ Ent(k).type = "zset" => Ent(k).str = Null
  BY <1>3, LiveEntry DEF Canonical, Plain
<1>4. ASSUME Live(k), Ent(k).timed
      PROVE  /\ Expiry(k) = ExpireAt(db[k]) /\ Expiry(k) \in Nat
             /\ \E it \in heap : it.ref = db[k] /\ it.val = Expiry(k)
  BY <1>4, LiveEntry, ZenonT(60) DEF Expiry
<1>5. ~Ent(k).timed => Expiry(k) = -1
  BY Zenon DEF Expiry
<1>6. ~Live(k) => Val(k) = Absent
  BY Zenon DEF Val
<1> QED
  BY <1>1, <1>2, <1>3, <1>4, <1>5, <1>6, Zenon

\* A query returns in the Store too and changes nothing.
LEMMA QueryStep ==
    ASSUME NEW r, Query(r)
    PROVE  Abs!Query(r)
<1>1. pc = "run" /\ pc' = "idle" /\ reply' = r /\ UNCHANGED <<clock, mem, db, heap>>
  BY Zenon DEF Query, Return
<1>2. AbsPc = "run" /\ AbsPc' = "idle"
  BY <1>1, Control, Zenon
<1>3. \A k \in Key : Val(k)' = Val(k)
  BY <1>1, Zenon DEF Val, Expiry, Live, Ent, ExpireAt, Absent
<1>4. AbsData' = AbsData
  BY <1>1, <1>3, View, Zenon
<1> QED
  BY <1>1, <1>2, <1>4, Zenon DEF Abs!Query, Abs!Return

\* A command that changes one key is an update of that key in the Store.
LEMMA PutStep ==
    ASSUME NEW r, Return(r), NEW k \in Key, NEW d, Val(k)' = d,
           \A j \in Key : j # k => Val(j)' = Val(j)
    PROVE  Abs!Return(r) /\ Abs!Put(k, d)
<1>1. pc = "run" /\ pc' = "idle" /\ reply' = r /\ UNCHANGED clock
  BY Zenon DEF Return
<1>2. AbsPc = "run" /\ AbsPc' = "idle"
  BY <1>1, Control, Zenon
<1>3. AbsData' = [AbsData EXCEPT ![k] = d]
  BY <1>1, View, ZenonT(60)
<1> QED
  BY <1>1, <1>2, <1>3, Zenon DEF Abs!Return, Abs!Put

\* Writing back what the Store has of a key changes nothing.
LEMMA PutSame ==
    ASSUME NEW k \in Key, NEW r, Abs!Query(r)
    PROVE  Abs!Return(r) /\ Abs!Put(k, AbsData[k])
BY ZenonT(60) DEF Abs!Query, Abs!Put, AbsData
-----------------------------------------------------------------------------
(***************************************************************************)
(* Every command of the engine is the Store's command of the same name.    *)
(***************************************************************************)

\* Both specifications use the operators of SortedSet.
LEMMA SameZQuery ==
    ASSUME NEW z, NEW p, NEW offset, NEW limit
    PROVE  zquery(z, p, offset, limit) = Abs!zquery(z, p, offset, limit)
BY Zenon DEF zquery, Rank, Pairs, zless, Cardinality,
             Abs!zquery, Abs!Rank, Abs!Pairs, Abs!zless, Abs!Cardinality

\* The commands that only read give the Store's replies.
LEMMA ReadsRefine ==
    ASSUME EntriesOK, Canonical, pc = "run", NEW k \in Key
    PROVE  /\ do_get(k) => Abs!get(k)
           /\ exists(k) => Abs!exists(k)
           /\ type(k) => Abs!type(k)
           /\ do_ttl(k) => Abs!pttl(k)
           /\ \A m : do_zscore(k, m) => Abs!zscore(k, m)
           /\ \A a : do_zquery(k, a) => Abs!zquery_cmd(k, a)
<1> DEFINE D == AbsData[k]
<1>1. /\ ~Live(k) => D.type = "none" /\ D.zset = EmptyZSet
      /\ Live(k) => /\ D.type = Ent(k).type /\ D.str = Ent(k).str /\ D.zset = Ent(k).zset
                    /\ D.type \in {"str", "zset"}
                    /\ D.exp = Expiry(k) /\ (~Ent(k).timed => Expiry(k) = -1)
                    /\ Ent(k).timed => Expiry(k) = ExpireAt(db[k]) /\ Expiry(k) \in Nat
  <2>1. ~Live(k) => D = Absent
    BY KeyView, Zenon
  <2>2. Live(k) => /\ D = [type |-> Ent(k).type, str |-> Ent(k).str,
                           zset |-> Ent(k).zset, exp |-> Expiry(k)]
                   /\ Ent(k).type \in {"str", "zset"}
                   /\ ~Ent(k).timed => Expiry(k) = -1
                   /\ Ent(k).timed => Expiry(k) = ExpireAt(db[k]) /\ Expiry(k) \in Nat
    BY KeyView, Zenon
  <2> HIDE DEF D
  <2>3. ~Live(k) => D.type = "none" /\ D.zset = EmptyZSet
    BY ONLY <2>1 DEF Absent
  <2>4. Live(k) => /\ D.type = Ent(k).type /\ D.str = Ent(k).str
                   /\ D.zset = Ent(k).zset /\ D.exp = Expiry(k)
    BY ONLY <2>2
  <2> QED
    BY ONLY <2>2, <2>3, <2>4
<1>2. \A t \in {"str", "zset"} : IsType(k, t) <=> Abs!IsType(k, t)
  BY <1>1, Zenon DEF IsType, Abs!IsType
<1>3. Live(k) <=> ~Abs!IsType(k, "none")
  BY <1>1, Zenon DEF Abs!IsType
<1>4. expect_zset(k) = D.zset
  BY <1>1, Zenon DEF expect_zset
<1>5. ASSUME do_get(k) PROVE Abs!get(k)
  <2>1. (IF ~Live(k) THEN <<"nil", Null>>
         ELSE IF Ent(k).type # "str" THEN Err("BAD_TYP")
         ELSE <<"str", Ent(k).str>>)
        = CASE Abs!IsType(k, "none") -> <<"nil", Null>>
            [] Abs!IsType(k, "zset") -> Abs!Err("BAD_TYP")
            [] OTHER                 -> <<"str", D.str>>
    BY <1>1, Zenon DEF Abs!IsType, Err, Abs!Err
  <2> QED
    BY <1>5, <2>1, QueryStep, Zenon DEF do_get, Abs!get
<1>6. ASSUME exists(k) PROVE Abs!exists(k)
  <2>1. One(Live(k)) = Abs!One(~Abs!IsType(k, "none"))
    BY <1>3, Zenon DEF One, Abs!One
  <2> QED
    BY <1>6, <2>1, QueryStep, Zenon DEF exists, Abs!exists
<1>7. ASSUME type(k) PROVE Abs!type(k)
  <2>1. (IF Live(k) THEN Ent(k).type ELSE "none") = D.type
    BY <1>1, Zenon
  <2> QED
    BY <1>7, <2>1, QueryStep, Zenon DEF type, Abs!type
<1>8. ASSUME do_ttl(k) PROVE Abs!pttl(k)
  <2>1. (IF ~Live(k) THEN -2
         ELSE IF ~Ent(k).timed THEN -1
         ELSE IF ExpireAt(db[k]) > clock THEN ExpireAt(db[k]) - clock
         ELSE 0)
        = IF Abs!IsType(k, "none") THEN -2
          ELSE IF D.exp = Abs!Never THEN -1
          ELSE IF D.exp > clock THEN D.exp - clock
          ELSE 0
    <3>1. CASE ~Live(k)
      BY <1>3, <3>1, Zenon
    <3>2. CASE Live(k) /\ ~Ent(k).timed
      BY <1>1, <1>3, <3>2, Zenon DEF Abs!Never
    <3>3. CASE Live(k) /\ Ent(k).timed
      <4>1. ~Abs!IsType(k, "none") /\ D.exp # Abs!Never /\ D.exp = ExpireAt(db[k])
        BY <1>1, <1>3, <3>3 DEF Abs!Never
      <4> QED
        BY <4>1, <3>3, Zenon
    <3> QED
      BY <3>1, <3>2, <3>3, Zenon
  <2> QED
    BY <1>8, <2>1, QueryStep, Zenon DEF do_ttl, Abs!pttl
<1>9. ASSUME NEW m, do_zscore(k, m) PROVE Abs!zscore(k, m)
  <2>1. (IF IsType(k, "str") THEN Err("BAD_TYP")
         ELSE IF m \in DOMAIN expect_zset(k) THEN <<"dbl", expect_zset(k)[m]>>
         ELSE <<"nil", Null>>)
        = IF Abs!IsType(k, "str") THEN Abs!Err("BAD_TYP")
          ELSE IF m \in DOMAIN D.zset THEN <<"dbl", D.zset[m]>>
          ELSE <<"nil", Null>>
    BY <1>2, <1>4, Zenon DEF Err, Abs!Err
  <2> QED
    BY <1>9, <2>1, QueryStep, Zenon DEF do_zscore, Abs!zscore
<1>10. ASSUME NEW a, do_zquery(k, a) PROVE Abs!zquery_cmd(k, a)
  <2>1. (IF \E i \in DOMAIN a : a[i] \in Text THEN Err("BAD_ARG")
         ELSE IF IsType(k, "str") THEN Err("BAD_TYP")
         ELSE <<"pairs", zquery(expect_zset(k), <<a[1], a[2]>>, a[3], a[4])>>)
        = IF \E i \in DOMAIN a : a[i] \in Text THEN Abs!Err("BAD_ARG")
          ELSE IF Abs!IsType(k, "str") THEN Abs!Err("BAD_TYP")
          ELSE <<"pairs", Abs!zquery(D.zset, <<a[1], a[2]>>, a[3], a[4])>>
    BY <1>2, <1>4, SameZQuery, Zenon DEF Err, Abs!Err
  <2> QED
    BY <1>10, <2>1, QueryStep, Zenon DEF do_zquery, Abs!zquery_cmd
<1> QED
  BY <1>5, <1>6, <1>7, <1>8, <1>9, <1>10, Zenon
\* What the writing commands read of their key, in both specifications.
LEMMA TypeView ==
    ASSUME EntriesOK, Canonical, pc = "run", NEW k \in Key
    PROVE  /\ ~Live(k) <=> Abs!IsType(k, "none")
           /\ IsType(k, "str") <=> Abs!IsType(k, "str")
           /\ IsType(k, "zset") <=> Abs!IsType(k, "zset")
           /\ Live(k) <=> IsType(k, "str") \/ IsType(k, "zset")
           /\ ~Live(k) => /\ AbsData[k] = Absent /\ AbsData[k].exp = -1
                          /\ AbsData[k].zset = EmptyZSet
           /\ Live(k) => /\ AbsData[k].str = Ent(k).str /\ AbsData[k].zset = Ent(k).zset
                         /\ AbsData[k].exp = Expiry(k)
<1> DEFINE D == AbsData[k]
<1>1. ~Live(k) => D = Absent
  BY KeyView, Zenon
<1>2. Live(k) => /\ D = [type |-> Ent(k).type, str |-> Ent(k).str,
                         zset |-> Ent(k).zset, exp |-> Expiry(k)]
                 /\ Ent(k).type \in {"str", "zset"}
  BY KeyView, Zenon
<1>3. Abs!IsType(k, "none") <=> D.type = "none"
  BY Zenon DEF Abs!IsType
<1>4. Abs!IsType(k, "str") <=> D.type = "str"
  BY Zenon DEF Abs!IsType
<1>5. Abs!IsType(k, "zset") <=> D.type = "zset"
  BY Zenon DEF Abs!IsType
<1> HIDE DEF D
<1>6. ~Live(k) => D.type = "none" /\ D.exp = -1 /\ D.zset = EmptyZSet
  BY <1>1 DEF Absent
<1>7. Live(k) => /\ D.type = Ent(k).type /\ D.type \in {"str", "zset"}
                 /\ D.str = Ent(k).str /\ D.zset = Ent(k).zset /\ D.exp = Expiry(k)
  BY <1>2
<1> QED
  BY <1>1, <1>3, <1>4, <1>5, <1>6, <1>7, Zenon DEF IsType, D

\* SET: a new string has no deadline, overwriting one drops its deadline.
LEMMA SetRefines ==
    ASSUME EntriesOK, EntriesOK', Canonical, NEW k \in Key, NEW v, do_set(k, v)
    PROVE  Abs!set(k, v)
<1>0. pc = "run"
  BY Zenon DEF do_set, Query, Return
<1>1. CASE IsType(k, "zset") /\ Query(Err("BAD_TYP"))
  <2>1. Abs!Query(Err("BAD_TYP"))
    BY <1>1, QueryStep, Zenon
  <2> QED
    BY <1>0, <1>1, <2>1, TypeView, Zenon DEF Abs!set, Err, Abs!Err
<1>2. ASSUME Val(k)' = [type |-> "str", str |-> v, zset |-> EmptyZSet, exp |-> -1],
             \A j \in Key : j # k => Val(j)' = Val(j),
             ~IsType(k, "zset"), Return(<<"status", "OK">>)
      PROVE  Abs!set(k, v)
  <2>1. Abs!String(v, Abs!Never) = [type |-> "str", str |-> v, zset |-> EmptyZSet, exp |-> -1]
    BY Zenon DEF Abs!String, Abs!Never, EmptyZSet, Abs!EmptyZSet
  <2>2. Abs!Return(<<"status", "OK">>) /\ Abs!Put(k, Abs!String(v, Abs!Never))
    BY <1>2, <2>1, PutStep, Zenon
  <2> QED
    BY <1>0, <1>2, <2>2, TypeView, Zenon DEF Abs!set
<1>3. CASE /\ IsType(k, "str")
           /\ mem' = [mem EXCEPT ![db[k]].str = v, ![db[k]].timed = FALSE]
           /\ heap' = TimersWithout(db[k])
           /\ Return(<<"status", "OK">>) /\ UNCHANGED db
  <2>1. Live(k) /\ Ent(k).type = "str" /\ ~IsType(k, "zset")
    BY <1>3, Zenon DEF IsType
  <2>2. db[k] \in Addr /\ Ent(k) = mem[db[k]] /\ Ent(k) \in EntryType
    BY <2>1, LiveEntry, Zenon
  <2>3. /\ mem'[db[k]] = [Ent(k) EXCEPT !.str = v, !.timed = FALSE]
        /\ \A f \in Addr : f # db[k] => mem'[f] = mem[f]
    BY <1>3, <2>2, Zenon DEF EntriesOK
  <2>4. Ent(k).zset = EmptyZSet
    BY <2>1, <2>2, Zenon DEF Canonical, Plain
  <2>5. /\ mem'[db[k]].type = "str" /\ mem'[db[k]].str = v
        /\ mem'[db[k]].zset = EmptyZSet /\ ~mem'[db[k]].timed
    BY <2>1, <2>2, <2>3, <2>4, Zenon DEF EntryType
  <2>6. \A it \in heap : it.ref # db[k] => it \in heap'
    BY <1>3, Zenon DEF TimersWithout
  <2>7. /\ Val(k)' = [type |-> "str", str |-> v, zset |-> EmptyZSet, exp |-> -1]
        /\ \A j \in Key : j # k => Val(j)' = Val(j)
    <3>1. UNCHANGED db
      BY <1>3, Zenon
    <3>2. /\ Val(k)' = [type |-> mem'[db[k]].type, str |-> mem'[db[k]].str,
                        zset |-> mem'[db[k]].zset, exp |-> -1]
          /\ \A j \in Key : j # k => Val(j)' = Val(j)
      BY <2>1, <2>3, <2>5, <2>6, <3>1, UpdateVal, Zenon
    <3> QED
      BY <2>5, <3>2, Zenon
  <2> QED
    BY <1>2, <1>3, <2>1, <2>7, Zenon
<1>4. CASE /\ ~Live(k) /\ Create(k, "str", v, EmptyZSet)
           /\ Return(<<"status", "OK">>) /\ UNCHANGED heap
  <2>1. /\ Val(k)' = [type |-> "str", str |-> v, zset |-> EmptyZSet, exp |-> -1]
        /\ \A j \in Key : j # k => Val(j)' = Val(j)
    BY <1>4, CreateVal, Zenon
  <2> QED
    BY <1>2, <1>4, <2>1, Zenon DEF IsType
<1> QED
  BY <1>1, <1>3, <1>4, Zenon DEF do_set

\* DEL: the entry goes to the pool or is freed at once, the key is absent.
LEMMA DelRefines ==
    ASSUME EntriesOK, Canonical, NEW k \in Key, do_del(k)
    PROVE  Abs!del(k)
<1>0. pc = "run" /\ Abs!Absent = Absent
  BY Zenon DEF do_del, Query, Return, Absent, Abs!Absent, Abs!Never, EmptyZSet, Abs!EmptyZSet
<1>1. CASE Live(k) /\ Remove(db[k]) /\ Return(One(TRUE))
  <2>1. Val(k)' = Absent /\ \A j \in Key : j # k => Val(j)' = Val(j)
    BY <1>1, RemoveVal, Zenon DEF Return
  <2>2. Abs!Return(One(TRUE)) /\ Abs!Put(k, Absent)
    BY <1>1, <2>1, PutStep, Zenon
  <2>3. One(TRUE) = Abs!One(~Abs!IsType(k, "none"))
    BY <1>0, <1>1, TypeView, Zenon DEF One, Abs!One
  <2> QED
    BY <1>0, <2>2, <2>3, Zenon DEF Abs!del
<1>2. CASE ~Live(k) /\ Query(One(FALSE))
  <2>1. Abs!Query(One(FALSE))
    BY <1>2, QueryStep, Zenon
  <2>2. Abs!Return(One(FALSE)) /\ Abs!Put(k, AbsData[k])
    BY <2>1, PutSame, Zenon
  <2>3. One(FALSE) = Abs!One(~Abs!IsType(k, "none")) /\ AbsData[k] = Absent
    BY <1>0, <1>2, TypeView, Zenon DEF One, Abs!One
  <2> QED
    BY <1>0, <2>2, <2>3, Zenon DEF Abs!del
<1> QED
  BY <1>1, <1>2, Zenon DEF do_del
\* A write to the key's entry, with what it does to the timer, as an update.
LEMMA UpdateStep ==
    ASSUME EntriesOK, EntriesOK', NEW k \in Key, Live(k), NEW r, NEW q, NEW x,
           mem' = [mem EXCEPT ![db[k]] = r], UNCHANGED db, Return(q), clock \in Nat,
           \/ heap' = heap /\ r.timed = Ent(k).timed /\ x = Expiry(k)
           \/ heap' = TimersWithout(db[k]) /\ ~r.timed /\ x = -1
           \/ \E ttl : heap' = TimersWith(db[k], ttl) /\ r.timed /\ x = clock + ttl
    PROVE  /\ Abs!Return(q)
           /\ Abs!Put(k, [type |-> r.type, str |-> r.str, zset |-> r.zset, exp |-> x])
<1>1. db[k] \in Addr /\ Ent(k) = mem[db[k]]
  BY LiveEntry, Zenon
<1>2. mem'[db[k]] = r /\ \A f \in Addr : f # db[k] => mem'[f] = mem[f]
  BY <1>1, Zenon DEF EntriesOK
<1>3. \A it \in heap : it.ref # db[k] => it \in heap'
  BY Zenon DEF TimersWithout, TimersWith
<1>4. mem'[db[k]].timed => \E it \in heap' : it.ref = db[k] /\ it.val = x
  <2>1. SUFFICES ASSUME r.timed PROVE \E it \in heap' : it.ref = db[k] /\ it.val = x
    BY <1>2, Zenon
  <2>2. CASE heap' = heap /\ r.timed = Ent(k).timed /\ x = Expiry(k)
    <3>1. Ent(k).timed /\ Expiry(k) = ExpireAt(db[k])
      BY <2>1, <2>2, Zenon DEF Expiry
    <3> QED
      BY <2>2, <3>1, LiveEntry
  <2>3. ASSUME NEW ttl, heap' = TimersWith(db[k], ttl), x = clock + ttl
        PROVE  \E it \in heap' : it.ref = db[k] /\ it.val = x
    <3>1. [val |-> clock + ttl, ref |-> db[k]] \in heap'
      BY <2>3, Zenon DEF TimersWith
    <3> QED
      BY <2>3, <3>1, Zenon
  <2> QED
    BY <2>1, <2>2, <2>3, Zenon
<1>5. ~mem'[db[k]].timed => x = -1
  BY <1>2, Zenon DEF Expiry
<1>6. /\ Val(k)' = [type |-> mem'[db[k]].type, str |-> mem'[db[k]].str,
                    zset |-> mem'[db[k]].zset, exp |-> x]
      /\ \A j \in Key : j # k => Val(j)' = Val(j)
  BY <1>2, <1>3, <1>4, <1>5, UpdateVal, Zenon
<1> DEFINE d == [type |-> r.type, str |-> r.str, zset |-> r.zset, exp |-> x]
<1>7. Val(k)' = d
  BY <1>2, <1>6, Zenon
<1> HIDE DEF d
<1>8. Abs!Return(q) /\ Abs!Put(k, d)
  BY <1>6, <1>7, PutStep, Zenon
<1> QED
  BY <1>8, Zenon DEF d

\* PEXPIRE: refuses, deletes or sets the deadline as the Store does.
LEMMA ExpireRefines ==
    ASSUME EntriesOK, EntriesOK', Canonical, clock \in Nat, NEW k \in Key, NEW a,
           do_expire(k, a)
    PROVE  Abs!pexpire(k, a)
<1>0. pc = "run" /\ Abs!Absent = Absent /\ Abs!Int64 = Int64
  BY Zenon DEF do_expire, Query, Return, Absent, Abs!Absent, Abs!Never, EmptyZSet,
         Abs!EmptyZSet, Int64, Abs!Int64
<1>1. CASE a \notin Int64 /\ Query(Err("BAD_ARG"))
  <2>1. Abs!Query(Err("BAD_ARG"))
    BY <1>1, QueryStep, Zenon
  <2> QED
    BY <1>0, <1>1, <2>1, Zenon DEF Abs!pexpire, Err, Abs!Err
<1>2. CASE a \in Int64 /\ ~Live(k) /\ Query(One(FALSE))
  <2>1. Abs!Query(One(FALSE))
    BY <1>2, QueryStep, Zenon
  <2>2. Abs!Return(One(FALSE)) /\ Abs!Put(k, AbsData[k])
    BY <2>1, PutSame, Zenon
  <2>3. /\ One(FALSE) = Abs!One(~Abs!IsType(k, "none"))
        /\ AbsData[k] = Absent /\ Abs!IsType(k, "none")
    BY <1>0, <1>2, TypeView, Zenon DEF One, Abs!One
  <2> QED
    BY <1>0, <1>2, <2>2, <2>3, Zenon DEF Abs!pexpire
<1>3. CASE a \in Int64 /\ a <= 0 /\ Live(k) /\ Remove(db[k]) /\ Return(One(TRUE))
  <2>1. Val(k)' = Absent /\ \A j \in Key : j # k => Val(j)' = Val(j)
    BY <1>3, RemoveVal, Zenon DEF Return
  <2>2. Abs!Return(One(TRUE)) /\ Abs!Put(k, Absent)
    BY <1>3, <2>1, PutStep, Zenon
  <2>3. One(TRUE) = Abs!One(~Abs!IsType(k, "none")) /\ ~Abs!IsType(k, "none")
    BY <1>0, <1>3, TypeView, Zenon DEF One, Abs!One
  <2> QED
    BY <1>0, <1>3, <2>2, <2>3, Zenon DEF Abs!pexpire
<1>4. CASE /\ a \in Int64 /\ a > 0 /\ Live(k)
           /\ heap' = TimersWith(db[k], a)
           /\ mem' = [mem EXCEPT ![db[k]].timed = TRUE]
           /\ Return(One(TRUE)) /\ UNCHANGED db
  <2> DEFINE r == [Ent(k) EXCEPT !.timed = TRUE]
  <2>1. Ent(k) = mem[db[k]] /\ Ent(k) \in EntryType
    BY <1>4, LiveEntry, Zenon
  <2>2. mem' = [mem EXCEPT ![db[k]] = r]
    BY <1>4, <2>1, Zenon
  <2>3. r.timed /\ r.type = Ent(k).type /\ r.str = Ent(k).str /\ r.zset = Ent(k).zset
    BY <2>1, Zenon DEF EntryType
  <2> HIDE DEF r
  <2>4. /\ Abs!Return(One(TRUE))
        /\ Abs!Put(k, [type |-> r.type, str |-> r.str, zset |-> r.zset, exp |-> clock + a])
    BY <1>4, <2>2, <2>3, UpdateStep, Zenon
  <2>5. AbsData[k] = [type |-> Ent(k).type, str |-> Ent(k).str,
                      zset |-> Ent(k).zset, exp |-> Expiry(k)]
    BY <1>0, <1>4, KeyView, Zenon
  <2>6. [AbsData[k] EXCEPT !.exp = clock + a]
          = [type |-> r.type, str |-> r.str, zset |-> r.zset, exp |-> clock + a]
    BY <2>3, <2>5
  <2>7. One(TRUE) = Abs!One(~Abs!IsType(k, "none")) /\ ~Abs!IsType(k, "none")
    BY <1>0, <1>4, TypeView, Zenon DEF One, Abs!One
  <2>8. ~(a <= 0)
    BY <1>4, StoreAssumption DEF Int64
  <2> QED
    BY <1>0, <1>4, <2>4, <2>6, <2>7, <2>8, Zenon DEF Abs!pexpire
<1> QED
  BY <1>1, <1>2, <1>3, <1>4, Zenon DEF do_expire
\* PERSIST: tells whether there was a deadline, and drops it.
LEMMA PersistRefines ==
    ASSUME EntriesOK, EntriesOK', Canonical, clock \in Nat, NEW k \in Key, persist(k)
    PROVE  Abs!persist(k)
<1>0. pc = "run"
  BY Zenon DEF persist, Query, Return
<1>1. CASE /\ Live(k) /\ Ent(k).timed
           /\ heap' = TimersWithout(db[k])
           /\ mem' = [mem EXCEPT ![db[k]].timed = FALSE]
           /\ Return(One(TRUE)) /\ UNCHANGED db
  <2> DEFINE r == [Ent(k) EXCEPT !.timed = FALSE]
  <2>1. Ent(k) = mem[db[k]] /\ Ent(k) \in EntryType
    BY <1>1, LiveEntry, Zenon
  <2>2. mem' = [mem EXCEPT ![db[k]] = r]
    BY <1>1, <2>1, Zenon
  <2>3. ~r.timed /\ r.type = Ent(k).type /\ r.str = Ent(k).str /\ r.zset = Ent(k).zset
    BY <2>1, Zenon DEF EntryType
  <2> HIDE DEF r
  <2>4. /\ Abs!Return(One(TRUE))
        /\ Abs!Put(k, [type |-> r.type, str |-> r.str, zset |-> r.zset, exp |-> -1])
    BY <1>1, <2>2, <2>3, UpdateStep, Zenon
  <2>5. /\ AbsData[k] = [type |-> Ent(k).type, str |-> Ent(k).str,
                         zset |-> Ent(k).zset, exp |-> Expiry(k)]
        /\ Expiry(k) \in Nat
    BY <1>0, <1>1, KeyView, Zenon
  <2>6. /\ [AbsData[k] EXCEPT !.exp = Abs!Never]
             = [type |-> r.type, str |-> r.str, zset |-> r.zset, exp |-> -1]
        /\ AbsData[k].exp # Abs!Never
    BY <2>3, <2>5 DEF Abs!Never
  <2>7. One(TRUE) = Abs!One(AbsData[k].exp # Abs!Never)
    BY <2>6, Zenon DEF One, Abs!One
  <2> QED
    BY <2>4, <2>6, <2>7, Zenon DEF Abs!persist
<1>2. CASE ~(Live(k) /\ Ent(k).timed) /\ Query(One(FALSE))
  <2>1. Abs!Query(One(FALSE))
    BY <1>2, QueryStep, Zenon
  <2>2. Abs!Return(One(FALSE)) /\ Abs!Put(k, AbsData[k])
    BY <2>1, PutSame, Zenon
  <2> DEFINE D == AbsData[k]
  <2>3. \/ D = Absent
        \/ D = [type |-> Ent(k).type, str |-> Ent(k).str, zset |-> Ent(k).zset, exp |-> -1]
    BY <1>0, <1>2, KeyView, Zenon
  <2> HIDE DEF D
  <2>4. D.exp = Abs!Never /\ [D EXCEPT !.exp = Abs!Never] = D
    BY <2>3 DEF Absent, Abs!Never
  <2>5. One(FALSE) = Abs!One(D.exp # Abs!Never)
    BY <2>4, Zenon DEF One, Abs!One
  <2> QED
    BY <2>2, <2>4, <2>5, Zenon DEF Abs!persist, D
<1> QED
  BY <1>1, <1>2, Zenon DEF persist

\* INCR: the same number, the same refusals, and the deadline is kept.
LEMMA IncrRefines ==
    ASSUME EntriesOK, EntriesOK', Canonical, clock \in Nat, NEW k \in Key, incr(k)
    PROVE  Abs!incr(k)
<1>0. pc = "run" /\ Abs!Int64 = Int64 /\ Abs!EmptyZSet = EmptyZSet
  BY Zenon DEF incr, Query, Return, Int64, Abs!Int64, EmptyZSet, Abs!EmptyZSet
<1>t. /\ ~Live(k) <=> Abs!IsType(k, "none")
      /\ IsType(k, "str") <=> Abs!IsType(k, "str")
      /\ IsType(k, "zset") <=> Abs!IsType(k, "zset")
      /\ Live(k) <=> IsType(k, "str") \/ IsType(k, "zset")
  BY <1>0, TypeView, Zenon
<1>1. CASE IsType(k, "zset") /\ Query(Err("BAD_TYP"))
  <2>1. Abs!Query(Err("BAD_TYP"))
    BY <1>1, QueryStep, Zenon
  <2> QED
    BY <1>1, <1>t, <2>1, Zenon DEF Abs!incr, Err, Abs!Err
<1>2. CASE IsType(k, "str") /\ Ent(k).str \notin Int64 \ {MaxInt} /\ Query(Err("BAD_ARG"))
  <2>1. Abs!Query(Err("BAD_ARG"))
    BY <1>2, QueryStep, Zenon
  <2>2. AbsData[k].str = Ent(k).str
    BY <1>0, <1>2, <1>t, TypeView, Zenon
  <2> QED
    BY <1>0, <1>2, <1>t, <2>1, <2>2, Zenon DEF Abs!incr, Err, Abs!Err
<1>3. CASE /\ IsType(k, "str") /\ Ent(k).str \in Int64 \ {MaxInt}
           /\ mem' = [mem EXCEPT ![db[k]].str = @ + 1]
           /\ Return(<<"int", Ent(k).str + 1>>)
           /\ UNCHANGED <<db, heap>>
  <2> DEFINE r == [Ent(k) EXCEPT !.str = Ent(k).str + 1]
  <2>0. Live(k) /\ Ent(k).type = "str" /\ ~IsType(k, "zset")
    BY <1>3, Zenon DEF IsType
  <2>1. db[k] \in Addr /\ Ent(k) = mem[db[k]] /\ Ent(k) \in EntryType
    BY <2>0, LiveEntry, Zenon
  <2>2. mem' = [mem EXCEPT ![db[k]] = r]
    BY <1>3, <2>1, Zenon
  <2>3. /\ r.timed = Ent(k).timed /\ r.type = "str" /\ r.str = Ent(k).str + 1
        /\ r.zset = EmptyZSet
    BY <2>0, <2>1, Zenon DEF EntryType, Canonical, Plain
  <2> HIDE DEF r
  <2>4. /\ Abs!Return(<<"int", Ent(k).str + 1>>)
        /\ Abs!Put(k, [type |-> r.type, str |-> r.str, zset |-> r.zset, exp |-> Expiry(k)])
    BY <1>3, <2>0, <2>2, <2>3, UpdateStep, Zenon
  <2>5. AbsData[k].str = Ent(k).str /\ AbsData[k].exp = Expiry(k)
    BY <1>0, <2>0, TypeView, Zenon
  <2>6. [type |-> r.type, str |-> r.str, zset |-> r.zset, exp |-> Expiry(k)]
          = Abs!String(AbsData[k].str + 1, AbsData[k].exp)
    BY <1>0, <2>3, <2>5, Zenon DEF Abs!String
  <2> QED
    BY <1>0, <1>3, <1>t, <2>0, <2>4, <2>5, <2>6, ZenonT(60) DEF Abs!incr
<1>4. CASE /\ ~Live(k) /\ Create(k, "str", 1, EmptyZSet)
           /\ Return(<<"int", 1>>) /\ UNCHANGED heap
  <2>1. AbsData[k].exp = -1
    BY <1>0, <1>4, TypeView, Zenon
  <2>2. Abs!String(1, AbsData[k].exp)
          = [type |-> "str", str |-> 1, zset |-> EmptyZSet, exp |-> -1]
    BY <1>0, <2>1, Zenon DEF Abs!String
  <2>3. Val(k)' = Abs!String(1, AbsData[k].exp) /\ \A j \in Key : j # k => Val(j)' = Val(j)
    BY <1>4, <2>2, CreateVal, Zenon
  <2>4. Abs!Return(<<"int", 1>>) /\ Abs!Put(k, Abs!String(1, AbsData[k].exp))
    BY <1>4, <2>3, PutStep, Zenon
  <2> QED
    BY <1>4, <1>t, <2>4, Zenon DEF Abs!incr
<1> QED
  BY <1>1, <1>2, <1>3, <1>4, Zenon DEF incr
\* ZADD: inserts or updates the member, creating the set if need be.
LEMMA ZAddRefines ==
    ASSUME EntriesOK, EntriesOK', Canonical, clock \in Nat, NEW k \in Key,
           NEW s, NEW m, do_zadd(k, s, m)
    PROVE  Abs!zadd(k, s, m)
<1>0. pc = "run" /\ \A z : Abs!zset_insert(z, m, s) = zset_insert(z, m, s)
  BY Zenon DEF do_zadd, Query, Return, zset_insert, Abs!zset_insert
<1>t. /\ IsType(k, "str") <=> Abs!IsType(k, "str")
      /\ Live(k) <=> IsType(k, "str") \/ IsType(k, "zset")
  BY <1>0, TypeView, Zenon
<1>1. CASE s \in Text /\ Query(Err("BAD_ARG"))
  <2>1. Abs!Query(Err("BAD_ARG"))
    BY <1>1, QueryStep, Zenon
  <2> QED
    BY <1>1, <2>1, Zenon DEF Abs!zadd, Err, Abs!Err
<1>2. CASE s \notin Text /\ IsType(k, "str") /\ Query(Err("BAD_TYP"))
  <2>1. Abs!Query(Err("BAD_TYP"))
    BY <1>2, QueryStep, Zenon
  <2> QED
    BY <1>2, <1>t, <2>1, Zenon DEF Abs!zadd, Err, Abs!Err
<1>3. CASE /\ s \notin Text /\ IsType(k, "zset")
           /\ mem' = [mem EXCEPT ![db[k]].zset = zset_insert(@, m, s)]
           /\ Return(One(m \notin DOMAIN Ent(k).zset))
           /\ UNCHANGED <<db, heap>>
  <2> DEFINE z == zset_insert(Ent(k).zset, m, s)
             r == [Ent(k) EXCEPT !.zset = z]
  <2>0. Live(k) /\ Ent(k).type = "zset" /\ ~IsType(k, "str")
    BY <1>3, Zenon DEF IsType
  <2>1. db[k] \in Addr /\ Ent(k) = mem[db[k]] /\ Ent(k) \in EntryType
    BY <2>0, LiveEntry, Zenon
  <2>2. mem' = [mem EXCEPT ![db[k]] = r]
    BY <1>3, <2>1, Zenon
  <2> HIDE DEF z
  <2>3. /\ r.timed = Ent(k).timed /\ r.type = "zset" /\ r.str = Null
        /\ r.zset = z
    BY <2>0, <2>1, Zenon DEF EntryType, Canonical, Plain
  <2> HIDE DEF r
  <2>4. /\ Abs!Return(One(m \notin DOMAIN Ent(k).zset))
        /\ Abs!Put(k, [type |-> r.type, str |-> r.str, zset |-> r.zset, exp |-> Expiry(k)])
    BY <1>3, <2>0, <2>2, <2>3, UpdateStep, ZenonT(60)
  <2>5. AbsData[k].zset = Ent(k).zset /\ AbsData[k].exp = Expiry(k)
    BY <1>0, <2>0, TypeView, Zenon
  <2>6. Abs!zset_insert(AbsData[k].zset, m, s) = z
    BY <1>0, <2>5, Zenon DEF z
  <2>7. [type |-> r.type, str |-> r.str, zset |-> r.zset, exp |-> Expiry(k)]
          = Abs!Sorted(Abs!zset_insert(AbsData[k].zset, m, s), AbsData[k].exp)
    BY <2>3, <2>5, <2>6, Zenon DEF Abs!Sorted
  <2>8. One(m \notin DOMAIN Ent(k).zset) = Abs!One(m \notin DOMAIN AbsData[k].zset)
    BY <2>5, Zenon DEF One, Abs!One
  <2> QED
    BY <1>3, <1>t, <2>0, <2>4, <2>7, <2>8, Zenon DEF Abs!zadd
<1>4. CASE /\ s \notin Text /\ ~Live(k)
           /\ Create(k, "zset", Null, zset_insert(EmptyZSet, m, s))
           /\ Return(One(TRUE)) /\ UNCHANGED heap
  <2> DEFINE z == zset_insert(EmptyZSet, m, s)
  <2>1. AbsData[k].exp = -1 /\ AbsData[k].zset = EmptyZSet
    BY <1>0, <1>4, TypeView, Zenon
  <2>2. Abs!zset_insert(AbsData[k].zset, m, s) = z
    BY <1>0, <2>1, Zenon
  <2>3. One(TRUE) = Abs!One(m \notin DOMAIN AbsData[k].zset)
    BY <2>1, Zenon DEF One, Abs!One, EmptyZSet
  <2>4. Create(k, "zset", Null, z)
    BY <1>4, Zenon
  <2> HIDE DEF z
  <2>5. Abs!Sorted(z, AbsData[k].exp) = [type |-> "zset", str |-> Null, zset |-> z, exp |-> -1]
    BY <2>1, Zenon DEF Abs!Sorted
  <2>6. Val(k)' = Abs!Sorted(z, AbsData[k].exp) /\ \A j \in Key : j # k => Val(j)' = Val(j)
    BY <1>4, <2>4, <2>5, CreateVal, Zenon
  <2>7. Abs!Return(One(TRUE)) /\ Abs!Put(k, Abs!Sorted(z, AbsData[k].exp))
    BY <1>4, <2>6, PutStep, Zenon
  <2> QED
    BY <1>4, <1>t, <2>2, <2>3, <2>7, ZenonT(60) DEF Abs!zadd
<1> QED
  BY <1>1, <1>2, <1>3, <1>4, Zenon DEF do_zadd

\* ZREM: removes the member; an absent key or member changes nothing.
LEMMA ZRemRefines ==
    ASSUME EntriesOK, EntriesOK', Canonical, clock \in Nat, NEW k \in Key,
           NEW m, do_zrem(k, m)
    PROVE  Abs!zrem(k, m)
<1>0. pc = "run" /\ \A z : Abs!zset_delete(z, m) = zset_delete(z, m)
  BY ZenonT(60) DEF do_zrem, Query, Return, zset_delete, Abs!zset_delete
<1>t. /\ IsType(k, "str") <=> Abs!IsType(k, "str")
      /\ Live(k) <=> IsType(k, "str") \/ IsType(k, "zset")
      /\ expect_zset(k) = AbsData[k].zset
  BY <1>0, TypeView, Zenon DEF expect_zset
<1>1. CASE IsType(k, "str") /\ Query(Err("BAD_TYP"))
  <2>1. Abs!Query(Err("BAD_TYP"))
    BY <1>1, QueryStep, Zenon
  <2> QED
    BY <1>1, <1>t, <2>1, Zenon DEF Abs!zrem, Err, Abs!Err
<1>2. CASE /\ ~IsType(k, "str") /\ m \in DOMAIN expect_zset(k)
           /\ mem' = [mem EXCEPT ![db[k]].zset = zset_delete(@, m)]
           /\ Return(One(TRUE)) /\ UNCHANGED <<db, heap>>
  <2> DEFINE z == zset_delete(Ent(k).zset, m)
             r == [Ent(k) EXCEPT !.zset = z]
  <2>0. Live(k)
    BY <1>2, Zenon DEF expect_zset, EmptyZSet
  <2>1. db[k] \in Addr /\ Ent(k) = mem[db[k]] /\ Ent(k) \in EntryType
    BY <2>0, LiveEntry, Zenon
  <2>2. mem' = [mem EXCEPT ![db[k]] = r]
    BY <1>2, <2>1, Zenon
  <2> HIDE DEF z
  <2>3. /\ r.timed = Ent(k).timed /\ r.type = Ent(k).type /\ r.str = Ent(k).str
        /\ r.zset = z
    BY <2>1, Zenon DEF EntryType
  <2> HIDE DEF r
  <2>4. /\ Abs!Return(One(TRUE))
        /\ Abs!Put(k, [type |-> r.type, str |-> r.str, zset |-> r.zset, exp |-> Expiry(k)])
    BY <1>2, <2>0, <2>2, <2>3, UpdateStep, ZenonT(60)
  <2> DEFINE D == AbsData[k]
  <2>5. D = [type |-> Ent(k).type, str |-> Ent(k).str, zset |-> Ent(k).zset, exp |-> Expiry(k)]
    BY <1>0, <2>0, KeyView, Zenon
  <2>6. m \in DOMAIN D.zset
    BY <1>2, <1>t, Zenon
  <2> HIDE DEF D
  <2>7. Abs!zset_delete(D.zset, m) = z
    BY <1>0, <2>5, Zenon DEF z
  <2>8. [type |-> r.type, str |-> r.str, zset |-> r.zset, exp |-> Expiry(k)]
          = [D EXCEPT !.zset = Abs!zset_delete(D.zset, m)]
    BY <2>3, <2>5, <2>7
  <2>9. One(TRUE) = Abs!One(m \in DOMAIN D.zset)
    BY <2>6, Zenon DEF One, Abs!One
  <2> QED
    BY <1>2, <1>t, <2>4, <2>8, <2>9, Zenon DEF Abs!zrem, D
<1>3. CASE ~IsType(k, "str") /\ m \notin DOMAIN expect_zset(k) /\ Query(One(FALSE))
  <2>1. Abs!Query(One(FALSE))
    BY <1>3, QueryStep, Zenon
  <2>2. Abs!Return(One(FALSE)) /\ Abs!Put(k, AbsData[k])
    BY <2>1, PutSame, Zenon
  <2> DEFINE D == AbsData[k]
  <2>3. m \notin DOMAIN D.zset
    BY <1>3, <1>t, Zenon
  <2>4. \/ D = Absent
        \/ Live(k) /\ D = [type |-> Ent(k).type, str |-> Ent(k).str,
                           zset |-> Ent(k).zset, exp |-> Expiry(k)]
    BY <1>0, KeyView, Zenon
  <2>5. Live(k) => Ent(k).zset \in ZSets
    BY LiveEntry, Zenon DEF EntryType
  <2> HIDE DEF D
  <2>6. D.zset \in ZSets /\ [D EXCEPT !.zset = D.zset] = D
    BY <2>4, <2>5, ZSetType DEF Absent
  <2>7. zset_delete(D.zset, m) = D.zset
    BY <2>3, <2>6, Zenon DEF ZSets, zset_delete
  <2>8. [D EXCEPT !.zset = Abs!zset_delete(D.zset, m)] = D
    BY <1>0, <2>6, <2>7, Zenon
  <2>9. One(FALSE) = Abs!One(m \in DOMAIN D.zset)
    BY <2>3, Zenon DEF One, Abs!One
  <2> QED
    BY <1>3, <1>t, <2>2, <2>8, <2>9, Zenon DEF Abs!zrem, D
<1> QED
  BY <1>1, <1>2, <1>3, Zenon DEF do_zrem

\* Every command, with its reply, is a command of the Store.
LEMMA CommandRefines ==
    ASSUME EntriesOK, Canonical, clock \in Nat, Command
    PROVE  Abs!Command
<1>0. EntriesOK' /\ pc = "run"
  BY CommandKeeps, CommandReturns, Zenon DEF Return
<1>1. CASE ping \/ unknown
  BY <1>1, QueryStep, Zenon DEF ping, unknown, Err, Abs!ping, Abs!unknown, Abs!Err, Abs!Command
<1>2. CASE do_keys
  <2>1. {k \in Key : Live(k)} = {k \in Key : ~Abs!IsType(k, "none")}
    BY <1>0, TypeView, Zenon
  <2> QED
    BY <1>2, <2>1, QueryStep, Zenon DEF do_keys, Abs!keys, Abs!Command
<1>3. ASSUME NEW k \in Key, do_get(k) \/ exists(k) \/ type(k) \/ do_ttl(k)
      PROVE  Abs!Command
  BY <1>0, <1>3, ReadsRefine, Zenon DEF Abs!Command
<1>4. ASSUME NEW k \in Key, do_del(k) \/ persist(k) \/ incr(k)
      PROVE  Abs!Command
  BY <1>0, <1>4, DelRefines, PersistRefines, IncrRefines, Zenon DEF Abs!Command
<1>5. ASSUME NEW k \in Key, NEW v \in SetArg, do_set(k, v)
      PROVE  Abs!Command
  BY <1>0, <1>5, SetRefines, Zenon DEF Abs!Command
<1>6. ASSUME NEW k \in Key, NEW a \in TtlArg, do_expire(k, a)
      PROVE  Abs!Command
  BY <1>0, <1>6, ExpireRefines, Zenon DEF Abs!Command
<1>7. ASSUME NEW k \in Key, NEW m \in Member, do_zrem(k, m) \/ do_zscore(k, m)
      PROVE  Abs!Command
  BY <1>0, <1>7, ZRemRefines, ReadsRefine, Zenon DEF Abs!Command
<1>8. ASSUME NEW k \in Key, NEW m \in Member, NEW s \in ScoreArg, do_zadd(k, s, m)
      PROVE  Abs!Command
  BY <1>0, <1>8, ZAddRefines, Zenon DEF Abs!Command
<1>9. ASSUME NEW k \in Key, NEW a \in QueryArg, do_zquery(k, a)
      PROVE  Abs!Command
  BY <1>0, <1>9, ReadsRefine, Zenon DEF Abs!Command
<1> QED
  BY <1>1, <1>2, <1>3, <1>4, <1>5, <1>6, <1>7, <1>8, <1>9, Zenon DEF Command
-----------------------------------------------------------------------------
(***************************************************************************)
(* The invariant, and the other steps.                                     *)
(***************************************************************************)

\* A step that rewrites one entry keeps the entries canonical.
LEMMA OneEntry ==
    ASSUME EntriesOK, Canonical, NEW e \in Addr, NEW r, Plain(r),
           mem' = [mem EXCEPT ![e] = r]
    PROVE  Canonical'
BY Zenon DEF Canonical, EntriesOK

\* Disposing of an entry only clears it or its heap_idx.
LEMMA RemoveCanonical ==
    ASSUME EntriesOK, Canonical, NEW e \in Addr, Remove(e)
    PROVE  Canonical'
<1>1. mem[e] \in EntryType /\ Plain(mem[e])
  BY Zenon DEF EntriesOK, Canonical
<1>2. Plain(Blank) /\ Plain([mem[e] EXCEPT !.timed = FALSE])
  BY <1>1, Zenon DEF Plain, Blank, EntryType
<1>3. \/ mem' = [mem EXCEPT ![e] = [mem[e] EXCEPT !.timed = FALSE]]
      \/ mem' = [mem EXCEPT ![e] = Blank]
  BY Zenon DEF Remove, entry_del
<1> QED
  BY <1>2, <1>3, OneEntry, Zenon

\* entry_new sets one type's field only.
LEMMA CreateCanonical ==
    ASSUME EntriesOK, Canonical, NEW k, NEW t, NEW v, NEW z, Create(k, t, v, z),
           \/ t = "str" /\ z = EmptyZSet
           \/ t = "zset" /\ v = Null
    PROVE  Canonical'
<1> DEFINE r == [Blank EXCEPT !.key = k, !.type = t, !.str = v, !.zset = z]
<1>1. Plain(r)
  BY Zenon DEF Plain, Blank
<1>2. PICK e \in Addr : mem' = [mem EXCEPT ![e] = r]
  BY Zenon DEF Create
<1> HIDE DEF r
<1> QED
  BY <1>1, <1>2, OneEntry, Zenon

\* A command writes to the fields of the entry's own type.
LEMMA CommandCanonical ==
    ASSUME EntriesOK, Canonical, Command
    PROVE  Canonical'
<1>1. ASSUME NEW r, Query(r) PROVE Canonical'
  BY <1>1, Zenon DEF Query, Canonical
<1>2. ASSUME NEW k \in Key, Live(k)
      PROVE  /\ db[k] \in Addr /\ Ent(k) = mem[db[k]] /\ Ent(k) \in EntryType
             /\ Plain(Ent(k)) /\ Ent(k).type \in {"str", "zset"}
  BY <1>2, LiveEntry, Zenon DEF Canonical
<1>3. ASSUME NEW k \in Key, NEW b, Live(k), mem' = [mem EXCEPT ![db[k]].timed = b]
      PROVE  Canonical'
  <2>1. mem' = [mem EXCEPT ![db[k]] = [Ent(k) EXCEPT !.timed = b]]
    BY <1>2, <1>3, Zenon
  <2>2. Plain([Ent(k) EXCEPT !.timed = b])
    BY <1>2, <1>3, Zenon DEF Plain, EntryType
  <2> QED
    BY <1>2, <1>3, <2>1, <2>2, OneEntry, Zenon
<1>4. CASE ping \/ unknown \/ do_keys
  BY <1>1, <1>4, Zenon DEF ping, unknown, do_keys
<1>5. ASSUME NEW k \in Key, do_get(k) \/ exists(k) \/ type(k) \/ do_ttl(k)
      PROVE  Canonical'
  BY <1>1, <1>5, Zenon DEF do_get, exists, type, do_ttl
<1>6. ASSUME NEW k \in Key, NEW a, do_zscore(k, a) \/ do_zquery(k, a)
      PROVE  Canonical'
  BY <1>1, <1>6, Zenon DEF do_zscore, do_zquery
<1>7. ASSUME NEW k \in Key, do_del(k) PROVE Canonical'
  BY <1>1, <1>2, <1>7, RemoveCanonical, Zenon DEF do_del
<1>8. ASSUME NEW k \in Key, persist(k) PROVE Canonical'
  BY <1>1, <1>3, <1>8, Zenon DEF persist
<1>9. ASSUME NEW k \in Key, NEW a, do_expire(k, a) PROVE Canonical'
  BY <1>1, <1>2, <1>3, <1>9, RemoveCanonical, Zenon DEF do_expire
<1>10. ASSUME NEW k \in Key, NEW v, IsType(k, "str"),
              \/ mem' = [mem EXCEPT ![db[k]].str = v]
              \/ mem' = [mem EXCEPT ![db[k]].str = v, ![db[k]].timed = FALSE]
       PROVE  Canonical'
  <2>1. Live(k) /\ Ent(k).type = "str"
    BY <1>10, Zenon DEF IsType
  <2>2. \/ mem' = [mem EXCEPT ![db[k]] = [Ent(k) EXCEPT !.str = v]]
        \/ mem' = [mem EXCEPT ![db[k]] = [Ent(k) EXCEPT !.str = v, !.timed = FALSE]]
    BY <1>2, <1>10, <2>1, Zenon DEF EntriesOK
  <2>3. /\ Plain([Ent(k) EXCEPT !.str = v])
        /\ Plain([Ent(k) EXCEPT !.str = v, !.timed = FALSE])
    BY <1>2, <2>1, Zenon DEF Plain, EntryType
  <2> QED
    BY <1>2, <2>1, <2>2, <2>3, OneEntry, Zenon
<1>11. ASSUME NEW k \in Key, NEW z, IsType(k, "zset"), mem' = [mem EXCEPT ![db[k]].zset = z]
       PROVE  Canonical'
  <2>1. Live(k) /\ Ent(k).type = "zset"
    BY <1>11, Zenon DEF IsType
  <2>2. mem' = [mem EXCEPT ![db[k]] = [Ent(k) EXCEPT !.zset = z]]
    BY <1>2, <1>11, <2>1, Zenon
  <2>3. Plain([Ent(k) EXCEPT !.zset = z])
    BY <1>2, <2>1, Zenon DEF Plain, EntryType
  <2> QED
    BY <1>2, <2>1, <2>2, <2>3, OneEntry, Zenon
<1>12. ASSUME NEW k \in Key, NEW v, do_set(k, v) PROVE Canonical'
  <2>1. Create(k, "str", v, EmptyZSet) => Canonical'
    BY CreateCanonical, Zenon
  <2> QED
    BY <1>1, <1>10, <1>12, <2>1, Zenon DEF do_set
<1>13. ASSUME NEW k \in Key, incr(k) PROVE Canonical'
  <2>1. IsType(k, "str") /\ mem' = [mem EXCEPT ![db[k]].str = @ + 1]
          => mem' = [mem EXCEPT ![db[k]].str = mem[db[k]].str + 1]
    BY Zenon
  <2>2. Create(k, "str", 1, EmptyZSet) => Canonical'
    BY CreateCanonical, Zenon
  <2> QED
    BY <1>1, <1>10, <1>13, <2>1, <2>2, Zenon DEF incr
<1>14. ASSUME NEW k \in Key, NEW s, NEW m, do_zadd(k, s, m) PROVE Canonical'
  <2>1. mem' = [mem EXCEPT ![db[k]].zset = zset_insert(@, m, s)]
          => mem' = [mem EXCEPT ![db[k]].zset = zset_insert(mem[db[k]].zset, m, s)]
    BY Zenon
  <2>2. Create(k, "zset", Null, zset_insert(EmptyZSet, m, s)) => Canonical'
    BY CreateCanonical, Zenon
  <2> QED
    BY <1>1, <1>11, <1>14, <2>1, <2>2, Zenon DEF do_zadd
<1>15. ASSUME NEW k \in Key, NEW m, do_zrem(k, m) PROVE Canonical'
  <2>1. mem' = [mem EXCEPT ![db[k]].zset = zset_delete(@, m)]
          => mem' = [mem EXCEPT ![db[k]].zset = zset_delete(mem[db[k]].zset, m)]
    BY Zenon
  <2>2. ~IsType(k, "str") /\ m \in DOMAIN expect_zset(k) => IsType(k, "zset")
    BY <1>2, Zenon DEF IsType, expect_zset, EmptyZSet
  <2> QED
    BY <1>1, <1>11, <1>15, <2>1, <2>2, Zenon DEF do_zrem
<1> QED
  BY <1>4, <1>5, <1>6, <1>7, <1>8, <1>9, <1>12, <1>13, <1>14, <1>15, Zenon DEF Command
\* The extended invariant is inductive.
LEMMA RInvStep ==
    ASSUME RInv, [Next]_vars
    PROVE  RInv'
<1>0. /\ IInv /\ Canonical /\ EntriesOK /\ clock \in Nat /\ now \in Nat
      /\ now <= clock /\ IInv'
  BY IInvStep, Zenon DEF RInv, IInv, EntriesOK, TypeOK
<1>1. CASE UNCHANGED <<clock, now, mem>>
  BY <1>0, <1>1, Zenon DEF RInv, Canonical
<1>2. CASE Tick
  BY <1>0, <1>2 DEF Tick, RInv, Canonical
<1>3. CASE on_timer \/ execute
  BY <1>0, <1>3 DEF on_timer, execute, RInv, Canonical
<1>4. CASE process_timers
  <2>1. PICK it \in heap : Remove(it.ref)
    BY <1>4, Zenon DEF process_timers, Roots
  <2>2. Canonical'
    BY <1>0, <2>1, RemoveCanonical, Zenon DEF EntriesOK
  <2>3. (now' = now \/ now' = 0) /\ clock' = clock
    BY <1>4, Zenon DEF process_timers
  <2> QED
    BY <1>0, <2>2, <2>3 DEF RInv
<1>5. CASE Command
  <2>1. Canonical'
    BY <1>0, <1>5, CommandCanonical, Zenon
  <2>2. now' = 0 /\ clock' = clock
    BY <1>5, CommandReturns, Zenon DEF Return
  <2> QED
    BY <1>0, <2>1, <2>2 DEF RInv
<1>6. ASSUME NEW w \in Worker, Take(w) \/ entry_del_func(w) PROVE RInv'
  <2>1. CASE Take(w)
    BY <1>0, <2>1, Zenon DEF Take, RInv, Canonical
  <2>2. CASE entry_del_func(w)
    <3>1. busy[w] \in Addr /\ Plain(Blank)
      BY <1>0, <2>2, Zenon DEF EntriesOK, entry_del_func, Plain, Blank
    <3>2. Canonical'
      BY <1>0, <2>2, <3>1, OneEntry, Zenon DEF entry_del_func
    <3> QED
      BY <1>0, <2>2, <3>2, Zenon DEF entry_del_func, RInv
  <2> QED
    BY <1>6, <2>1, <2>2, Zenon
<1>7. CASE Destroy
  <2>1. Plain(Blank)
    BY Zenon DEF Plain, Blank
  <2>2. Canonical'
    BY <1>0, <1>7, <2>1, Zenon DEF Destroy, Canonical
  <2> QED
    BY <1>0, <1>7, <2>2, Zenon DEF Destroy, RInv
<1> QED
  BY <1>1, <1>2, <1>3, <1>4, <1>5, <1>6, <1>7, Zenon DEF Next, vars, Stop, Terminated

\* The initial states are the Store's.
LEMMA InitRefines ==
    ASSUME Init
    PROVE  RInv /\ Abs!Init
<1>1. IInv
  BY IInvInit, Zenon
<1>2. Canonical /\ now <= clock
  BY DEF Init, Canonical, Plain, Blank
<1>3. \A k \in Key : Val(k) = Abs!Absent
  BY Zenon DEF Init, Val, Live, Absent, Abs!Absent, Abs!Never, EmptyZSet, Abs!EmptyZSet
<1>4. pc = "idle" /\ AbsData = Abs!Empty
  BY <1>3, View, Zenon DEF Init, Abs!Empty
<1>5. AbsPc = "idle"
  BY <1>4, Control, Zenon
<1> QED
  BY <1>1, <1>2, <1>4, <1>5, Zenon DEF RInv, Init, Abs!Init

\* The data the callers see depends on the entries, the table, the heap and
\* where the event loop is.
LEMMA SameData ==
    ASSUME UNCHANGED <<mem, db, heap>>, UNCHANGED <<pc, now>>
    PROVE  AbsData' = AbsData /\ AbsPc' = AbsPc
BY DEF AbsData, AbsPc, Closed, Doomed, Live, Ent, ExpireAt, Absent

\* execute: the keys due at its sample of the clock vanish at once for the
\* caller, however many batches the expiry loop will need.
LEMMA ExecuteRefines ==
    ASSUME RInv, execute
    PROVE  Abs!Begin
<1>0. /\ EntriesOK /\ pc = "idle" /\ now' = clock /\ reply' = <<>> /\ clock \in Nat
      /\ UNCHANGED <<clock, mem, db, heap>>
      /\ pc' = IF Due(clock) # {} THEN "expire" ELSE "run"
  BY Zenon DEF RInv, IInv, EntriesOK, TypeOK, execute
<1>1. AbsPc = "idle" /\ AbsPc' = "run"
  BY <1>0, Control, Zenon
<1>2. AbsData = [k \in Key |-> Val(k)]
  BY <1>0, View, Zenon
<1>3. Abs!Absent = Absent
  BY Zenon DEF Absent, Abs!Absent, Abs!Never, EmptyZSet, Abs!EmptyZSet
<1>4. ASSUME NEW k \in Key
      PROVE  AbsData'[k] = IF Abs!Due(k) THEN Absent ELSE AbsData[k]
  <2>1. AbsData'[k] = IF ~Live(k) \/ Doomed(k)' THEN Absent
                      ELSE [type |-> Ent(k).type, str |-> Ent(k).str,
                            zset |-> Ent(k).zset, exp |-> Expiry(k)]
    BY <1>0, Zenon DEF AbsData, Closed, Live, Ent, ExpireAt, Expiry, Absent
  <2>2. CASE ~Live(k)
    BY <1>2, <2>1, <2>2, Zenon DEF Val
  <2>3. CASE Live(k)
    <3>1. AbsData[k] = [type |-> Ent(k).type, str |-> Ent(k).str,
                        zset |-> Ent(k).zset, exp |-> Expiry(k)]
      BY <1>2, <2>3, Zenon DEF Val
    <3>2. Abs!Due(k) <=> Expiry(k) # -1 /\ Expiry(k) <= clock
      BY <3>1 DEF Abs!Due, Abs!Never
    <3>3. Doomed(k)' <=> pc' = "expire" /\ Ent(k).timed /\ ExpireAt(db[k]) <= clock
      BY <1>0, Zenon DEF Doomed, Ent, ExpireAt
    <3>4. Ent(k).timed => \E it \in heap : it.ref = db[k] /\ it.val \in Nat
                                           /\ ExpireAt(db[k]) = it.val
      BY <1>0, <2>3, LiveEntry, Zenon
    <3>5. Abs!Due(k) <=> Ent(k).timed /\ ExpireAt(db[k]) <= clock
      BY <3>2, <3>4 DEF Expiry
    <3>6. Ent(k).timed /\ ExpireAt(db[k]) <= clock => pc' = "expire"
      BY <1>0, <3>4, Zenon DEF Due
    <3>7. Abs!Due(k) <=> Doomed(k)'
      BY <3>3, <3>5, <3>6, Zenon
    <3> QED
      BY <2>1, <2>3, <3>1, <3>7, Zenon
  <2> QED
    BY <2>2, <2>3, Zenon
<1>5. AbsData' = Abs!Drop({k \in Key : Abs!Due(k)})
  <2>1. AbsData' = [k \in Key |-> AbsData'[k]]
    BY Zenon DEF AbsData
  <2> QED
    BY <1>3, <1>4, <2>1, Zenon DEF Abs!Drop
<1> QED
  BY <1>0, <1>1, <1>5, Zenon DEF Abs!Begin
\* Whether execute is about to expire a key can be read off its value.
LEMMA DoomedIs ==
    \A k \in Key : EntriesOK /\ Live(k) =>
        (Doomed(k) <=> pc = "expire" /\ Val(k).exp # -1 /\ Val(k).exp <= now)
<1> SUFFICES ASSUME NEW k \in Key, EntriesOK, Live(k)
             PROVE  Doomed(k) <=> pc = "expire" /\ Val(k).exp # -1 /\ Val(k).exp <= now
  BY Zenon
<1>1. Val(k).exp = Expiry(k)
  BY Zenon DEF Val
<1>2. Ent(k).timed => ExpireAt(db[k]) \in Nat
  BY LiveEntry, Zenon
<1> QED
  BY <1>1, <1>2 DEF Expiry, Doomed

\* The same of the next state.
LEMMA DoomedNext ==
    (\A k \in Key : EntriesOK /\ Live(k) =>
        (Doomed(k) <=> pc = "expire" /\ Val(k).exp # -1 /\ Val(k).exp <= now))'
BY DoomedIs, PTL

\* The data while execute's expiry loop runs.
LEMMA ExpiringView ==
    /\ \A k \in Key : pc = "expire" =>
          AbsData[k] = IF Live(k) /\ Doomed(k) THEN Absent ELSE Val(k)
    /\ \A k \in Key : pc' = "expire" =>
          AbsData'[k] = IF Live(k)' /\ Doomed(k)' THEN Absent ELSE Val(k)'
BY Zenon DEF AbsData, Closed, Val, Expiry, Absent

\* One round of process_timers: in execute's loop the key had vanished already,
\* from on_timer it vanishes now, and it was due.
LEMMA TimersRefine ==
    ASSUME RInv, process_timers
    PROVE  Abs!Expire \/ UNCHANGED <<clock, AbsPc, AbsData, reply>>
<1>0. /\ EntriesOK /\ clock \in Nat /\ now \in Nat /\ now <= clock
      /\ pc \in {"expire", "timers"} /\ UNCHANGED <<clock, busy, reply>>
  BY Zenon DEF RInv, IInv, EntriesOK, TypeOK, process_timers
<1>1. PICK it \in heap : it.val <= now /\ Remove(it.ref)
  BY Zenon DEF process_timers, Roots
<1>2. it.ref \in Addr /\ it.val \in Nat /\ InTable(it.ref) /\ mem[it.ref].timed
  BY <1>0, Zenon DEF EntriesOK, TimerConsistency
<1>3. PICK k \in Key : db[k] = it.ref
  BY <1>2, Zenon DEF InTable
<1>4. Live(k) /\ Ent(k).timed
  BY <1>2, <1>3, StoreAssumption, Zenon DEF Live, Ent
<1>5. Val(k).exp = it.val
  <2>1. (CHOOSE x \in heap : x.ref = it.ref) = it
    BY <1>0, ChosenItem, Zenon DEF EntriesOK, TimerConsistency
  <2> QED
    BY <1>3, <1>4, <2>1, Zenon DEF Val, Expiry, ExpireAt
<1>6. /\ EntriesOK' /\ ~Live(k)' /\ Val(k)' = Absent
      /\ \A j \in Key : j # k => Val(j)' = Val(j) /\ db'[j] = db[j]
  BY <1>0, <1>1, <1>3, <1>4, RemoveVal, Zenon
<1>7. CASE pc = "timers"
  <2>1. pc' \in {"timers", "idle"}
    BY <1>7, Zenon DEF process_timers
  <2>2. AbsPc = "idle" /\ AbsPc' = "idle"
    BY <1>7, <2>1, Control, Zenon
  <2>3. AbsData = [j \in Key |-> Val(j)] /\ AbsData' = [j \in Key |-> Val(j)']
    BY <1>7, <2>1, View, Zenon
  <2>4. Abs!Due(k)
    BY <1>0, <1>1, <1>2, <1>5, <2>3 DEF Abs!Due, Abs!Never
  <2>5. Abs!Absent = Absent
    BY Zenon DEF Absent, Abs!Absent, Abs!Never, EmptyZSet, Abs!EmptyZSet
  <2>6. AbsData' = Abs!Drop({k})
    BY <1>6, <2>3, <2>5, Zenon DEF Abs!Drop
  <2>7. {k} \in SUBSET {j \in Key : Abs!Due(j)}
    BY <2>4, Zenon
  <2> QED
    BY <1>0, <2>2, <2>6, <2>7, Zenon DEF Abs!Expire
<1>8. CASE pc = "expire"
  <2>1. pc' \in {"expire", "run"} /\ now' = now
    BY <1>8, Zenon DEF process_timers
  <2>2. AbsPc = "run" /\ AbsPc' = "run"
    BY <1>8, <2>1, Control, Zenon
  <2>3. AbsData[k] = Absent
    <3>1. Doomed(k)
      BY <1>0, <1>1, <1>2, <1>4, <1>5, <1>8, DoomedIs
    <3> QED
      BY <1>4, <1>8, <3>1, ExpiringView, Zenon
  <2>4. AbsData'[k] = Absent
    BY <1>6, Zenon DEF AbsData, Absent
  <2>5. ASSUME NEW j \in Key, j # k, pc' = "expire" PROVE AbsData'[j] = AbsData[j]
    <3>1. AbsData[j] = IF Live(j) /\ Doomed(j) THEN Absent ELSE Val(j)
      BY <1>8, ExpiringView, Zenon
    <3>2. AbsData'[j] = IF Live(j)' /\ Doomed(j)' THEN Absent ELSE Val(j)'
      BY <2>5, ExpiringView, Zenon
    <3>3. Live(j)' <=> Live(j)
      BY <1>6, <2>5, Zenon DEF Live
    <3>4. Live(j) => (Doomed(j) <=> Val(j).exp # -1 /\ Val(j).exp <= now)
      BY <1>0, <1>8, DoomedIs, Zenon
    <3>5. Live(j)' => (Doomed(j)' <=> Val(j)'.exp # -1 /\ Val(j)'.exp <= now)
      BY <1>6, <2>1, <2>5, DoomedNext, Zenon
    <3> QED
      BY <1>6, <2>5, <3>1, <3>2, <3>3, <3>4, <3>5, ZenonT(60)
  <2>6. ASSUME NEW j \in Key, j # k, pc' = "run" PROVE AbsData'[j] = AbsData[j]
    <3>1. {x \in heap' : x.val <= now} = {}
      BY <1>8, <2>6, Zenon DEF process_timers
    <3>2. heap' = TimersWithout(db[k])
      BY <1>1, <1>3, Zenon DEF Remove, entry_del
    <3>3. ASSUME Live(j), Doomed(j) PROVE FALSE
      <4>1. Ent(j).timed /\ ExpireAt(db[j]) <= now
        BY <3>3, Zenon DEF Doomed
      <4>2. PICK x \in heap : x.ref = db[j] /\ ExpireAt(db[j]) = x.val
        BY <1>0, <3>3, <4>1, LiveEntry, ZenonT(60)
      <4>3. db[j] # db[k]
        BY <1>0, <1>4, <2>6, OwnEntry, Zenon
      <4> QED
        BY <3>1, <3>2, <4>1, <4>2, <4>3, Zenon DEF TimersWithout
    <3>4. AbsData[j] = Val(j)
      BY <1>8, <3>3, ExpiringView, Zenon
    <3>5. AbsData'[j] = Val(j)'
      BY <2>6, View, Zenon
    <3> QED
      BY <1>6, <2>6, <3>4, <3>5, Zenon
  <2>7. AbsData' = AbsData
    <3>1. \A j \in Key : AbsData'[j] = AbsData[j]
      BY <2>1, <2>3, <2>4, <2>5, <2>6, Zenon
    <3> QED
      BY <3>1, Zenon DEF AbsData
  <2> QED
    BY <1>0, <2>2, <2>7, Zenon
<1> QED
  BY <1>0, <1>7, <1>8, Zenon

\* A worker frees an entry no key refers to.
LEMMA WorkerRefines ==
    ASSUME RInv, NEW w \in Worker, Take(w) \/ entry_del_func(w)
    PROVE  UNCHANGED <<clock, AbsPc, AbsData, reply>>
<1>1. CASE Take(w)
  BY <1>1, SameData, Zenon DEF Take
<1>2. CASE entry_del_func(w)
  <2>1. /\ UNCHANGED <<clock, pc, now, db, heap, reply>>
        /\ mem' = [mem EXCEPT ![busy[w]] = Blank] /\ busy[w] # Null
    BY <1>2, Zenon DEF entry_del_func
  <2>2. ASSUME NEW k \in Key, Live(k) PROVE mem'[db[k]] = mem[db[k]]
    <3>1. ~InTable(busy[w])
      BY <2>1, Zenon DEF RInv, IInv, EntryOwnership, WorkersOwn
    <3> QED
      BY <2>1, <3>1 DEF InTable
  <2>3. \A k \in Key : (Live(k)' <=> Live(k)) /\ (Live(k) => Ent(k)' = Ent(k))
    BY <2>1, <2>2, Zenon DEF Live, Ent
  <2>4. AbsPc' = AbsPc
    BY <2>1, Zenon DEF AbsPc, Closed
  <2>5. AbsData' = AbsData
    BY <2>1, <2>3, Zenon DEF AbsData, Closed, Doomed, ExpireAt, Absent
  <2> QED
    BY <2>1, <2>4, <2>5, Zenon
<1> QED
  BY <1>1, <1>2, Zenon
\* Every step of the engine is a step of the Store or invisible to its callers.
LEMMA StepRefines ==
    ASSUME RInv, [Next]_vars
    PROVE  [Abs!Next]_(Abs!vars)
<1> DEFINE Stutter == UNCHANGED <<clock, AbsPc, AbsData, reply>>
<1>0. EntriesOK /\ Canonical /\ clock \in Nat
  BY Zenon DEF RInv, IInv, EntriesOK, TypeOK
<1>1. CASE UNCHANGED vars
  <2>1. Stutter
    BY <1>1, SameData, Zenon DEF vars
  <2> QED
    BY <2>1, Zenon DEF Abs!vars
<1>2. CASE Tick
  <2>1. /\ pc \in {"idle", "expire", "run", "timers"} /\ clock < MaxClock
        /\ clock' = clock + 1 /\ UNCHANGED <<pc, now, mem, db, heap, reply>>
    BY <1>2, Zenon DEF Tick, RInv, IInv, TypeOK
  <2>2. AbsPc \in {"idle", "run"}
    BY <2>1, Control, Zenon
  <2>3. UNCHANGED <<AbsPc, AbsData>>
    BY <2>1, SameData, Zenon
  <2> QED
    BY <2>1, <2>2, <2>3, Zenon DEF Abs!Tick, Abs!Next
<1>3. CASE on_timer
  <2>1. pc = "idle" /\ pc' = "timers" /\ UNCHANGED <<clock, mem, db, heap, reply>>
    BY <1>3, Zenon DEF on_timer
  <2>2. UNCHANGED AbsPc
    BY <2>1, Control, Zenon
  <2>3. \A k \in Key : Val(k)' = Val(k)
    BY <2>1, Zenon DEF Val, Expiry, Live, Ent, ExpireAt, Absent
  <2>4. UNCHANGED AbsData
    BY <2>1, <2>3, View, Zenon
  <2> QED
    BY <2>1, <2>2, <2>4, Zenon DEF Abs!vars
<1>4. CASE execute
  BY <1>4, ExecuteRefines, Zenon DEF Abs!Next
<1>5. CASE process_timers
  BY <1>5, TimersRefine, Zenon DEF Abs!Next, Abs!vars
<1>6. CASE Command
  BY <1>0, <1>6, CommandRefines, Zenon DEF Abs!Next
<1>7. ASSUME NEW w \in Worker, Take(w) \/ entry_del_func(w) PROVE [Abs!Next]_(Abs!vars)
  BY <1>7, WorkerRefines, Zenon DEF Abs!vars
<1>8. CASE Stop
  <2>1. pc = "idle" /\ pc' = "stopping" /\ UNCHANGED <<clock, reply>>
    BY <1>8, Zenon DEF Stop
  <2>2. AbsPc = "idle" /\ AbsPc' = "closed"
    BY <2>1, Control, Zenon
  <2>3. AbsData' = Abs!Empty
    BY <2>1 DEF AbsData, Closed, Absent, Abs!Empty, Abs!Absent, Abs!Never,
                EmptyZSet, Abs!EmptyZSet
  <2> QED
    BY <2>1, <2>2, <2>3, Zenon DEF Abs!Close, Abs!Next
<1>9. CASE Destroy
  <2>1. pc = "stopping" /\ pc' = "gone" /\ UNCHANGED <<clock, reply>>
    BY <1>9, Zenon DEF Destroy
  <2>2. UNCHANGED AbsPc
    BY <2>1, Control
  <2>3. UNCHANGED AbsData
    BY <2>1, Zenon DEF AbsData, Closed, Absent
  <2> QED
    BY <2>1, <2>2, <2>3, Zenon DEF Abs!vars
<1> QED
  BY <1>1, <1>2, <1>3, <1>4, <1>5, <1>6, <1>7, <1>8, <1>9, Zenon DEF Next, Terminated

\* kv_store.cpp implements the abstract Store: for any keys, arguments, batch
\* size, pool and clock, every reply and every change of the keyspace is one
\* the Store allows.
THEOREM Implementation == Spec => ImplementsStore
<1>1. Init => RInv /\ Abs!Init
  BY InitRefines, Zenon
<1>2. RInv /\ [Next]_vars => RInv' /\ [Abs!Next]_(Abs!vars)
  BY RInvStep, StepRefines, Zenon
<1> QED
  BY <1>1, <1>2, PTL DEF Spec, ImplementsStore, Abs!Spec
=============================================================================
