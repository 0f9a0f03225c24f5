--------------------------- MODULE KVStoreProofs ---------------------------
(***************************************************************************)
(* Proofs about KVStore, for every set of keys, members, addresses and     *)
(* workers and every value of the limits.                                  *)
(***************************************************************************)
EXTENDS KVStore, TLAPS

\* What a sequence of distinct elements holds after a push at its end.
LEMMA PushElements ==
    ASSUME NEW S, NEW s \in Seq(S), NEW e \in S
    PROVE  LET t == Append(s, e)
           IN  /\ t \in Seq(S)
               /\ \A f : (\E i \in DOMAIN t : t[i] = f)
                          <=> (\E i \in DOMAIN s : s[i] = f) \/ f = e
               /\ (\A i, j \in DOMAIN s : s[i] = s[j] => i = j)
                  /\ (\A i \in DOMAIN s : s[i] # e)
                  => \A i, j \in DOMAIN t : t[i] = t[j] => i = j
<1> DEFINE t == Append(s, e)
<1>1. /\ t \in Seq(S) /\ Len(t) = Len(s) + 1 /\ Len(s) \in Nat
      /\ DOMAIN s = 1 .. Len(s) /\ DOMAIN t = 1 .. Len(s) + 1
      /\ \A i \in 1 .. Len(s) : t[i] = s[i]
      /\ t[Len(s) + 1] = e
  OBVIOUS
<1> HIDE DEF t
<1>2. \A i \in DOMAIN t : i \in DOMAIN s \/ i = Len(s) + 1
  BY <1>1
<1>3. \A i \in DOMAIN s : i \in DOMAIN t
  BY <1>1
<1>4. Len(s) + 1 \in DOMAIN t
  BY <1>1
<1> QED
  BY <1>1, <1>2, <1>3, <1>4 DEF t

\* What a sequence of distinct elements holds after a pop at its front.
LEMMA PopElements ==
    ASSUME NEW S, NEW s \in Seq(S), s # <<>>
    PROVE  LET t == Tail(s)
           IN  /\ t \in Seq(S) /\ Head(s) \in S
               /\ \A f : (\E i \in DOMAIN s : s[i] = f)
                          <=> (\E i \in DOMAIN t : t[i] = f) \/ f = Head(s)
               /\ (\A i, j \in DOMAIN s : s[i] = s[j] => i = j)
                  => /\ \A i, j \in DOMAIN t : t[i] = t[j] => i = j
                     /\ \A i \in DOMAIN t : t[i] # Head(s)
<1> DEFINE t == Tail(s)
<1>1. /\ t \in Seq(S) /\ Len(t) = Len(s) - 1 /\ Len(s) \in Nat /\ Len(s) > 0
      /\ DOMAIN s = 1 .. Len(s) /\ DOMAIN t = 1 .. Len(s) - 1
      /\ \A i \in 1 .. Len(s) - 1 : t[i] = s[i + 1]
      /\ Head(s) = s[1] /\ Head(s) \in S
  OBVIOUS
<1> HIDE DEF t
<1>2. \A i \in DOMAIN s : i = 1 \/ (i - 1 \in DOMAIN t /\ t[i - 1] = s[i])
  BY <1>1
<1>3. \A i \in DOMAIN t : i + 1 \in DOMAIN s /\ s[i + 1] = t[i] /\ i + 1 # 1 /\ i \in Int
  BY <1>1
<1>4. 1 \in DOMAIN s /\ Head(s) = s[1]
  BY <1>1
<1>5. \A f : (\E i \in DOMAIN s : s[i] = f) <=> (\E i \in DOMAIN t : t[i] = f) \/ f = Head(s)
  BY <1>2, <1>3, <1>4, Zenon
<1>6. ASSUME \A i, j \in DOMAIN s : s[i] = s[j] => i = j
      PROVE  /\ \A i, j \in DOMAIN t : t[i] = t[j] => i = j
             /\ \A i \in DOMAIN t : t[i] # Head(s)
  BY <1>6, <1>3, <1>4
<1> QED
  BY <1>1, <1>5, <1>6 DEF t
-----------------------------------------------------------------------------
\* What the inductive argument adds: nothing is left once ~Impl returned.
GoneEmpty ==
    pc = "gone" => /\ queue = <<>>
                   /\ \A k \in Key : db[k] = Null
                   /\ \A w \in Worker : busy[w] = Null

\* The inductive invariant.
IInv ==
    /\ TypeOK /\ EntryOwnership /\ TimerConsistency
    /\ NoExpiredVisible /\ GoneEmpty

\* The part of the type invariant and of IInv about entries and timers.
EntriesOK ==
    /\ mem \in [Addr -> EntryType]
    /\ db \in [Key -> Addr \cup {Null}]
    /\ heap \subseteq [val : Nat, ref : Addr]
    /\ queue \in Seq(Addr)
    /\ busy \in [Worker -> Addr \cup {Null}]
    /\ EntryOwnership /\ TimerConsistency

\* A step of the event loop writes to entries of the table and to addresses
\* it has just allocated, and to no others.
OwnWritesOnly ==
    \A f \in Addr : mem'[f] # mem[f] => InTable(f) \/ ~Allocated(f)

-----------------------------------------------------------------------------
\* Adding or removing a member keeps a sorted set well formed.
LEMMA ZSetType ==
    /\ EmptyZSet \in ZSets
    /\ \A z \in ZSets, m \in Member, s \in Score : zset_insert(z, m, s) \in ZSets
    /\ \A z \in ZSets, m \in Member : zset_delete(z, m) \in ZSets
<1>1. EmptyZSet \in [{} -> Score]
  BY DEF EmptyZSet
<1>2. ASSUME NEW z \in ZSets, NEW m \in Member, NEW s \in Score
      PROVE  zset_insert(z, m, s) \in ZSets /\ zset_delete(z, m) \in ZSets
  <2>1. PICK S \in SUBSET Member : z \in [S -> Score]
    BY DEF ZSets
  <2>2. zset_insert(z, m, s) \in [S \cup {m} -> Score]
    BY <2>1 DEF zset_insert
  <2>3. zset_delete(z, m) \in [S \ {m} -> Score]
    BY <2>1 DEF zset_delete
  <2> QED
    BY <2>2, <2>3 DEF ZSets
<1>3. ASSUME NEW z \in ZSets, NEW m \in Member
      PROVE  zset_delete(z, m) \in ZSets
  <2>1. PICK S \in SUBSET Member : z \in [S -> Score]
    BY DEF ZSets
  <2>2. zset_delete(z, m) \in [S \ {m} -> Score]
    BY <2>1 DEF zset_delete
  <2> QED
    BY <2>2 DEF ZSets
<1> QED
  BY <1>1, <1>2, <1>3 DEF ZSets

\* An address that is free, or that is Null, is no entry's.
LEMMA BlankType == Blank \in EntryType /\ Blank.type = "free" /\ ~Blank.timed
BY ZSetType DEF Blank, EntryType

-----------------------------------------------------------------------------
(***************************************************************************)
(* The effects the operations are made of, each shown to keep the entries  *)
(* and the timers consistent.                                              *)
(***************************************************************************)

\* Unlinking an entry of the table and disposing of it, here or in the pool.
LEMMA RemoveKeeps ==
    ASSUME EntriesOK, NEW e \in Addr, InTable(e), Remove(e), UNCHANGED busy
    PROVE  EntriesOK' /\ OwnWritesOnly /\ heap' \subseteq heap
<1>0. e # Null /\ Allocated(e) /\ ~Queued(e) /\ ~Freeing(e)
  <2>1. PICK k \in Key : db[k] = e
    BY DEF InTable
  <2>2. e # Null
    BY StoreAssumption
  <2>3. Allocated(e)
    BY <2>1, <2>2 DEF EntriesOK, EntryOwnership, TableOwns, Live
  <2>4. ~Queued(e)
    BY DEF EntriesOK, EntryOwnership, QueueOwns
  <2>5. ~Freeing(e)
    BY <2>2 DEF EntriesOK, EntryOwnership, WorkersOwn, Freeing
  <2> QED
    BY <2>2, <2>3, <2>4, <2>5
<1>1. mem' \in [Addr -> EntryType] /\ queue' \in Seq(Addr)
  <2>1. ASSUME mem' = [mem EXCEPT ![e].timed = FALSE]
        PROVE  mem' \in [Addr -> EntryType]
    BY <2>1, Zenon DEF EntriesOK, EntryType
  <2>2. ASSUME mem' = [mem EXCEPT ![e] = Blank]
        PROVE  mem' \in [Addr -> EntryType]
    BY <2>2, BlankType DEF EntriesOK
  <2>3. queue' \in Seq(Addr)
    <3>1. queue \in Seq(Addr) /\ Append(queue, e) \in Seq(Addr)
      BY DEF EntriesOK
    <3>2. queue' = queue \/ queue' = Append(queue, e)
      BY DEF Remove, entry_del
    <3> QED
      BY <3>1, <3>2
  <2> QED
    BY <2>1, <2>2, <2>3 DEF Remove, entry_del
<1>2. db' \in [Key -> Addr \cup {Null}]
  BY DEF EntriesOK, Remove
<1>3. heap' = TimersWithout(e)
  BY DEF Remove, entry_del
<1>4. /\ \A f \in Addr : f # e => mem'[f] = mem[f]
      /\ mem'[e] \in {Blank, [mem[e] EXCEPT !.timed = FALSE]}
  BY DEF EntriesOK, Remove, entry_del
<1>5. ~mem'[e].timed /\ mem[e] \in EntryType
  BY <1>4, BlankType DEF EntriesOK, EntryType
<1>6. \A f \in Addr : InTable(f)' <=> InTable(f) /\ f # e
  BY StoreAssumption DEF InTable, Remove
<1>7. TableOwns'
  <2> SUFFICES ASSUME NEW k \in Key, db'[k] # Null
               PROVE  mem'[db'[k]].type # "free" /\ mem'[db'[k]].key = k
    BY DEF TableOwns, Live, Ent, Allocated
  <2>1. db'[k] = db[k] /\ db[k] # e /\ db[k] \in Addr
    BY DEF Remove, EntriesOK
  <2> QED
    BY <1>4, <2>1 DEF EntriesOK, EntryOwnership, TableOwns, Live, Ent, Allocated
<1>8. QueueOwns' /\ NoneLost'
  <2>1. CASE queue' = Append(queue, e) /\ mem' = [mem EXCEPT ![e].timed = FALSE]
    <3>0. queue \in Seq(Addr)
      BY DEF EntriesOK
    <3>a. \A f : (\E i \in DOMAIN Append(queue, e) : Append(queue, e)[i] = f)
                  <=> (\E i \in DOMAIN queue : queue[i] = f) \/ f = e
      BY <3>0, PushElements
    <3>1. \A f \in Addr : Queued(f)' <=> Queued(f) \/ f = e
      BY <2>1, <3>a DEF Queued
    <3>2. \A f \in Addr : Allocated(f)' <=> Allocated(f)
      BY <2>1, <1>5 DEF Allocated, EntriesOK, EntryType
    <3>3. \A i, j \in DOMAIN queue' : queue'[i] = queue'[j] => i = j
      BY <2>1, <1>0, PushElements DEF Queued, EntriesOK, EntryOwnership, QueueOwns
    <3> QED
      BY <3>1, <3>2, <3>3, <1>0, <1>6
      DEF EntriesOK, EntryOwnership, QueueOwns, NoneLost, Freeing
  <2>2. CASE queue' = queue /\ mem' = [mem EXCEPT ![e] = Blank]
    <3>1. \A f \in Addr : Queued(f)' <=> Queued(f)
      BY <2>2 DEF Queued
    <3>2. \A f \in Addr : Allocated(f)' <=> Allocated(f) /\ f # e
      BY <2>2, BlankType DEF Allocated, EntriesOK
    <3> QED
      BY <2>2, <3>1, <3>2, <1>0, <1>6
      DEF EntriesOK, EntryOwnership, QueueOwns, NoneLost, Freeing
  <2> QED
    BY <2>1, <2>2 DEF Remove, entry_del
<1>9. WorkersOwn'
  BY <1>0, <1>4, <1>6 DEF EntriesOK, EntryOwnership, WorkersOwn, Freeing, Allocated
<1>10. TimerConsistency'
  <2>1. \A it \in heap' : it \in heap /\ it.ref # e
    BY <1>3 DEF TimersWithout, EntriesOK, TimerConsistency
  <2>2. \A it \in heap : it.ref # e => it \in heap'
    BY <1>3 DEF TimersWithout
  <2>3. \A it \in heap : it.ref \in Addr
    BY DEF EntriesOK
  <2> QED
    BY <2>1, <2>2, <2>3, <1>4, <1>5, <1>6 DEF EntriesOK, TimerConsistency
<1>11. heap' \subseteq heap
  BY <1>3 DEF TimersWithout
<1> QED
  BY <1>1, <1>2, <1>4, <1>7, <1>8, <1>9, <1>10, <1>11 DEF EntriesOK, EntryOwnership, OwnWritesOnly

\* A new entry at an address nothing refers to.
LEMMA CreateKeeps ==
    ASSUME EntriesOK, NEW k \in Key, ~Live(k), NEW t \in {"str", "zset"},
           NEW v \in Str \cup {Null}, NEW z \in ZSets,
           Create(k, t, v, z), UNCHANGED <<heap, queue, busy>>
    PROVE  EntriesOK' /\ OwnWritesOnly
<1>1. PICK e \in Addr :
        /\ ~Allocated(e)
        /\ mem' = [mem EXCEPT ![e] = [Blank EXCEPT !.key = k, !.type = t,
                                                   !.str = v, !.zset = z]]
        /\ db' = [db EXCEPT ![k] = e]
  BY Zenon DEF Create
<1> DEFINE r == [Blank EXCEPT !.key = k, !.type = t, !.str = v, !.zset = z]
<1>2. r \in EntryType /\ r.type # "free" /\ r.key = k /\ ~r.timed
  BY BlankType, Zenon DEF EntryType, Blank
<1>3. mem' \in [Addr -> EntryType] /\ mem'[e] = r /\ \A f \in Addr : f # e => mem'[f] = mem[f]
  BY <1>1, <1>2 DEF EntriesOK
<1> HIDE DEF r
<1>4. db' \in [Key -> Addr \cup {Null}] /\ db'[k] = e /\ \A j \in Key : j # k => db'[j] = db[j]
  BY <1>1 DEF EntriesOK
<1>5. ~InTable(e) /\ ~Queued(e) /\ ~Freeing(e)
  BY <1>1, StoreAssumption
  DEF EntriesOK, EntryOwnership, TableOwns, QueueOwns, WorkersOwn, InTable, Freeing, Live
<1>6. \A f \in Addr : InTable(f)' <=> InTable(f) \/ f = e
  BY <1>4, StoreAssumption DEF InTable, Live
<1>7. \A f \in Addr : Allocated(f)' <=> Allocated(f) \/ f = e
  BY <1>2, <1>3 DEF Allocated
<1>8. TableOwns'
  <2> SUFFICES ASSUME NEW j \in Key, db'[j] # Null
               PROVE  mem'[db'[j]].type # "free" /\ mem'[db'[j]].key = j
    BY DEF TableOwns, Live, Ent, Allocated
  <2>1. CASE j = k
    BY <2>1, <1>2, <1>3, <1>4
  <2>2. CASE j # k
    BY <2>2, <1>3, <1>4, <1>5
    DEF EntriesOK, EntryOwnership, TableOwns, Live, Ent, Allocated, InTable
  <2> QED
    BY <2>1, <2>2
<1>9. (\A f \in Addr : Queued(f)' <=> Queued(f)) /\ (\A f : Freeing(f)' <=> Freeing(f))
  BY DEF Queued, Freeing
<1>10. QueueOwns' /\ NoneLost'
  BY <1>5, <1>6, <1>7, <1>9 DEF EntriesOK, EntryOwnership, QueueOwns, NoneLost
<1>11. WorkersOwn'
  BY <1>5, <1>6, <1>7 DEF EntriesOK, EntryOwnership, WorkersOwn, Freeing
<1>12. TimerConsistency'
  <2>1. ~mem[e].timed
    BY <1>5 DEF EntriesOK, TimerConsistency
  <2>2. \A f \in Addr : mem'[f].timed <=> mem[f].timed
    BY <2>1, <1>2, <1>3
  <2>3. \A it \in heap : it.ref \in Addr
    BY DEF EntriesOK
  <2> QED
    BY <2>2, <2>3, <1>6 DEF EntriesOK, TimerConsistency
<1> QED
  BY <1>1, <1>3, <1>4, <1>8, <1>10, <1>11, <1>12 DEF EntriesOK, EntryOwnership, OwnWritesOnly

\* Overwriting fields of a live entry, and its item in the heap with them.
LEMMA UpdateKeeps ==
    ASSUME EntriesOK, NEW k \in Key, Live(k), NEW r \in EntryType,
           r.key = k, r.type # "free",
           mem' = [mem EXCEPT ![db[k]] = r], UNCHANGED <<db, queue, busy>>,
           \/ heap' = heap /\ r.timed = Ent(k).timed
           \/ heap' = TimersWithout(db[k]) /\ ~r.timed
           \/ \E ttl \in Nat : heap' = TimersWith(db[k], ttl) /\ r.timed,
           clock \in Nat
    PROVE  EntriesOK' /\ OwnWritesOnly
<1> DEFINE e == db[k]
<1>1. e \in Addr /\ InTable(e)
  BY DEF Live, InTable, EntriesOK
<1>2. mem' \in [Addr -> EntryType] /\ mem'[e] = r /\ \A f \in Addr : f # e => mem'[f] = mem[f]
  BY <1>1 DEF EntriesOK
<1>3. Allocated(e)
  BY DEF EntriesOK, EntryOwnership, TableOwns
<1> HIDE DEF e
<1>4. \A f \in Addr : /\ Allocated(f)' <=> Allocated(f)
                      /\ Queued(f)' <=> Queued(f)
                      /\ InTable(f)' <=> InTable(f)
                      /\ Freeing(f)' <=> Freeing(f)
  BY <1>2, <1>3 DEF Allocated, Queued, InTable, Freeing
<1>5. TableOwns'
  <2> SUFFICES ASSUME NEW j \in Key, db[j] # Null
               PROVE  mem'[db[j]].type # "free" /\ mem'[db[j]].key = j
    BY DEF TableOwns, Live, Ent, Allocated
  <2>1. mem[db[j]].type # "free" /\ mem[db[j]].key = j /\ db[j] \in Addr
    BY DEF EntriesOK, EntryOwnership, TableOwns, Live, Ent, Allocated
  <2>2. mem[e].key = k
    BY DEF EntriesOK, EntryOwnership, TableOwns, Live, Ent, e
  <2> QED
    BY <1>2, <2>1, <2>2
<1>6. QueueOwns' /\ NoneLost'
  BY <1>4 DEF EntriesOK, EntryOwnership, QueueOwns, NoneLost
<1>7. WorkersOwn'
  BY <1>4 DEF EntriesOK, EntryOwnership, WorkersOwn
<1>8. TimerConsistency' /\ heap' \subseteq [val : Nat, ref : Addr]
  <2>0. \A it \in heap : it.ref \in Addr
    BY DEF EntriesOK
  <2>1. CASE heap' = heap /\ r.timed = Ent(k).timed
    <3>1. \A f \in Addr : mem'[f].timed <=> mem[f].timed
      BY <2>1, <1>2 DEF Ent, e
    <3> QED
      BY <2>0, <2>1, <3>1, <1>4 DEF EntriesOK, TimerConsistency
  <2>2. CASE heap' = TimersWithout(db[k]) /\ ~r.timed
    <3>1. \A it : it \in heap' <=> it \in heap /\ it.ref # e
      BY <2>2 DEF EntriesOK, TimerConsistency, TimersWithout, e
    <3> QED
      BY <2>0, <2>2, <3>1, <1>2, <1>4 DEF EntriesOK, TimerConsistency
  <2>3. CASE \E ttl \in Nat : heap' = TimersWith(db[k], ttl) /\ r.timed
    <3>1. PICK ttl \in Nat : heap' = TimersWith(e, ttl) /\ r.timed
      BY <2>3 DEF e
    <3> DEFINE new == [val |-> clock + ttl, ref |-> e]
    <3>2. new \in [val : Nat, ref : Addr] /\ new.ref = e
      BY <1>1
    <3> HIDE DEF new
    <3>3. \A it : it \in heap' <=> (it \in heap /\ it.ref # e) \/ it = new
      BY <3>1 DEF EntriesOK, TimerConsistency, TimersWithout, TimersWith, new
    <3> QED
      BY <2>0, <3>1, <3>2, <3>3, <1>1, <1>2, <1>4 DEF EntriesOK, TimerConsistency
  <2> QED
    BY <2>1, <2>2, <2>3
<1> QED
  BY <1>1, <1>2, <1>5, <1>6, <1>7, <1>8 DEF EntriesOK, EntryOwnership, OwnWritesOnly

\* A worker pops the queue: the entry changes hands.
LEMMA TakeKeeps ==
    ASSUME EntriesOK, NEW w \in Worker, Take(w)
    PROVE  EntriesOK'
<1>0. queue \in Seq(Addr) /\ queue # <<>> /\ busy[w] = Null
  BY DEF EntriesOK, Take
<1> DEFINE e == Head(queue)  t == Tail(queue)
<1>a. /\ t \in Seq(Addr) /\ e \in Addr
      /\ \A f : (\E i \in DOMAIN queue : queue[i] = f)
                 <=> (\E i \in DOMAIN t : t[i] = f) \/ f = e
      /\ (\A i, j \in DOMAIN queue : queue[i] = queue[j] => i = j)
         => /\ \A i, j \in DOMAIN t : t[i] = t[j] => i = j
            /\ \A i \in DOMAIN t : t[i] # e
  BY <1>0, PopElements, Zenon
<1>2. /\ queue' = t /\ mem' = mem /\ db' = db /\ heap' = heap
      /\ busy' = [busy EXCEPT ![w] = e]
  BY DEF Take
<1> HIDE DEF e, t
<1>1. /\ \A i, j \in DOMAIN t : t[i] = t[j] => i = j
      /\ \A i \in DOMAIN t : t[i] # e
      /\ e # Null
  BY <1>a, StoreAssumption DEF EntriesOK, EntryOwnership, QueueOwns
<1>3. /\ busy' \in [Worker -> Addr \cup {Null}] /\ busy'[w] = e
      /\ \A v \in Worker : v # w => busy'[v] = busy[v]
  BY <1>a, <1>2 DEF EntriesOK
<1>4. \A f \in Addr : Queued(f) <=> Queued(f)' \/ f = e
  BY <1>a, <1>2 DEF Queued
<1>5. \A f \in Addr : f = e => ~Queued(f)'
  BY <1>1, <1>2 DEF Queued
<1>6. \A f \in Addr : Freeing(f)' <=> Freeing(f) \/ f = e
  <2>1. Null \notin Addr
    BY StoreAssumption
  <2> QED
    BY <1>0, <1>3, <2>1 DEF Freeing
<1>7. Queued(e) /\ Allocated(e) /\ ~InTable(e) /\ ~Freeing(e)
  BY <1>a, <1>4 DEF EntriesOK, EntryOwnership, QueueOwns
<1>8. \A f : (Allocated(f)' <=> Allocated(f)) /\ (InTable(f)' <=> InTable(f))
  BY <1>2 DEF Allocated, InTable
<1>9. TableOwns' /\ TimerConsistency'
  BY <1>2 DEF EntriesOK, EntryOwnership, TableOwns, Live, Ent, Allocated,
              TimerConsistency, InTable
<1>10. QueueOwns'
  <2>1. \A f \in Addr : Queued(f)' => Allocated(f)' /\ ~InTable(f)' /\ ~Freeing(f)'
    BY <1>4, <1>5, <1>6, <1>8 DEF EntriesOK, EntryOwnership, QueueOwns
  <2> QED
    BY <1>1, <1>2, <2>1 DEF QueueOwns
<1>11. WorkersOwn'
  BY <1>3, <1>7, <1>8 DEF EntriesOK, EntryOwnership, WorkersOwn, Freeing
<1>12. NoneLost'
  BY <1>4, <1>6, <1>8 DEF EntriesOK, EntryOwnership, NoneLost
<1> QED
  BY <1>a, <1>2, <1>3, <1>9, <1>10, <1>11, <1>12 DEF EntriesOK, EntryOwnership

\* A worker frees the entry it holds.
LEMMA FreeKeeps ==
    ASSUME EntriesOK, NEW w \in Worker, entry_del_func(w)
    PROVE  EntriesOK'
<1> DEFINE e == busy[w]
<1>1. e \in Addr /\ e # Null
  BY DEF EntriesOK, entry_del_func
<1>2. /\ queue' = queue /\ db' = db /\ heap' = heap
      /\ mem' = [mem EXCEPT ![e] = Blank] /\ busy' = [busy EXCEPT ![w] = Null]
  BY DEF entry_del_func
<1>3. Allocated(e) /\ ~InTable(e) /\ ~Queued(e) /\ Freeing(e)
  BY <1>1 DEF EntriesOK, EntryOwnership, WorkersOwn, QueueOwns, Freeing
<1>4. /\ busy' \in [Worker -> Addr \cup {Null}] /\ busy'[w] = Null
      /\ \A v \in Worker : v # w => busy'[v] = busy[v] /\ busy[v] # e
  BY <1>1, <1>2 DEF EntriesOK, EntryOwnership, WorkersOwn
<1>5. /\ mem' \in [Addr -> EntryType] /\ mem'[e] = Blank
      /\ \A f \in Addr : f # e => mem'[f] = mem[f]
  BY <1>1, <1>2, BlankType DEF EntriesOK
<1> HIDE DEF e
<1>6. \A f \in Addr : /\ Allocated(f)' <=> Allocated(f) /\ f # e
                      /\ Queued(f)' <=> Queued(f)
                      /\ InTable(f)' <=> InTable(f)
  BY <1>2, <1>5, BlankType DEF Allocated, Queued, InTable
<1>7. \A f \in Addr : Freeing(f)' <=> Freeing(f) /\ f # e
  BY <1>4, StoreAssumption DEF Freeing, e
<1>8. TableOwns'
  BY <1>2, <1>3, <1>5
  DEF EntriesOK, EntryOwnership, TableOwns, Live, Ent, Allocated, InTable
<1>9. QueueOwns' /\ NoneLost'
  BY <1>2, <1>3, <1>6, <1>7 DEF EntriesOK, EntryOwnership, QueueOwns, NoneLost
<1>10. WorkersOwn'
  BY <1>4, <1>6 DEF EntriesOK, EntryOwnership, WorkersOwn
<1>11. TimerConsistency'
  <2>1. ~mem[e].timed
    BY <1>1, <1>3 DEF EntriesOK, TimerConsistency
  <2>2. \A f \in Addr : mem'[f].timed <=> mem[f].timed
    BY <2>1, <1>5, BlankType
  <2>3. \A it \in heap : it.ref \in Addr
    BY DEF EntriesOK
  <2> QED
    BY <2>2, <2>3, <1>2, <1>6 DEF EntriesOK, TimerConsistency
<1> QED
  BY <1>2, <1>4, <1>5, <1>8, <1>9, <1>10, <1>11 DEF EntriesOK, EntryOwnership

\* ~Impl frees the table once the pool is drained.
LEMMA DestroyKeeps ==
    ASSUME EntriesOK, Destroy
    PROVE  EntriesOK' /\ OwnWritesOnly
<1>1. /\ queue = <<>> /\ (\A w \in Worker : busy[w] = Null)
      /\ UNCHANGED <<queue, busy>> /\ heap' = {} /\ db' = [k \in Key |-> Null]
      /\ mem' = [e \in Addr |-> IF InTable(e) THEN Blank ELSE mem[e]]
  BY DEF Destroy, InTable
<1>2. \A e \in Addr : ~Queued(e) /\ ~Freeing(e)
  BY <1>1, StoreAssumption DEF Queued, Freeing
<1>3. \A e \in Addr : ~Allocated(e)'
  BY <1>1, <1>2, BlankType DEF EntriesOK, EntryOwnership, NoneLost, Allocated
<1>4. \A e \in Addr : ~mem'[e].timed
  BY <1>1, <1>2, BlankType DEF EntriesOK, EntryOwnership, NoneLost, TimerConsistency, Allocated
<1>5. \A e \in Addr : ~Queued(e)' /\ ~Freeing(e)' /\ ~InTable(e)'
  BY <1>1, <1>2, StoreAssumption DEF Queued, Freeing, InTable
<1>6. EntryOwnership'
  BY <1>1, <1>3, <1>5
  DEF EntriesOK, EntryOwnership, TableOwns, QueueOwns, WorkersOwn, NoneLost, Live
<1>7. mem' \in [Addr -> EntryType] /\ db' \in [Key -> Addr \cup {Null}] /\ OwnWritesOnly
  BY <1>1, BlankType DEF EntriesOK, OwnWritesOnly
<1> QED
  BY <1>1, <1>4, <1>6, <1>7 DEF EntriesOK, TimerConsistency

\* A step that touches neither entries nor timers.
LEMMA SameKeeps ==
    ASSUME EntriesOK, UNCHANGED <<mem, db, heap, queue, busy>>
    PROVE  EntriesOK' /\ OwnWritesOnly
BY DEF EntriesOK, OwnWritesOnly, EntryOwnership, TableOwns, QueueOwns, WorkersOwn, NoneLost,
       TimerConsistency, Live, Ent, Allocated, Queued, InTable, Freeing

\* Every command ends execute with one response.
LEMMA CommandReturns ==
    ASSUME Command
    PROVE  \E r : Return(r)
<1>1. ASSUME NEW r, Query(r) PROVE \E q : Return(q)
  BY <1>1 DEF Query
<1>2. CASE ping \/ unknown \/ do_keys
  BY <1>1, <1>2 DEF ping, unknown, do_keys
<1>3. ASSUME NEW k \in Key, do_get(k) \/ exists(k) \/ type(k) \/ do_ttl(k)
      PROVE  \E r : Return(r)
  BY <1>1, <1>3 DEF do_get, exists, type, do_ttl
<1>4. ASSUME NEW k \in Key, do_del(k) \/ persist(k) \/ incr(k)
      PROVE  \E r : Return(r)
  BY <1>1, <1>4, Zenon DEF do_del, persist, incr
<1>5. ASSUME NEW k \in Key, NEW v, do_set(k, v) \/ do_expire(k, v) \/ do_zquery(k, v)
      PROVE  \E r : Return(r)
  BY <1>1, <1>5, Zenon DEF do_set, do_expire, do_zquery
<1>6. ASSUME NEW k \in Key, NEW m, NEW s, do_zrem(k, m) \/ do_zscore(k, m) \/ do_zadd(k, s, m)
      PROVE  \E r : Return(r)
  BY <1>1, <1>6, Zenon DEF do_zrem, do_zscore, do_zadd
<1> QED
  BY <1>2, <1>3, <1>4, <1>5, <1>6, Zenon DEF Command

\* Every command is one of these effects on the entry of its key.
LEMMA CommandKeeps ==
    ASSUME EntriesOK, clock \in Nat, Command
    PROVE  EntriesOK' /\ OwnWritesOnly
<1>1. ASSUME NEW r, Query(r) PROVE EntriesOK' /\ OwnWritesOnly
  BY <1>1, SameKeeps DEF Query, Return
<1>2. CASE ping \/ unknown \/ do_keys
  BY <1>1, <1>2 DEF ping, unknown, do_keys
<1>3. ASSUME NEW k \in Key, Live(k)
      PROVE  /\ db[k] \in Addr /\ InTable(db[k])
             /\ Ent(k) \in EntryType /\ Ent(k).key = k /\ Ent(k).type # "free"
  BY <1>3 DEF EntriesOK, EntryOwnership, TableOwns, Live, Ent, Allocated, InTable
<1>4. ASSUME NEW k \in Key, do_get(k) \/ exists(k) \/ type(k) \/ do_ttl(k)
      PROVE  EntriesOK' /\ OwnWritesOnly
  BY <1>1, <1>4 DEF do_get, exists, type, do_ttl
<1>5. ASSUME NEW k \in Key, do_del(k)
      PROVE  EntriesOK' /\ OwnWritesOnly
  BY <1>1, <1>3, <1>5, RemoveKeeps, Zenon DEF do_del, Return
<1>6. ASSUME NEW k \in Key, persist(k)
      PROVE  EntriesOK' /\ OwnWritesOnly
  <2>1. CASE ~(Live(k) /\ Ent(k).timed)
    BY <1>1, <1>6, <2>1, Zenon DEF persist
  <2>2. CASE Live(k) /\ Ent(k).timed
    <3> DEFINE r == [Ent(k) EXCEPT !.timed = FALSE]
    <3>1. r \in EntryType /\ r.key = k /\ r.type # "free" /\ ~r.timed
      BY <1>3, <2>2, Zenon DEF EntryType
    <3>2. mem' = [mem EXCEPT ![db[k]] = r]
      BY <1>6, <2>2 DEF persist, Ent
    <3>3. heap' = TimersWithout(db[k]) /\ UNCHANGED <<db, queue, busy>>
      BY <1>6, <2>2 DEF persist, Return
    <3> HIDE DEF r
    <3> QED
      BY <2>2, <3>1, <3>2, <3>3, UpdateKeeps, Zenon
  <2> QED
    BY <2>1, <2>2
<1>7. ASSUME NEW k \in Key, incr(k)
      PROVE  EntriesOK' /\ OwnWritesOnly
  <2>1. CASE ~Live(k)
    <3>1. Create(k, "str", 1, EmptyZSet) /\ UNCHANGED <<heap, queue, busy>>
      BY <1>7, <2>1 DEF incr, Return, IsType
    <3>2. 1 \in Str \cup {Null}
      BY StoreAssumption DEF Str, Int64
    <3> QED
      BY <2>1, <3>1, <3>2, CreateKeeps, ZSetType
  <2>2. CASE IsType(k, "str") /\ Ent(k).str \in Int64 \ {MaxInt}
    <3> DEFINE r == [Ent(k) EXCEPT !.str = @ + 1]
    <3>0. Live(k)
      BY <2>2 DEF IsType
    <3>1. Ent(k).str + 1 \in Str
      BY <2>2, StoreAssumption DEF Str, Int64
    <3>2. r \in EntryType /\ r.key = k /\ r.type # "free" /\ r.timed = Ent(k).timed
      BY <1>3, <3>0, <3>1 DEF EntryType
    <3>3. mem' = [mem EXCEPT ![db[k]] = r] /\ heap' = heap /\ UNCHANGED <<db, queue, busy>>
      BY <1>7, <2>2, <3>0 DEF incr, Return, IsType, Ent
    <3> HIDE DEF r
    <3> QED
      BY <3>0, <3>2, <3>3, UpdateKeeps, Zenon
  <2>3. CASE Live(k) /\ ~(IsType(k, "str") /\ Ent(k).str \in Int64 \ {MaxInt})
    BY <1>1, <1>7, <2>3 DEF incr
  <2> QED
    BY <2>1, <2>2, <2>3
<1>8. ASSUME NEW k \in Key, NEW v \in SetArg, do_set(k, v)
      PROVE  EntriesOK' /\ OwnWritesOnly
  <2>0. v \in Str
    BY StoreAssumption
  <2>1. CASE ~Live(k)
    <3>1. Create(k, "str", v, EmptyZSet) /\ UNCHANGED <<heap, queue, busy>>
      BY <1>8, <2>1 DEF do_set, Return, IsType
    <3> QED
      BY <2>0, <2>1, <3>1, CreateKeeps, ZSetType
  <2>2. CASE IsType(k, "str")
    <3> DEFINE r == [Ent(k) EXCEPT !.str = v, !.timed = FALSE]
    <3>0. Live(k)
      BY <2>2 DEF IsType
    <3>1. r \in EntryType /\ r.key = k /\ r.type # "free" /\ ~r.timed
      BY <1>3, <2>0, <3>0, Zenon DEF EntryType
    <3>2. mem' = [mem EXCEPT ![db[k]] = r]
      BY <1>3, <1>8, <2>2, <3>0, Zenon DEF do_set, IsType, Ent, EntriesOK, EntryType
    <3>3. heap' = TimersWithout(db[k]) /\ UNCHANGED <<db, queue, busy>>
      BY <1>8, <2>2, <3>0 DEF do_set, Return, IsType
    <3> HIDE DEF r
    <3> QED
      BY <3>0, <3>1, <3>2, <3>3, UpdateKeeps, Zenon
  <2>3. CASE Live(k) /\ ~IsType(k, "str")
    BY <1>1, <1>8, <2>3 DEF do_set
  <2> QED
    BY <2>1, <2>2, <2>3
<1>9. ASSUME NEW k \in Key, NEW a \in TtlArg, do_expire(k, a)
      PROVE  EntriesOK' /\ OwnWritesOnly
  <2>1. CASE ~(a \in Int64 /\ Live(k))
    BY <1>1, <1>9, <2>1, Zenon DEF do_expire
  <2>2. CASE a \in Int64 /\ a <= 0 /\ Live(k)
    <3>0. ~(a > 0)
      BY <2>2, StoreAssumption DEF Int64
    <3>1. Remove(db[k]) /\ UNCHANGED busy
      BY <1>9, <2>2, <3>0, Zenon DEF do_expire, Return
    <3> QED
      BY <1>3, <2>2, <3>1, RemoveKeeps
  <2>3. CASE a \in Int64 /\ a > 0 /\ Live(k)
    <3> DEFINE r == [Ent(k) EXCEPT !.timed = TRUE]
    <3>1. r \in EntryType /\ r.key = k /\ r.type # "free" /\ r.timed
      BY <1>3, <2>3, Zenon DEF EntryType
    <3>0. ~(a <= 0) /\ a \in Nat
      BY <2>3, StoreAssumption DEF Int64
    <3>2. /\ mem' = [mem EXCEPT ![db[k]] = r] /\ UNCHANGED <<db, queue, busy>>
          /\ heap' = TimersWith(db[k], a)
      BY <1>9, <2>3, <3>0, Zenon DEF do_expire, Return, Ent
    <3> HIDE DEF r
    <3> QED
      BY <2>3, <3>0, <3>1, <3>2, UpdateKeeps, Zenon
  <2> QED
    BY <2>1, <2>2, <2>3, StoreAssumption DEF Int64
<1>10. ASSUME NEW k \in Key, NEW m \in Member, do_zrem(k, m) \/ do_zscore(k, m)
       PROVE  EntriesOK' /\ OwnWritesOnly
  <2>1. CASE do_zscore(k, m)
    BY <1>1, <2>1 DEF do_zscore
  <2>2. CASE do_zrem(k, m) /\ (IsType(k, "str") \/ m \notin DOMAIN expect_zset(k))
    BY <1>1, <2>2, Zenon DEF do_zrem
  <2>3. CASE do_zrem(k, m) /\ ~IsType(k, "str") /\ m \in DOMAIN expect_zset(k)
    <3> DEFINE r == [Ent(k) EXCEPT !.zset = zset_delete(@, m)]
    <3>0. Live(k)
      BY <2>3 DEF expect_zset, EmptyZSet
    <3>1. r \in EntryType /\ r.key = k /\ r.type # "free" /\ r.timed = Ent(k).timed
      BY <1>3, <3>0, ZSetType DEF EntryType
    <3>2. mem' = [mem EXCEPT ![db[k]] = r] /\ heap' = heap /\ UNCHANGED <<db, queue, busy>>
      BY <2>3, Zenon DEF do_zrem, Return, Ent
    <3> HIDE DEF r
    <3> QED
      BY <3>0, <3>1, <3>2, UpdateKeeps, Zenon
  <2> QED
    BY <1>10, <2>1, <2>2, <2>3
<1>11. ASSUME NEW k \in Key, NEW m \in Member, NEW s \in ScoreArg, do_zadd(k, s, m)
       PROVE  EntriesOK' /\ OwnWritesOnly
  <2>1. CASE s \in Text \/ IsType(k, "str")
    BY <1>1, <1>11, <2>1, Zenon DEF do_zadd, IsType
  <2>2. CASE s \notin Text /\ ~Live(k)
    <3>1. Create(k, "zset", Null, zset_insert(EmptyZSet, m, s)) /\ UNCHANGED <<heap, queue, busy>>
      BY <1>11, <2>2, Zenon DEF do_zadd, Return, IsType
    <3> QED
      BY <2>2, <3>1, CreateKeeps, ZSetType, Zenon DEF Score
  <2>3. CASE s \notin Text /\ IsType(k, "zset")
    <3> DEFINE r == [Ent(k) EXCEPT !.zset = zset_insert(@, m, s)]
    <3>0. Live(k)
      BY <2>3 DEF IsType
    <3>1. r \in EntryType /\ r.key = k /\ r.type # "free" /\ r.timed = Ent(k).timed
      BY <1>3, <2>3, <3>0, ZSetType DEF EntryType, Score
    <3>2. mem' = [mem EXCEPT ![db[k]] = r] /\ heap' = heap /\ UNCHANGED <<db, queue, busy>>
      BY <1>11, <2>3, <3>0 DEF do_zadd, Return, IsType, Ent
    <3> HIDE DEF r
    <3> QED
      BY <3>0, <3>1, <3>2, UpdateKeeps, Zenon
  <2> QED
    BY <1>11, <2>1, <2>2, <2>3, Zenon DEF do_zadd
<1>12. ASSUME NEW k \in Key, NEW a \in QueryArg, do_zquery(k, a)
       PROVE  EntriesOK' /\ OwnWritesOnly
  BY <1>1, <1>12 DEF do_zquery
<1> QED
  BY <1>2, <1>4, <1>5, <1>6, <1>7, <1>8, <1>9, <1>10, <1>11, <1>12, Zenon DEF Command

-----------------------------------------------------------------------------
(***************************************************************************)
(* The invariant.                                                          *)
(***************************************************************************)

\* One round of process_timers disposes of an entry of the table, and a
\* command follows only when nothing is due at the sample any more.
LEMMA TimersKeep ==
    ASSUME EntriesOK, now \in Nat, works \in Nat, process_timers
    PROVE  /\ EntriesOK' /\ OwnWritesOnly
           /\ pc' \in {"expire", "run", "timers", "idle"} /\ now' \in Nat /\ works' \in Nat
           /\ NoExpiredVisible'
<1>1. PICK it \in heap : Remove(it.ref)
  BY DEF process_timers, Roots
<1>2. it.ref \in Addr /\ InTable(it.ref) /\ UNCHANGED busy
  BY DEF EntriesOK, TimerConsistency, process_timers
<1>3. EntriesOK' /\ OwnWritesOnly
  BY <1>1, <1>2, RemoveKeeps
<1>4. pc' \in {"expire", "run", "timers", "idle"} /\ now' \in Nat /\ works' \in Nat
  BY DEF process_timers
<1>5. ASSUME pc' = "run" PROVE now' = now /\ {x \in heap' : x.val <= now} = {}
  BY <1>5 DEF process_timers
<1>6. \A x \in heap' : x.val \in Nat
  BY <1>3 DEF EntriesOK
<1> QED
  BY <1>3, <1>4, <1>5, <1>6 DEF NoExpiredVisible

\* The inductive step: every action preserves IInv and, the workers' apart,
\* writes only to entries the table owns.
LEMMA IInvStep ==
    ASSUME IInv, [Next]_vars
    PROVE  IInv' /\ (OwnWritesOnly \/ \E w \in Worker : entry_del_func(w))
<1>0. EntriesOK /\ clock \in Nat /\ now \in Nat /\ works \in Nat
  BY DEF IInv, TypeOK, EntriesOK
<1>1. CASE UNCHANGED <<pc, now, works, mem, db, heap, queue, busy>> /\ clock' \in Nat
  <2>1. EntriesOK' /\ OwnWritesOnly
    BY <1>0, <1>1, SameKeeps
  <2> QED
    BY <1>1, <2>1 DEF IInv, TypeOK, EntriesOK, NoExpiredVisible, GoneEmpty
<1>2. CASE Tick
  BY <1>0, <1>1, <1>2 DEF Tick
<1>3. CASE on_timer
  <2>1. EntriesOK' /\ OwnWritesOnly
    BY <1>0, <1>3, SameKeeps DEF on_timer
  <2> QED
    BY <1>0, <1>3, <2>1 DEF IInv, TypeOK, EntriesOK, NoExpiredVisible, GoneEmpty, on_timer
<1>4. CASE execute
  <2>1. EntriesOK' /\ OwnWritesOnly
    BY <1>0, <1>4, SameKeeps DEF execute
  <2>2. NoExpiredVisible'
    <3>1. \A it \in heap : it.val \in Nat
      BY <1>0 DEF EntriesOK
    <3> QED
      BY <1>0, <1>4, <3>1 DEF execute, NoExpiredVisible, Due
  <2> QED
    BY <1>0, <1>4, <2>1, <2>2 DEF IInv, TypeOK, EntriesOK, GoneEmpty, execute
<1>5. CASE process_timers
  <2>1. pc' # "gone" /\ clock' = clock
    BY <1>0, <1>5, TimersKeep DEF process_timers
  <2> QED
    BY <1>0, <1>5, <2>1, TimersKeep DEF IInv, TypeOK, EntriesOK, GoneEmpty
<1>6. CASE Command
  <2>1. EntriesOK' /\ OwnWritesOnly
    BY <1>0, <1>6, CommandKeeps
  <2>2. pc' = "idle" /\ now' = 0 /\ UNCHANGED <<clock, works>>
    BY <1>6, CommandReturns DEF Return
  <2> QED
    BY <1>0, <2>1, <2>2 DEF IInv, TypeOK, EntriesOK, NoExpiredVisible, GoneEmpty
<1>7. ASSUME NEW w \in Worker, Take(w)
      PROVE  IInv' /\ OwnWritesOnly
  <2>1. EntriesOK' /\ UNCHANGED <<clock, pc, now, works, mem, db, heap>> /\ queue # <<>>
    BY <1>0, <1>7, TakeKeeps, Zenon DEF Take
  <2> QED
    BY <2>1 DEF IInv, TypeOK, EntriesOK, NoExpiredVisible, GoneEmpty, OwnWritesOnly
<1>8. ASSUME NEW w \in Worker, entry_del_func(w)
      PROVE  IInv'
  <2>1. EntriesOK' /\ UNCHANGED <<clock, pc, now, works, heap>> /\ busy[w] # Null
    BY <1>0, <1>8, FreeKeeps, Zenon DEF entry_del_func
  <2> QED
    BY <2>1 DEF IInv, TypeOK, EntriesOK, NoExpiredVisible, GoneEmpty
<1>9. CASE Stop
  <2>1. EntriesOK' /\ OwnWritesOnly
    BY <1>0, <1>9, SameKeeps DEF Stop
  <2> QED
    BY <1>0, <1>9, <2>1 DEF IInv, TypeOK, EntriesOK, NoExpiredVisible, GoneEmpty, Stop
<1>10. CASE Destroy
  <2>1. EntriesOK' /\ OwnWritesOnly
    BY <1>0, <1>10, DestroyKeeps
  <2>2. /\ pc' = "gone" /\ UNCHANGED <<clock, now, works>> /\ GoneEmpty'
    BY <1>10 DEF Destroy, GoneEmpty
  <2> QED
    BY <1>0, <2>1, <2>2 DEF IInv, TypeOK, EntriesOK, NoExpiredVisible
<1>11. CASE Terminated \/ UNCHANGED vars
  BY <1>0, <1>1, <1>11 DEF Terminated, vars
<1> QED
  BY <1>2, <1>3, <1>4, <1>5, <1>6, <1>7, <1>8, <1>9, <1>10, <1>11 DEF Next

\* The initial state satisfies the invariant.
LEMMA IInvInit == Init => IInv
<1> SUFFICES ASSUME Init PROVE IInv
  OBVIOUS
<1>1. /\ mem \in [Addr -> EntryType] /\ \A e \in Addr : ~Allocated(e) /\ ~mem[e].timed
  BY BlankType DEF Init, Allocated
<1>2. TypeOK
  BY <1>1 DEF Init, TypeOK
<1>3. EntryOwnership
  BY <1>1 DEF Init, EntryOwnership, TableOwns, QueueOwns, WorkersOwn, NoneLost, Live, Queued
<1>4. TimerConsistency /\ NoExpiredVisible /\ GoneEmpty
  BY <1>1 DEF Init, TimerConsistency, NoExpiredVisible, GoneEmpty
<1> QED
  BY <1>2, <1>3, <1>4 DEF IInv

\* The invariant holds of every behaviour of the engine.
THEOREM Invariance == Spec => []IInv
<1>1. IInv /\ [Next]_vars => IInv'
  BY IInvStep
<1> QED
  BY <1>1, IInvInit, PTL DEF Spec

\* Every variable of kv_store.cpp's engine keeps its type; in particular incr
\* never produces a value outside int64_t.
THEOREM TypeCorrect == Spec => []TypeOK
<1>1. IInv => TypeOK
  BY DEF IInv
<1> QED
  BY <1>1, Invariance, PTL

\* Every allocated Entry has exactly one owner among the table, the pool's
\* queue and the workers: no entry is freed twice or lost.
THEOREM OwnershipHolds == Spec => []EntryOwnership
<1>1. IInv => EntryOwnership
  BY DEF IInv
<1> QED
  BY <1>1, Invariance, PTL

\* heap_idx and the timer heap agree, and no item outlives its table entry: the
\* assert in process_timers cannot fail.
THEOREM TimersHold == Spec => []TimerConsistency
<1>1. IInv => TimerConsistency
  BY DEF IInv
<1> QED
  BY <1>1, Invariance, PTL

\* No command runs while an entry that was due at its sample is in the table.
THEOREM NothingExpiredRuns == Spec => []NoExpiredVisible
<1>1. IInv => NoExpiredVisible
  BY DEF IInv
<1> QED
  BY <1>1, Invariance, PTL

\* ~Impl leaves no Entry allocated.
THEOREM NoLeak == Spec => []NoLeakAtExit
<1>1. IInv => NoLeakAtExit
  <2> SUFFICES ASSUME IInv, pc = "gone", NEW e \in Addr PROVE ~Allocated(e)
    BY DEF NoLeakAtExit
  <2>1. ~InTable(e) /\ ~Queued(e) /\ ~Freeing(e)
    BY StoreAssumption DEF IInv, GoneEmpty, InTable, Queued, Freeing
  <2> QED
    BY <2>1 DEF IInv, EntryOwnership, NoneLost
<1> QED
  BY <1>1, Invariance, PTL

\* What was handed to the pool is written by nobody but the worker that frees
\* it, although entry_del_func takes no lock.
THEOREM DisposedSafe == Spec => DisposedUntouched
<1> DEFINE Safe == \A e \in Addr : (Queued(e) \/ Freeing(e)) /\ mem'[e] # mem[e]
                     => \E w \in Worker : busy[w] = e /\ busy'[w] = Null
<1>1. ASSUME IInv, [Next]_vars PROVE Safe
  <2>1. CASE OwnWritesOnly
    BY <1>1, <2>1, StoreAssumption
    DEF OwnWritesOnly, IInv, EntryOwnership, QueueOwns, WorkersOwn, Freeing
  <2>2. ASSUME NEW w \in Worker, entry_del_func(w) PROVE Safe
    BY <1>1, <2>2 DEF entry_del_func, IInv, TypeOK
  <2> QED
    BY <1>1, <2>1, <2>2, IInvStep
<1> QED
  BY <1>1, Invariance, PTL DEF Spec, DisposedUntouched
=============================================================================
