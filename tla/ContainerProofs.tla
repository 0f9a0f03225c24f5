-------------------------- MODULE ContainerProofs --------------------------
(***************************************************************************)
(* Proofs about the containers of the engine: the hash map of HMap, for    *)
(* any set of keys and every load factor and amount of rehashing work, and *)
(* the timer heap of Heap, for any number of timers and any deadlines.     *)
(***************************************************************************)
EXTENDS HMap, Heap, FiniteSetTheorems, TLAPS

\* A table that is well formed: its nodes are in the chains of their hash codes
\* and are counted by its size; it is absent or has more than one slot.
Good(tab) ==
    /\ TabType(tab) /\ tab.slots # 1
    /\ \A i \in 0 .. tab.slots - 1 : \A x \in tab.chain[i] : Slot(x, tab.slots) = i
    /\ IsFiniteSet(NodesOf(tab)) /\ tab.size = Cardinality(NodesOf(tab))

\* How far newer is from its threshold, nodes still to be moved counted twice:
\* once for the place they will take, once for an insertion in the meantime.
Slack == newer.slots * LoadFactor - (newer.size + 2 * older.size)

Load ==
    /\ older.slots = 0 => newer.slots = 0 \/ newer.size < newer.slots * LoadFactor
    /\ older.slots # 0 => newer.slots # 0 /\ Slack >= 0
    /\ older.slots # 0 /\ (pc # "insert" \/ nwork > 0 \/ older.size = 0) => Slack >= 1
    /\ older.slots # 0 /\ pc # "insert" /\ nwork = 0 /\ older.size = 0 => Slack >= 2

\* The chains the scan has passed are empty.
Scanned == \A i \in 0 .. older.slots - 1 : i < migrate_pos => older.chain[i] = {}

\* The inductive invariant.
IInv ==
    /\ TypeOK /\ Good(newer) /\ Good(older)
    /\ NodesOf(newer) \cap NodesOf(older) = {}
    /\ Scanned /\ Load
    /\ pc = "idle" => nwork = 0

-----------------------------------------------------------------------------
\* A chain's index is inside the table.
LEMMA SlotType ==
    ASSUME NEW x \in Node, NEW n \in Nat, n > 0
    PROVE  Slot(x, n) \in 0 .. n - 1
<1>1. Hash[x] \in Nat
  BY HMapAssumption, Zenon
<1> QED
  BY <1>1 DEF Slot

\* The absent table and a table fresh from h_init hold nothing.
LEMMA EmptyTabs ==
    /\ Good(NoTab) /\ NodesOf(NoTab) = {} /\ NoTab.size = 0 /\ NoTab.slots = 0
    /\ \A n \in Nat : n > 1 => /\ Good(h_init(n)) /\ NodesOf(h_init(n)) = {}
                              /\ h_init(n).size = 0 /\ h_init(n).slots = n
<1>1. NodesOf(NoTab) = {} /\ NoTab.size = 0 /\ NoTab.slots = 0 /\ TabType(NoTab)
  BY DEF NoTab, NodesOf, TabType
<1>2. Good(NoTab)
  BY <1>1, FS_EmptySet DEF Good
<1>3. ASSUME NEW n \in Nat, n > 1
      PROVE  /\ Good(h_init(n)) /\ NodesOf(h_init(n)) = {}
             /\ h_init(n).size = 0 /\ h_init(n).slots = n
  <2>1. h_init(n).size = 0 /\ h_init(n).slots = n /\ TabType(h_init(n))
    BY Zenon DEF h_init, TabType
  <2>2. \A i \in 0 .. n - 1 : h_init(n).chain[i] = {}
    BY Zenon DEF h_init
  <2>3. NodesOf(h_init(n)) = {}
    BY <2>1, <2>2 DEF NodesOf
  <2> QED
    BY <1>3, <2>1, <2>2, <2>3, FS_EmptySet DEF Good
<1> QED
  BY <1>1, <1>2, <1>3, Zenon

\* h_insert of a node that is not in the table.
LEMMA InsertTab ==
    ASSUME NEW tab, Good(tab), tab.slots # 0, NEW x \in Node, x \notin NodesOf(tab)
    PROVE  /\ Good(h_insert(tab, x)) /\ NodesOf(h_insert(tab, x)) = NodesOf(tab) \cup {x}
           /\ h_insert(tab, x).slots = tab.slots /\ h_insert(tab, x).size = tab.size + 1
<1> DEFINE s == Slot(x, tab.slots)
           u == h_insert(tab, x)
<1>0. /\ TabType(tab) /\ tab.slots \in Nat /\ tab.size \in Nat
      /\ tab.chain \in [0 .. tab.slots - 1 -> SUBSET Node]
  BY Zenon DEF Good, TabType
<1>1. s \in 0 .. tab.slots - 1
  BY <1>0, SlotType
<1>2. u = [slots |-> tab.slots, chain |-> [tab.chain EXCEPT ![s] = @ \cup {x}], size |-> tab.size + 1]
  BY <1>0, Zenon DEF h_insert, TabType
<1>3. u.slots = tab.slots /\ u.size = tab.size + 1 /\ u.chain = [tab.chain EXCEPT ![s] = @ \cup {x}]
  BY <1>2
<1>4. /\ u.chain \in [0 .. tab.slots - 1 -> SUBSET Node]
      /\ u.chain[s] = tab.chain[s] \cup {x}
      /\ \A i \in 0 .. tab.slots - 1 : i # s => u.chain[i] = tab.chain[i]
  BY <1>0, <1>1, <1>3
<1>5. TabType(u)
  BY <1>0, <1>2, <1>3, <1>4 DEF TabType
<1> HIDE DEF u, s
<1>6. NodesOf(u) = NodesOf(tab) \cup {x}
  BY <1>1, <1>3, <1>4 DEF NodesOf
<1>7. \A i \in 0 .. tab.slots - 1 : \A y \in u.chain[i] : Slot(y, tab.slots) = i
  BY <1>1, <1>4, Zenon DEF Good, s
<1>8. IsFiniteSet(NodesOf(u)) /\ Cardinality(NodesOf(u)) = tab.size + 1
  BY <1>6, FS_AddElement DEF Good
<1>9. Good(u)
  BY <1>3, <1>5, <1>7, <1>8, Zenon DEF Good
<1> QED
  BY <1>3, <1>6, <1>9, Zenon DEF u

\* h_detach of a node of chain i.
LEMMA DetachTab ==
    ASSUME NEW tab, Good(tab), NEW i \in 0 .. tab.slots - 1, NEW x \in tab.chain[i]
    PROVE  /\ Good(h_detach(tab, i, x)) /\ NodesOf(h_detach(tab, i, x)) = NodesOf(tab) \ {x}
           /\ x \in NodesOf(tab) /\ x \in Node
           /\ h_detach(tab, i, x).slots = tab.slots /\ h_detach(tab, i, x).size = tab.size - 1
           /\ \A j \in 0 .. tab.slots - 1 : tab.chain[j] = {} => h_detach(tab, i, x).chain[j] = {}
<1> DEFINE u == h_detach(tab, i, x)
<1>0. /\ TabType(tab) /\ tab.slots \in Nat /\ tab.size \in Nat
      /\ tab.chain \in [0 .. tab.slots - 1 -> SUBSET Node]
  BY Zenon DEF Good, TabType
<1>1. x \in NodesOf(tab) /\ x \in Node
  BY <1>0, Zenon DEF NodesOf
<1>2. /\ IsFiniteSet(NodesOf(tab) \ {x}) /\ Cardinality(NodesOf(tab) \ {x}) = tab.size - 1
      /\ tab.size - 1 \in Nat
  <2>1. IsFiniteSet(NodesOf(tab) \ {x}) /\ Cardinality(NodesOf(tab) \ {x}) = tab.size - 1
    BY <1>1, FS_RemoveElement, Zenon DEF Good
  <2> QED
    BY <2>1, FS_CardinalityType, Zenon
<1>3. u = [slots |-> tab.slots, chain |-> [tab.chain EXCEPT ![i] = @ \ {x}], size |-> tab.size - 1]
  BY <1>0, Zenon DEF h_detach, TabType
<1>4. u.slots = tab.slots /\ u.size = tab.size - 1 /\ u.chain = [tab.chain EXCEPT ![i] = @ \ {x}]
  BY <1>3
<1>5. /\ u.chain \in [0 .. tab.slots - 1 -> SUBSET Node]
      /\ u.chain[i] = tab.chain[i] \ {x}
      /\ \A j \in 0 .. tab.slots - 1 : j # i => u.chain[j] = tab.chain[j]
  BY <1>0, <1>4, Zenon
<1>6. TabType(u)
  BY <1>0, <1>2, <1>3, <1>4, <1>5, Zenon DEF TabType
<1> HIDE DEF u
<1>7. \A j \in 0 .. tab.slots - 1 : j # i => x \notin tab.chain[j]
  BY Zenon DEF Good
<1>8. NodesOf(u) = NodesOf(tab) \ {x}
  BY <1>4, <1>5, <1>7 DEF NodesOf
<1>9. \A j \in 0 .. tab.slots - 1 : \A y \in u.chain[j] : Slot(y, tab.slots) = j
  BY <1>5, Zenon DEF Good
<1>10. Good(u)
  BY <1>2, <1>4, <1>6, <1>8, <1>9, Zenon DEF Good
<1> QED
  BY <1>1, <1>4, <1>5, <1>8, <1>10, Zenon DEF u

\* h_lookup finds the nodes of the table, where h_detach can unlink them.
LEMMA LookupTab ==
    ASSUME NEW tab, Good(tab), NEW k \in Node
    PROVE  /\ h_lookup(tab, k) <=> k \in NodesOf(tab)
           /\ h_lookup(tab, k) => /\ tab.slots # 0 /\ Slot(k, tab.slots) \in 0 .. tab.slots - 1
                                  /\ k \in tab.chain[Slot(k, tab.slots)]
<1>0. tab.slots \in Nat
  BY Zenon DEF Good, TabType
<1>1. ASSUME h_lookup(tab, k)
      PROVE  /\ tab.slots # 0 /\ Slot(k, tab.slots) \in 0 .. tab.slots - 1
             /\ k \in tab.chain[Slot(k, tab.slots)] /\ k \in NodesOf(tab)
  <2>1. tab.slots # 0 /\ k \in tab.chain[Slot(k, tab.slots)]
    BY <1>1, Zenon DEF h_lookup
  <2>2. Slot(k, tab.slots) \in 0 .. tab.slots - 1
    BY <1>0, <2>1, SlotType
  <2> QED
    BY <2>1, <2>2, Zenon DEF NodesOf
<1>2. ASSUME k \in NodesOf(tab) PROVE h_lookup(tab, k)
  <2>1. PICK i \in 0 .. tab.slots - 1 : k \in tab.chain[i]
    BY <1>2, Zenon DEF NodesOf
  <2>2. tab.slots # 0
    BY <1>0
  <2> QED
    BY <2>1, <2>2, Zenon DEF h_lookup, Good
<1> QED
  BY <1>1, <1>2, Zenon

\* A table's size tells whether it holds anything.
LEMMA SizeZero ==
    ASSUME NEW tab, Good(tab)
    PROVE  tab.size \in Nat /\ tab.slots \in Nat /\ (tab.size = 0 <=> NodesOf(tab) = {})
BY FS_EmptySet, Zenon DEF Good, TabType

-----------------------------------------------------------------------------
\* Facts about a state used for every action.
LEMMA StateFacts ==
    ASSUME IInv
    PROVE  /\ newer.size \in Nat /\ newer.slots \in Nat /\ older.size \in Nat /\ older.slots \in Nat
           /\ newer.slots * LoadFactor \in Nat /\ RehashWork \in Nat /\ RehashWork > 0
           /\ nwork \in Nat /\ migrate_pos \in Nat
           /\ (older.size = 0 <=> NodesOf(older) = {})
           /\ NodesOf(newer) \subseteq Node /\ NodesOf(older) \subseteq Node
<1>1. /\ newer.size \in Nat /\ newer.slots \in Nat /\ older.size \in Nat /\ older.slots \in Nat
      /\ (older.size = 0 <=> NodesOf(older) = {})
  BY SizeZero, Zenon DEF IInv
<1>2. newer.slots * LoadFactor \in Nat
  BY <1>1, HMapAssumption
<1>3. nwork \in Nat /\ migrate_pos \in Nat /\ RehashWork \in Nat /\ RehashWork > 0
  BY HMapAssumption DEF IInv, TypeOK
<1>4. /\ newer.chain \in [0 .. newer.slots - 1 -> SUBSET Node]
      /\ older.chain \in [0 .. older.slots - 1 -> SUBSET Node]
  BY Zenon DEF IInv, Good, TabType
<1>5. NodesOf(newer) \subseteq Node /\ NodesOf(older) \subseteq Node
  BY <1>4, Zenon DEF NodesOf
<1> QED
  BY <1>1, <1>2, <1>3, <1>5, Zenon

\* What the scan reads is inside the array.
LEMMA ScanFacts ==
    ASSUME IInv, older.size > 0
    PROVE  migrate_pos \in 0 .. older.slots - 1
<1>0. older.slots \in Nat /\ migrate_pos \in Nat /\ NodesOf(older) # {}
  BY StateFacts
<1>1. PICK i \in 0 .. older.slots - 1 : older.chain[i] # {}
  BY <1>0, Zenon DEF NodesOf
<1>2. ~(i < migrate_pos)
  BY <1>1, Zenon DEF IInv, Scanned
<1> QED
  BY <1>0, <1>2

\* The scan passes an empty chain.
LEMMA SkipKeeps ==
    ASSUME IInv, Skip
    PROVE  IInv' /\ UNCHANGED <<Nodes, reply>>
<1>0. /\ UNCHANGED <<newer, older, pc, key, nwork, reply>> /\ migrate_pos' = migrate_pos + 1
      /\ older.chain[migrate_pos] = {} /\ migrate_pos \in Nat
  BY StateFacts, Zenon DEF Skip
<1>1. Scanned'
  <2> SUFFICES ASSUME NEW i \in 0 .. older.slots - 1, i < migrate_pos + 1 PROVE older.chain[i] = {}
    BY <1>0, Zenon DEF Scanned
  <2>1. i = migrate_pos \/ i < migrate_pos
    BY <1>0
  <2> QED
    BY <1>0, <2>1, Zenon DEF IInv, Scanned
<1>2. TypeOK'
  BY <1>0 DEF IInv, TypeOK, TabType
<1>3. Good(newer)' /\ Good(older)' /\ (NodesOf(newer) \cap NodesOf(older) = {})' /\ UNCHANGED Nodes
  BY <1>0, SMTT(30) DEF IInv, Good, TabType, NodesOf, Slot, Nodes
<1>4. Load'
  BY <1>0, Zenon DEF IInv, Load, Slack
<1> QED
  BY <1>0, <1>1, <1>2, <1>3, <1>4, Zenon DEF IInv

\* A node moves from older to newer.
LEMMA MoveKeeps ==
    ASSUME IInv, Move
    PROVE  IInv' /\ UNCHANGED <<Nodes, reply>>
<1>0. /\ pc # "idle" /\ nwork < RehashWork /\ older.size > 0 /\ nwork' = nwork + 1
      /\ UNCHANGED <<migrate_pos, pc, key, reply>>
  BY Zenon DEF Move, Working
<1>1. PICK x \in older.chain[migrate_pos] :
         newer' = h_insert(newer, x) /\ older' = h_detach(older, migrate_pos, x)
  BY Zenon DEF Move
<1>2. migrate_pos \in 0 .. older.slots - 1
  BY <1>0, ScanFacts, Zenon
<1>3. /\ Good(older') /\ NodesOf(older') = NodesOf(older) \ {x} /\ x \in NodesOf(older) /\ x \in Node
      /\ older'.slots = older.slots /\ older'.size = older.size - 1
      /\ \A j \in 0 .. older.slots - 1 : older.chain[j] = {} => older'.chain[j] = {}
  BY <1>1, <1>2, DetachTab DEF IInv
<1>4. older.slots # 0 /\ newer.slots # 0 /\ x \notin NodesOf(newer)
  BY <1>2, <1>3, StateFacts DEF IInv, Load
<1>5. /\ Good(newer') /\ NodesOf(newer') = NodesOf(newer) \cup {x}
      /\ newer'.slots = newer.slots /\ newer'.size = newer.size + 1
  BY <1>1, <1>3, <1>4, InsertTab, Zenon DEF IInv
<1>6. Load'
  <2>1. Slack >= 0 /\ Slack \in Int
    BY <1>4, StateFacts DEF IInv, Load, Slack
  <2>2. Slack' = Slack + 1
    BY <1>3, <1>5, StateFacts DEF Slack
  <2>3. older'.slots # 0 /\ newer'.slots # 0 /\ nwork' > 0
    BY <1>0, <1>3, <1>4, <1>5, StateFacts
  <2> QED
    BY <2>1, <2>2, <2>3, StateFacts DEF Load
<1>7. TypeOK'
  <2>1. TabType(newer') /\ TabType(older')
    BY <1>3, <1>5, Zenon DEF Good
  <2>2. nwork' \in 0 .. RehashWork
    BY <1>0, StateFacts
  <2> QED
    BY <1>0, <2>1, <2>2, Zenon DEF IInv, TypeOK
<1>8. Scanned'
  BY <1>0, <1>3, Zenon DEF IInv, Scanned
<1>9. NodesOf(newer') \cap NodesOf(older') = {} /\ NodesOf(newer') \cup NodesOf(older') = Nodes
  BY <1>3, <1>5, Zenon DEF IInv, Nodes
<1> QED
  BY <1>0, <1>3, <1>5, <1>6, <1>7, <1>8, <1>9, Zenon DEF IInv, Nodes

\* older as hm_help_rehashing leaves it, and how far newer is from its threshold.
LEMMA HelpedFacts ==
    ASSUME IInv, ~Working
    PROVE  /\ Good(Helped) /\ NodesOf(Helped) = NodesOf(older) /\ Helped.size = older.size
           /\ Helped.slots = 0 => newer.slots = 0 \/ newer.size < newer.slots * LoadFactor
           /\ Helped.slots # 0 => Helped = older /\ newer.slots # 0 /\ older.size > 0 /\ Slack >= 1
           /\ \A i \in 0 .. Helped.slots - 1 : i < migrate_pos => Helped.chain[i] = {}
           /\ TabType(Helped)
<1>1. CASE older.size = 0
  <2>1. Helped = NoTab /\ NodesOf(older) = {}
    BY <1>1, StateFacts, Zenon DEF Helped
  <2>2. newer.slots = 0 \/ newer.size < newer.slots * LoadFactor
    <3>1. CASE older.slots = 0
      BY <3>1, Zenon DEF IInv, Load
    <3>2. CASE older.slots # 0
      BY <1>1, <3>2, StateFacts DEF IInv, Load, Slack
    <3> QED
      BY <3>1, <3>2, Zenon
  <2> QED
    BY <1>1, <2>1, <2>2, EmptyTabs DEF Good
<1>2. CASE older.size # 0
  <2>1. Helped = older /\ older.size > 0 /\ nwork > 0
    BY <1>2, StateFacts DEF Helped, Working
  <2>2. older.slots # 0
    BY <2>1, ScanFacts, StateFacts
  <2> QED
    BY <2>1, <2>2, Zenon DEF IInv, Load, Scanned, Good
<1> QED
  BY <1>1, <1>2, Zenon

\* An operation that returns without a change to the nodes.
LEMMA ReturnKeeps ==
    ASSUME IInv, ~Working, Return, older' = Helped, reply' \subseteq Node,
           UNCHANGED <<newer, migrate_pos>>
    PROVE  IInv' /\ UNCHANGED Nodes
<1>0. pc' = "idle" /\ nwork' = 0 /\ key' = key
  BY Zenon DEF Return
<1>1. /\ Good(older') /\ NodesOf(older') = NodesOf(older) /\ TabType(older')
      /\ older'.slots = 0 => newer.slots = 0 \/ newer.size < newer.slots * LoadFactor
      /\ older'.slots # 0 => older' = older /\ newer.slots # 0 /\ older.size > 0 /\ Slack >= 1
      /\ \A i \in 0 .. older'.slots - 1 : i < migrate_pos => older'.chain[i] = {}
  BY HelpedFacts, Zenon
<1>2. Load'
  BY <1>0, <1>1, StateFacts DEF Load, Slack
<1>3. TypeOK'
  BY <1>0, <1>1, HMapAssumption DEF IInv, TypeOK
<1>4. Scanned'
  BY <1>1, Zenon DEF Scanned
<1>5. NodesOf(newer') = NodesOf(newer) /\ Good(newer')
  BY Zenon DEF IInv
<1> QED
  BY <1>0, <1>1, <1>2, <1>3, <1>4, <1>5, Zenon DEF IInv, Nodes

\* hm_lookup finds the key if and only if it is in one of the tables.
LEMMA LookupKeeps ==
    ASSUME IInv, hm_lookup
    PROVE  IInv' /\ Abs!Lookup(key)
<1>0. /\ ~Working /\ Return /\ older' = Helped /\ UNCHANGED <<newer, migrate_pos>> /\ key \in Node
      /\ reply' = IF h_lookup(newer, key) \/ h_lookup(Helped, key) THEN {key} ELSE {}
  BY Zenon DEF hm_lookup, IInv, TypeOK
<1>1. /\ h_lookup(newer, key) <=> key \in NodesOf(newer)
      /\ h_lookup(Helped, key) <=> key \in NodesOf(older)
  BY <1>0, LookupTab, HelpedFacts, Zenon DEF IInv
<1>2. reply' = Nodes \cap {key} /\ reply' \subseteq Node
  BY <1>0, <1>1, Zenon DEF Nodes
<1>3. IInv' /\ UNCHANGED Nodes
  BY <1>0, <1>2, ReturnKeeps, Zenon
<1> QED
  BY <1>2, <1>3, Zenon DEF Abs!Lookup

\* hm_delete detaches the node of the key from the table it is in.
LEMMA DeleteKeeps ==
    ASSUME IInv, hm_delete
    PROVE  IInv' /\ Abs!Delete(key)
<1>0. /\ ~Working /\ Return /\ UNCHANGED migrate_pos /\ key \in Node
      /\ pc' = "idle" /\ nwork' = 0 /\ key' = key
  BY Zenon DEF hm_delete, IInv, TypeOK, Return
<1>1. /\ h_lookup(newer, key) <=> key \in NodesOf(newer)
      /\ h_lookup(Helped, key) <=> key \in NodesOf(older)
  BY <1>0, LookupTab, HelpedFacts, Zenon DEF IInv
<1>2. /\ Good(Helped) /\ NodesOf(Helped) = NodesOf(older) /\ TabType(Helped)
      /\ Helped.slots = 0 => newer.slots = 0 \/ newer.size < newer.slots * LoadFactor
      /\ Helped.slots # 0 => Helped = older /\ newer.slots # 0 /\ older.size > 0 /\ Slack >= 1
      /\ \A i \in 0 .. Helped.slots - 1 : i < migrate_pos => Helped.chain[i] = {}
  BY <1>0, HelpedFacts, Zenon
<1>3. CASE /\ h_lookup(newer, key) /\ newer' = h_detach(newer, Slot(key, newer.slots), key)
           /\ older' = Helped /\ reply' = {key}
  <2>1. /\ newer.slots # 0 /\ Slot(key, newer.slots) \in 0 .. newer.slots - 1
        /\ key \in newer.chain[Slot(key, newer.slots)]
    BY <1>0, <1>3, LookupTab, Zenon DEF IInv
  <2>2. /\ Good(newer') /\ NodesOf(newer') = NodesOf(newer) \ {key}
        /\ newer'.slots = newer.slots /\ newer'.size = newer.size - 1 /\ key \in NodesOf(newer)
    BY <1>3, <2>1, DetachTab, SMTT(30) DEF IInv
  <2>3. Load'
    BY <1>0, <1>2, <1>3, <2>1, <2>2, StateFacts, SMTT(30) DEF Load, Slack
  <2>4. TypeOK'
    <3>1. TabType(newer')
      BY <2>2, Zenon DEF Good
    <3> QED
      BY <1>0, <1>2, <1>3, <3>1, HMapAssumption DEF IInv, TypeOK
  <2>5. Scanned'
    BY <1>0, <1>2, <1>3, Zenon DEF Scanned
  <2>6. NodesOf(newer') \cap NodesOf(older') = {} /\ NodesOf(newer') \cup NodesOf(older') = Nodes \ {key}
    BY <1>2, <1>3, <2>2, Zenon DEF IInv, Nodes
  <2>7. reply' = Nodes \cap {key}
    BY <1>3, <2>2, Zenon DEF Nodes
  <2> QED
    BY <1>0, <1>2, <1>3, <2>2, <2>3, <2>4, <2>5, <2>6, <2>7, ZenonT(60) DEF IInv, Nodes, Abs!Delete
<1>4. CASE /\ ~h_lookup(newer, key) /\ h_lookup(Helped, key)
           /\ older' = h_detach(older, Slot(key, older.slots), key)
           /\ reply' = {key} /\ UNCHANGED newer
  <2>1. /\ Helped = older /\ older.slots # 0 /\ Slot(key, older.slots) \in 0 .. older.slots - 1
        /\ key \in older.chain[Slot(key, older.slots)] /\ newer.slots # 0 /\ Slack >= 1
    BY <1>0, <1>2, <1>4, LookupTab, Zenon
  <2>2. /\ Good(older') /\ NodesOf(older') = NodesOf(older) \ {key}
        /\ older'.slots = older.slots /\ older'.size = older.size - 1 /\ key \in NodesOf(older)
        /\ \A j \in 0 .. older.slots - 1 : older.chain[j] = {} => older'.chain[j] = {}
    BY <1>4, <2>1, DetachTab, SMTT(30) DEF IInv
  <2>3. Load'
    BY <1>0, <1>4, <2>1, <2>2, StateFacts DEF Load, Slack
  <2>4. TypeOK'
    <3>1. TabType(older')
      BY <2>2, Zenon DEF Good
    <3> QED
      BY <1>0, <1>4, <3>1, HMapAssumption DEF IInv, TypeOK
  <2>5. Scanned'
    BY <1>0, <2>2, Zenon DEF IInv, Scanned
  <2>6. /\ NodesOf(newer') = NodesOf(newer) /\ Good(newer') /\ key \notin NodesOf(newer)
    BY <1>1, <1>4, Zenon DEF IInv
  <2>7. NodesOf(newer') \cap NodesOf(older') = {} /\ NodesOf(newer') \cup NodesOf(older') = Nodes \ {key}
    BY <2>2, <2>6, Zenon DEF IInv, Nodes
  <2>8. reply' = Nodes \cap {key}
    BY <1>4, <2>2, Zenon DEF Nodes
  <2> QED
    BY <1>0, <2>2, <2>3, <2>4, <2>5, <2>6, <2>7, <2>8, ZenonT(60) DEF IInv, Nodes, Abs!Delete
<1>5. CASE /\ ~h_lookup(newer, key) /\ ~h_lookup(Helped, key)
           /\ older' = Helped /\ reply' = {} /\ UNCHANGED newer
  <2>1. key \notin Nodes
    BY <1>1, <1>5, Zenon DEF Nodes
  <2>2. IInv' /\ UNCHANGED Nodes
    BY <1>0, <1>5, ReturnKeeps, Zenon
  <2> QED
    BY <1>5, <2>1, <2>2, Zenon DEF Abs!Delete
<1> QED
  BY <1>3, <1>4, <1>5, Zenon DEF hm_delete

\* hm_insert links the node, and may turn the table into older.
LEMMA InsertKeeps ==
    ASSUME IInv, NEW x \in Node, hm_insert(x)
    PROVE  IInv' /\ Abs!Insert(x)
<1> DEFINE base == IF newer.slots = 0 THEN h_init(InitSlots) ELSE newer
           tab == h_insert(base, x)
<1>0. /\ pc = "idle" /\ x \notin Nodes /\ pc' = "insert" /\ key' = x /\ nwork' = 0 /\ reply' = {}
      /\ nwork = 0
  BY Zenon DEF hm_insert, Call, IInv
<1>1. /\ Good(base) /\ base.slots # 0 /\ NodesOf(base) = NodesOf(newer)
      /\ newer.slots # 0 => base = newer
      /\ newer.slots = 0 => base.size = 0 /\ older.slots = 0
  <2>1. CASE newer.slots = 0
    <3>1. base = h_init(InitSlots) /\ older.slots = 0 /\ NodesOf(newer) = {}
      BY <2>1 DEF IInv, Load, NodesOf
    <3>2. Good(base) /\ NodesOf(base) = {} /\ base.size = 0 /\ base.slots = InitSlots
      BY <3>1, EmptyTabs, HMapAssumption, Zenon
    <3> QED
      BY <2>1, <3>1, <3>2, HMapAssumption
  <2>2. CASE newer.slots # 0
    BY <2>2, Zenon DEF IInv
  <2> QED
    BY <2>1, <2>2, Zenon
<1> HIDE DEF base
<1>2. x \notin NodesOf(newer) /\ x \notin NodesOf(older)
  BY <1>0, Zenon DEF Nodes
<1>3. /\ Good(tab) /\ NodesOf(tab) = NodesOf(newer) \cup {x}
      /\ tab.slots = base.slots /\ tab.size = base.size + 1
  BY <1>1, <1>2, InsertTab, Zenon
<1>4. /\ \/ older.slots = 0 /\ tab.size >= tab.slots * LoadFactor /\ hm_trigger_rehashing(tab)
         \/ ~(older.slots = 0 /\ tab.size >= tab.slots * LoadFactor) /\ newer' = tab /\ UNCHANGED <<older, migrate_pos>>
  BY Zenon DEF hm_insert, base
<1> HIDE DEF tab
<1>5. /\ tab.size \in Nat /\ tab.slots \in Nat /\ tab.slots * LoadFactor \in Nat /\ TabType(tab)
      /\ base.size \in Nat /\ base.slots \in Nat /\ base.slots > 1
  BY <1>1, <1>3, SizeZero, HMapAssumption DEF Good
<1>6. CASE older.slots = 0 /\ tab.size >= tab.slots * LoadFactor /\ hm_trigger_rehashing(tab)
  <2>1. older' = tab /\ newer' = h_init(tab.slots * 2) /\ migrate_pos' = 0
    BY <1>6, Zenon DEF hm_trigger_rehashing
  <2>2. /\ Good(newer') /\ NodesOf(newer') = {} /\ newer'.size = 0 /\ newer'.slots = tab.slots * 2
    BY <1>3, <1>5, <2>1, EmptyTabs
  <2>3. NodesOf(older) = {}
    BY <1>6 DEF NodesOf
  <2>4. tab.size <= tab.slots * LoadFactor
    <3>1. CASE newer.slots = 0
      <4>1. tab.size = 1
        BY <1>1, <1>3, <3>1, SMTT(30)
      <4> QED
        BY <1>6, <4>1, <1>3, <1>5, HMapAssumption
    <3>2. CASE newer.slots # 0
      BY <1>1, <1>3, <1>5, <1>6, <3>2, StateFacts DEF IInv, Load
    <3> QED
      BY <3>1, <3>2, Zenon
  <2>5. (tab.slots * 2) * LoadFactor = 2 * (tab.slots * LoadFactor)
    <3>1. \A m, l \in Nat : (m * 2) * l = 2 * (m * l)
      OBVIOUS
    <3> QED
      BY <1>5, <3>1, HMapAssumption, Zenon
  <2>6. Slack' = 0 /\ older'.size > 0 /\ newer'.slots # 0
    <3>1. older'.size = tab.slots * LoadFactor /\ newer'.size = 0
      BY <1>5, <1>6, <2>1, <2>2, <2>4
    <3>2. newer'.slots * LoadFactor = 2 * (tab.slots * LoadFactor)
      BY <2>2, <2>5, Zenon
    <3>3. Slack' = newer'.slots * LoadFactor - (newer'.size + 2 * older'.size)
      BY Zenon DEF Slack
    <3>4. Slack' = 0
      BY <1>5, <3>1, <3>2, <3>3
    <3>5. older'.size > 0 /\ newer'.slots # 0
      BY <1>3, <1>5, <2>1, <2>2
    <3> QED
      BY <3>4, <3>5, Zenon
  <2>7. Load'
    BY <1>0, <1>1, <1>3, <2>1, <2>6 DEF Load
  <2>8. TypeOK'
    <3>1. TabType(newer') /\ TabType(older')
      BY <1>5, <2>1, <2>2, Zenon DEF Good
    <3> QED
      BY <1>0, <2>1, <3>1, HMapAssumption DEF TypeOK
  <2>9. Scanned'
    BY <2>1, <1>5 DEF Scanned
  <2>10. NodesOf(newer') \cap NodesOf(older') = {} /\ NodesOf(newer') \cup NodesOf(older') = Nodes \cup {x}
    BY <1>3, <2>1, <2>2, <2>3, Zenon DEF Nodes
  <2>11. Good(older')
    BY <1>3, <2>1, Zenon
  <2> QED
    BY <1>0, <2>2, <2>7, <2>8, <2>9, <2>10, <2>11, Zenon DEF IInv, Nodes, Abs!Insert
<1>7. CASE ~(older.slots = 0 /\ tab.size >= tab.slots * LoadFactor) /\ newer' = tab /\ UNCHANGED <<older, migrate_pos>>
  <2>1. older.slots # 0 => newer.slots # 0 /\ base = newer
    BY <1>1, Zenon
  <2>2. Load'
    <3>1. CASE older.slots = 0
      BY <1>3, <1>5, <1>7, <3>1 DEF Load
    <3>2. CASE older.slots # 0
      <4>1. Slack' = Slack - 1 /\ Slack \in Int
        BY <1>3, <1>7, <2>1, <3>2, StateFacts DEF Slack
      <4>2. Slack >= 1 /\ (older.size = 0 => Slack >= 2)
        BY <1>0, <3>2, Zenon DEF IInv, Load
      <4> QED
        BY <1>0, <1>1, <1>3, <1>7, <3>2, <4>1, <4>2 DEF Load
    <3> QED
      BY <3>1, <3>2, Zenon
  <2>3. TypeOK'
    BY <1>0, <1>5, <1>7, HMapAssumption, Zenon DEF IInv, TypeOK
  <2>4. Scanned'
    BY <1>7, Zenon DEF IInv, Scanned
  <2>5. NodesOf(older') = NodesOf(older) /\ Good(older') /\ Good(newer')
    BY <1>3, <1>7, Zenon DEF IInv
  <2>6. NodesOf(newer') \cap NodesOf(older') = {} /\ NodesOf(newer') \cup NodesOf(older') = Nodes \cup {x}
    BY <1>2, <1>3, <1>7, <2>5, Zenon DEF IInv, Nodes
  <2> QED
    BY <1>0, <2>2, <2>3, <2>4, <2>5, <2>6, Zenon DEF IInv, Nodes, Abs!Insert
<1> QED
  BY <1>4, <1>6, <1>7, Zenon

\* The operations that leave both tables as they are.
LEMMA SameKeeps ==
    ASSUME IInv, UNCHANGED <<newer, older, migrate_pos>>, reply' \subseteq Node,
           \/ UNCHANGED <<pc, key, nwork>>
           \/ pc = "idle" /\ pc' \in {"lookup", "delete"} /\ key' \in Node /\ nwork' = 0
    PROVE  IInv' /\ UNCHANGED Nodes
<1>1. Good(newer)' /\ Good(older)' /\ (NodesOf(newer) \cap NodesOf(older) = {})' /\ UNCHANGED Nodes
  BY DEF IInv, Good, TabType, NodesOf, Slot, Nodes
<1>2. TypeOK'
  BY HMapAssumption, Zenon DEF IInv, TypeOK, TabType
<1>3. Load'
  BY Zenon DEF IInv, Load, Slack
<1>4. Scanned'
  BY Zenon DEF IInv, Scanned
<1>5. pc' = "idle" => nwork' = 0
  BY Zenon DEF IInv
<1> QED
  BY <1>1, <1>2, <1>3, <1>4, <1>5, Zenon DEF IInv

\* hm_foreach visits every node of both tables.
LEMMA ForeachKeeps ==
    ASSUME IInv, hm_foreach
    PROVE  IInv' /\ Abs!Foreach
<1>1. h_foreach(newer) = NodesOf(newer) /\ h_foreach(older) = NodesOf(older)
  <2>1. ASSUME NEW tab, Good(tab) PROVE h_foreach(tab) = NodesOf(tab)
    BY <2>1 DEF h_foreach, Good, TabType, NodesOf
  <2> QED
    BY <2>1, Zenon DEF IInv
<1>2. reply' = Nodes /\ reply' \subseteq Node
  BY <1>1, StateFacts, Zenon DEF hm_foreach, Nodes
<1>3. IInv' /\ UNCHANGED Nodes
  BY <1>2, SameKeeps, Zenon DEF hm_foreach
<1> QED
  BY <1>2, <1>3, Zenon DEF Abs!Foreach

\* hm_clear returns the map to its initial state.
LEMMA ClearKeeps ==
    ASSUME IInv, hm_clear
    PROVE  IInv' /\ Abs!Clear
<1>0. /\ pc = "idle" /\ newer' = NoTab /\ older' = NoTab /\ migrate_pos' = 0 /\ reply' = {}
      /\ UNCHANGED <<pc, key, nwork>>
  BY Zenon DEF hm_clear
<1>1. /\ Good(newer') /\ Good(older') /\ NodesOf(newer') = {} /\ NodesOf(older') = {}
      /\ newer'.slots = 0 /\ older'.slots = 0 /\ TabType(newer') /\ TabType(older')
  BY <1>0, EmptyTabs, Zenon DEF Good
<1>2. TypeOK'
  BY <1>0, <1>1, Zenon DEF IInv, TypeOK
<1>3. Load' /\ Scanned'
  BY <1>0, <1>1 DEF Load, Scanned
<1>4. pc' = "idle" => nwork' = 0
  BY <1>0, Zenon DEF IInv
<1> QED
  BY <1>0, <1>1, <1>2, <1>3, <1>4, Zenon DEF IInv, Nodes, Abs!Clear

\* Every step preserves the invariant and is a step of KeySet or changes nothing
\* that KeySet sees.
LEMMA Step ==
    ASSUME IInv, [Next]_vars
    PROVE  IInv' /\ [Abs!Next]_Abs!vars
<1>1. CASE Skip
  BY <1>1, SkipKeeps, Zenon DEF Abs!vars
<1>2. CASE Move
  BY <1>2, MoveKeeps, Zenon DEF Abs!vars
<1>3. CASE hm_lookup
  <2>1. key \in Node
    BY Zenon DEF IInv, TypeOK
  <2> QED
    BY <1>3, <2>1, LookupKeeps, Zenon DEF Abs!Next
<1>4. CASE hm_delete
  <2>1. key \in Node
    BY Zenon DEF IInv, TypeOK
  <2> QED
    BY <1>4, <2>1, DeleteKeeps, Zenon DEF Abs!Next
<1>5. CASE Inserted
  <2>1. /\ ~Working /\ Return /\ older' = Helped /\ UNCHANGED <<newer, migrate_pos, reply>>
        /\ reply' \subseteq Node
    BY <1>5, Zenon DEF Inserted, IInv, TypeOK
  <2> QED
    BY <2>1, ReturnKeeps, Zenon DEF Abs!vars
<1>6. CASE hm_foreach
  BY <1>6, ForeachKeeps, Zenon DEF Abs!Next
<1>7. CASE hm_clear
  BY <1>7, ClearKeeps, Zenon DEF Abs!Next
<1>8. ASSUME NEW k \in Node, hm_insert(k) PROVE IInv' /\ [Abs!Next]_Abs!vars
  BY <1>8, InsertKeeps, Zenon DEF Abs!Next
<1>9. ASSUME NEW k \in Node, Search("lookup", k) \/ Search("delete", k)
      PROVE  IInv' /\ [Abs!Next]_Abs!vars
  <2>1. /\ pc = "idle" /\ pc' \in {"lookup", "delete"} /\ key' = k /\ nwork' = 0
        /\ UNCHANGED <<newer, older, migrate_pos, reply>>
    BY <1>9, Zenon DEF Search, Call
  <2>2. reply' \subseteq Node
    BY <2>1, Zenon DEF IInv, TypeOK
  <2>3. IInv' /\ UNCHANGED Nodes
    BY <2>1, <2>2, SameKeeps, Zenon
  <2> QED
    BY <2>1, <2>3, Zenon DEF Abs!vars
<1>10. CASE UNCHANGED vars
  <2>1. reply' \subseteq Node
    BY <1>10, Zenon DEF vars, IInv, TypeOK
  <2>2. IInv' /\ UNCHANGED Nodes
    BY <1>10, <2>1, SameKeeps, Zenon DEF vars
  <2> QED
    BY <1>10, <2>2, Zenon DEF vars, Abs!vars
<1> QED
  BY <1>1, <1>2, <1>3, <1>4, <1>5, <1>6, <1>7, <1>8, <1>9, <1>10, Zenon DEF Next, Help

\* The empty map satisfies the invariant.
LEMMA IInvInit == Init => IInv /\ Abs!Init
<1> SUFFICES ASSUME Init PROVE IInv /\ Abs!Init
  BY Zenon
<1>1. newer = NoTab /\ older = NoTab /\ migrate_pos = 0 /\ pc = "idle" /\ key \in Node /\ nwork = 0 /\ reply = {}
  BY Zenon DEF Init
<1>2. /\ Good(newer) /\ Good(older) /\ NodesOf(newer) = {} /\ NodesOf(older) = {}
      /\ newer.slots = 0 /\ older.slots = 0 /\ TabType(newer) /\ TabType(older)
  BY <1>1, EmptyTabs, ZenonT(60) DEF Good
<1>3. TypeOK /\ Load /\ Scanned
  BY <1>1, <1>2, HMapAssumption DEF TypeOK, Load, Scanned
<1> QED
  BY <1>1, <1>2, <1>3, Zenon DEF IInv, Nodes, Abs!Init

-----------------------------------------------------------------------------
\* The inductive invariant holds throughout every rehash.
THEOREM Invariance == Spec => []IInv
<1>1. IInv /\ [Next]_vars => IInv'
  BY Step, Zenon
<1> QED
  BY <1>1, IInvInit, PTL DEF Spec

\* The variables of the map keep their types: no size falls below zero.
THEOREM TypeCorrect == Spec => []TypeOK
<1>1. IInv => TypeOK
  BY Zenon DEF IInv
<1> QED
  BY <1>1, Invariance, PTL

\* Every node is linked once, where a lookup searches for it.
THEOREM NodesLinkedOnce == Spec => []LinkedOnce
<1>1. IInv => LinkedOnce
  BY Zenon DEF IInv, Good, LinkedOnce
<1> QED
  BY <1>1, Invariance, PTL

\* The sizes are exact and hm_help_rehashing never reads past the old table.
THEOREM ScanStaysInBounds == Spec => []ScanInBounds
<1>1. IInv => ScanInBounds
  <2> SUFFICES ASSUME IInv PROVE ScanInBounds
    BY Zenon
  <2>1. ASSUME older.size > 0 PROVE migrate_pos < older.slots
    BY <2>1, ScanFacts, StateFacts, SMTT(30)
  <2> QED
    BY <2>1, Zenon DEF IInv, Good, ScanInBounds
<1> QED
  BY <1>1, Invariance, PTL

\* Rehashing keeps up with insertion for any load factor and any work above 0.
THEOREM LoadStaysBounded == Spec => []LoadBounded
<1>1. IInv => LoadBounded
  <2> SUFFICES ASSUME IInv, pc = "idle", newer.slots # 0
               PROVE  newer.size < newer.slots * LoadFactor
    BY Zenon DEF LoadBounded
  <2> QED
    BY StateFacts DEF IInv, Load, Slack
<1> QED
  BY <1>1, Invariance, PTL

\* The map implements the set of nodes its callers rely on.
THEOREM Implementation == Spec => ImplementsKeySet
<1>1. IInv /\ [Next]_vars => [Abs!Next]_Abs!vars
  BY Step, Zenon
<1> QED
  BY <1>1, IInvInit, Invariance, PTL DEF Spec, ImplementsKeySet, Abs!Spec
-----------------------------------------------------------------------------
INSTANCE WellFoundedInduction

\* The order while an item is in hand, for the array with the item put in the
\* hole: only the hole's own edge upwards (heap_up) or its edges downwards
\* (heap_down) may be out of order, and leaving the hole out none is.
Edges(S) == \A i \in S : i > 0 => Array[heap_parent(i)].val <= Array[i].val

Bridge ==
    pos > 0 => \A i \in Index : i > 0 /\ heap_parent(i) = pos
                  => Array[heap_parent(pos)].val <= Array[i].val

Order ==
    /\ sift = "idle" => Edges(Index)
    /\ sift = "up"   => Edges(Index \ {pos}) /\ Bridge
    /\ sift = "down" => Edges({i \in Index : heap_parent(i) # pos}) /\ Bridge

\* The references while an item is in hand: all but those of the item and of
\* the entry being removed agree with the array.
Refs ==
    /\ sift = "idle" => BackRefs /\ victim = Null
    /\ sift # "idle" =>
        /\ t.ref # victim
        /\ \A i \in Index \ {pos} : idx[a[i].ref] = i /\ a[i].ref \notin {t.ref, victim}
        /\ \A r \in Ref \ {t.ref, victim} :
              idx[r] # None => idx[r] \in Index \ {pos} /\ a[idx[r]].ref = r

\* The inductive invariant.
HeapInv == HeapTypeOK /\ Order /\ Refs

-----------------------------------------------------------------------------
\* Where the parent of a position lies, and whose children it has.
LEMMA ParentFacts ==
    ASSUME NEW i \in Nat, i > 0
    PROVE  /\ heap_parent(i) \in Nat /\ heap_parent(i) < i
           /\ i = heap_left(heap_parent(i)) \/ i = heap_right(heap_parent(i))
BY DEF heap_parent, heap_left, heap_right

\* The children of a position lie above it and have it as parent.
LEMMA ChildFacts ==
    ASSUME NEW p \in Nat
    PROVE  /\ heap_left(p) \in Nat /\ heap_left(p) > p /\ heap_parent(heap_left(p)) = p
           /\ heap_right(p) \in Nat /\ heap_right(p) > p /\ heap_parent(heap_right(p)) = p
BY DEF heap_parent, heap_left, heap_right

\* Deadlines are integers.
LEMMA ItemVal == \A x \in Item : x.val \in Int
<1> SUFFICES ASSUME NEW x \in Item PROVE x.val \in Int
  BY Zenon
<1>1. x.val \in Val
  BY Zenon DEF Item
<1>2. \A v \in Val : v \in Nat
  BY HeapAssumption, Zenon
<1>3. x.val \in Nat
  BY <1>1, <1>2, ZenonT(60)
<1> QED
  BY <1>3

-----------------------------------------------------------------------------
\* heap_update on an array that differs from a heap in one position p: the
\* order that heap_up or heap_down starts from.
LEMMA StartOrder ==
    ASSUME HeapTypeOK, Order, sift = "idle", NEW n \in Nat, NEW p \in 0 .. n - 1,
           NEW b \in [0 .. n - 1 -> Item], n <= len + 1, len' = n,
           \A i \in 0 .. n - 1 : i # p => i \in Index /\ b[i] = a[i],
           heap_update(b, p)
    PROVE  Order'
<1>0. /\ a' = b /\ pos' = p /\ t' = b[p] /\ len \in Nat
      /\ sift' = IF p > 0 /\ b[heap_parent(p)].val > b[p].val THEN "up" ELSE "down"
  BY Zenon DEF heap_update, HeapTypeOK
<1>1. Array' = b /\ Index' = 0 .. n - 1
  BY <1>0, Zenon DEF Array, Index
<1>2. \A i \in Index : a[i].val \in Int
  BY ItemVal, Zenon DEF HeapTypeOK
<1>3. \A i \in 0 .. n - 1 : b[i].val \in Int
  BY ItemVal, Zenon
<1>4. \A i \in Index : i > 0 => heap_parent(i) \in Index /\ a[heap_parent(i)].val <= a[i].val
  BY <1>0, ParentFacts DEF Order, Edges, Array, Index
<1>5. \A i \in 0 .. n - 1 : i > 0 => heap_parent(i) \in 0 .. n - 1 /\ heap_parent(i) < i
  BY ParentFacts, SMTT(30)
<1>6. \A i \in 0 .. n - 1 : i > 0 /\ i # p /\ heap_parent(i) # p
         => b[heap_parent(i)].val <= b[i].val
  BY <1>4, <1>5, Zenon
<1>7. ASSUME NEW i \in 0 .. n - 1, i > 0, heap_parent(i) = p
      PROVE  /\ p \in Index /\ i # p /\ a[p].val <= b[i].val
             /\ p > 0 => b[heap_parent(p)].val <= a[p].val
  <2>1. p < i /\ i # p
    BY <1>5, <1>7
  <2>2. i \in Index /\ b[i] = a[i] /\ p \in Index
    BY <1>0, <2>1 DEF Index
  <2>3. a[p].val <= b[i].val
    BY <1>4, <1>7, <2>2, Zenon
  <2>4. ASSUME p > 0 PROVE b[heap_parent(p)].val <= a[p].val
    BY <1>4, <1>5, <2>2, <2>4, SMTT(30)
  <2> QED
    BY <2>1, <2>2, <2>3, <2>4, Zenon
<1>8. Bridge'
  <2> SUFFICES ASSUME p > 0, NEW i \in 0 .. n - 1, i > 0, heap_parent(i) = p
               PROVE  b[heap_parent(p)].val <= b[i].val
    BY <1>0, <1>1, Zenon DEF Bridge
  <2> QED
    BY <1>2, <1>3, <1>5, <1>7, SMTT(30)
<1>9. ASSUME sift' = "up" PROVE Edges(Index \ {pos})'
  <2> SUFFICES ASSUME NEW i \in 0 .. n - 1, i # p, i > 0
               PROVE  b[heap_parent(i)].val <= b[i].val
    BY <1>0, <1>1, Zenon DEF Edges
  <2>1. p > 0 /\ b[heap_parent(p)].val > b[p].val
    BY <1>0, <1>9, ZenonT(60)
  <2>2. CASE heap_parent(i) = p
    BY <1>2, <1>3, <1>5, <1>7, <2>1, <2>2, SMTT(30)
  <2> QED
    BY <1>6, <2>2, Zenon
<1>10. ASSUME sift' = "down" PROVE Edges({i \in Index : heap_parent(i) # pos})'
  <2> SUFFICES ASSUME NEW i \in 0 .. n - 1, heap_parent(i) # p, i > 0
               PROVE  b[heap_parent(i)].val <= b[i].val
    BY <1>0, <1>1, Zenon DEF Edges
  <2>1. CASE i = p
    BY <1>0, <1>3, <1>5, <1>10, <2>1
  <2> QED
    BY <1>6, <2>1, Zenon
<1> QED
  BY <1>0, <1>8, <1>9, <1>10, Zenon DEF Order

\* Setting a timer.
LEMMA UpsertKeeps ==
    ASSUME HeapInv, NEW r \in Ref, NEW v \in Val, heap_upsert(r, v)
    PROVE  HeapInv'
<1> DEFINE p == IF idx[r] \in 0 .. len - 1 THEN idx[r] ELSE len
           n == IF p < len THEN len ELSE len + 1
           b == [i \in 0 .. n - 1 |-> IF i = p THEN [val |-> v, ref |-> r] ELSE a[i]]
<1>0. HeapTypeOK /\ Order /\ Refs /\ sift = "idle" /\ len \in Nat /\ idx' = idx /\ victim' = victim
  BY Zenon DEF HeapInv, heap_upsert, HeapTypeOK
<1>1. p \in 0 .. n - 1 /\ n \in Nat /\ n <= len + 1 /\ len' = n /\ heap_update(b, p)
  BY <1>0, SMTT(30) DEF heap_upsert
<1>2. b \in [0 .. n - 1 -> Item] /\ b[p] = [val |-> v, ref |-> r]
  BY <1>0, <1>1, SMTT(30) DEF HeapTypeOK, Index, Item
<1>3. \A i \in 0 .. n - 1 : i # p => i \in Index /\ b[i] = a[i]
  BY <1>0, SMTT(30) DEF Index
<1>4. (idx[r] \in Index /\ p = idx[r] /\ n = len) \/ (idx[r] = None /\ p = len /\ n = len + 1)
  BY <1>0, SMTT(30) DEF Refs, BackRefs, Index, None
<1> HIDE DEF p, n, b
<1>5. Order'
  BY <1>0, <1>1, <1>2, <1>3, StartOrder, Zenon
<1>6. a' = b /\ pos' = p /\ t' = [val |-> v, ref |-> r] /\ sift' \in {"up", "down"} /\ Index' = 0 .. n - 1
  BY <1>1, <1>2, Zenon DEF heap_update, Index
<1>7. HeapTypeOK'
  BY <1>0, <1>1, <1>2, <1>6, Zenon DEF HeapTypeOK, Item
<1>8. Refs'
  <2>1. victim' = Null /\ r # Null
    BY <1>0, HeapAssumption, Zenon DEF Refs
  <2>2. ASSUME NEW i \in 0 .. n - 1, i # p
        PROVE  idx[b[i].ref] = i /\ b[i].ref # r /\ b[i].ref # Null
    <3>1. i \in Index /\ b[i] = a[i] /\ idx[a[i].ref] = i /\ a[i].ref \in Ref
      BY <1>0, <1>3, <2>2, Zenon DEF Refs, BackRefs, HeapTypeOK, Item
    <3>2. i # None
      BY DEF None
    <3> QED
      BY <1>4, <2>2, <3>1, <3>2, HeapAssumption, Zenon
  <2>3. ASSUME NEW s \in Ref, s # r, idx[s] # None
        PROVE  idx[s] \in 0 .. n - 1 /\ idx[s] # p /\ b[idx[s]].ref = s
    <3>1. idx[s] \in Index /\ a[idx[s]].ref = s
      BY <1>0, <2>3, Zenon DEF Refs, BackRefs
    <3>2. idx[s] # p
      BY <1>0, <1>4, <2>3, <3>1, SMTT(30) DEF Refs, BackRefs, Index
    <3>3. idx[s] \in 0 .. n - 1
      BY <1>0, <1>4, <3>1, SMTT(30) DEF Index
    <3> QED
      BY <1>3, <3>1, <3>2, <3>3, Zenon
  <2> QED
    BY <1>0, <1>6, <2>1, <2>2, <2>3, SMTT(30) DEF Refs
<1> QED
  BY <1>5, <1>7, <1>8, Zenon DEF HeapInv

\* Removing a timer.
LEMMA HeapDeleteKeeps ==
    ASSUME HeapInv, NEW r \in Ref, heap_delete(r)
    PROVE  HeapInv'
<1> DEFINE p == idx[r]
           n == len - 1
           b == [i \in 0 .. len - 2 |-> IF i = p THEN a[len - 1] ELSE a[i]]
<1>0. HeapTypeOK /\ Order /\ Refs /\ sift = "idle" /\ len \in Nat /\ idx[r] # None
  BY Zenon DEF HeapInv, heap_delete, HeapTypeOK
<1>1. p \in Index /\ a[p].ref = r /\ len' = n /\ n \in Nat /\ n \in Index
  BY <1>0 DEF heap_delete, Refs, BackRefs, Index
<1>2. b \in [0 .. n - 1 -> Item] /\ \A i \in 0 .. n - 1 : i # p => i \in Index /\ b[i] = a[i]
  BY <1>0, <1>1, SMTT(30) DEF HeapTypeOK, Index
<1>3. /\ \A i \in Index : idx[a[i].ref] = i /\ a[i].ref \in Ref
      /\ \A s \in Ref : idx[s] # None => idx[s] \in Index /\ a[idx[s]].ref = s
  BY <1>0, Zenon DEF Refs, BackRefs, HeapTypeOK, Item
<1>4. CASE p < len - 1 /\ heap_update(b, p) /\ victim' = r /\ idx' = idx
  <2>0. b[p] = a[n] /\ p \in 0 .. n - 1 /\ n <= len + 1 /\ p # n
    BY <1>0, <1>1, <1>4, SMTT(30) DEF Index
  <2>a. heap_update(b, p) /\ victim' = r /\ idx' = idx /\ Index' = 0 .. n - 1
    BY <1>1, <1>4, ZenonT(60) DEF Index
  <2> HIDE DEF p, n, b
  <2>1. Order'
    BY <1>0, <1>1, <1>2, <2>0, <2>a, StartOrder, ZenonT(60)
  <2>2. a' = b /\ pos' = p /\ t' = a[n] /\ sift' \in {"up", "down"}
    BY <2>0, <2>a, ZenonT(60) DEF heap_update
  <2>3. HeapTypeOK'
    BY <1>0, <1>1, <1>2, <2>0, <2>a, <2>2, ZenonT(60) DEF HeapTypeOK, Item
  <2>4. a[n].ref # r
    BY <1>1, <1>3, <2>0, ZenonT(60) DEF p
  <2>5. ASSUME NEW i \in 0 .. n - 1, i # p
        PROVE  idx[b[i].ref] = i /\ b[i].ref # a[n].ref /\ b[i].ref # r
    BY <1>1, <1>2, <1>3, <2>5, SMTT(30) DEF p
  <2>6. ASSUME NEW s \in Ref, s # a[n].ref, s # r, idx[s] # None
        PROVE  idx[s] \in 0 .. n - 1 /\ idx[s] # p /\ b[idx[s]].ref = s
    <3>1. idx[s] \in Index /\ a[idx[s]].ref = s
      BY <1>3, <2>6, Zenon
    <3>2. idx[s] # n /\ idx[s] # p
      BY <1>1, <2>6, <3>1, ZenonT(60)
    <3>3. idx[s] \in 0 .. n - 1
      BY <1>0, <3>1, <3>2, SMTT(30) DEF Index, n
    <3> QED
      BY <1>2, <3>1, <3>2, <3>3, Zenon
  <2>7. Refs'
    BY <2>a, <2>2, <2>4, <2>5, <2>6, ZenonT(60) DEF Refs
  <2> QED
    BY <2>1, <2>3, <2>7, Zenon DEF HeapInv
<1>5. CASE p = len - 1 /\ a' = b /\ idx' = [idx EXCEPT ![r] = None] /\ UNCHANGED <<sift, pos, t, victim>>
  <2>0. /\ Index' = 0 .. n - 1 /\ p = n /\ a' = b /\ idx'[r] = None
        /\ \A s \in Ref : s # r => idx'[s] = idx[s]
        /\ idx' \in [Ref -> Nat \cup {None}] /\ UNCHANGED <<sift, victim>>
    BY <1>0, <1>1, <1>5, Zenon DEF Index, HeapTypeOK
  <2> HIDE DEF p, n, b
  <2>1. HeapTypeOK'
    BY <1>0, <1>1, <1>2, <2>0, ZenonT(60) DEF HeapTypeOK
  <2>2. \A i \in 0 .. n - 1 : i > 0 => heap_parent(i) \in 0 .. n - 1
    BY <1>1, ParentFacts, SMTT(30)
  <2>3. Order'
    BY <1>0, <1>1, <1>2, <2>0, <2>2, SMTT(30) DEF Order, Edges, Array
  <2>4. \A i \in 0 .. n - 1 : idx'[b[i].ref] = i
    BY <1>1, <1>2, <1>3, <2>0, SMTT(30) DEF p
  <2>5. \A s \in Ref : idx'[s] # None => idx'[s] \in 0 .. n - 1 /\ b[idx'[s]].ref = s
    <3> SUFFICES ASSUME NEW s \in Ref, idx'[s] # None
                 PROVE  idx'[s] \in 0 .. n - 1 /\ b[idx'[s]].ref = s
      BY Zenon
    <3>1. s # r /\ idx'[s] = idx[s] /\ idx[s] \in Index /\ a[idx[s]].ref = s
      BY <1>3, <2>0, Zenon
    <3>2. idx[s] # n
      BY <1>1, <2>0, <3>1, ZenonT(60)
    <3>3. idx[s] \in 0 .. n - 1
      BY <1>0, <3>1, <3>2, SMTT(30) DEF Index, n
    <3> QED
      BY <1>2, <2>0, <3>1, <3>2, <3>3, Zenon
  <2>6. Refs'
    BY <1>0, <2>0, <2>4, <2>5, Zenon DEF Refs, BackRefs
  <2> QED
    BY <2>1, <2>3, <2>6, ZenonT(60) DEF HeapInv
<1> QED
  BY <1>0, <1>1, <1>4, <1>5, Zenon DEF heap_delete

-----------------------------------------------------------------------------
\* A move of heap_up or heap_down: the types, the references, and the array
\* with the item in hand put in the new hole.
LEMMA ShiftKeeps ==
    ASSUME HeapTypeOK, Refs, sift # "idle", NEW p \in Index, p # pos, Shift(p)
    PROVE  /\ HeapTypeOK' /\ Refs' /\ Index' = Index /\ pos \in Index /\ pos' = p /\ sift' = sift
           /\ Array[pos] = t /\ Array[p] = a[p] /\ Array'[p] = t /\ Array'[pos] = a[p]
           /\ \A i \in Index : i # pos => Array[i] = a[i]
           /\ \A i \in Index : i # p /\ i # pos => Array'[i] = Array[i]
<1> DEFINE s == a[p].ref
<1>0. /\ pos \in Index /\ t \in Item /\ a[p] \in Item /\ s \in Ref /\ pos \in Nat
      /\ a \in [Index -> Item] /\ idx \in [Ref -> Nat \cup {None}]
  BY DEF HeapTypeOK, Item, Index
<1>1. /\ a' = [a EXCEPT ![pos] = a[p]] /\ idx' = [idx EXCEPT ![s] = pos] /\ pos' = p
      /\ Index' = Index /\ UNCHANGED <<len, sift, t, victim>>
  BY Zenon DEF Shift, Index
<1>2. a'[pos] = a[p] /\ \A i \in Index : i # pos => a'[i] = a[i]
  BY <1>0, <1>1, Zenon
<1>3. idx'[s] = pos /\ \A r \in Ref : r # s => idx'[r] = idx[r]
  BY <1>0, <1>1, Zenon
<1>4. a' \in [Index -> Item] /\ idx' \in [Ref -> Nat \cup {None}]
  BY <1>0, <1>1, Zenon
<1>5. HeapTypeOK'
  BY <1>0, <1>1, <1>4, ZenonT(60) DEF HeapTypeOK
<1>6. Array = [a EXCEPT ![pos] = t] /\ Array' = [a' EXCEPT ![p] = t]
  BY <1>1, Zenon DEF Array
<1> HIDE DEF s
<1>7. Refs'
  <2>1. \A i \in Index \ {pos} : idx[a[i].ref] = i /\ a[i].ref \notin {t.ref, victim} /\ a[i].ref \in Ref
    BY <1>0, Zenon DEF Refs, Item
  <2>2. \A r \in Ref \ {t.ref, victim} : idx[r] # None => idx[r] \in Index \ {pos} /\ a[idx[r]].ref = r
    BY Zenon DEF Refs
  <2>3. s \notin {t.ref, victim} /\ idx[s] = p /\ a[p].ref = s
    BY <2>1, ZenonT(60) DEF s
  <2>4. ASSUME NEW i \in Index \ {p}
        PROVE  idx'[a'[i].ref] = i /\ a'[i].ref \notin {t.ref, victim}
    <3>1. CASE i = pos
      BY <1>2, <1>3, <2>3, <3>1, Zenon
    <3>2. CASE i # pos
      <4>1. a'[i] = a[i] /\ a[i].ref # s /\ a[i].ref \in Ref
        BY <1>2, <2>1, <2>3, <2>4, <3>2, ZenonT(60)
      <4> QED
        BY <1>3, <2>1, <3>2, <4>1, ZenonT(60)
    <3> QED
      BY <3>1, <3>2, ZenonT(60)
  <2>5. ASSUME NEW r \in Ref \ {t.ref, victim}, idx'[r] # None
        PROVE  idx'[r] \in Index \ {p} /\ a'[idx'[r]].ref = r
    <3>1. CASE r = s
      BY <1>0, <1>2, <1>3, <2>3, <3>1, ZenonT(60)
    <3>2. CASE r # s
      <4>1. idx'[r] = idx[r] /\ idx[r] \in Index \ {pos} /\ a[idx[r]].ref = r
        BY <1>3, <2>2, <2>5, <3>2, Zenon
      <4> QED
        BY <1>2, <2>3, <3>2, <4>1, ZenonT(60)
    <3> QED
      BY <3>1, <3>2, ZenonT(60)
  <2> QED
    BY <1>1, <2>4, <2>5, ZenonT(60) DEF Refs
<1>8. /\ Array[pos] = t /\ Array[p] = a[p] /\ Array'[p] = t /\ Array'[pos] = a[p]
      /\ \A i \in Index : i # pos => Array[i] = a[i]
      /\ \A i \in Index : i # p /\ i # pos => Array'[i] = Array[i]
  BY <1>0, <1>2, <1>4, <1>6, ZenonT(60)
<1> QED
  BY <1>0, <1>1, <1>5, <1>7, <1>8, ZenonT(60)

\* The end of a loop: the item in hand fills the hole.
LEMMA FillKeeps ==
    ASSUME HeapTypeOK, Refs, sift # "idle", Fill
    PROVE  /\ HeapTypeOK' /\ Refs' /\ sift' = "idle" /\ Index' = Index /\ Array' = Array
           /\ pos \in Index /\ Array[pos] = t /\ \A i \in Index : i # pos => Array[i] = a[i]
<1>0. /\ pos \in Index /\ t \in Item /\ t.ref \in Ref /\ pos \in Nat /\ len \in Nat
      /\ a \in [Index -> Item] /\ idx \in [Ref -> Nat \cup {None}] /\ victim \in Ref \cup {Null}
  BY DEF HeapTypeOK, Item, Index
<1>1. /\ a' = [a EXCEPT ![pos] = t] /\ sift' = "idle" /\ victim' = Null
      /\ Index' = Index /\ len' = len
      /\ idx' = [r \in Ref |-> IF r = victim THEN None ELSE IF r = t.ref THEN pos ELSE idx[r]]
  BY Zenon DEF Fill, Index
<1>2. a' \in [Index -> Item] /\ a'[pos] = t /\ \A i \in Index : i # pos => a'[i] = a[i]
  BY <1>0, <1>1, Zenon
<1>3. idx' \in [Ref -> Nat \cup {None}]
  BY <1>0, <1>1, Zenon
<1>4. HeapTypeOK'
  BY <1>0, <1>1, <1>2, <1>3, ZenonT(60) DEF HeapTypeOK
<1>5. Array' = Array /\ Array[pos] = t /\ \A i \in Index : i # pos => Array[i] = a[i]
  BY <1>0, <1>1, Zenon DEF Array
<1>6. Refs'
  <2>1. \A i \in Index \ {pos} : idx[a[i].ref] = i /\ a[i].ref \notin {t.ref, victim} /\ a[i].ref \in Ref
    BY <1>0, Zenon DEF Refs, Item
  <2>2. \A r \in Ref \ {t.ref, victim} : idx[r] # None => idx[r] \in Index \ {pos} /\ a[idx[r]].ref = r
    BY Zenon DEF Refs
  <2>3. t.ref # victim
    BY Zenon DEF Refs
  <2>4. ASSUME NEW i \in Index PROVE idx'[a'[i].ref] = i
    BY <1>0, <1>1, <1>2, <2>1, <2>3, ZenonT(60)
  <2>5. ASSUME NEW r \in Ref, idx'[r] # None
        PROVE  idx'[r] \in Index /\ a'[idx'[r]].ref = r
    BY <1>0, <1>1, <1>2, <2>2, <2>3, <2>5, SMTT(30)
  <2> QED
    BY <1>1, <2>4, <2>5, ZenonT(60) DEF Refs, BackRefs
<1> QED
  BY <1>0, <1>1, <1>4, <1>5, <1>6, ZenonT(60)

\* What heap_down's comparison of the hole's children finds.
LEMMA MinPos ==
    ASSUME HeapTypeOK, sift = "down"
    PROVE  \/ /\ min_pos = pos
              /\ \A i \in Index : i > 0 /\ heap_parent(i) = pos => t.val <= a[i].val
           \/ /\ min_pos \in Index /\ min_pos # pos /\ min_pos > 0
              /\ heap_parent(min_pos) = pos /\ a[min_pos].val < t.val
              /\ \A i \in Index : i > 0 /\ heap_parent(i) = pos => a[min_pos].val <= a[i].val
<1> DEFINE l == heap_left(pos)
           r == heap_right(pos)
<1>0. pos \in Index /\ pos \in Nat /\ len \in Nat /\ t.val \in Int /\ \A i \in Index : a[i].val \in Int
  BY ItemVal, SMTT(30) DEF HeapTypeOK, Index
<1>1. /\ l \in Nat /\ l > pos /\ heap_parent(l) = pos
      /\ r \in Nat /\ r > pos /\ heap_parent(r) = pos
  BY <1>0, ChildFacts, ZenonT(60)
<1>2. \A i \in Index : i > 0 /\ heap_parent(i) = pos => i = l \/ i = r
  <2> SUFFICES ASSUME NEW i \in Index, i > 0, heap_parent(i) = pos PROVE i = l \/ i = r
    BY Zenon
  <2>1. i \in Nat
    BY DEF Index
  <2> QED
    BY <2>1, ParentFacts, Zenon
<1>3. (l < len <=> l \in Index) /\ (r < len <=> r \in Index)
  BY <1>0, <1>1, SMTT(30) DEF Index
<1> DEFINE m == IF l < len /\ a[l].val < t.val THEN l ELSE pos
<1>4. min_pos = IF r < len /\ a[r].val < (IF m = pos THEN t.val ELSE a[m].val) THEN r ELSE m
  BY Zenon DEF min_pos
<1> HIDE DEF l, r
<1>5. CASE l < len /\ a[l].val < t.val
  <2>1. m = l /\ m # pos
    BY <1>0, <1>1, <1>5, SMTT(30)
  <2>2. min_pos = IF r < len /\ a[r].val < a[l].val THEN r ELSE l
    BY <1>4, <2>1, ZenonT(60)
  <2> QED
    BY <1>0, <1>1, <1>2, <1>3, <1>5, <2>2, SMTT(30)
<1>6. CASE ~(l < len /\ a[l].val < t.val)
  <2>1. min_pos = IF r < len /\ a[r].val < t.val THEN r ELSE pos
    BY <1>4, <1>6, Zenon
  <2> QED
    BY <1>0, <1>1, <1>2, <1>3, <1>6, <2>1, SMTT(30)
<1> QED
  BY <1>5, <1>6, Zenon

\* One iteration of heap_up.
LEMMA UpKeeps ==
    ASSUME HeapInv, heap_up
    PROVE  HeapInv' /\ Items' = Items
<1> DEFINE p == heap_parent(pos)
<1>0. HeapTypeOK /\ Order /\ Refs /\ sift = "up" /\ pos \in Index /\ pos \in Nat /\ len \in Nat
  BY DEF HeapInv, heap_up, HeapTypeOK, Index
<1>1. /\ \A i \in Index \ {pos} : i > 0 => Array[heap_parent(i)].val <= Array[i].val
      /\ Bridge
  BY <1>0, Zenon DEF Order, Edges
<1>2. t.val \in Int /\ \A i \in Index : a[i].val \in Int
  BY <1>0, ItemVal, ZenonT(60) DEF HeapTypeOK
<1>3. \A i \in Index : i > 0 => heap_parent(i) \in Index /\ heap_parent(i) < i
  BY <1>0, ParentFacts DEF Index
<1>4. CASE pos > 0 /\ a[p].val > t.val /\ Shift(p)
  <2>0. p \in Index /\ p # pos /\ p < pos /\ Shift(p) /\ p = heap_parent(pos)
    BY <1>0, <1>3, <1>4, SMTT(30) DEF Index
  <2> HIDE DEF p
  <2>1. /\ HeapTypeOK' /\ Refs' /\ Index' = Index /\ pos' = p /\ sift' = "up"
        /\ Array[pos] = t /\ Array[p] = a[p] /\ Array'[p] = t /\ Array'[pos] = a[p]
        /\ \A i \in Index : i # pos => Array[i] = a[i]
        /\ \A i \in Index : i # p /\ i # pos => Array'[i] = Array[i]
    BY <1>0, <2>0, ShiftKeeps, Zenon
  <2>2. ASSUME NEW i \in Index, i > 0, i # pos, heap_parent(i) = p
        PROVE  a[p].val <= Array[i].val
    BY <1>1, <2>1, <2>2, Zenon
  <2>3. ASSUME NEW i \in Index, i # p, i > 0
        PROVE  Array'[heap_parent(i)].val <= Array'[i].val
    <3>1. CASE i = pos
      BY <1>2, <1>4, <2>0, <2>1, <3>1, SMTT(30)
    <3>2. CASE i # pos /\ heap_parent(i) = p
      BY <1>2, <1>4, <2>0, <2>1, <2>2, <2>3, <3>2, SMTT(30)
    <3>3. CASE i # pos /\ heap_parent(i) = pos
      BY <1>1, <1>4, <2>0, <2>1, <2>3, <3>3, Zenon DEF Bridge
    <3>4. CASE i # pos /\ heap_parent(i) # p /\ heap_parent(i) # pos
      BY <1>1, <1>3, <2>1, <2>3, <3>4, ZenonT(60)
    <3> QED
      BY <3>1, <3>2, <3>3, <3>4, ZenonT(60)
  <2>4. ASSUME p > 0, NEW i \in Index, i > 0, heap_parent(i) = p
        PROVE  Array'[heap_parent(p)].val <= Array'[i].val
    <3>1. heap_parent(p) \in Index /\ heap_parent(p) < p /\ p \in Nat
      BY <1>3, <2>0, <2>4 DEF Index
    <3>2. heap_parent(p) # p /\ heap_parent(p) # pos
      BY <1>0, <2>0, <3>1 DEF Index
    <3>3. Array'[heap_parent(p)] = a[heap_parent(p)] /\ a[heap_parent(p)].val <= a[p].val
      BY <1>1, <2>0, <2>1, <2>4, <3>1, <3>2, ZenonT(60)
    <3>4. CASE i = pos
      BY <2>1, <3>3, <3>4, ZenonT(60)
    <3>5. CASE i # pos
      <4>1. i # p
        BY <1>3, <2>4, SMTT(30) DEF Index
      <4>2. a[p].val <= a[i].val /\ Array'[i] = a[i]
        BY <2>1, <2>2, <2>4, <3>5, <4>1, ZenonT(60)
      <4>3. a[p].val \in Int /\ a[i].val \in Int /\ a[heap_parent(p)].val \in Int
        BY <1>2, <2>0, <3>1, ZenonT(60)
      <4> QED
        BY <3>3, <4>2, <4>3
    <3> QED
      BY <3>4, <3>5, Zenon
  <2>5. Order'
    BY <2>1, <2>3, <2>4, ZenonT(60) DEF Order, Edges, Bridge
  <2>6. Items' = Items
    BY <1>0, <2>0, <2>1, ZenonT(60) DEF Items
  <2> QED
    BY <2>1, <2>5, <2>6, Zenon DEF HeapInv
<1>5. CASE ~(pos > 0 /\ a[p].val > t.val) /\ Fill
  <2>1. /\ HeapTypeOK' /\ Refs' /\ sift' = "idle" /\ Index' = Index /\ Array' = Array
        /\ Array[pos] = t /\ \A i \in Index : i # pos => Array[i] = a[i]
    BY <1>0, <1>5, FillKeeps, Zenon
  <2>2. ASSUME pos > 0 PROVE Array[heap_parent(pos)].val <= Array[pos].val
    BY <1>0, <1>2, <1>3, <1>5, <2>1, <2>2, SMTT(30) DEF Index
  <2>3. Order'
    BY <1>1, <2>1, <2>2, Zenon DEF Order, Edges
  <2> QED
    BY <2>1, <2>3, Zenon DEF HeapInv, Items
<1> QED
  BY <1>4, <1>5, Zenon DEF heap_up

\* One iteration of heap_down.
LEMMA DownKeeps ==
    ASSUME HeapInv, heap_down
    PROVE  HeapInv' /\ Items' = Items
<1> DEFINE p == min_pos
<1>0. HeapTypeOK /\ Order /\ Refs /\ sift = "down" /\ pos \in Index /\ pos \in Nat /\ len \in Nat
  BY DEF HeapInv, heap_down, HeapTypeOK, Index
<1>1. /\ \A i \in Index : heap_parent(i) # pos /\ i > 0 => Array[heap_parent(i)].val <= Array[i].val
      /\ Bridge
  BY <1>0, Zenon DEF Order, Edges
<1>2. t.val \in Int /\ \A i \in Index : a[i].val \in Int
  BY <1>0, ItemVal, Zenon DEF HeapTypeOK
<1>3. \A i \in Index : i > 0 => heap_parent(i) \in Index /\ heap_parent(i) < i
  BY <1>0, ParentFacts, SMTT(30) DEF Index
<1>4. CASE p # pos /\ Shift(p)
  <2>0. /\ p \in Index /\ p > 0 /\ heap_parent(p) = pos /\ a[p].val < t.val
        /\ \A i \in Index : i > 0 /\ heap_parent(i) = pos => a[p].val <= a[i].val
    BY <1>0, <1>4, MinPos, Zenon
  <2>a. p # pos /\ Shift(p)
    BY <1>4, ZenonT(60)
  <2> HIDE DEF p
  <2>1. /\ HeapTypeOK' /\ Refs' /\ Index' = Index /\ pos' = p /\ sift' = "down"
        /\ Array[pos] = t /\ Array[p] = a[p] /\ Array'[p] = t /\ Array'[pos] = a[p]
        /\ \A i \in Index : i # pos => Array[i] = a[i]
        /\ \A i \in Index : i # p /\ i # pos => Array'[i] = Array[i]
    BY <1>0, <2>0, <2>a, ShiftKeeps, Zenon
  <2>2. ASSUME NEW i \in Index, heap_parent(i) # p, i > 0
        PROVE  Array'[heap_parent(i)].val <= Array'[i].val
    <3>1. CASE i = p
      BY <1>2, <2>0, <2>1, <3>1, SMTT(30)
    <3>2. CASE i # p /\ heap_parent(i) = pos
      <4>1. i # pos
        BY <1>0, <1>3, <2>2, <3>2, SMTT(30) DEF Index
      <4> QED
        BY <2>0, <2>1, <2>2, <3>2, <4>1, ZenonT(60)
    <3>3. CASE i = pos
      <4>1. heap_parent(pos) \in Index /\ heap_parent(pos) # pos
        BY <1>0, <1>3, <2>2, <3>3, SMTT(30)
      <4>2. Array[heap_parent(pos)].val <= Array[p].val
        BY <1>1, <2>0, <2>2, <3>3, Zenon DEF Bridge
      <4> QED
        BY <2>1, <2>2, <3>3, <4>1, <4>2, ZenonT(60)
    <3>4. CASE i # pos /\ i # p /\ heap_parent(i) # pos
      BY <1>1, <1>3, <2>1, <2>2, <3>4, Zenon
    <3> QED
      BY <3>1, <3>2, <3>3, <3>4, ZenonT(60)
  <2>3. ASSUME NEW i \in Index, i > 0, heap_parent(i) = p
        PROVE  Array'[heap_parent(p)].val <= Array'[i].val
    <3>1. i # p /\ i # pos
      <4>1. p < i /\ pos < p /\ p \in Nat /\ i \in Nat
        BY <1>3, <2>0, <2>3 DEF Index
      <4> QED
        BY <1>0, <4>1
    <3>2. Array[p].val <= Array[i].val
      BY <1>1, <2>a, <2>3, Zenon
    <3> QED
      BY <2>0, <2>1, <3>1, <3>2, ZenonT(60)
  <2>4. Order'
    BY <2>1, <2>2, <2>3, Zenon DEF Order, Edges, Bridge
  <2>5. Items' = Items
    BY <1>0, <2>0, <2>a, <2>1, ZenonT(60) DEF Items
  <2> QED
    BY <2>1, <2>4, <2>5, Zenon DEF HeapInv
<1>5. CASE p = pos /\ Fill
  <2>0. \A i \in Index : i > 0 /\ heap_parent(i) = pos => t.val <= a[i].val
    BY <1>0, <1>5, MinPos, Zenon
  <2>1. /\ HeapTypeOK' /\ Refs' /\ sift' = "idle" /\ Index' = Index /\ Array' = Array
        /\ Array[pos] = t /\ \A i \in Index : i # pos => Array[i] = a[i]
    BY <1>0, <1>5, FillKeeps, ZenonT(60)
  <2>2. ASSUME NEW i \in Index, i > 0, heap_parent(i) = pos
        PROVE  Array[heap_parent(i)].val <= Array[i].val
    <3>1. i # pos
      BY <1>0, <1>3, <2>2, SMTT(30)
    <3> QED
      BY <2>0, <2>1, <2>2, <3>1, Zenon
  <2>3. Order'
    BY <1>1, <2>1, <2>2, Zenon DEF Order, Edges
  <2> QED
    BY <2>1, <2>3, Zenon DEF HeapInv, Items
<1> QED
  BY <1>4, <1>5, Zenon DEF heap_down

-----------------------------------------------------------------------------
\* The empty heap satisfies the inductive invariant.
LEMMA HeapInvInit == HeapInit => HeapInv
BY HeapAssumption DEF HeapInit, HeapInv, HeapTypeOK, Order, Edges, Refs, BackRefs, Index, None

\* Every operation and every iteration of a loop preserves it.
LEMMA HeapInvStep == HeapInv /\ [HeapNext]_heapVars => HeapInv'
<1> SUFFICES ASSUME HeapInv, [HeapNext]_heapVars PROVE HeapInv'
  BY Zenon
<1>1. CASE heap_up
  BY <1>1, UpKeeps, ZenonT(60)
<1>2. CASE heap_down
  BY <1>2, DownKeeps, Zenon
<1>3. ASSUME NEW r \in Ref, heap_delete(r) PROVE HeapInv'
  BY <1>3, HeapDeleteKeeps, ZenonT(60)
<1>4. ASSUME NEW r \in Ref, NEW v \in Val, heap_upsert(r, v) PROVE HeapInv'
  BY <1>4, UpsertKeeps, Zenon
<1>5. CASE UNCHANGED heapVars
  BY <1>5, Zenon DEF heapVars, HeapInv, HeapTypeOK, Order, Edges, Bridge, Array, Refs, BackRefs, Index
<1> QED
  BY <1>1, <1>2, <1>3, <1>4, <1>5, ZenonT(60) DEF HeapNext

\* The inductive invariant holds throughout every sift.
THEOREM HeapInvariance == HeapSpec => []HeapInv
BY HeapInvInit, HeapInvStep, PTL DEF HeapSpec

\* The variables of heap_update and its loops keep their types; in particular
\* no index leaves the array.
THEOREM HeapTypeCorrect == HeapSpec => []HeapTypeOK
<1>1. HeapInv => HeapTypeOK
  BY ZenonT(60) DEF HeapInv
<1> QED
  BY <1>1, HeapInvariance, PTL

\* Every operation on the heap leaves it ordered.
THEOREM OrderHolds == HeapSpec => []HeapOrder
<1>1. HeapInv => HeapOrder
  BY Zenon DEF HeapInv, Order, Edges, Array, HeapOrder
<1> QED
  BY <1>1, HeapInvariance, PTL

\* Every operation on the heap leaves heap_idx and the array in agreement.
THEOREM BackRefsHold == HeapSpec => []BackRefs
<1>1. HeapInv => BackRefs
  BY Zenon DEF HeapInv, Refs, BackRefs
<1> QED
  BY <1>1, HeapInvariance, PTL

\* Every set of naturals that is not empty has a least element.
LEMMA LeastNatural ==
    ASSUME NEW T \in SUBSET Nat, T # {}
    PROVE  \E x \in T : \A y \in T : x <= y
<1> DEFINE R == OpToRel(<, Nat)
<1>1. IsWellFoundedOn(R, Nat)
  BY NatLessThanWellFounded, Zenon
<1>2. \A y, z \in Nat : y < z => <<y, z>> \in R
  BY Zenon DEF OpToRel
<1> HIDE DEF R
<1>3. PICK x \in T : \A y \in T : ~(<<y, x>> \in R)
  BY <1>1, WFMin, Zenon
<1>4. ASSUME NEW y \in T, y < x PROVE FALSE
  <2>1. <<y, x>> \in R
    BY <1>2, <1>4, ZenonT(60)
  <2>2. <<y, x>> \notin R
    BY <1>3, Zenon
  <2> QED
    BY <2>1, <2>2, Zenon
<1>5. \A y \in T : x <= y
  BY <1>4
<1> QED
  BY <1>5, Zenon

\* In an ordered array no item lies before the root: a least position of one
\* that did would have a parent that does too.
LEMMA OrderRoot == HeapInv => RootIsLeast
<1> SUFFICES ASSUME HeapInv, sift = "idle" PROVE \A i \in Index : a[0].val <= a[i].val
  BY Zenon DEF RootIsLeast
<1>0. len \in Nat /\ \A i \in Index : a[i].val \in Int
  BY ItemVal, Zenon DEF HeapInv, HeapTypeOK
<1>1. \A i \in Index : i > 0 => a[heap_parent(i)].val <= a[i].val
  BY Zenon DEF HeapInv, Order, Edges, Array
<1> DEFINE T == {i \in Index : ~(a[0].val <= a[i].val)}
<1>2. ASSUME T # {} PROVE FALSE
  <2>1. T \in SUBSET Nat
    BY DEF Index
  <2> HIDE DEF T
  <2>2. PICK i \in T : \A j \in T : i <= j
    BY <1>2, <2>1, LeastNatural, Zenon
  <2>3. i \in Index /\ i \in Nat /\ ~(a[0].val <= a[i].val)
    BY <2>1, <2>2, Zenon DEF T
  <2>4. i > 0 /\ 0 \in Index
    BY <1>0, <2>3 DEF Index
  <2>5. heap_parent(i) \in Index /\ heap_parent(i) < i /\ heap_parent(i) \in Nat
    BY <1>0, <2>3, <2>4, ParentFacts, SMTT(30) DEF Index
  <2>6. heap_parent(i) \notin T
    BY <2>2, <2>3, <2>5, SMTT(30)
  <2>7. a[0].val <= a[heap_parent(i)].val
    BY <2>5, <2>6, Zenon DEF T
  <2> QED
    BY <1>0, <1>1, <2>3, <2>4, <2>5, <2>7, SMTT(30)
<1> QED
  BY <1>2, Zenon

\* The root is a timer that expires first.
THEOREM RootHolds == HeapSpec => []RootIsLeast
BY OrderRoot, HeapInvariance, PTL

\* heap_upsert replaces the timer of its entry and no other.
LEMMA UpsertItems ==
    ASSUME HeapInv, NEW r \in Ref, NEW v \in Val, heap_upsert(r, v)
    PROVE  AbsTimers!Upsert(r, v)
<1> DEFINE p == IF idx[r] \in 0 .. len - 1 THEN idx[r] ELSE len
           n == IF p < len THEN len ELSE len + 1
           b == [i \in 0 .. n - 1 |-> IF i = p THEN [val |-> v, ref |-> r] ELSE a[i]]
<1>0. /\ sift = "idle" /\ len \in Nat /\ Array = a
      /\ \A i \in Index : idx[a[i].ref] = i
      /\ idx[r] # None => idx[r] \in Index /\ a[idx[r]].ref = r
  BY Zenon DEF HeapInv, heap_upsert, HeapTypeOK, Refs, BackRefs, Array
<1>1. p \in 0 .. n - 1 /\ n \in Nat /\ len' = n /\ heap_update(b, p)
  <2>1. len' = n /\ heap_update(b, p)
    BY ZenonT(60) DEF heap_upsert
  <2>2. p \in Nat /\ p <= len
    BY <1>0, SMTT(30)
  <2> HIDE DEF p, b
  <2>3. p \in 0 .. n - 1 /\ n \in Nat
    BY <1>0, <2>2
  <2> QED
    BY <2>1, <2>3, Zenon
<1>2. Array' = b /\ Index' = 0 .. n - 1
  <2>1. a' = b /\ pos' = p /\ t' = b[p] /\ sift' # "idle"
    BY <1>1, ZenonT(60) DEF heap_update
  <2> QED
    BY <1>1, <2>1, Zenon DEF Array, Index
<1>3. \A i \in Index : a[i].ref = r <=> i = p
  BY <1>0, SMTT(30) DEF Index, None
<1>4. \A i \in 0 .. n - 1 : i = p \/ i \in Index
  BY <1>0, SMTT(30) DEF Index
<1>5. \A i \in Index : i \in 0 .. n - 1
  BY <1>0, SMTT(30) DEF Index
<1>6. b[p] = [val |-> v, ref |-> r] /\ \A i \in 0 .. n - 1 : i # p => b[i] = a[i]
  BY <1>1, ZenonT(60)
<1> HIDE DEF p, n, b
<1>7. Items' = {b[i] : i \in 0 .. n - 1} /\ Items = {a[i] : i \in Index}
  BY <1>0, <1>2, ZenonT(60) DEF Items
<1>8. Items' = {x \in Items : x.ref # r} \cup {[val |-> v, ref |-> r]}
  BY <1>1, <1>3, <1>4, <1>5, <1>6, <1>7, SMTT(30)
<1> QED
  BY <1>8, Zenon DEF AbsTimers!Upsert, AbsTimers!Without

\* heap_delete removes the timer of its entry and no other.
LEMMA DeleteItems ==
    ASSUME HeapInv, NEW r \in Ref, heap_delete(r)
    PROVE  AbsTimers!Delete(r)
<1> DEFINE p == idx[r]
           n == len - 1
           b == [i \in 0 .. len - 2 |-> IF i = p THEN a[len - 1] ELSE a[i]]
<1>0. /\ sift = "idle" /\ len \in Nat /\ Array = a /\ p \in Index /\ a[p].ref = r /\ len' = n
      /\ \A i \in Index : idx[a[i].ref] = i
  BY Zenon DEF HeapInv, heap_delete, HeapTypeOK, Refs, BackRefs, Array
<1>1. Array' = b /\ Index' = 0 .. n - 1
  <2>1. CASE p < len - 1 /\ heap_update(b, p)
    BY <1>0, <2>1, ZenonT(60) DEF heap_update, Array, Index
  <2>2. CASE p = len - 1 /\ a' = b /\ UNCHANGED sift
    BY <1>0, <2>2, ZenonT(60) DEF Array, Index
  <2> QED
    BY <1>0, <2>1, <2>2, ZenonT(60) DEF heap_delete
<1>2. \A i \in Index : a[i].ref = r <=> i = p
  BY <1>0, ZenonT(60)
<1>3. /\ \A i \in 0 .. n - 1 : i \in Index /\ i # n /\ b[i] = IF i = p THEN a[n] ELSE a[i]
      /\ \A i \in Index : i = n \/ i \in 0 .. n - 1
      /\ n \in Index
  BY <1>0 DEF Index
<1> HIDE DEF p, n, b
<1>4. Items' = {b[i] : i \in 0 .. n - 1} /\ Items = {a[i] : i \in Index}
  BY <1>0, <1>1, Zenon DEF Items
<1>5. Items' = {x \in Items : x.ref # r}
  BY <1>0, <1>2, <1>3, <1>4
<1> QED
  BY <1>5, Zenon DEF AbsTimers!Delete, AbsTimers!Without

\* The heap of heap.cpp implements the set of timers KVStore works with.
THEOREM HeapImplementation == HeapSpec => ImplementsTimers
<1>1. HeapInit => AbsTimers!Init
  BY DEF HeapInit, AbsTimers!Init, Items, Index
<1>2. HeapInv /\ [HeapNext]_heapVars => [AbsTimers!Next]_Items
  <2> SUFFICES ASSUME HeapInv, [HeapNext]_heapVars PROVE AbsTimers!Next \/ Items' = Items
    BY Zenon
  <2>1. CASE heap_up
    BY <2>1, UpKeeps, ZenonT(60)
  <2>2. CASE heap_down
    BY <2>2, DownKeeps, Zenon
  <2>3. ASSUME NEW r \in Ref, heap_delete(r) PROVE AbsTimers!Next
    BY <2>3, DeleteItems, ZenonT(60) DEF AbsTimers!Next
  <2>4. ASSUME NEW r \in Ref, NEW v \in Val, heap_upsert(r, v) PROVE AbsTimers!Next
    BY <2>4, UpsertItems, Zenon DEF AbsTimers!Next
  <2>5. CASE UNCHANGED heapVars
    BY <2>5, Zenon DEF heapVars, Items, Array, Index
  <2> QED
    BY <2>1, <2>2, <2>3, <2>4, <2>5, ZenonT(60) DEF HeapNext
<1> QED
  BY <1>1, <1>2, HeapInvariance, PTL DEF HeapSpec, ImplementsTimers, AbsTimers!Spec

\* The parent of a node comes before it.
LEMMA ParentBefore ==
    ASSUME NEW i \in Nat, i > 0
    PROVE  heap_parent(i) < i
BY SMTT(30) DEF heap_parent

\* A child of the hole that min_pos chooses comes after it, in the array.
LEMMA ChildAfter ==
    ASSUME len \in Nat, pos \in Nat, min_pos # pos
    PROVE  pos < min_pos /\ min_pos < len
BY DEF min_pos, heap_left, heap_right

\* heap_up and heap_down make progress in every iteration: neither can loop for
\* ever on a heap of any size.
THEOREM SiftingProgresses == HeapSpec => SiftProgresses
<1> DEFINE P == /\ sift = "up" /\ sift' = "up" => pos' < pos
                /\ sift = "down" /\ sift' = "down" => pos < pos' /\ pos' < len
<1>1. ASSUME HeapInv, HeapNext PROVE P
  <2>1. CASE heap_up
    <3>1. sift = "up" /\ sift' = "up" => pos > 0 /\ pos' = heap_parent(pos)
      BY <2>1, Zenon DEF heap_up, Shift, Fill
    <3>2. sift = "up" => pos \in Nat
      BY <1>1 DEF HeapInv, HeapTypeOK, Index
    <3> QED
      BY <2>1, <3>1, <3>2, ParentBefore, Zenon DEF heap_up
  <2>2. CASE heap_down
    <3>1. sift = "down" /\ sift' = "down" => min_pos # pos /\ pos' = min_pos
      BY <2>2, Zenon DEF heap_down, Shift, Fill
    <3>2. sift = "down" => pos \in Nat /\ len \in Nat
      BY <1>1 DEF HeapInv, HeapTypeOK, Index
    <3> QED
      BY <2>2, <3>1, <3>2, ChildAfter, Zenon DEF heap_down
  <2>3. CASE \E r \in Ref : heap_delete(r) \/ \E v \in Val : heap_upsert(r, v)
    <3>1. sift = "idle"
      BY <2>3, Zenon DEF heap_delete, heap_upsert
    <3> QED
      BY <3>1, Zenon
  <2> QED
    BY <1>1, <2>1, <2>2, <2>3, ZenonT(60) DEF HeapNext
<1>2. HeapInv /\ [HeapNext]_heapVars => [P]_heapVars
  BY <1>1, Zenon
<1> QED
  BY <1>2, HeapInvariance, PTL DEF HeapSpec, SiftProgresses
=============================================================================
