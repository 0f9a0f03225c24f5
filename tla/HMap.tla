-------------------------------- MODULE HMap --------------------------------
(***************************************************************************)
(* The hash map of src/hashtable.cpp, which holds the keys of the database *)
(* and the members of each sorted set.  It grows by progressive rehashing: *)
(* the full table becomes older, and every later call moves a few of its   *)
(* nodes into newer, which has twice the slots.  One iteration of the loop *)
(* of hm_help_rehashing is one step, so that its termination and the index *)
(* it reads are open to question.  A chain is the set of its nodes: what   *)
(* depends on the order within a chain is which of them moves first.       *)
(***************************************************************************)
EXTENDS Integers, FiniteSets

CONSTANTS
    Node,           \* nodes, one for each key: eq(cur, key) is cur = key
    Hash,           \* hcode of each node
    InitSlots,      \* slots of the first table: 4
    LoadFactor,     \* k_max_load_factor: 8
    RehashWork      \* k_rehashing_work: 128

ASSUME HMapAssumption ==
    /\ Hash \in [Node -> Nat]
    /\ InitSlots \in Nat /\ InitSlots > 1
    /\ LoadFactor \in Nat /\ LoadFactor > 0
    /\ RehashWork \in Nat /\ RehashWork > 0

VARIABLES
    newer, older,   \* HTab: slots (mask + 1, 0 when tab is NULL), chain, size
    migrate_pos,
    pc,             \* idle, or the operation that is in hm_help_rehashing
    key,            \* its argument
    nwork,          \* its local
    reply           \* the nodes the last call handed to its caller

vars == <<newer, older, migrate_pos, pc, key, nwork, reply>>

NoTab == [slots |-> 0, chain |-> [i \in {} |-> {}], size |-> 0]

h_init(n) == [slots |-> n, chain |-> [i \in 0 .. n - 1 |-> {}], size |-> 0]

\* hcode & mask, for a number of slots that is a power of two.
Slot(x, n) == Hash[x] % n

h_insert(tab, x) ==
    [slots |-> tab.slots,
     chain |-> [tab.chain EXCEPT ![Slot(x, tab.slots)] = @ \cup {x}],
     size  |-> tab.size + 1]

h_lookup(tab, k) == tab.slots # 0 /\ k \in tab.chain[Slot(k, tab.slots)]

h_detach(tab, i, x) ==
    [slots |-> tab.slots, chain |-> [tab.chain EXCEPT ![i] = @ \ {x}], size |-> tab.size - 1]

NodesOf(tab) == UNION {tab.chain[i] : i \in 0 .. tab.slots - 1}
Nodes == NodesOf(newer) \cup NodesOf(older)

Init ==
    /\ newer = NoTab /\ older = NoTab /\ migrate_pos = 0
    /\ pc = "idle" /\ key \in Node /\ nwork = 0 /\ reply = {}

-----------------------------------------------------------------------------
\* An operation enters hm_help_rehashing.
Call(op, k) == pc' = op /\ key' = k /\ nwork' = 0

Return == pc' = "idle" /\ nwork' = 0 /\ UNCHANGED key

Working == nwork < RehashWork /\ older.size > 0

\* Mutant: the scan does not advance.
Skip_Spins ==
    /\ pc # "idle" /\ Working /\ older.chain[migrate_pos] = {}
    /\ UNCHANGED vars

Skip ==
    /\ pc # "idle" /\ Working
    /\ older.chain[migrate_pos] = {}
    /\ migrate_pos' = migrate_pos + 1
    /\ UNCHANGED <<newer, older, pc, key, nwork, reply>>

Move ==
    /\ pc # "idle" /\ Working
    /\ \E x \in older.chain[migrate_pos] :
          /\ newer' = h_insert(newer, x)
          /\ older' = h_detach(older, migrate_pos, x)
    /\ nwork' = nwork + 1
    /\ UNCHANGED <<migrate_pos, pc, key, reply>>

\* older when hm_help_rehashing returns: freed once it is empty.
Helped == IF older.size = 0 THEN NoTab ELSE older

\* Mutant: only the newer table is searched.
hm_lookup_NewerOnly ==
    /\ pc = "lookup" /\ ~Working /\ Return
    /\ older' = Helped
    /\ reply' = IF h_lookup(newer, key) THEN {key} ELSE {}
    /\ UNCHANGED <<newer, migrate_pos>>

hm_lookup ==
    /\ pc = "lookup" /\ ~Working /\ Return
    /\ older' = Helped
    /\ reply' = IF h_lookup(newer, key) \/ h_lookup(Helped, key) THEN {key} ELSE {}
    /\ UNCHANGED <<newer, migrate_pos>>

hm_delete ==
    /\ pc = "delete" /\ ~Working /\ Return
    /\ \/ /\ h_lookup(newer, key)
          /\ newer' = h_detach(newer, Slot(key, newer.slots), key)
          /\ older' = Helped /\ reply' = {key}
       \/ /\ ~h_lookup(newer, key) /\ h_lookup(Helped, key)
          /\ older' = h_detach(older, Slot(key, older.slots), key)
          /\ reply' = {key} /\ UNCHANGED newer
       \/ /\ ~h_lookup(newer, key) /\ ~h_lookup(Helped, key)
          /\ older' = Helped /\ reply' = {} /\ UNCHANGED newer
    /\ UNCHANGED migrate_pos

\* The end of hm_insert.
Inserted ==
    /\ pc = "insert" /\ ~Working /\ Return
    /\ older' = Helped
    /\ UNCHANGED <<newer, migrate_pos, reply>>

-----------------------------------------------------------------------------
\* Mutant: the scan of the next rehash starts where the last one ended.
hm_trigger_rehashing_KeepsPos(tab) ==
    older' = tab /\ newer' = h_init(tab.slots * 2) /\ UNCHANGED migrate_pos

hm_trigger_rehashing(tab) ==
    older' = tab /\ newer' = h_init(tab.slots * 2) /\ migrate_pos' = 0

\* Mutant: a rehash is triggered only beyond the threshold.
hm_insert_Late(x) ==
    LET tab == h_insert(IF newer.slots = 0 THEN h_init(InitSlots) ELSE newer, x)
        full == older.slots = 0 /\ tab.size > tab.slots * LoadFactor
    IN  /\ pc = "idle" /\ x \notin Nodes /\ Call("insert", x) /\ reply' = {}
        /\ \/ full /\ hm_trigger_rehashing(tab)
           \/ ~full /\ newer' = tab /\ UNCHANGED <<older, migrate_pos>>

\* hm_insert up to hm_help_rehashing.  Every caller has looked the key up first
\* and inserts a node only for a key it did not find.
hm_insert(x) ==
    LET tab == h_insert(IF newer.slots = 0 THEN h_init(InitSlots) ELSE newer, x)
        full == older.slots = 0 /\ tab.size >= tab.slots * LoadFactor
    IN  /\ pc = "idle" /\ x \notin Nodes /\ Call("insert", x) /\ reply' = {}
        /\ \/ full /\ hm_trigger_rehashing(tab)
           \/ ~full /\ newer' = tab /\ UNCHANGED <<older, migrate_pos>>

\* hm_lookup and hm_delete begin with hm_help_rehashing.
Search(op, k) ==
    /\ pc = "idle" /\ Call(op, k)
    /\ UNCHANGED <<newer, older, migrate_pos, reply>>

\* The nodes h_foreach visits: a table with mask 0 is taken for an absent one.
h_foreach(tab) == IF tab.slots <= 1 THEN {} ELSE NodesOf(tab)

hm_foreach ==
    /\ pc = "idle"
    /\ reply' = h_foreach(newer) \cup h_foreach(older)
    /\ UNCHANGED <<newer, older, migrate_pos, pc, key, nwork>>

hm_clear ==
    /\ pc = "idle"
    /\ newer' = NoTab /\ older' = NoTab /\ migrate_pos' = 0 /\ reply' = {}
    /\ UNCHANGED <<pc, key, nwork>>

Help == Skip \/ Move \/ hm_lookup \/ hm_delete \/ Inserted

Next ==
    \/ Help \/ hm_foreach \/ hm_clear
    \/ \E k \in Node : hm_insert(k) \/ Search("lookup", k) \/ Search("delete", k)

Spec == Init /\ [][Next]_vars

\* An operation on the map runs in the event loop's thread until it returns.
FairSpec == Spec /\ WF_vars(Help)

-----------------------------------------------------------------------------
(***************************************************************************)
(* Properties.                                                             *)
(***************************************************************************)
TabType(tab) ==
    tab \in [slots : Nat, chain : [0 .. tab.slots - 1 -> SUBSET Node], size : Nat]

\* The values the variables range over.
TypeOK ==
    /\ TabType(newer) /\ TabType(older)
    /\ migrate_pos \in Nat /\ nwork \in 0 .. RehashWork
    /\ pc \in {"idle", "lookup", "delete", "insert"}
    /\ key \in Node /\ reply \subseteq Node

\* While nodes move from one table to the other each is linked once, in the
\* chain where h_lookup would look for it.
LinkedOnce ==
    /\ \A i \in 0 .. newer.slots - 1 : \A x \in newer.chain[i] : Slot(x, newer.slots) = i
    /\ \A i \in 0 .. older.slots - 1 : \A x \in older.chain[i] : Slot(x, older.slots) = i
    /\ NodesOf(newer) \cap NodesOf(older) = {}

\* The sizes that hm_size reports and that end the rehashing are exact, and the
\* scan of older stays inside its array: a nonempty chain lies ahead of it.
ScanInBounds ==
    /\ newer.size = Cardinality(NodesOf(newer))
    /\ older.size = Cardinality(NodesOf(older))
    /\ older.size > 0 => migrate_pos < older.slots

\* The rehashing keeps up: although hm_insert does not look at the load while
\* older exists, no call leaves newer as full as would have triggered a rehash.
LoadBounded == pc = "idle" /\ newer.slots # 0 => newer.size < newer.slots * LoadFactor

Abs == INSTANCE KeySet WITH nodes <- Nodes

\* The map implements a set of nodes: whatever has moved, a key inserted is
\* found, deleted once and visited by hm_foreach, and no other is.
ImplementsKeySet == Abs!Spec

\* hm_help_rehashing terminates.
HelpEnds == pc # "idle" ~> pc = "idle"
=============================================================================
