# A TLA+ verification of ApexDB

ApexDB is an in-memory key-value store: a storage engine with strings, sorted
sets and millisecond deadlines, behind a single-threaded `poll` event loop, with
a pool of threads that frees large sorted sets. Several such nodes can be run as
shards behind a proxy. This directory holds TLA+ modules translated from the C++
source, the TLC configurations that check them on small instances, and proofs
that TLAPS checks for every value of the constants.

## Inventory

| Part | State | Operations | What is hard about it | What is stated |
| --- | --- | --- | --- | --- |
| storage engine, `kv_store.cpp` | table of entries, timer heap, pool | 15 commands, expiry at the start of a command and from the event loop, destructor | entries are shared by table, heap, queue and workers; expiry works in batches; the clock moves during a command | one owner per entry, timers agree with entries, nothing expired is visible, no leak, agreement with an abstract store |
| timer heap, `heap.cpp` | array of items that point back at their entries | update or insert, delete, the two sifting loops | every move must update a back-reference; a delete may have to sift up | heap order, back-references, least root, agreement with a map of deadlines |
| thread pool, `thread_pool.cpp` | queue, mutex, condition variable, flag | init, queue, destroy, worker | lost wakeups, spurious wakeups, shutdown with queued work, creation that fails midway | conservation of work, no lost wakeup, drained at shutdown, agreement with a FIFO pool |
| hash map, `hashtable.cpp` | two tables and a migration index | lookup, insert, delete, foreach, clear, incremental rehash | calls meet half-moved tables; the migration index is not bounded by a test | each node linked once, index in bounds, load bounded, agreement with a set |
| event loop, `server_loop.cpp`, `list.h` | connections with two buffers, idle list | accept, read, write, idle closing, signals | partial input and output, pipelining, closing while work is pending | order of responses, exact poll interest, ordered idle list, no dead connection touched, progress |
| sorted set, `zset.cpp` | hash map and AVL tree over the same nodes | insert, update, delete, seek, offset, clear | two indexes must agree; a node is taken out and put in again when its score changes | both indexes agree, queries are exact, agreement with a map |
| AVL tree, `avl.cpp` | linked nodes with parent, height and count | fix, delete, offset | deletion swaps in a successor after rebalancing; offsets are counted while climbing | pointers, heights, counts, balance and order |
| wire protocol, `protocol.cpp`, and the readers in `proxy.cpp` and `client.cpp` | a request being parsed, an output buffer | parse, encode, write, frame, merge, print | lengths at their limits; a response replaced in an output that holds others | reads in bounds, parser and encoder are inverse, the client decodes what was answered |
| proxy, shards, remote call: `proxy.cpp`, `shard_main.cpp`, `sharding.cpp`, `tcp_rpc.cpp` | shard list, the request in service, calls in sockets, data of each shard | route, scatter keys, call with timeouts, serve, expire, crash, restart | a call that times out is executed all the same; keys is not atomic; one thread blocks for all clients | keys stay with their owner, atomic and at most once, keys is bracketed, no hang |
| `server.cpp`, `ui.cpp`, argument parsing of all programs | none | | | see Not modelled |

The parts meet as follows. The event loop reads frames, calls `execute` for each
request and `process_timers` once in every round. The engine finds entries
through the hash map, keeps deadlines in the timer heap and hands large sets to
the thread pool. Each sorted set has a hash map of its own. Proxy and shards run
the same event loop, the proxy with a handler that blocks in a remote call.

## Modules

| Module | What it is |
| --- | --- |
| `KVStore` | the engine; `Store` is its abstract specification, `SortedSet` the contract of a sorted set, `KVStoreProofs` has its invariants, `KVStoreRefinement` the proof that it implements `Store` |
| `ThreadPool` | the pool; `WorkPool` is its abstract specification, `ThreadPoolProofs` its theorems |
| `Heap` | the timer heap; `Timers` is its abstract specification; the theorems are in `ContainerProofs` |
| `HMap` | the hash map; `KeySet` is its abstract specification; the theorems are in `ContainerProofs` |
| `ServerLoop` | the event loop with its clients; `MCServerReap` restricts when time passes and adds two history variables, `ServerLoopProofs` has its theorems |
| `Avl`, `ZSet` | the tree, and the sorted set over it; `SortedMap` is `SortedSet` as a state machine, their abstract specification |
| `Protocol`, `Response` | requests and responses as bytes; `ProtocolProofs` and `ResponseProofs` have their theorems |
| `Cluster` | proxy, remote calls and shards; `AtomicStore` is its abstract specification, `ClusterProofs` its theorems |
| `MC...` | instances for TLC |

Operators named `X_Something` with the comment "Mutant" are faulty variants of
`X`. They are used by no specification; replacing `X` by one of them shows that
a property notices the fault.

### KVStore

`mem` maps each address to the `Entry` there, `db` is the table, `heap` the set
of timer items, `queue` and `busy` the pool's queue and what each worker frees.
`pc` is the place of the event loop: `execute` samples the clock into `now` and
enters `expire`, where `process_timers` removes one due entry per step, until
nothing is due and the command runs. `on_timer` enters the same loop for a
single call that stops after `k_max_works + 1` entries. A command is one action:
no other thread can observe the table or the heap. `Tick`, the workers and the
shutdown interleave with everything. `malloc` may return any free address, so
the reuse of an address that was just freed is covered. An entry's `heap_idx` is
abstracted to `timed`; `Heap` has the index itself. Strings are model values,
with the decimal ones as the integers they spell; `MinInt .. MaxInt` is
`int64_t`.

`Store` has no memory, heap or threads: a key has a value and a deadline, and
keys past the sampled time are gone before a command runs. The refinement
mapping hides entries that the expiry loop has not reached yet.

### ThreadPool

A critical section is two steps, taking the mutex and the section up to its
unlock, which nobody can observe half done. `pthread_cond_wait` unlocks and
blocks in one step, may return spuriously, and takes the mutex again. The owner
may initialize and destroy the pool repeatedly, and any `pthread_create` may
fail.

### Heap

One step is one iteration of `heap_up` or `heap_down`; `t` is the item in hand and
`pos` the hole. `heap_upsert` and `heap_delete` are `entry_set_ttl` in its two
cases, including the reset of `heap_idx` after the sift.

### HMap

One step is one iteration of the loop in `hm_help_rehashing`. A chain is the set
of its nodes; any of them may be the first to move. Callers insert a node only
for a key that they looked up and did not find, which is the guard of
`hm_insert`.

### ServerLoop

A frame is two units, header and body, so that reads and writes can cut it. A
unit carries the number of its request, a response repeats it. A frame can also
be too long (rejected at its header) or malformed (rejected when whole). Time is
the age of `last_active_ms`, counted up to one tick past the timeout, which is
where the code stops telling ages apart. `read` and `write` may transfer any
amount or refuse; `accept` may fail. A client that is `gone` has reset the
connection, one in `fin` has ended its sending side. Poll's timeout is not
tracked: poll may return at any time, with nothing ready.

### Avl and ZSet

A tree is a function from nodes to `AVLNode` records, so every pointer, height and
count of the code is there, and a forgotten assignment would show. Mirror-image
functions share one operator with the side as a parameter. `ZSet` names a member's
node after the member; the hash table is the set of names in it, which is what
`HMap` is shown to implement. Every operation is one action, as only one thread
ever has a sorted set in hand. Queries change nothing and are operators.
`SortedMap` is the contract `KVStore` relies on, with `zless`, insertion, deletion
and `zquery` from `SortedSet`.

### Protocol and Response

A buffer is a sequence of bytes; a `uint32_t` has `W` bytes of `B` values, an
`int64_t` or a `double` twice as many, and a double is its bytes. `Protocol` runs
`parse_req` one argument at a time on any frame whatever and has `encode_request`
next to it. A read past the frame would find zeros. `Response` adds a connection's
output. `Reply` is `response_begin`, a handler's value and `response_end` on an
output that may hold earlier responses. `Forward` and `Gather` are the proxy's two
ways with what its shards answered, from their frames to its own. `replies`
remembers what a client should get. The text of an error is one byte.

### Cluster

The proxy serves one request at a time: `on_request` takes it up, `Send` is a
remote call up to the last byte written, `Receive` its return with a response and
`tcp_rpc_fails` its return without one, in any step and for any reason, a timeout
included. A call that was sent stays in `net` until its shard serves it, closes the
connection or crashes, also when nobody waits for it any more. get, set and del
stand for all commands with a key, since `KVStore` covers what each one does to an
entry; the value a set writes is the number of its request. The proxy's list of
endpoints may be in any order, since nothing in the code ties it to the shards'
ids; that it has as many endpoints as the shards were told is assumed. `always` and
`ever` are history variables that follow a keys request.

In `AtomicStore` a request takes effect at most once. One that was answered
without an error took effect while it was served. One that was answered with an
error may have taken effect, may do so later, or never. Data is lost only through a
crash, which takes one shard's keys, and through deadlines. The refinement mapping
reads each key at its owner, takes a response in the socket for the effect, and the
calls nobody waits for as those that may still take effect.

## Runs

| Run | Instance | Shows |
| --- | --- | --- |
| `kvstore` | 2 keys, 2 members, 2 workers, 3 addresses, clock to 2 | ownership, timers, visibility, no leak, agreement with `Store` |
| `kvstore_live` | 2 keys, 2 members, 1 worker, arguments with and without a number in them, `zquery` from both sides | every command and error path agrees with `Store`; due entries go |
| `threadpool` | 3 threads, 3 works, 1 spurious wakeup | no lost wakeup, nothing used after it is destroyed, agreement with `WorkPool`; every work runs, destroy returns |
| `heap` | 6 entries, 3 deadlines | least root, back-references, agreement with `Timers`; every iteration of a sift makes progress |
| `hmap` | 5 nodes, 2 slots at first, load factor 1, 1 node moved per call | rehashing is invisible, in bounds and ends |
| `serverloop` | 2 connections, 1 frame each | idle list, no dead connection touched |
| `serverloop_pipe` | 1 connection, 3 frames | order of responses, poll interest, orderly close |
| `serverloop_live` | 1 connection, 1 frame | requests answered, idle connections closed, signals obeyed |
| `server_reap` | 2 connections, 1 frame each, time passing only in `poll` and in `on_request` | a violation, see Findings |
| `zset` | 7 members, 2 scores, limits 0, 2 and 3 | the tree is exact after every operation, every query and offset is right, agreement with `SortedMap` |
| `cluster` | 3 keys on 2 shards, one of them with a deadline, 3 requests, 1 crash | placement, bracketed keys, agreement with `AtomicStore`; every request is answered |
| `protocol` | all frames of 2 byte values up to 13 bytes, also after a count of 2 or 3; limit 12 bytes, 2 arguments; 2 responses | parser and encoder agree, responses are decoded as they were meant |

Bounds. In `kvstore` `MaxWorks = 0` makes a batch of one entry, so that two due keys
need two calls of `process_timers`, and `LargeSize = 1` makes a set of two members
large. Three addresses let a key be created again while its old entry is still
queued. Six heap items give a third level whose last node has no sibling. Five nodes
fill the first table of the map twice over, so that two rehashes happen, and a budget
of one node per call makes the migrations overlap other calls. Seven members are the
fewest with a tree of height four, hence with a deletion that rotates above the
deleted node and a successor two levels down; a deletion that rotates at two levels
needs twelve and is beyond the bound. Two scores give ties that names decide, and
updates that move a member past others. In `protocol` the two byte values make counts
and lengths of 0, 1, 8 and 9; counts of 2 and 3 are added, the most arguments allowed
and one more. One argument just fits into the limit of 12 bytes and one just does
not, the lengths of two arguments can exceed the frame together when neither does
alone, arrays of both kinds fit and do not fit, and the keys of two shards fit apart
and not when merged. In `cluster` three requests let a call that was given up on take
effect after a later request for the same key and before a third reads it; two of the
keys share a shard, and a set of keys that does not fit can be one shard's or the
merged one. Two connections are the least with an order in the idle list; three
frames the least with one that is served, one that is partly written and one that is
partly read. Symmetry is used only for addresses and workers in `kvstore` and for
heap entries in `heap`, never with a liveness property.

Fairness. Liveness assumes that the event loop's thread and each worker keep
running, that time passes and, in `ServerLoop`, that a socket which poll keeps
reporting does not refuse for ever. In `Cluster` only the proxy's own thread is fair: a call always
ends, because connect and each read and write wait at most two seconds and a
message has finitely many bytes; shards need not ever answer or come back. Name
resolution is taken to return. The first is the scheduler's; poll never
waits longer than a second (`server_loop.cpp:271`). Nothing is assumed of
clients: none has to send, read or leave.

## Findings

`server_reap`: README.md says "Idle connections close after roughly five seconds."
`process_timers` judges by `last_active_ms`, which is set when the loop turns to a
connection, not when its bytes arrive. If `on_request` takes longer than the timeout
for one connection, another one whose whole request reached its socket meanwhile, in
time, is closed at the end of the round with the request unread. In the proxy a
handler waits up to two seconds in each step of a remote call, and one read can hold
several pipelined requests, so a stalled shard is enough. `ServerLoop` lets time
pass between any two steps, which is right for what it states but would show this
with no reason for the delay. `MCServerReap` lets it pass only in `poll`, while
nothing is ready, and in `on_request`. In the trace connections 1 and 2 are accepted,
poll reports connection 1, its request is served for two ticks, the request of
connection 2 arrives after the first of them, and `process_timers` closes it.

## Proofs

All theorems are proved from the named assumptions on the constants (finite
instances are not assumed) by an inductive invariant `IInv`, one lemma per action.

- `KVStoreProofs`. `IInv` joins `TypeOK`, `EntryOwnership`, `TimerConsistency` and
  `NoExpiredVisible` with the fact that after the destructor table, queue and
  workers hold nothing. Ownership alone is not inductive: that a removed entry has
  no timer left needs `TimerConsistency`, and that the expiry loop finds its entry
  in the table needs both. From it follow `NoLeakAtExit` and `DisposedUntouched`.
- `KVStoreRefinement`. `IInv` is extended by two facts: an entry has nothing in the
  fields of the other type, and the sampled time is not later than the clock. `Val(k)`
  is what callers know of a key outside the expiry loop. Removing, creating and
  updating an entry have one lemma each: what `Val` of the key becomes, and that no
  other key's `Val` changes. They rest on `EntryOwnership`, by which two keys never
  share an entry, and on `TimerConsistency`, by which `heap_idx` finds the entry's
  own deadline. Every command is then the command of the same name in `Store`,
  `execute` is `Begin`, a round of `process_timers` is `Expire` or invisible, and
  what the workers do is invisible.
- `ThreadPoolProofs`. `IInv` adds who holds the mutex and where each thread may
  then be. `NoLostWakeup` is inductive only with it: a thread goes to sleep
  holding the mutex and having seen an empty queue, and a push needs the mutex.
  The refinement of `WorkPool` is proved too.
- `ContainerProofs`, timer heap. `HeapInv` is the heap order of the array with the item in hand put
  into the hole, with the edges at the hole excepted in the direction of the sift
  and grandparent edges kept, and the back-references with the hole excepted.
  `RootIsLeast` follows by taking the least index that contradicts it. That every
  iteration of a sift makes progress and the refinement of `Timers` are proved too.
- `ContainerProofs`, hash map. `IInv` says that the tables' sizes are exact, that no node of
  `older` lies behind `migrate_pos`, and that
  `newer.size + 2 * older.size` stays within `newer.slots * LoadFactor` by a margin
  that every insertion and every moved node respects. The last part is what makes
  the load bound hold although `hm_insert` does not look at the load during a
  rehash. The refinement of `KeySet` is proved too.
- `ClusterProofs`. `IInv` ties the place of the proxy to the request it holds and
  says of the calls in the sockets that each is either older than the last answer
  or the current one, that the current keyed one has no answer yet, and that no
  keyed request is there twice. This is what at most once rests on, and it needs
  that `tcp_rpc` sends once. With `KeyPlacement` it gives the refinement of
  `AtomicStore` for any number of shards, keys and any hash function. For keys,
  `KInv` adds that every body gathered so far brackets its shard's keys, and that N
  different endpoints are all N shards, by counting.
- `ServerLoopProofs`. `IInv` says at every place of the loop, not only when it
  polls, that each connection's stream is complete, that only whole acceptable
  requests were answered, that it waits for one direction and that no whole request
  is left in its buffer; that what poll reported is still so when its turn comes; and
  that nothing is reported between rounds. The last is why the expiry at the end of
  a round cannot destroy a connection that is still to be handled, and the second
  why a connection with unwritten responses is not read, on which `GracefulClose`
  rests. Reading, serving and writing have one lemma each about any single
  connection, the operations on the idle list one each about any list. All five
  safety properties of `ServerLoop` follow for any number of connections and frames.

- `ProtocolProofs`. `IInv` says that the bytes parse_req has passed are what
  `encode_request` writes for the arguments it holds (`Consumed`), and that on the
  frame of a command it has the command's first arguments and does not reject it
  (`Tracks`). The first gives one half of `ParsesExactly`, the second the other.
  Both rest on `Number` and `Bytes` being inverse to each other and on the size
  `encode_request` computes being the length it writes. The module also has the
  lemmas on how single values are written and read. `W`, `B`, the limits and the
  frames are arbitrary; that the limits fit a `uint32_t` is `RangeAssumption`.
- `ResponseProofs`. `ReplyInv` says that the output is, for each reply in order, a
  length and the bytes of its value. `response_end` keeps it although it patches
  and may cut a buffer that holds earlier responses. `print_response` reads the
  bytes of any value back at any depth up to the limit, `KeysIn` reads the keys of
  an array, and a body that is not an array of keys is refused; so what the proxy
  forwards or merges is again the bytes of a value. Assumed are room for an error
  in a message, a depth of at least one, tags that fit a byte and integers that
  fit an `int64_t`. The parser is not affected by the responses
  (`ParserUnaffected`), so the theorems of `ProtocolProofs` hold there too.

The induction theorems of the library cannot be applied, so an induction over the
length of a sequence takes the least number at which the claim fails
(`WellFoundedInduction` has that such a number exists), and a recursive function
is unfolded after showing that some function satisfies its equation.

The invariants `TypeOK` of `ThreadPool` and `HMap`, `HeapTypeOK`, `WorkConserved`
and `LinkedOnce` appear only in the proofs, as parts of an inductive invariant or
consequences of it.

Only model-checked: all liveness, which is out of the prover's reach, and what the
recursive operators of `Avl` and `ZSet` compute (`TreeExact`, `QueriesExact`,
`ImplementsSortedMap`), since the prover cannot use a module with such operators.

## Not modelled

- `server.cpp`, and the argument parsing of `proxy.cpp`, `shard_main.cpp`,
  `client.cpp` and `cli.hpp`: they read arguments and wire up parts that have
  modules; they keep no state.
- `ui.cpp`, and the text `client.cpp` prints: drawing, keyboard and terminal.
- `next_timer_ms` and `next_timer_ms_combined` only choose how long poll waits;
  poll may return at any time in the models, and the code bounds the wait.
- `str_hash` is a constant: the theorems hold for any hash function, and how
  evenly it spreads keys is not a question of correctness.
- Allocation that fails, and set-up of sockets that ends the process.
