----------------------------- MODULE ThreadPool -----------------------------
(***************************************************************************)
(* The thread pool (src/thread_pool.cpp): a mutex, a condition variable, a *)
(* queue and a flag, used by the worker threads and by one owner, which    *)
(* calls thread_pool_init, thread_pool_queue and thread_pool_destroy.      *)
(*                                                                         *)
(* A critical section is two steps: acquiring mu, and the section itself   *)
(* up to the unlock, which no other thread can observe half done.          *)
(* pthread_cond_wait releases mu and blocks in one step, may return        *)
(* spuriously, and acquires mu again before it returns.                    *)
(***************************************************************************)
EXTENDS Naturals, Sequences

CONSTANTS
    Thread,         \* the num_threads threads thread_pool_init starts
    Work,           \* work items; each is submitted at most once
    MaxSpurious,    \* bound on the spurious wakeups of a behaviour
    Owner,          \* the thread that owns the pool
    Null

ASSUME PoolAssumption ==
    /\ Thread # {} /\ Owner \notin Thread
    /\ Null \notin Thread \cup Work \cup {Owner}
    /\ MaxSpurious \in Nat

VARIABLES
    threads,    \* tp->threads
    queue,      \* tp->queue
    mu,         \* the holder of tp->mu, or Null
    stopping,   \* tp->stopping
    alive,      \* mu and not_empty are initialized
    pc,         \* each worker: none (not started), lock, check (holds mu),
                \* wait (in pthread_cond_wait), run, exit
    job,        \* the work a worker runs
    own,        \* the owner: idle, init, qlock, qpush, dlock, dset, join
    arg,        \* the work the owner is submitting
    sub,        \* the works submitted so far
    ran,        \* how often each work ran
    spurious    \* how many spurious wakeups happened

vars == <<threads, queue, mu, stopping, alive, pc, job, own, arg, sub, ran, spurious>>

Init ==
    /\ threads = {} /\ queue = <<>> /\ mu = Null
    /\ stopping = FALSE /\ alive = FALSE
    /\ pc = [t \in Thread |-> "none"]
    /\ job = [t \in Thread |-> Null]
    /\ own = "idle" /\ arg = Null /\ sub = {}
    /\ ran = [w \in Work |-> 0]
    /\ spurious = 0

Waiting == {t \in Thread : pc[t] = "wait"}

-----------------------------------------------------------------------------
(***************************************************************************)
(* The owner.                                                              *)
(***************************************************************************)

\* Refused (an exception) while the pool has threads.
thread_pool_init ==
    /\ own = "idle" /\ threads = {}
    /\ own' = "init"
    /\ stopping' = FALSE /\ alive' = TRUE
    /\ UNCHANGED <<threads, queue, mu, pc, job, arg, sub, ran, spurious>>

pthread_create(t) ==
    /\ own = "init" /\ t \notin threads
    /\ threads' = threads \cup {t}
    /\ pc' = [pc EXCEPT ![t] = "lock"]
    /\ own' = IF threads' = Thread THEN "idle" ELSE "init"
    /\ UNCHANGED <<queue, mu, stopping, alive, job, arg, sub, ran, spurious>>

\* Undoes what was started, then throws.
CreateFails ==
    /\ own = "init"
    /\ IF threads = {} THEN own' = "idle" /\ alive' = FALSE
                       ELSE own' = "dlock" /\ UNCHANGED alive
    /\ UNCHANGED <<threads, queue, mu, stopping, pc, job, arg, sub, ran, spurious>>

\* Without threads the work runs in the caller.
thread_pool_queue(w) ==
    /\ own = "idle" /\ w \notin sub
    /\ sub' = sub \cup {w}
    /\ \/ /\ threads = {}
          /\ ran' = [ran EXCEPT ![w] = @ + 1]
          /\ UNCHANGED <<own, arg>>
       \/ /\ threads # {}
          /\ own' = "qlock" /\ arg' = w
          /\ UNCHANGED ran
    /\ UNCHANGED <<threads, queue, mu, stopping, alive, pc, job, spurious>>

thread_pool_destroy ==
    /\ own = "idle" /\ threads # {}
    /\ own' = "dlock"
    /\ UNCHANGED <<threads, queue, mu, stopping, alive, pc, job, arg, sub, ran, spurious>>

OwnerLock ==
    /\ own \in {"qlock", "dlock"} /\ mu = Null
    /\ mu' = Owner
    /\ own' = IF own = "qlock" THEN "qpush" ELSE "dset"
    /\ UNCHANGED <<threads, queue, stopping, alive, pc, job, arg, sub, ran, spurious>>

\* Mutant: no signal.
Push_NoSignal ==
    /\ own = "qpush"
    /\ queue' = Append(queue, arg)
    /\ mu' = Null /\ own' = "idle" /\ arg' = Null
    /\ UNCHANGED <<threads, stopping, alive, pc, job, sub, ran, spurious>>

\* push_back, pthread_cond_signal (one waiter, if there is any), unlock.
Push ==
    /\ own = "qpush"
    /\ queue' = Append(queue, arg)
    /\ \/ Waiting = {} /\ UNCHANGED pc
       \/ \E t \in Waiting : pc' = [pc EXCEPT ![t] = "lock"]
    /\ mu' = Null /\ own' = "idle" /\ arg' = Null
    /\ UNCHANGED <<threads, stopping, alive, job, sub, ran, spurious>>

\* Mutant: signal in place of broadcast.
SetStopping_Signal ==
    /\ own = "dset"
    /\ stopping' = TRUE
    /\ \/ Waiting = {} /\ UNCHANGED pc
       \/ \E t \in Waiting : pc' = [pc EXCEPT ![t] = "lock"]
    /\ mu' = Null /\ own' = "join"
    /\ UNCHANGED <<threads, queue, alive, job, arg, sub, ran, spurious>>

\* stopping = true, pthread_cond_broadcast, unlock.
SetStopping ==
    /\ own = "dset"
    /\ stopping' = TRUE
    /\ pc' = [t \in Thread |-> IF t \in Waiting THEN "lock" ELSE pc[t]]
    /\ mu' = Null /\ own' = "join"
    /\ UNCHANGED <<threads, queue, alive, job, arg, sub, ran, spurious>>

\* Mutant: destroy joins only the first thread.
Join_One ==
    /\ own = "join" /\ \E t \in threads : pc[t] = "exit"
    /\ threads' = {} /\ alive' = FALSE /\ own' = "idle"
    /\ UNCHANGED <<queue, mu, stopping, pc, job, arg, sub, ran, spurious>>

\* Every thread is joined; mu and not_empty are destroyed.
Join ==
    /\ own = "join" /\ \A t \in threads : pc[t] = "exit"
    /\ pc' = [t \in Thread |-> "none"]
    /\ threads' = {} /\ alive' = FALSE /\ own' = "idle"
    /\ UNCHANGED <<queue, mu, stopping, job, arg, sub, ran, spurious>>

-----------------------------------------------------------------------------
(***************************************************************************)
(* The function worker.                                                    *)
(***************************************************************************)
Lock(t) ==
    /\ pc[t] = "lock" /\ mu = Null
    /\ mu' = t
    /\ pc' = [pc EXCEPT ![t] = "check"]
    /\ UNCHANGED <<threads, queue, stopping, alive, job, own, arg, sub, ran, spurious>>

\* pthread_cond_wait
Sleep(t) ==
    /\ pc[t] = "check" /\ queue = <<>> /\ ~stopping
    /\ pc' = [pc EXCEPT ![t] = "wait"]
    /\ mu' = Null
    /\ UNCHANGED <<threads, queue, stopping, alive, job, own, arg, sub, ran, spurious>>

Spurious(t) ==
    /\ pc[t] = "wait" /\ spurious < MaxSpurious
    /\ spurious' = spurious + 1
    /\ pc' = [pc EXCEPT ![t] = "lock"]
    /\ UNCHANGED <<threads, queue, mu, stopping, alive, job, own, arg, sub, ran>>

\* Mutant: a stopping pool is left with work in the queue.
Exit_Early(t) ==
    /\ pc[t] = "check" /\ stopping
    /\ pc' = [pc EXCEPT ![t] = "exit"]
    /\ mu' = Null
    /\ UNCHANGED <<threads, queue, stopping, alive, job, own, arg, sub, ran, spurious>>

Exit(t) ==
    /\ pc[t] = "check" /\ queue = <<>> /\ stopping
    /\ pc' = [pc EXCEPT ![t] = "exit"]
    /\ mu' = Null
    /\ UNCHANGED <<threads, queue, stopping, alive, job, own, arg, sub, ran, spurious>>

Pop(t) ==
    /\ pc[t] = "check" /\ queue # <<>>
    /\ job' = [job EXCEPT ![t] = Head(queue)]
    /\ queue' = Tail(queue)
    /\ pc' = [pc EXCEPT ![t] = "run"]
    /\ mu' = Null
    /\ UNCHANGED <<threads, stopping, alive, own, arg, sub, ran, spurious>>

\* w.f(w.arg), outside the lock.
Run(t) ==
    /\ pc[t] = "run"
    /\ ran' = [ran EXCEPT ![job[t]] = @ + 1]
    /\ job' = [job EXCEPT ![t] = Null]
    /\ pc' = [pc EXCEPT ![t] = "lock"]
    /\ UNCHANGED <<threads, queue, mu, stopping, alive, own, arg, sub, spurious>>

worker(t) == Lock(t) \/ Sleep(t) \/ Exit(t) \/ Pop(t) \/ Run(t)

owner_step == OwnerLock \/ Push \/ SetStopping \/ Join

Next ==
    \/ thread_pool_init \/ CreateFails \/ thread_pool_destroy \/ owner_step
    \/ \E w \in Work : thread_pool_queue(w)
    \/ \E t \in Thread : pthread_create(t) \/ worker(t) \/ Spurious(t)

\* The scheduler runs every thread, and a call the owner made goes on.
Fairness == WF_vars(owner_step) /\ \A t \in Thread : WF_vars(worker(t))

Spec == Init /\ [][Next]_vars

FairSpec == Spec /\ Fairness

-----------------------------------------------------------------------------
(***************************************************************************)
(* Properties.                                                             *)
(***************************************************************************)

\* The values the pool's variables range over.
TypeOK ==
    /\ threads \subseteq Thread
    /\ queue \in Seq(Work)
    /\ mu \in Thread \cup {Owner, Null}
    /\ stopping \in BOOLEAN /\ alive \in BOOLEAN
    /\ pc \in [Thread -> {"none", "lock", "check", "wait", "run", "exit"}]
    /\ job \in [Thread -> Work \cup {Null}]
    /\ own \in {"idle", "init", "qlock", "qpush", "dlock", "dset", "join"}
    /\ arg \in Work \cup {Null}
    /\ sub \subseteq Work
    /\ ran \in [Work -> Nat]
    /\ spurious \in Nat

InQueue(w) == \E i \in DOMAIN queue : queue[i] = w
InJob(w)   == \E t \in Thread : job[t] = w

\* Every work submitted is in one place, once: the owner's hand, the queue, one
\* worker's hand, or run; a work that ran never runs again.
WorkConserved ==
    /\ \A i, j \in DOMAIN queue : queue[i] = queue[j] => i = j
    /\ \A s, t \in Thread : job[s] = job[t] /\ job[s] # Null => s = t
    /\ \A w \in Work :
        /\ w = arg  => w \in sub /\ ~InQueue(w) /\ ~InJob(w) /\ ran[w] = 0
        /\ InQueue(w) => w \in sub /\ ~InJob(w) /\ ran[w] = 0
        /\ InJob(w)   => w \in sub /\ ran[w] = 0
        /\ ran[w] = IF w \in sub /\ w # arg /\ ~InQueue(w) /\ ~InJob(w) THEN 1 ELSE 0

\* While there is work in the queue not all threads sleep: some thread is about
\* to look at the queue or will after its current work.  A signal sent while
\* nobody waits is not missed.
NoLostWakeup ==
    queue # <<>> => \E t \in threads : pc[t] \in {"lock", "check", "run"}

\* Once stopping is set no thread waits on the condition variable, so the
\* owner's joins are not held up by a sleeper.
NoSleeperWhenStopping == own = "join" => Waiting = {}

\* mu and not_empty exist whenever a thread may use them: between init and the
\* return of destroy, also when a pthread_create in the middle of init fails.
SyncObjectsAlive ==
    (\E t \in Thread : pc[t] \notin {"none", "exit"}) \/ mu # Null \/ threads # {} => alive

\* A pool without threads, before init or after destroy, holds no work: all
\* that was submitted has run, also what was queued when stopping was set.
DrainedWhenClosed ==
    threads = {} => queue = <<>> /\ \A w \in sub : ran[w] = 1

\* The pool implements the abstract one.
Abs == INSTANCE WorkPool WITH open <- threads # {}

\* Works start in the order of submission, and destroy returns only when
\* nothing is queued or running.
ImplementsWorkPool == Abs!Spec

\* Every work submitted runs, also when the pool is destroyed meanwhile.
WorkDone == \A w \in Work : w \in sub ~> ran[w] = 1

\* thread_pool_destroy returns.
DestroyReturns == own \in {"dlock", "dset", "join"} ~> own = "idle"
=============================================================================
