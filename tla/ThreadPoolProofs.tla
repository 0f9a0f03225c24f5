-------------------------- MODULE ThreadPoolProofs --------------------------
(***************************************************************************)
(* Proofs about ThreadPool, for any number of threads and works.           *)
(***************************************************************************)
EXTENDS ThreadPool, SequenceTheorems, TLAPS

\* What a sequence of distinct elements holds after a push at its end.
LEMMA PushElements ==
    ASSUME NEW S, NEW s \in Seq(S), NEW e \in S
    PROVE  LET t == Append(s, e)
           IN  /\ t \in Seq(S)
               /\ \A f : (\E i \in DOMAIN t : t[i] = f)
                          <=> (\E i \in DOMAIN s : s[i] = f) \/ f = e
               /\ (\A i, j \in DOMAIN s : s[i] = s[j] => i = j)
                  /\ (\A i \in DOMAIN s : s[i] # e)
                  => \A i, j \in DOMAIN t : t[i] = t[j] => i = j
<1> DEFINE t == Append(s, e)
<1>1. /\ t \in Seq(S) /\ Len(t) = Len(s) + 1 /\ Len(s) \in Nat
      /\ DOMAIN s = 1 .. Len(s) /\ DOMAIN t = 1 .. Len(s) + 1
      /\ \A i \in 1 .. Len(s) : t[i] = s[i]
      /\ t[Len(s) + 1] = e
  OBVIOUS
<1> HIDE DEF t
<1>2. \A i \in DOMAIN t : i \in DOMAIN s \/ i = Len(s) + 1
  BY <1>1
<1>3. \A i \in DOMAIN s : i \in DOMAIN t
  BY <1>1
<1>4. Len(s) + 1 \in DOMAIN t
  BY <1>1
<1> QED
  BY <1>1, <1>2, <1>3, <1>4, Zenon DEF t

\* What a sequence of distinct elements holds after a pop at its front.
LEMMA PopElements ==
    ASSUME NEW S, NEW s \in Seq(S), s # <<>>
    PROVE  LET t == Tail(s)
           IN  /\ t \in Seq(S) /\ Head(s) \in S
               /\ \A f : (\E i \in DOMAIN s : s[i] = f)
                          <=> (\E i \in DOMAIN t : t[i] = f) \/ f = Head(s)
               /\ (\A i, j \in DOMAIN s : s[i] = s[j] => i = j)
                  => /\ \A i, j \in DOMAIN t : t[i] = t[j] => i = j
                     /\ \A i \in DOMAIN t : t[i] # Head(s)
<1> DEFINE t == Tail(s)
<1>1. /\ t \in Seq(S) /\ Len(t) = Len(s) - 1 /\ Len(s) \in Nat /\ Len(s) > 0
      /\ DOMAIN s = 1 .. Len(s) /\ DOMAIN t = 1 .. Len(s) - 1
      /\ \A i \in 1 .. Len(s) - 1 : t[i] = s[i + 1]
      /\ Head(s) = s[1] /\ Head(s) \in S
  OBVIOUS
<1> HIDE DEF t
<1>2. \A i \in DOMAIN s : i = 1 \/ (i - 1 \in DOMAIN t /\ t[i - 1] = s[i])
  BY <1>1
<1>3. \A i \in DOMAIN t : i + 1 \in DOMAIN s /\ s[i + 1] = t[i] /\ i + 1 # 1 /\ i \in Int
  BY <1>1
<1>4. 1 \in DOMAIN s /\ Head(s) = s[1]
  BY <1>1
<1>5. \A f : (\E i \in DOMAIN s : s[i] = f) <=> (\E i \in DOMAIN t : t[i] = f) \/ f = Head(s)
  BY <1>2, <1>3, <1>4
<1>6. ASSUME \A i, j \in DOMAIN s : s[i] = s[j] => i = j
      PROVE  /\ \A i, j \in DOMAIN t : t[i] = t[j] => i = j
             /\ \A i \in DOMAIN t : t[i] # Head(s)
  BY <1>6, <1>3, <1>4
<1> QED
  BY <1>1, <1>5, <1>6, Zenon DEF t
-----------------------------------------------------------------------------
\* How the program counters, the mutex, the flag and the vector of threads go
\* together.
Control ==
    /\ \A t \in Thread : pc[t] # "none" <=> t \in threads
    /\ \A t \in Thread : pc[t] = "check" <=> mu = t
    /\ own \in {"qpush", "dset"} <=> mu = Owner
    /\ \A t \in Thread : job[t] # Null <=> pc[t] = "run"
    /\ arg # Null <=> own \in {"qlock", "qpush"}
    /\ own \notin {"idle", "init"} => threads # {}
    /\ own = "init" => ~stopping /\ alive /\ threads # Thread
    /\ own = "join" => stopping
    /\ threads # {} => alive /\ (stopping => own = "join")
    /\ \A t \in Thread : pc[t] = "exit" => stopping /\ queue = <<>>
    /\ threads = {} => queue = <<>>

\* The inductive invariant.
IInv == TypeOK /\ Control /\ WorkConserved /\ NoLostWakeup /\ NoSleeperWhenStopping

-----------------------------------------------------------------------------
\* Init establishes it.
LEMMA IInvInit == Init => IInv
<1> SUFFICES ASSUME Init PROVE IInv
  BY Zenon
<1>1. TypeOK
  <2>1. /\ threads \subseteq Thread /\ queue \in Seq(Work) /\ mu \in Thread \cup {Owner, Null}
        /\ arg \in Work \cup {Null} /\ sub \subseteq Work /\ spurious \in Nat
    BY DEF Init
  <2>2. /\ job \in [Thread -> Work \cup {Null}] /\ ran \in [Work -> Nat]
        /\ pc \in [Thread -> {"none", "lock", "check", "wait", "run", "exit"}]
    BY Zenon DEF Init
  <2>3. stopping \in BOOLEAN /\ alive \in BOOLEAN
    BY Zenon DEF Init
  <2> QED
    BY <2>1, <2>2, <2>3, Zenon DEF Init, TypeOK
<1>2. Control
  BY PoolAssumption, Zenon DEF Init, Control
<1>3. \A w \in Work : ~InQueue(w) /\ ~InJob(w) /\ w # arg
  BY PoolAssumption DEF Init, InQueue, InJob
<1>4. WorkConserved
  BY <1>3 DEF Init, WorkConserved
<1>5. NoLostWakeup /\ NoSleeperWhenStopping
  BY Zenon DEF Init, NoLostWakeup, NoSleeperWhenStopping
<1> QED
  BY <1>1, <1>2, <1>4, <1>5, Zenon DEF IInv

\* Types are preserved.
LEMMA TypeStep == TypeOK /\ Control /\ [Next]_vars => TypeOK'
<1> SUFFICES ASSUME TypeOK, Control, [Next]_vars PROVE TypeOK'
  BY Zenon
<1> USE DEF TypeOK
<1>1. CASE thread_pool_init
  BY <1>1, Zenon DEF thread_pool_init
<1>2. CASE CreateFails
  BY <1>2, Zenon DEF CreateFails
<1>3. CASE thread_pool_destroy
  BY <1>3, Zenon DEF thread_pool_destroy
<1>4. CASE OwnerLock
  BY <1>4, Zenon DEF OwnerLock
<1>5. CASE Push
  <2>1. arg \in Work
    BY <1>5, PoolAssumption, Zenon DEF Push, Control
  <2>2. queue' \in Seq(Work)
    BY <1>5, <2>1, AppendProperties, Zenon DEF Push
  <2> QED
    BY <1>5, <2>2, Zenon DEF Push, Waiting
<1>6. CASE SetStopping
  BY <1>6, Zenon DEF SetStopping
<1>7. CASE Join
  BY <1>7, Zenon DEF Join
<1>8. ASSUME NEW w \in Work, thread_pool_queue(w) PROVE TypeOK'
  BY <1>8 DEF thread_pool_queue
<1>9. ASSUME NEW t \in Thread, pthread_create(t) PROVE TypeOK'
  BY <1>9, Zenon DEF pthread_create
<1>10. ASSUME NEW t \in Thread, Lock(t) \/ Sleep(t) \/ Exit(t) \/ Spurious(t) PROVE TypeOK'
  BY <1>10 DEF Lock, Sleep, Exit, Spurious
<1>11. ASSUME NEW t \in Thread, Pop(t) PROVE TypeOK'
  <2>1. Head(queue) \in Work /\ Tail(queue) \in Seq(Work)
    BY <1>11, HeadTailProperties, Zenon DEF Pop
  <2> QED
    BY <1>11, <2>1, Zenon DEF Pop
<1>12. ASSUME NEW t \in Thread, Run(t) PROVE TypeOK'
  <2>1. job[t] \in Work
    BY <1>12, PoolAssumption, Zenon DEF Run, Control
  <2> QED
    BY <1>12, <2>1 DEF Run
<1>13. CASE UNCHANGED vars
  BY <1>13, Zenon DEF vars
<1> QED
  BY <1>1, <1>2, <1>3, <1>4, <1>5, <1>6, <1>7, <1>8, <1>9, <1>10, <1>11, <1>12, <1>13
  DEF Next, worker, owner_step

\* The control invariant is preserved.
LEMMA ControlStep == IInv /\ [Next]_vars => Control'
<1> SUFFICES ASSUME IInv, [Next]_vars PROVE Control'
  BY Zenon
<1>0. TypeOK /\ Control /\ NoLostWakeup
  BY Zenon DEF IInv
<1> USE <1>0, PoolAssumption DEF TypeOK, Control
<1>1. CASE thread_pool_init
  BY <1>1, Zenon DEF thread_pool_init
<1>2. CASE CreateFails
  BY <1>2, Zenon DEF CreateFails
<1>3. CASE thread_pool_destroy
  BY <1>3, Zenon DEF thread_pool_destroy
<1>4. CASE OwnerLock
  BY <1>4, ZenonT(60) DEF OwnerLock
<1>5. CASE Push
  BY <1>5 DEF Push, Waiting
<1>6. CASE SetStopping
  BY <1>6 DEF SetStopping, Waiting
<1>7. CASE Join
  BY <1>7 DEF Join
<1>8. ASSUME NEW w \in Work, thread_pool_queue(w) PROVE Control'
  BY <1>8, ZenonT(60) DEF thread_pool_queue
<1>9. ASSUME NEW t \in Thread, pthread_create(t) PROVE Control'
  BY <1>9 DEF pthread_create
<1>10. ASSUME NEW t \in Thread, Lock(t) PROVE Control'
  BY <1>10 DEF Lock
<1>11. ASSUME NEW t \in Thread, Sleep(t) PROVE Control'
  BY <1>11 DEF Sleep
<1>12. ASSUME NEW t \in Thread, Exit(t) PROVE Control'
  BY <1>12, ZenonT(60) DEF Exit
<1>13. ASSUME NEW t \in Thread, Spurious(t) PROVE Control'
  BY <1>13 DEF Spurious
<1>14. ASSUME NEW t \in Thread, Pop(t) PROVE Control'
  BY <1>14 DEF Pop
<1>15. ASSUME NEW t \in Thread, Run(t) PROVE Control'
  BY <1>15 DEF Run
<1>16. CASE UNCHANGED vars
  BY <1>16, Zenon DEF vars
<1> QED
  BY <1>1, <1>2, <1>3, <1>4, <1>5, <1>6, <1>7, <1>8, <1>9, <1>10, <1>11, <1>12, <1>13,
     <1>14, <1>15, <1>16
  DEF Next, worker, owner_step

\* Nothing submitted is lost, duplicated or run twice.
LEMMA WorkStep == IInv /\ [Next]_vars => WorkConserved'
<1> SUFFICES ASSUME IInv, [Next]_vars PROVE WorkConserved'
  BY Zenon
<1>0. TypeOK /\ Control /\ WorkConserved
  BY Zenon DEF IInv
<1>1. CASE UNCHANGED <<queue, job, arg, sub, ran>>
  BY <1>0, <1>1, Zenon DEF WorkConserved, InQueue, InJob
<1>2. CASE Push
  <2>1. arg \in Work /\ queue \in Seq(Work)
    BY <1>0, <1>2, PoolAssumption, Zenon DEF Push, Control, TypeOK
  <2> DEFINE q == Append(queue, arg)
  <2>2. /\ \A f : (\E i \in DOMAIN q : q[i] = f) <=> (\E i \in DOMAIN queue : queue[i] = f) \/ f = arg
        /\ (\A i, j \in DOMAIN queue : queue[i] = queue[j] => i = j)
           /\ (\A i \in DOMAIN queue : queue[i] # arg)
           => \A i, j \in DOMAIN q : q[i] = q[j] => i = j
    BY <2>1, PushElements
  <2>3. queue' = q /\ arg' = Null /\ UNCHANGED <<job, sub, ran>>
    BY <1>2, Zenon DEF Push
  <2> HIDE DEF q
  <2>4. \A w \in Work : /\ InQueue(w)' <=> InQueue(w) \/ w = arg
                        /\ InJob(w)' <=> InJob(w)
    BY <2>2, <2>3, Zenon DEF InQueue, InJob
  <2>5. \A i \in DOMAIN queue : queue[i] # arg
    BY <1>0, <2>1, Zenon DEF WorkConserved, InQueue
  <2>6. \A i, j \in DOMAIN queue' : queue'[i] = queue'[j] => i = j
    BY <1>0, <2>2, <2>3, <2>5, Zenon DEF WorkConserved
  <2>7. \A w \in Work : w # Null
    BY PoolAssumption, Zenon
  <2> QED
    BY <1>0, <2>1, <2>3, <2>4, <2>6, <2>7, Zenon DEF WorkConserved
<1>3. ASSUME NEW w \in Work, thread_pool_queue(w) PROVE WorkConserved'
  <2>0. /\ w \notin sub /\ sub' = sub \cup {w} /\ own = "idle" /\ UNCHANGED <<queue, job>>
        /\ ~InQueue(w) /\ ~InJob(w) /\ ran[w] = 0 /\ arg = Null /\ w # Null
    BY <1>0, <1>3, PoolAssumption, Zenon DEF thread_pool_queue, WorkConserved, Control
  <2>1. \A x \in Work : (InQueue(x)' <=> InQueue(x)) /\ (InJob(x)' <=> InJob(x)) /\ x # Null
    BY <2>0, PoolAssumption, Zenon DEF InQueue, InJob
  <2>2. CASE threads = {}
    <3>1. ran' = [ran EXCEPT ![w] = @ + 1] /\ arg' = arg
      BY <1>3, <2>2, Zenon DEF thread_pool_queue
    <3>2. ran'[w] = 1 /\ \A x \in Work : x # w => ran'[x] = ran[x]
      BY <1>0, <2>0, <3>1 DEF TypeOK
    <3> QED
      BY <1>0, <2>0, <2>1, <3>1, <3>2, ZenonT(60) DEF WorkConserved
  <2>3. CASE threads # {}
    <3>1. ran' = ran /\ arg' = w
      BY <1>3, <2>3, Zenon DEF thread_pool_queue
    <3> QED
      BY <1>0, <2>0, <2>1, <3>1, ZenonT(60) DEF WorkConserved
  <2> QED
    BY <2>2, <2>3, Zenon
<1>4. ASSUME NEW t \in Thread, Pop(t) PROVE WorkConserved'
  <2>1. queue \in Seq(Work) /\ queue # <<>> /\ job[t] = Null
    BY <1>0, <1>4, Zenon DEF Pop, Control, TypeOK
  <2> DEFINE q == Tail(queue)  h == Head(queue)
  <2>2. /\ h \in Work
        /\ \A f : (\E i \in DOMAIN queue : queue[i] = f) <=> (\E i \in DOMAIN q : q[i] = f) \/ f = h
        /\ (\A i, j \in DOMAIN queue : queue[i] = queue[j] => i = j)
           => /\ \A i, j \in DOMAIN q : q[i] = q[j] => i = j
              /\ \A i \in DOMAIN q : q[i] # h
    BY <2>1, PopElements, ZenonT(60)
  <2>3. queue' = q /\ job' = [job EXCEPT ![t] = h] /\ UNCHANGED <<arg, sub, ran>>
    BY <1>4, Zenon DEF Pop
  <2> HIDE DEF q, h
  <2>4. job'[t] = h /\ \A s \in Thread : s # t => job'[s] = job[s]
    BY <1>0, <2>3, Zenon DEF TypeOK
  <2>5. \A w \in Work : w # Null
    BY PoolAssumption, Zenon
  <2>6. \A w \in Work : /\ InQueue(w)' <=> InQueue(w) /\ w # h
                        /\ InJob(w)' <=> InJob(w) \/ w = h
    <3>1. \A w \in Work : InQueue(w)' <=> InQueue(w) /\ w # h
      BY <1>0, <2>2, <2>3, Zenon DEF InQueue, WorkConserved
    <3>2. \A w \in Work : InJob(w)' <=> InJob(w) \/ w = h
      BY <2>1, <2>4, <2>5, Zenon DEF InJob
    <3> QED
      BY <3>1, <3>2, Zenon
  <2>7. InQueue(h) /\ ~InJob(h)
    BY <1>0, <2>2, Zenon DEF InQueue, WorkConserved
  <2>8. \A i, j \in DOMAIN queue' : queue'[i] = queue'[j] => i = j
    BY <1>0, <2>2, <2>3, Zenon DEF WorkConserved
  <2>9. \A r, s \in Thread : job'[r] = job'[s] /\ job'[r] # Null => r = s
    BY <1>0, <2>4, <2>7 DEF WorkConserved, InJob
  <2> QED
    BY <1>0, <2>2, <2>3, <2>6, <2>7, <2>8, <2>9, ZenonT(60) DEF WorkConserved
<1>5. ASSUME NEW t \in Thread, Run(t) PROVE WorkConserved'
  <2> DEFINE h == job[t]
  <2>1. h \in Work /\ h # Null /\ InJob(h)
    BY <1>0, <1>5, PoolAssumption, Zenon DEF Run, Control, TypeOK, InJob
  <2>2. /\ ran' = [ran EXCEPT ![h] = @ + 1] /\ job' = [job EXCEPT ![t] = Null]
        /\ UNCHANGED <<queue, arg, sub>>
    BY <1>5, Zenon DEF Run
  <2>3. /\ job'[t] = Null /\ \A s \in Thread : s # t => job'[s] = job[s] /\ job[s] # h
        /\ ran'[h] = 1 /\ \A w \in Work : w # h => ran'[w] = ran[w]
    BY <1>0, <2>1, <2>2 DEF TypeOK, WorkConserved
  <2>4. \A w \in Work : /\ InQueue(w)' <=> InQueue(w)
                        /\ InJob(w)' <=> InJob(w) /\ w # h
    BY <2>2, <2>3, PoolAssumption DEF InQueue, InJob
  <2> HIDE DEF h
  <2> QED
    BY <1>0, <2>1, <2>2, <2>3, <2>4 DEF WorkConserved
<1> QED
  BY <1>1, <1>2, <1>3, <1>4, <1>5
  DEF Next, worker, owner_step, vars, thread_pool_init, CreateFails, thread_pool_destroy, OwnerLock,
      SetStopping, Join, pthread_create, Lock, Sleep, Exit, Spurious

\* No wakeup is lost, and nobody sleeps once stopping is set.
LEMMA WakeupStep == IInv /\ [Next]_vars => NoLostWakeup' /\ NoSleeperWhenStopping'
<1> SUFFICES ASSUME IInv, [Next]_vars PROVE NoLostWakeup' /\ NoSleeperWhenStopping'
  BY Zenon
<1>0. TypeOK /\ Control /\ NoLostWakeup /\ NoSleeperWhenStopping
  BY Zenon DEF IInv
<1> USE <1>0 DEF TypeOK, Control, NoLostWakeup, NoSleeperWhenStopping, Waiting
<1>1. CASE thread_pool_init \/ CreateFails \/ thread_pool_destroy \/ OwnerLock
  BY <1>1, Zenon DEF thread_pool_init, CreateFails, thread_pool_destroy, OwnerLock
<1>2. CASE Push
  <2>1. PICK t \in threads : TRUE
    BY <1>2, Zenon DEF Push
  <2>2. ~stopping
    BY <1>2, Zenon DEF Push
  <2>3. \A s \in threads : pc[s] \in {"lock", "check", "run", "wait"}
    BY <2>2, Zenon
  <2>4. CASE Waiting = {} /\ UNCHANGED pc
    BY <1>2, <2>1, <2>3, <2>4, ZenonT(60) DEF Push
  <2>5. CASE \E s \in Waiting : pc' = [pc EXCEPT ![s] = "lock"]
    BY <1>2, <2>5, Zenon DEF Push
  <2> QED
    BY <1>2, <2>4, <2>5, Zenon DEF Push
<1>3. CASE SetStopping
  BY <1>3, Zenon DEF SetStopping
<1>4. CASE Join
  BY <1>4, Zenon DEF Join
<1>5. ASSUME NEW w \in Work, thread_pool_queue(w) PROVE NoLostWakeup' /\ NoSleeperWhenStopping'
  BY <1>5, Zenon DEF thread_pool_queue
<1>6. ASSUME NEW t \in Thread, pthread_create(t) PROVE NoLostWakeup' /\ NoSleeperWhenStopping'
  BY <1>6, Zenon DEF pthread_create
<1>7. ASSUME NEW t \in Thread, Lock(t) \/ Spurious(t) PROVE NoLostWakeup' /\ NoSleeperWhenStopping'
  BY <1>7, ZenonT(60) DEF Lock, Spurious
<1>8. ASSUME NEW t \in Thread, Sleep(t) \/ Exit(t) PROVE NoLostWakeup' /\ NoSleeperWhenStopping'
  BY <1>8, ZenonT(60) DEF Sleep, Exit
<1>9. ASSUME NEW t \in Thread, Pop(t) \/ Run(t) PROVE NoLostWakeup' /\ NoSleeperWhenStopping'
  <2>1. t \in threads' /\ pc'[t] \in {"run", "lock"}
    BY <1>9, ZenonT(60) DEF Pop, Run
  <2>2. NoSleeperWhenStopping'
    BY <1>9, Zenon DEF Pop, Run
  <2> QED
    BY <2>1, <2>2, Zenon
<1>10. CASE UNCHANGED vars
  BY <1>10, Zenon DEF vars
<1> QED
  BY <1>1, <1>2, <1>3, <1>4, <1>5, <1>6, <1>7, <1>8, <1>9, <1>10
  DEF Next, worker, owner_step

\* The invariant holds of every behaviour of the pool.
THEOREM Invariance == Spec => []IInv
<1>1. IInv /\ [Next]_vars => IInv'
  BY TypeStep, ControlStep, WorkStep, WakeupStep, Zenon DEF IInv
<1> QED
  BY <1>1, IInvInit, PTL DEF Spec

\* Every variable of the pool keeps its type.
THEOREM TypeCorrect == Spec => []TypeOK
<1>1. IInv => TypeOK
  BY Zenon DEF IInv
<1> QED
  BY <1>1, Invariance, PTL

\* Every work submitted is held once, or ran once, and never twice.
THEOREM WorkIsConserved == Spec => []WorkConserved
<1>1. IInv => WorkConserved
  BY Zenon DEF IInv
<1> QED
  BY <1>1, Invariance, PTL

\* While there is work in the queue, some thread is awake.
THEOREM WakeupsNotLost == Spec => []NoLostWakeup
<1>1. IInv => NoLostWakeup
  BY Zenon DEF IInv
<1> QED
  BY <1>1, Invariance, PTL

\* No thread sleeps while thread_pool_destroy joins.
THEOREM NobodySleeps == Spec => []NoSleeperWhenStopping
<1>1. IInv => NoSleeperWhenStopping
  BY Zenon DEF IInv
<1> QED
  BY <1>1, Invariance, PTL

\* The mutex and the condition variable exist while anyone may use them.
THEOREM ObjectsAlive == Spec => []SyncObjectsAlive
<1>1. IInv => SyncObjectsAlive
  BY PoolAssumption, Zenon DEF IInv, TypeOK, Control, SyncObjectsAlive
<1> QED
  BY <1>1, Invariance, PTL

\* thread_pool_destroy returns with everything submitted run.
THEOREM Drained == Spec => []DrainedWhenClosed
<1>1. IInv => DrainedWhenClosed
  <2> SUFFICES ASSUME IInv, threads = {}
               PROVE  queue = <<>> /\ \A w \in sub : ran[w] = 1
    BY Zenon DEF DrainedWhenClosed
  <2>1. queue = <<>> /\ arg = Null /\ \A t \in Thread : job[t] = Null
    BY Zenon DEF IInv, Control
  <2>2. \A w \in sub : w \in Work /\ w # arg /\ ~InQueue(w) /\ ~InJob(w)
    BY <2>1, PoolAssumption DEF IInv, TypeOK, InQueue, InJob
  <2> QED
    BY <2>1, <2>2, Zenon DEF IInv, WorkConserved
<1> QED
  BY <1>1, Invariance, PTL

\* Every step of the pool is a step of the abstract WorkPool or leaves it alone.
LEMMA PoolStep == IInv /\ [Next]_vars => [Abs!Next]_Abs!vars
<1> SUFFICES ASSUME IInv, [Next]_vars PROVE [Abs!Next]_Abs!vars
  BY Zenon
<1>0. TypeOK /\ Control
  BY Zenon DEF IInv
<1> USE DEF Abs!Next, Abs!vars
<1>1. CASE UNCHANGED <<queue, job, ran>> /\ (threads # {} <=> threads' # {})
  BY <1>1, Zenon
<1>2. CASE thread_pool_init \/ CreateFails \/ thread_pool_destroy \/ OwnerLock \/ SetStopping
  BY <1>1, <1>2, Zenon DEF thread_pool_init, CreateFails, thread_pool_destroy, OwnerLock, SetStopping
<1>3. ASSUME NEW t \in Thread, Lock(t) \/ Sleep(t) \/ Exit(t) \/ Spurious(t)
      PROVE  [Abs!Next]_Abs!vars
  BY <1>1, <1>3, Zenon DEF Lock, Sleep, Exit, Spurious
<1>4. CASE Push
  <2>1. arg \in Work /\ threads # {}
    BY <1>0, <1>4, PoolAssumption, Zenon DEF Push, Control, TypeOK
  <2>2. Abs!Submit(arg)
    BY <1>4, <2>1, Zenon DEF Push, Abs!Submit
  <2> QED
    BY <2>1, <2>2, Zenon
<1>5. CASE Join
  <2>1. queue = <<>> /\ threads # {} /\ \A t \in Thread : job[t] = Null
    BY <1>0, <1>5, ZenonT(60) DEF Join, Control, TypeOK
  <2>2. Abs!Close
    BY <1>5, <2>1, Zenon DEF Join, Abs!Close
  <2> QED
    BY <2>2, Zenon
<1>6. ASSUME NEW w \in Work, thread_pool_queue(w) PROVE [Abs!Next]_Abs!vars
  <2>1. CASE threads = {}
    <3>1. Abs!Submit(w)
      BY <1>6, <2>1, Zenon DEF thread_pool_queue, Abs!Submit
    <3> QED
      BY <3>1, Zenon
  <2>2. CASE threads # {}
    BY <1>1, <1>6, <2>2, Zenon DEF thread_pool_queue
  <2> QED
    BY <2>1, <2>2, Zenon
<1>7. ASSUME NEW t \in Thread, pthread_create(t) PROVE [Abs!Next]_Abs!vars
  <2>1. CASE threads = {}
    <3>1. Abs!Open
      BY <1>7, <2>1, Zenon DEF pthread_create, Abs!Open
    <3> QED
      BY <3>1, Zenon
  <2>2. CASE threads # {}
    BY <1>1, <1>7, <2>2, Zenon DEF pthread_create
  <2> QED
    BY <2>1, <2>2, Zenon
<1>8. ASSUME NEW t \in Thread, Pop(t) PROVE [Abs!Next]_Abs!vars
  <2>1. Abs!Take(t)
    BY <1>0, <1>8, Zenon DEF Pop, Control, Abs!Take
  <2> QED
    BY <2>1, Zenon
<1>9. ASSUME NEW t \in Thread, Run(t) PROVE [Abs!Next]_Abs!vars
  <2>1. Abs!Finish(t)
    BY <1>0, <1>9, Zenon DEF Run, Control, Abs!Finish
  <2> QED
    BY <2>1, Zenon
<1>10. CASE UNCHANGED vars
  BY <1>1, <1>10, Zenon DEF vars
<1> QED
  BY <1>2, <1>3, <1>4, <1>5, <1>6, <1>7, <1>8, <1>9, <1>10, Zenon DEF Next, worker, owner_step

\* The pool with its mutex and condition variable implements WorkPool: works
\* start in order, run once, and destroy returns only when none is left.
THEOREM Implementation == Spec => ImplementsWorkPool
<1>1. Init => Abs!Init
  BY Zenon DEF Init, Abs!Init
<1> QED
  BY <1>1, PoolStep, Invariance, PTL DEF Spec, ImplementsWorkPool, Abs!Spec
=============================================================================
