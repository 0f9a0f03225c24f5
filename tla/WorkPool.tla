------------------------------ MODULE WorkPool ------------------------------
(***************************************************************************)
(* What the thread pool promises its owner, with no mutex and no condition *)
(* variable: work is started in the order of submission, each item by one  *)
(* thread and once, and a shutdown returns only when nothing is queued or  *)
(* running.  KVStore's actions Take, entry_del_func and Destroy rely on    *)
(* exactly this; ThreadPool is shown to implement it.                      *)
(***************************************************************************)
EXTENDS Naturals, Sequences

CONSTANTS Thread, Work, Null

VARIABLES open, queue, job, ran
vars == <<open, queue, job, ran>>

Init ==
    /\ open = FALSE
    /\ queue = <<>>
    /\ job = [t \in Thread |-> Null]
    /\ ran = [w \in Work |-> 0]

Open == ~open /\ open' = TRUE /\ UNCHANGED <<queue, job, ran>>

Submit(w) ==
    \/ open /\ queue' = Append(queue, w) /\ UNCHANGED <<open, job, ran>>
    \/ ~open /\ ran' = [ran EXCEPT ![w] = @ + 1] /\ UNCHANGED <<open, queue, job>>

Take(t) ==
    /\ job[t] = Null /\ queue # <<>>
    /\ job' = [job EXCEPT ![t] = Head(queue)]
    /\ queue' = Tail(queue)
    /\ UNCHANGED <<open, ran>>

Finish(t) ==
    /\ job[t] # Null
    /\ ran' = [ran EXCEPT ![job[t]] = @ + 1]
    /\ job' = [job EXCEPT ![t] = Null]
    /\ UNCHANGED <<open, queue>>

Close ==
    /\ open /\ queue = <<>> /\ \A t \in Thread : job[t] = Null
    /\ open' = FALSE
    /\ UNCHANGED <<queue, job, ran>>

Next ==
    \/ Open \/ Close
    \/ \E w \in Work : Submit(w)
    \/ \E t \in Thread : Take(t) \/ Finish(t)

Spec == Init /\ [][Next]_vars
=============================================================================
