--------------------------- MODULE ClusterProofs ---------------------------
(***************************************************************************)
(* Theorems about Cluster, for every number of shards, every set of keys   *)
(* and every hash function.                                                *)
(***************************************************************************)
EXTENDS Cluster, FiniteSetTheorems, TLAPS

Request == [id : Nat, cmd : Keyed \cup {"keys"}, key : Key \cup {Null}]

Types ==
    /\ route \in [Shard -> Shard]
    /\ data \in [Shard -> [Key -> Nat \cup {Null}]]
    /\ pc \in {"idle", "call", "wait"}
    /\ pos \in Shard
    /\ out.id \in Nat
    /\ net \subseteq [op : Request, to : Shard]
    /\ \A c \in net : c.op.cmd \in Keyed => c.op.key \in Key

\* Where on_request of the proxy is determines what it holds.
Serving ==
    /\ pc = "idle" => op = Idle
    /\ pc # "idle" => /\ op \in Request /\ op.id = out.id + 1
                      /\ op.cmd \in Keyed => op.key \in Key
    /\ pc # "wait" => answer = NoAns

\* The calls in the sockets are those given up on, and perhaps the current
\* one, which has no answer yet; no keyed request is there twice.
Calls ==
    /\ \A c \in net : c.op.id <= out.id \/ (pc # "idle" /\ c.op = op)
    /\ \A c \in net : c.op = op /\ op.cmd \in Keyed
                         => pc = "wait" /\ answer = NoAns /\ c.to = route[pos]
    /\ \A c, d \in net : c.op = d.op /\ c.op.cmd \in Keyed => c = d

IInv == Types /\ Serving /\ Calls /\ KeyPlacement

AbsStep == [Abs!Next]_Abs!vars
-----------------------------------------------------------------------------
\* Every key has an owner among the shards.
LEMMA OwnerIsShard == ASSUME NEW k \in Key PROVE shard_for_key(k) \in Shard
<1>1. Hash[k] \in Nat /\ N \in Nat /\ N > 0
  BY NAssumption, KeyAssumption
<1>2. Hash[k] % N \in 0 .. N - 1
  BY <1>1
<1> QED
  BY <1>2, Zenon DEF shard_for_key, Shard

\* A shard that serves a keyed request owns its key, even when it is alone.
LEMMA ServedByOwner ==
    ASSUME NEW s \in Shard, NEW o, o.cmd \in Keyed, o.key \in Key, ~Misplaced(s, o)
    PROVE  s = shard_for_key(o.key)
<1>1. CASE N > 1
  BY <1>1, Zenon DEF Misplaced
<1>2. CASE N = 1
  BY <1>2, OwnerIsShard DEF Shard
<1> QED
  BY <1>1, <1>2, NAssumption

\* The first state satisfies the invariant and maps to the contract's first.
LEMMA InitHolds == Init => IInv /\ Abs!Init
<1> SUFFICES ASSUME Init PROVE IInv /\ Abs!Init
  BY Zenon
<1>1. Types
  BY NAssumption DEF Init, Types, Shard
<1>2. Serving /\ Calls /\ KeyPlacement
  BY Zenon DEF Init, Serving, Calls, KeyPlacement
<1>3. AbsData = [k \in Key |-> Null]
  BY OwnerIsShard, Zenon DEF Init, AbsData
<1>4. Eff = NoAns /\ Lost = {}
  BY Zenon DEF Init, Eff, Lost, Idle, Keyed
<1> QED
  BY <1>1, <1>2, <1>3, <1>4, Zenon DEF Init, IInv, Abs!Init, Idle, NoAns, Abs!Idle, Abs!NoAns

\* Nothing that the contract sees changes when these stay.
LEMMA Unseen ==
    ASSUME data' = data, op' = op, Eff' = Eff, Lost' = Lost, out' = out, crashes' = crashes
    PROVE  AbsStep
BY Zenon DEF AbsStep, Abs!vars, AbsData
-----------------------------------------------------------------------------
(***************************************************************************)
(* The proxy's steps.                                                      *)
(***************************************************************************)

\* An answer ends the service and keeps the invariant.
LEMMA AnswerKeeps ==
    ASSUME IInv, NEW o, NEW e, NEW v, o.id = out.id + 1, Answer(o, e, v),
           route' = route, data' = data, net' = net
    PROVE  /\ IInv' /\ Eff' = NoAns /\ AbsData' = AbsData
           /\ Lost' = {p \in {c.op : c \in net} : p.cmd \in Keyed}
<1>0. Types /\ Serving /\ Calls /\ KeyPlacement
  BY Zenon DEF IInv
<1>1. out'.id = out.id + 1 /\ op' = Idle /\ pc' = "idle" /\ pos' = 0 /\ answer' = NoAns
  BY Zenon DEF Answer
<1>2. Types'
  BY <1>0, <1>1, NAssumption DEF Types, Shard
<1>3. Serving'
  BY <1>1, Zenon DEF Serving
<1>4. Calls'
  <2>1. ASSUME NEW c \in net PROVE c.op.id <= out'.id
    BY <1>0, <1>1, <2>1 DEF Types, Serving, Calls, Request
  <2>2. op'.cmd \notin Keyed
    BY <1>1, Zenon DEF Idle, Keyed
  <2> QED
    BY <1>0, <2>1, <2>2, Zenon DEF Calls
<1>5. KeyPlacement'
  BY <1>0, Zenon DEF KeyPlacement
<1>6. Eff' = NoAns /\ AbsData' = AbsData
  BY <1>1, Zenon DEF Eff, AbsData
<1>7. Lost' = {p \in {c.op : c \in net} : p.cmd \in Keyed}
  BY <1>1 DEF Lost, Idle, Keyed
<1> QED
  BY <1>2, <1>3, <1>4, <1>5, <1>6, <1>7, Zenon DEF IInv

\* ping, and what cannot be routed, never reach a shard; the rest begins.
LEMMA RequestStep ==
    ASSUME IInv, NEW c \in Cmd, NEW k \in Key, on_request(c, k)
    PROVE  IInv' /\ AbsStep
<1> DEFINE o == [id |-> out.id + 1, cmd |-> c, key |-> IF c \in Keyed THEN k ELSE Null]
<1>0. Types /\ Serving /\ Calls /\ KeyPlacement /\ op = Idle /\ answer = NoAns
  BY Zenon DEF IInv, on_request, Serving
<1>1. pc = "idle" /\ route' = route /\ data' = data /\ net' = net /\ crashes' = crashes
  BY Zenon DEF on_request
<1>2. Lost = {p \in {d.op : d \in net} : p.cmd \in Keyed} /\ Eff = NoAns
  BY <1>0 DEF Lost, Eff, Idle, Keyed
<1>3. CASE \E e, v : Answer(o, e, v)
  <2>1. PICK e, v : Answer(o, e, v)
    BY <1>3, Zenon
  <2>2. IInv' /\ Eff' = NoAns /\ AbsData' = AbsData /\ Lost' = Lost
    BY <1>1, <1>2, <2>1, AnswerKeeps, Zenon
  <2>3. out'.id > out.id /\ op' = Idle
    BY <1>0, <2>1 DEF Answer, Types
  <2>4. Abs!Other
    BY <1>0, <1>1, <1>2, <2>2, <2>3, Zenon DEF Abs!Other, Idle, Keyed, Abs!Idle, Abs!Keyed
  <2> QED
    BY <2>2, <2>4, Zenon DEF AbsStep, Abs!Next
<1>4. CASE c \in Keyed \cup {"keys"} /\ op' = o /\ pc' = "call" /\ pos' = FirstPos(o)
           /\ UNCHANGED <<got, answer, out>>
  <2>1. o \in Request /\ (o.cmd \in Keyed => o.key \in Key) /\ o.id = out.id + 1
    BY <1>0, <1>4 DEF Types, Request
  <2>2. pos' \in Shard
    BY <1>4, <2>1, OwnerIsShard, NAssumption DEF FirstPos, Shard
  <2>3. ASSUME NEW d \in net PROVE d.op.id <= out.id /\ d.op # o
    BY <1>0, <1>1, <2>1, <2>3 DEF Types, Calls, Request
  <2>4. Types' /\ Serving' /\ KeyPlacement'
    BY <1>0, <1>1, <1>4, <2>1, <2>2, Zenon DEF Types, Serving, KeyPlacement
  <2>5. Calls'
    BY <1>0, <1>1, <1>4, <2>3, Zenon DEF Calls
  <2>6. Lost' = Lost /\ Eff' = Eff /\ AbsData' = AbsData
    BY <1>0, <1>1, <1>2, <1>4, <2>3, Zenon DEF Lost, Eff, AbsData
  <2>7. Abs!Begin
    BY <1>0, <1>1, <1>4, <2>1, <2>6 DEF Abs!Begin, Idle, Abs!Idle, Request, Types
  <2> QED
    BY <2>4, <2>5, <2>7, Zenon DEF IInv, AbsStep, Abs!Next
<1> QED
  BY <1>3, <1>4, Zenon DEF on_request

\* Sending a call is not seen by the client.
LEMMA SendStep == ASSUME IInv, Send PROVE IInv' /\ AbsStep
<1> DEFINE new == [op |-> op, to |-> route[pos]]
<1>0. Types /\ Serving /\ Calls /\ KeyPlacement /\ answer = NoAns /\ op \in Request
  BY Zenon DEF IInv, Send, Serving
<1>1. /\ pc = "call" /\ pc' = "wait" /\ answer' = NoAns /\ net' = net \cup {new}
      /\ UNCHANGED <<route, data, op, pos, got, out, crashes>>
  BY Zenon DEF Send
<1>2. new \in [op : Request, to : Shard] /\ new.op = op /\ new.to = route[pos]
  BY <1>0, Zenon DEF Types
<1>3. Types' /\ Serving' /\ KeyPlacement'
  BY <1>0, <1>1, <1>2, Zenon DEF Types, Serving, KeyPlacement
<1>4. Calls'
  <2>1. ASSUME NEW c \in net, op.cmd \in Keyed PROVE c.op # op
    BY <1>0, <1>1, <2>1, Zenon DEF Calls
  <2> QED
    BY <1>0, <1>1, <1>2, <2>1, Zenon DEF Calls
<1>5. Lost' = Lost /\ Eff' = Eff
  BY <1>0, <1>1 DEF Lost, Eff
<1> QED
  BY <1>1, <1>3, <1>4, <1>5, Unseen, Zenon DEF IInv

\* A failed call is reported: it took effect, or never will, or still may.
LEMMA FailStep == ASSUME IInv, tcp_rpc_fails PROVE IInv' /\ AbsStep
<1>0. Types /\ Serving /\ Calls /\ op \in Request /\ op.id = out.id + 1
  BY Zenon DEF IInv, tcp_rpc_fails, Serving
<1>1. Answer(op, "shard unreachable", Null) /\ UNCHANGED <<route, up, data, net, crashes>>
  BY Zenon DEF tcp_rpc_fails
<1>2. /\ IInv' /\ Eff' = NoAns /\ AbsData' = AbsData
      /\ Lost' = {p \in {c.op : c \in net} : p.cmd \in Keyed}
  BY <1>0, <1>1, AnswerKeeps, Zenon
<1>3. Lost' = Lost \/ (op.cmd \in Keyed /\ Eff = NoAns /\ Lost' = Lost \cup {op})
  <2>1. CASE \E c \in net : c.op = op /\ op.cmd \in Keyed
    BY <1>0, <1>2, <2>1 DEF Lost, Eff, Calls
  <2>2. CASE ~ \E c \in net : c.op = op /\ op.cmd \in Keyed
    BY <1>2, <2>2, Zenon DEF Lost
  <2> QED
    BY <2>1, <2>2, Zenon
<1>4. out'.id = op.id /\ out'.err # "none" /\ op' = Idle
  BY <1>1, Zenon DEF Answer
<1>5. op # Idle
  BY <1>0 DEF Idle, Request, Keyed
<1>6. Abs!Fail
  BY <1>1, <1>2, <1>3, <1>4, <1>5, Zenon DEF Abs!Fail, Idle, NoAns, Keyed, Abs!Idle, Abs!NoAns, Abs!Keyed
<1> QED
  BY <1>2, <1>6, Zenon DEF AbsStep, Abs!Next

\* A response is passed on, kept for the merge, or merged.
LEMMA ReceiveStep == ASSUME IInv, Receive PROVE IInv' /\ AbsStep
<1>0. Types /\ Serving /\ Calls /\ KeyPlacement /\ op \in Request /\ op.id = out.id + 1
  BY Zenon DEF IInv, Receive, Serving
<1>1. /\ pc = "wait" /\ answer # NoAns
      /\ UNCHANGED <<route, up, data, net, crashes>>
  BY Zenon DEF Receive
<1>2. op # Idle
  BY <1>0 DEF Idle, Request, Keyed
<1>3. Lost = {p \in {c.op : c \in net} : p.cmd \in Keyed}
  BY <1>0, <1>1, Zenon DEF Lost, Calls
<1>4. CASE op.cmd \in Keyed /\ Answer(op, answer.err, answer.val)
  <2>1. IInv' /\ Eff' = NoAns /\ AbsData' = AbsData /\ Lost' = Lost
    BY <1>0, <1>1, <1>3, <1>4, AnswerKeeps, Zenon
  <2>2. out' = [id |-> op.id, err |-> answer.err, val |-> answer.val] /\ op' = Idle
    BY <1>4, Zenon DEF Answer
  <2>3. CASE answer.err = "none"
    <3>1. Eff = answer
      BY <1>4, <2>3, Zenon DEF Eff
    <3>2. Abs!Ok
      BY <1>1, <1>4, <2>1, <2>2, <2>3, <3>1
         DEF Abs!Ok, Idle, NoAns, Keyed, Abs!Idle, Abs!NoAns, Abs!Keyed
    <3> QED
      BY <2>1, <3>2, Zenon DEF AbsStep, Abs!Next
  <2>4. CASE answer.err # "none"
    <3>1. Abs!Fail
      BY <1>1, <1>2, <2>1, <2>2, <2>4
         DEF Abs!Fail, Idle, NoAns, Keyed, Abs!Idle, Abs!NoAns, Abs!Keyed
    <3> QED
      BY <2>1, <3>1, Zenon DEF AbsStep, Abs!Next
  <2> QED
    BY <2>3, <2>4, Zenon
<1>5. CASE op.cmd = "keys" /\ \E e, v : Answer(op, e, v)
  <2>1. PICK e, v : Answer(op, e, v)
    BY <1>5, Zenon
  <2>2. IInv' /\ Eff' = NoAns /\ AbsData' = AbsData /\ Lost' = Lost
    BY <1>0, <1>1, <1>3, <2>1, AnswerKeeps, Zenon
  <2>3. out'.id > out.id /\ op' = Idle
    BY <1>0, <2>1 DEF Answer, Types
  <2>4. Eff = NoAns
    BY <1>5, Zenon DEF Eff, Keyed
  <2>5. Abs!Other
    BY <1>1, <1>5, <2>2, <2>3, <2>4, Zenon DEF Abs!Other, Idle, Keyed, Abs!Idle, Abs!Keyed
  <2> QED
    BY <2>2, <2>5, Zenon DEF AbsStep, Abs!Next
<1>6. CASE /\ op.cmd = "keys" /\ pos + 1 < N /\ pos' = pos + 1 /\ pc' = "call"
           /\ answer' = NoAns /\ UNCHANGED <<op, out>>
  <2>1. pos' \in Shard
    BY <1>0, <1>6, NAssumption DEF Types, Shard
  <2>2. Types' /\ Serving' /\ KeyPlacement'
    BY <1>0, <1>1, <1>6, <2>1, Zenon DEF Types, Serving, KeyPlacement
  <2>3. Calls'
    BY <1>0, <1>1, <1>6, Zenon DEF Calls, Keyed
  <2>4. Lost' = Lost /\ Eff' = Eff
    BY <1>1, <1>6, Zenon DEF Lost, Eff, Keyed
  <2> QED
    BY <1>1, <1>6, <2>2, <2>3, <2>4, Unseen, ZenonT(60) DEF IInv
<1>7. Receive => \/ op.cmd \in Keyed /\ Answer(op, answer.err, answer.val)
                 \/ op.cmd = "keys" /\ \E e, v : Answer(op, e, v)
                 \/ /\ op.cmd = "keys" /\ pos + 1 < N /\ pos' = pos + 1 /\ pc' = "call"
                    /\ answer' = NoAns /\ UNCHANGED <<op, out>>
  BY Zenon DEF Receive, merge_key_arrays
<1> QED
  BY <1>4, <1>5, <1>6, <1>7, Zenon
-----------------------------------------------------------------------------
(***************************************************************************)
(* The shards' steps.                                                      *)
(***************************************************************************)

\* A call leaves its socket; whoever waits for it may get an answer.
LEMMA CallGone ==
    ASSUME IInv, NEW c \in net, net' = net \ {c},
           answer' = answer \/ (pc = "wait" /\ op = c.op),
           UNCHANGED <<route, pc, op, pos, got, out>>
    PROVE  /\ Serving' /\ Calls'
           /\ Lost' = Lost \ {c.op} \/ (c.op.cmd \notin Keyed /\ Lost' = Lost)
<1>0. Types /\ Serving /\ Calls
  BY Zenon DEF IInv
<1>1. Serving'
  BY <1>0, Zenon DEF Serving
<1>2. Calls'
  <2>1. ASSUME NEW d \in net', d.op = op, op.cmd \in Keyed PROVE answer' = answer
    BY <1>0, <2>1, Zenon DEF Calls
  <2> QED
    BY <1>0, <2>1, Zenon DEF Calls
<1>3. CASE c.op.cmd \in Keyed
  <2>1. ASSUME NEW d \in net', d.op = c.op PROVE FALSE
    BY <1>0, <1>3, <2>1, Zenon DEF Calls
  <2> QED
    BY <1>1, <1>2, <2>1, Zenon DEF Lost
<1>4. CASE c.op.cmd \notin Keyed
  BY <1>1, <1>2, <1>4, Zenon DEF Lost
<1> QED
  BY <1>3, <1>4, Zenon

\* The idle timeout of a shard loses a call.
LEMMA ReapStep == ASSUME IInv, NEW c \in net, Reap(c) PROVE IInv' /\ AbsStep
<1>1. net' = net \ {c} /\ UNCHANGED <<route, up, data, pc, op, pos, got, answer, out, crashes>>
  BY Zenon DEF Reap
<1>2. Serving' /\ Calls' /\ Lost' \subseteq Lost
  BY <1>1, CallGone, Zenon
<1>3. Types' /\ KeyPlacement' /\ Eff' = Eff /\ AbsData' = AbsData
  BY <1>1, Zenon DEF IInv, Types, KeyPlacement, Eff, AbsData
<1>4. Abs!Forget
  BY <1>1, <1>2, <1>3, Zenon DEF Abs!Forget
<1> QED
  BY <1>2, <1>3, <1>4, Zenon DEF IInv, AbsStep, Abs!Next

\* What a shard writes for a keyed request of its own, in its own map.
LEMMA ServeWrites ==
    ASSUME IInv, NEW c \in net, Serve(c), c.op.cmd \in Keyed, ~Misplaced(c.to, c.op)
    PROVE  /\ Types' /\ KeyPlacement'
           /\ AbsData' = [AbsData EXCEPT ![c.op.key] = Abs!After(c.op, AbsData)]
<1> DEFINE s == c.to
           k == c.op.key
           w == CASE c.op.cmd = "set" -> c.op.id [] c.op.cmd = "del" -> Null [] OTHER -> data[s][k]
<1>0. /\ Types /\ KeyPlacement /\ s \in Shard /\ k \in Key /\ c.op \in Request
      /\ data \in [Shard -> [Key -> Nat \cup {Null}]]
  BY Zenon DEF IInv, Types
<1>1. s = shard_for_key(k)
  BY <1>0, ServedByOwner, Zenon
<1>2. /\ data' = [data EXCEPT ![s][k] = w] /\ net' = net \ {c}
      /\ UNCHANGED <<route, up, pc, op, pos, got, out, crashes>>
  BY Zenon DEF Serve
<1>3. w \in Nat \cup {Null}
  BY <1>0 DEF Request, Keyed
<1> HIDE DEF w
<1>4. data' \in [Shard -> [Key -> Nat \cup {Null}]] /\ data'[s][k] = w
  BY <1>0, <1>2, <1>3, Zenon
<1>5. \A r \in Shard, j \in Key : r # s \/ j # k => data'[r][j] = data[r][j]
  BY <1>0, <1>2, Zenon
<1>6. Types'
  BY <1>0, <1>2, <1>4, Zenon DEF Types
<1>7. KeyPlacement'
  BY <1>0, <1>1, <1>5 DEF KeyPlacement
<1>8. Abs!After(c.op, AbsData) = w
  BY <1>0, <1>1, Zenon DEF Abs!After, AbsData, w
<1>9. \A j \in Key : shard_for_key(j) \in Shard
  BY OwnerIsShard, Zenon
<1>10. AbsData' = [AbsData EXCEPT ![k] = w]
  BY <1>0, <1>1, <1>4, <1>5, <1>9, ZenonT(60) DEF AbsData
<1> QED
  BY <1>6, <1>7, <1>8, <1>10, Zenon

\* A call takes effect in time or late, or a shard refuses it.
LEMMA ServeStep == ASSUME IInv, NEW c \in net, Serve(c) PROVE IInv' /\ AbsStep
<1>0. Types /\ Serving /\ Calls /\ KeyPlacement /\ c.to \in Shard /\ c.op \in Request
  BY Zenon DEF IInv, Types
<1>1. net' = net \ {c} /\ UNCHANGED <<route, up, pc, op, pos, got, out, crashes>>
  BY Zenon DEF Serve
<1>2. answer' = answer \/ (pc = "wait" /\ op = c.op)
  BY Zenon DEF Serve
<1>3. /\ Serving' /\ Calls'
      /\ Lost' = Lost \ {c.op} \/ (c.op.cmd \notin Keyed /\ Lost' = Lost)
  BY <1>1, <1>2, CallGone, Zenon
<1>4. CASE Misplaced(c.to, c.op) \/ c.op.cmd \notin Keyed
  <2>1. data' = data
    BY <1>4, Zenon DEF Serve
  <2>2. Types' /\ KeyPlacement' /\ AbsData' = AbsData
    BY <1>0, <1>1, <2>1, Zenon DEF Types, KeyPlacement, AbsData
  <2>3. Eff' = Eff
    <3>1. CASE op.cmd \notin Keyed
      BY <1>1, <3>1, Zenon DEF Eff
    <3>2. CASE op.cmd \in Keyed /\ op # c.op
      BY <1>1, <1>2, <3>2, Zenon DEF Eff
    <3>3. CASE op.cmd \in Keyed /\ op = c.op
      <4>1. pc = "wait" /\ answer = NoAns /\ c.to = route[pos]
        BY <1>0, <3>3, Zenon DEF Calls
      <4>2. answer' = Body("misplaced", Null)
        BY <1>4, <3>3, <4>1, Zenon DEF Serve
      <4> QED
        BY <1>1, <4>1, <4>2, Zenon DEF Eff, Body
    <3> QED
      BY <3>1, <3>2, <3>3, Zenon
  <2>4. Abs!Forget
    BY <1>1, <1>3, <2>2, <2>3, Zenon DEF Abs!Forget
  <2> QED
    BY <1>3, <2>2, <2>4, Zenon DEF IInv, AbsStep, Abs!Next
<1>5. CASE ~Misplaced(c.to, c.op) /\ c.op.cmd \in Keyed
  <2>1. /\ Types' /\ KeyPlacement'
        /\ AbsData' = [AbsData EXCEPT ![c.op.key] = Abs!After(c.op, AbsData)]
    BY <1>5, ServeWrites, Zenon
  <2>2. c.op.key \in Key /\ c.to = shard_for_key(c.op.key)
    BY <1>0, <1>5, ServedByOwner, Zenon DEF Types
  <2>3. CASE c.op = op
    <3>1. pc = "wait" /\ answer = NoAns /\ c.to = route[pos]
      BY <1>0, <1>5, <2>3, Zenon DEF Calls
    <3>2. answer' = Body("none", IF op.cmd = "get" THEN data[c.to][op.key] ELSE Null)
      BY <1>5, <2>3, <3>1, Zenon DEF Serve, Keyed
    <3>3. Abs!Value(op, AbsData) = IF op.cmd = "get" THEN data[c.to][op.key] ELSE Null
      BY <2>2, <2>3, Zenon DEF Abs!Value, AbsData
    <3>4. Eff' = Abs!Took(Abs!Value(op, AbsData)) /\ Eff = NoAns
      BY <1>1, <1>5, <2>3, <3>1, <3>2, <3>3, Zenon DEF Eff, Abs!Took, Body
    <3>5. Lost' = Lost
      BY <1>3, <1>5, <2>3, Zenon DEF Lost
    <3>6. Abs!Effect
      BY <1>1, <1>5, <2>1, <2>3, <3>4, <3>5, Zenon DEF Abs!Effect, Abs!NoAns, NoAns, Abs!Keyed, Keyed
    <3> QED
      BY <1>3, <2>1, <3>6, Zenon DEF IInv, AbsStep, Abs!Next
  <2>4. CASE c.op # op
    <3>1. c.op \in Lost /\ Lost' = Lost \ {c.op}
      BY <1>3, <1>5, <2>4, Zenon DEF Lost
    <3>2. Eff' = Eff
      BY <1>1, <1>2, <2>4, Zenon DEF Eff
    <3>3. Abs!Late(c.op)
      BY <1>1, <2>1, <3>1, <3>2, Zenon DEF Abs!Late
    <3> QED
      BY <1>3, <2>1, <3>1, <3>3, Zenon DEF IInv, AbsStep, Abs!Next
  <2> QED
    BY <2>3, <2>4, Zenon
<1> QED
  BY <1>4, <1>5, Zenon

\* Only its owner can drop a key, because only its owner holds it.
LEMMA ExpireStep ==
    ASSUME IInv, NEW s \in Shard, NEW k \in Volatile, Expire(s, k) PROVE IInv' /\ AbsStep
<1>0. /\ Types /\ Serving /\ Calls /\ KeyPlacement /\ k \in Key
      /\ data \in [Shard -> [Key -> Nat \cup {Null}]]
  BY KeyAssumption, Zenon DEF IInv, Types
<1>1. /\ data' = [data EXCEPT ![s][k] = Null] /\ data[s][k] # Null
      /\ UNCHANGED <<route, up, net, pc, op, pos, got, answer, out, crashes>>
  BY Zenon DEF Expire
<1>2. s = shard_for_key(k) /\ \A j \in Key : shard_for_key(j) \in Shard
  BY <1>0, <1>1, OwnerIsShard, Zenon DEF KeyPlacement
<1>3. Types' /\ Serving' /\ Calls'
  BY <1>0, <1>1, Zenon DEF Types, Serving, Calls
<1>4. KeyPlacement'
  BY <1>0, <1>1, Zenon DEF KeyPlacement
<1>5. AbsData' = [AbsData EXCEPT ![k] = Null]
  BY <1>0, <1>1, <1>2, Zenon DEF AbsData
<1>6. Eff' = Eff /\ Lost' = Lost
  BY <1>1, Zenon DEF Eff, Lost
<1>7. Abs!Expire(k)
  BY <1>1, <1>5, <1>6, Zenon DEF Abs!Expire
<1> QED
  BY <1>3, <1>4, <1>7, Zenon DEF IInv, AbsStep, Abs!Next

\* A crash takes the keys of one shard and the calls in its sockets.
LEMMA CrashStep == ASSUME IInv, NEW s \in Shard, Crash(s) PROVE IInv' /\ AbsStep
<1> DEFINE P == {k \in Key : shard_for_key(k) = s}
<1>0. /\ Types /\ Serving /\ Calls /\ KeyPlacement
      /\ data \in [Shard -> [Key -> Nat \cup {Null}]]
  BY Zenon DEF IInv, Types
<1>1. /\ data' = [data EXCEPT ![s] = [k \in Key |-> Null]]
      /\ net' = {c \in net : c.to # s} /\ crashes' = crashes + 1
      /\ UNCHANGED <<route, pc, op, pos, got, answer, out>>
  BY Zenon DEF Crash
<1>2. Types' /\ Serving'
  BY <1>0, <1>1, Zenon DEF Types, Serving
<1>3. Calls'
  BY <1>0, <1>1, Zenon DEF Calls
<1>4. KeyPlacement'
  BY <1>0, <1>1, Zenon DEF KeyPlacement
<1>5. AbsData' = [k \in Key |-> IF k \in P THEN Null ELSE AbsData[k]]
  BY <1>0, <1>1, OwnerIsShard, Zenon DEF AbsData
<1>6. Eff' = Eff /\ Lost' \subseteq Lost
  BY <1>1, Zenon DEF Eff, Lost
<1>7. Abs!Crash(P)
  BY <1>1, <1>5, <1>6, Zenon DEF Abs!Crash
<1>8. P \in Parts
  BY Zenon DEF Parts
<1> QED
  BY <1>2, <1>3, <1>4, <1>7, <1>8, Zenon DEF IInv, AbsStep, Abs!Next

\* Every step of the cluster is one the contract allows.
LEMMA StepHolds == IInv /\ [Next]_vars => IInv' /\ AbsStep
<1> SUFFICES ASSUME IInv, [Next]_vars PROVE IInv' /\ AbsStep
  BY Zenon
<1>1. ASSUME NEW s \in Shard, Restart(s) PROVE IInv' /\ AbsStep
  <2>1. UNCHANGED <<route, data, net, pc, op, pos, got, answer, out, crashes>>
    BY <1>1, Zenon DEF Restart
  <2>2. IInv'
    BY <2>1, Zenon DEF IInv, Types, Serving, Calls, KeyPlacement
  <2>3. Eff' = Eff /\ Lost' = Lost
    BY <2>1, Zenon DEF Eff, Lost
  <2> QED
    BY <2>1, <2>2, <2>3, Unseen, Zenon
<1>2. CASE UNCHANGED vars
  <2>1. UNCHANGED <<route, data, net, pc, op, pos, got, answer, out, crashes>>
    BY <1>2, Zenon DEF vars
  <2>2. IInv'
    BY <2>1, Zenon DEF IInv, Types, Serving, Calls, KeyPlacement
  <2>3. Eff' = Eff /\ Lost' = Lost
    BY <2>1, Zenon DEF Eff, Lost
  <2> QED
    BY <2>1, <2>2, <2>3, Unseen, Zenon
<1> QED
  BY <1>1, <1>2, RequestStep, SendStep, FailStep, ReceiveStep, ServeStep, ReapStep,
     ExpireStep, CrashStep DEF Next, Step, Proxy
-----------------------------------------------------------------------------
\* The inductive invariant holds.
THEOREM Invariance == Spec => []IInv
<1> QED
  BY InitHolds, StepHolds, PTL DEF Spec

\* No shard ever holds a key of another one, in whatever order the proxy
\* lists the endpoints.
THEOREM PlacementHolds == Spec => []KeyPlacement
<1>1. IInv => KeyPlacement
  BY Zenon DEF IInv
<1> QED
  BY <1>1, Invariance, PTL

\* Keyed requests through the proxy are executed at most once, and those
\* answered without an error exactly once, while they were served.
THEOREM Implementation == Spec => ImplementsAtomicStore
<1>1. IInv /\ [Next]_vars => [Abs!Next]_Abs!vars
  BY StepHolds, Zenon DEF AbsStep
<1> QED
  BY <1>1, InitHolds, Invariance, PTL DEF Spec, ImplementsAtomicStore, Abs!Spec
-----------------------------------------------------------------------------
(***************************************************************************)
(* keys: what has been gathered so far brackets each shard's keys.         *)
(***************************************************************************)
Covers(s, b) ==
    b.err = "none" => /\ \A k \in always : shard_for_key(k) = s => k \in b.val
                      /\ b.val \subseteq ever

Gathered ==
    op.cmd = "keys" =>
        /\ \A i \in Shard : i < pos => Covers(route[i], got[i])
        /\ answer # NoAns => Covers(route[pos], answer)

\* Every shard is asked, because the list names none twice.
Onto == \A s \in Shard : \E i \in Shard : route[i] = s

KInv == Onto /\ DOMAIN got = Shard /\ always \subseteq Key /\ Gathered

\* N different endpoints are all of the N shards.
LEMMA InitGathers == Init => KInv
<1> SUFFICES ASSUME Init PROVE KInv
  BY Zenon
<1>1. IsFiniteSet(Shard)
  BY NAssumption, FS_Interval DEF Shard
<1>2. route \in Injection(Shard, Shard)
  BY Zenon DEF Init, Injection, IsInjective
<1>3. route \in Surjection(Shard, Shard)
  BY <1>1, <1>2, FS_Injection, Zenon
<1>4. Onto
  BY <1>3, Zenon DEF Onto, Surjection
<1> QED
  BY <1>4, Zenon DEF KInv, Init, Gathered, Idle

\* What brackets a shard's keys still does when time has passed.
LEMMA CoversLater ==
    ASSUME NEW s, NEW b, Covers(s, b), Track, op' = op, op.cmd = "keys"
    PROVE  b.err = "none" => /\ \A k \in always' : shard_for_key(k) = s => k \in b.val
                             /\ b.val \subseteq ever'
<1>1. always' \subseteq always /\ ever \subseteq ever'
  BY Zenon DEF Track
<1> QED
  BY <1>1, Zenon DEF Covers

\* A shard's answer brackets its keys at the moment it is given.
LEMMA CoversNow ==
    ASSUME IInv, NEW s \in Shard, Track, op' = op, op.cmd = "keys", data' = data
    PROVE  LET b == do_keys(s)
           IN  b.err = "none" => /\ \A k \in always' : shard_for_key(k) = s => k \in b.val
                                 /\ b.val \subseteq ever'
<1> DEFINE held == {k \in Key : data[s][k] # Null}
<1>1. always' \subseteq Present /\ Present \subseteq ever'
  <2>1. Present' = Present
    BY Zenon DEF Present
  <2> QED
    BY <2>1, Zenon DEF Track
<1>2. held \subseteq Present
  BY Zenon DEF Present
<1>3. \A k \in Present : shard_for_key(k) = s => k \in held
  BY Zenon DEF Present, IInv, KeyPlacement
<1>4. do_keys(s).err = "none" => do_keys(s).val = held
  BY Zenon DEF do_keys, Body
<1> QED
  BY <1>1, <1>2, <1>3, <1>4, Zenon

\* The list of endpoints is fixed.
LEMMA RouteFixed == [Next]_vars => route' = route
BY Zenon DEF Next, Step, Proxy, on_request, Send, tcp_rpc_fails, Receive, Serve, Reap, Crash, Restart, Expire, vars

\* The proxy's table of bodies has an entry for each endpoint.
LEMMA GotTable == DOMAIN got = Shard /\ [Next]_vars => DOMAIN got' = Shard
<1> SUFFICES ASSUME DOMAIN got = Shard, [Next]_vars PROVE DOMAIN got' = Shard
  BY Zenon
<1>1. ASSUME NEW o, NEW e, NEW v, Answer(o, e, v) PROVE DOMAIN got' = Shard
  BY <1>1, Zenon DEF Answer
<1>2. ASSUME Receive PROVE DOMAIN got' = Shard
  BY <1>1, <1>2, Zenon DEF Receive, merge_key_arrays
<1>3. ASSUME NEW c, NEW k, on_request(c, k) PROVE DOMAIN got' = Shard
  BY <1>1, <1>3, Zenon DEF on_request
<1>4. ASSUME tcp_rpc_fails PROVE DOMAIN got' = Shard
  BY <1>1, <1>4, Zenon DEF tcp_rpc_fails
<1>5. ASSUME UNCHANGED got PROVE DOMAIN got' = Shard
  BY <1>5, Zenon
<1> QED
  BY <1>2, <1>3, <1>4, <1>5, ZenonT(60) DEF Next, Step, Proxy, Send, Serve, Reap, Crash, Restart, Expire, vars

\* Where a keys request can be after a step.
LEMMA KeysMoves ==
    ASSUME IInv, Next, op'.cmd = "keys"
    PROVE  \/ pos' = 0 /\ answer' = NoAns /\ op' # op
           \/ op' = op /\ got' = got /\ pos' = pos /\ answer' \in {answer, NoAns}
           \/ op' = op /\ got' = got /\ pos' = pos /\ data' = data /\ answer' = do_keys(route[pos])
           \/ /\ op' = op /\ pos' = pos + 1 /\ answer' = NoAns /\ answer # NoAns
              /\ got' = [got EXCEPT ![pos] = answer]
<1>1. ASSUME NEW o, NEW e, NEW v, Answer(o, e, v) PROVE FALSE
  BY <1>1, Zenon DEF Answer, Idle
<1>2. ASSUME NEW c, NEW k, on_request(c, k) PROVE pos' = 0 /\ answer' = NoAns /\ op' # op
  <2> DEFINE o == [id |-> out.id + 1, cmd |-> c, key |-> IF c \in Keyed THEN k ELSE Null]
  <2>1. op = Idle /\ answer = NoAns
    BY <1>2, Zenon DEF on_request, IInv, Serving
  <2>2. op' = o /\ pos' = FirstPos(o) /\ answer' = answer
    BY <1>1, <1>2, Zenon DEF on_request
  <2>3. o.cmd = "keys"
    BY <2>2, Zenon
  <2> QED
    BY <2>1, <2>2, <2>3, Zenon DEF FirstPos, Idle
<1>3. ASSUME tcp_rpc_fails PROVE FALSE
  BY <1>1, <1>3, Zenon DEF tcp_rpc_fails
<1>4. ASSUME Receive
      PROVE  /\ op' = op /\ pos' = pos + 1 /\ answer' = NoAns /\ answer # NoAns
             /\ got' = [got EXCEPT ![pos] = answer]
  BY <1>1, <1>4, Zenon DEF Receive, merge_key_arrays
<1>5. ASSUME NEW c \in net, Serve(c)
      PROVE  /\ op' = op /\ got' = got /\ pos' = pos
             /\ answer' = answer \/ (data' = data /\ answer' = do_keys(route[pos]))
  <2>1. UNCHANGED <<op, got, pos>>
    BY <1>5, Zenon DEF Serve
  <2>2. CASE pc = "wait" /\ op = c.op /\ route[pos] = c.to
    BY <1>5, <2>1, <2>2, Zenon DEF Serve, Misplaced, Keyed
  <2>3. CASE ~(pc = "wait" /\ op = c.op /\ route[pos] = c.to)
    BY <1>5, <2>1, <2>3, Zenon DEF Serve
  <2> QED
    BY <2>2, <2>3, Zenon
<1>6. ASSUME Send PROVE op' = op /\ got' = got /\ pos' = pos /\ answer' \in {answer, NoAns}
  BY <1>6, Zenon DEF Send
<1>7. ASSUME UNCHANGED <<op, got, pos, answer>>
      PROVE  op' = op /\ got' = got /\ pos' = pos /\ answer' \in {answer, NoAns}
  BY <1>7, Zenon
<1>8. Step
  BY Zenon DEF Next
<1>9. \/ \E c \in net : Serve(c)
      \/ \E c \in Cmd, k \in Key : on_request(c, k)
      \/ Send \/ tcp_rpc_fails \/ Receive
      \/ UNCHANGED <<op, got, pos, answer>>
  BY <1>8, Zenon DEF Step, Proxy, Reap, Crash, Restart, Expire
<1> QED
  BY <1>2, <1>3, <1>4, <1>5, <1>6, <1>7, <1>9, Zenon

\* A step keeps what has been gathered.
LEMMA GatherStep == IInv /\ KInv /\ [Next]_vars => KInv'
<1> SUFFICES ASSUME IInv, KInv, [Next]_vars PROVE KInv'
  BY Zenon
<1>0. route' = route /\ pos \in Shard /\ Onto /\ DOMAIN got = Shard /\ Gathered
  BY RouteFixed, Zenon DEF KInv, IInv, Types
<1>1. Onto' /\ DOMAIN got' = Shard /\ always' \subseteq Key
  <2>1. always' \subseteq Key
    BY Zenon DEF KInv, Next, Track, Present, vars
  <2> QED
    BY <1>0, <2>1, GotTable, Zenon DEF Onto
<1>2. CASE UNCHANGED vars
  BY <1>0, <1>2, Zenon DEF vars, Gathered, Covers, KInv, Onto
<1>3. CASE Next
  <2>1. SUFFICES ASSUME op'.cmd = "keys"
                 PROVE  /\ \A i \in Shard : i < pos' => Covers(route[i], got[i])'
                        /\ answer' # NoAns => Covers(route[pos], answer)'
    BY <1>0, <1>1, Zenon DEF KInv, Gathered
  <2>2. Track
    BY <1>3, Zenon DEF Next
  <2>3. ASSUME NEW s, NEW b, Covers(s, b), op' = op
        PROVE  b.err = "none" => /\ \A k \in always' : shard_for_key(k) = s => k \in b.val
                                 /\ b.val \subseteq ever'
    BY <2>1, <2>2, <2>3, CoversLater, Zenon
  <2>4. op' = op => /\ \A i \in Shard : i < pos => Covers(route[i], got[i])
                    /\ answer # NoAns => Covers(route[pos], answer)
    BY <1>0, <2>1, Zenon DEF Gathered
  <2>5. CASE pos' = 0 /\ answer' = NoAns
    BY <2>5 DEF Shard
  <2>6. CASE op' = op /\ got' = got /\ pos' = pos /\ answer' \in {answer, NoAns}
    BY <1>0, <2>3, <2>4, <2>6, Zenon DEF Covers
  <2>7. CASE op' = op /\ got' = got /\ pos' = pos /\ data' = data /\ answer' = do_keys(route[pos])
    <3>1. route[pos] \in Shard
      BY <1>0, Zenon DEF IInv, Types
    <3>2. answer'.err = "none" =>
             /\ \A k \in always' : shard_for_key(k) = route[pos] => k \in answer'.val
             /\ answer'.val \subseteq ever'
      BY <2>1, <2>2, <2>7, <3>1, CoversNow, Zenon
    <3> QED
      BY <1>0, <2>3, <2>4, <2>7, <3>2, Zenon DEF Covers
  <2>8. CASE /\ op' = op /\ pos' = pos + 1 /\ answer' = NoAns /\ answer # NoAns
             /\ got' = [got EXCEPT ![pos] = answer]
    <3>1. ASSUME NEW i \in Shard, i < pos + 1 PROVE Covers(route[i], got'[i])
      <4>1. i < pos \/ i = pos
        BY <1>0, <3>1 DEF Shard
      <4> QED
        BY <1>0, <2>4, <2>8, <4>1, Zenon
    <3> QED
      BY <1>0, <2>3, <2>8, <3>1, ZenonT(60) DEF Covers
  <2> QED
    BY <1>3, <2>1, <2>5, <2>6, <2>7, <2>8, KeysMoves, Zenon
<1> QED
  BY <1>2, <1>3, Zenon

\* Nothing but the merge of N bodies answers keys without an error.
LEMMA KeysAnswer ==
    ASSUME IInv, Next, op.cmd = "keys", op' = Idle, out'.err = "none"
    PROVE  /\ answer # NoAns /\ pos + 1 = N
           /\ \A i \in Shard : [got EXCEPT ![pos] = answer][i].err = "none"
           /\ out'.val = UNION {[got EXCEPT ![pos] = answer][i].val : i \in Shard}
<1>1. pc # "idle" /\ op' # op
  BY DEF IInv, Serving, Idle
<1>a. ASSUME NEW e, NEW v, Answer(op, e, v) PROVE e = "none" /\ out'.val = v
  <2>1. out' = [id |-> op.id, err |-> e, val |-> v]
    BY <1>a, Zenon DEF Answer
  <2> QED
    BY <2>1, Zenon
<1>b. "shard unreachable" # "none" /\ "failed to merge" # "none" /\ "too big" # "none"
  BY Zenon
<1>2. ~tcp_rpc_fails
  BY <1>a, <1>b, Zenon DEF tcp_rpc_fails
<1>3. Receive
  BY <1>1, <1>2, ZenonT(60) DEF Next, Step, Proxy, on_request, Send, Serve, Reap, Crash, Restart, Expire
<1>4. answer # NoAns /\ pos + 1 = N /\ merge_key_arrays([got EXCEPT ![pos] = answer])
  BY <1>1, <1>3, Zenon DEF Receive, Keyed
<1> QED
  <2> DEFINE bodies == [got EXCEPT ![pos] = answer]
             keys == UNION {bodies[i].val : i \in Shard}
  <2>1. /\ (\E i \in Shard : bodies[i].err # "none") => Answer(op, "failed to merge", Null)
        /\ ~(\E i \in Shard : bodies[i].err # "none") /\ keys \in TooBig => Answer(op, "too big", Null)
        /\ ~(\E i \in Shard : bodies[i].err # "none") /\ keys \notin TooBig => Answer(op, "none", keys)
    BY <1>4, Zenon DEF merge_key_arrays
  <2> HIDE DEF bodies, keys
  <2>2. ~(\E i \in Shard : bodies[i].err # "none")
    BY <1>a, <1>b, <2>1, Zenon
  <2>3. keys \notin TooBig
    BY <1>a, <1>b, <2>1, <2>2, Zenon
  <2>4. out'.val = keys
    BY <1>a, <2>1, <2>2, <2>3, Zenon
  <2> QED
    BY <1>4, <2>2, <2>4, Zenon DEF bodies, keys

\* A successful keys has every key that was there all along and none that
\* never was.
LEMMA KeysAreBracketed ==
    ASSUME IInv, KInv, Next, op.cmd = "keys", op' = Idle, out'.err = "none"
    PROVE  always \subseteq out'.val /\ out'.val \subseteq ever
<1> DEFINE bodies == [got EXCEPT ![pos] = answer]
<1>0. Onto /\ DOMAIN got = Shard /\ Gathered /\ pos \in Shard
  BY Zenon DEF KInv, IInv, Types
<1>1. /\ answer # NoAns /\ pos + 1 = N
      /\ \A i \in Shard : bodies[i].err = "none"
      /\ out'.val = UNION {bodies[i].val : i \in Shard}
  BY KeysAnswer, Zenon
<1>2. ASSUME NEW i \in Shard PROVE Covers(route[i], bodies[i])
  <2>1. i < pos \/ i = pos
    BY <1>0, <1>1, NAssumption DEF Shard
  <2> QED
    BY <1>0, <1>1, <2>1, Zenon DEF Gathered
<1> HIDE DEF bodies
<1>3. out'.val \subseteq ever
  BY <1>1, <1>2, Zenon DEF Covers
<1>4. ASSUME NEW k \in always PROVE k \in out'.val
  <2>1. always \subseteq Key
    BY Zenon DEF KInv
  <2>2. PICK i \in Shard : route[i] = shard_for_key(k)
    BY <1>0, <2>1, OwnerIsShard, Zenon DEF Onto
  <2> QED
    BY <1>1, <1>2, <2>2, Zenon DEF Covers
<1> QED
  BY <1>3, <1>4, Zenon

\* Gathering shard by shard, with keys that come and go meanwhile, keys
\* returns what was there all along and nothing that never was.
THEOREM KeysHold == Spec => KeysBracketed
<1>1. IInv /\ KInv /\ [Next]_vars =>
         [op.cmd = "keys" /\ op' = Idle /\ out'.err = "none"
             => always \subseteq out'.val /\ out'.val \subseteq ever]_vars
  BY KeysAreBracketed, Zenon
<1>2. Spec => [](IInv /\ KInv)
  BY InitHolds, StepHolds, InitGathers, GatherStep, PTL DEF Spec
<1> QED
  BY <1>1, <1>2, PTL DEF Spec, KeysBracketed
=============================================================================
