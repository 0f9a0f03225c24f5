----------------------------- MODULE ServerLoop -----------------------------
(***************************************************************************)
(* The event loop of src/server_loop.cpp, which the server, the shards and *)
(* the proxy share, with the sockets and the clients at the other end.     *)
(* A frame is two units, its header and its body, so that it can arrive in *)
(* pieces; the unit of an acceptable frame is the number of the request,   *)
(* and the response to it is two units with the same number.  Time is kept *)
(* as the age of last_active_ms, which stops counting past the timeout.    *)
(* Time passes and clients act between any two steps of the loop.          *)
(***************************************************************************)
EXTENDS Integers, Sequences, FiniteSetsExt

CONSTANTS
    N,              \* descriptors 1 .. N
    MaxFrames,      \* bound: frames a client sends on a connection
    MaxBacklog,     \* bound: connections waiting to be accepted
    IdleTimeout     \* k_idle_timeout_ms, in ticks

ASSUME LoopAssumption ==
    N \in Nat /\ MaxFrames \in Nat /\ MaxBacklog \in Nat /\ IdleTimeout \in Nat

VARIABLES
    pc,             \* top, poll, accept, conns, closed
    stopping,
    backlog,        \* connections the kernel has ready for accept()
    conn,           \* fd2conn, each Conn with its socket; Null if none
    idle,           \* idle_list, oldest first
    age,            \* now - last_active_ms
    revents,        \* what poll reported of each descriptor, cleared when handled
    acceptable      \* what it reported of the listening socket

vars == <<pc, stopping, backlog, conn, idle, age, revents, acceptable>>

FD == 1 .. N
Null == <<>>
Long == 0           \* header of a frame that is longer than k_max_msg
Malformed == -1     \* frame that parse_req rejects

\* Conn, then the socket: what the client has sent (sent), how much of it is not
\* read yet (wire), what was written to the client (recv), and what the client
\* did: it is open, has ended its sending side (fin) or is gone.
NewConn ==
    [want_read |-> TRUE, want_write |-> FALSE, want_close |-> FALSE,
     incoming |-> <<>>, outgoing |-> <<>>,
     sent |-> <<>>, wire |-> <<>>, recv |-> <<>>, peer |-> "open"]

Live == {f \in FD : conn[f] # Null}

Init ==
    /\ pc = "top" /\ stopping = FALSE /\ backlog = 0
    /\ conn = [f \in FD |-> Null] /\ idle = <<>>
    /\ age = [f \in FD |-> 0]
    /\ revents = [f \in FD |-> {}] /\ acceptable = FALSE

-----------------------------------------------------------------------------
\* The clients, the kernel and the clock.
Connect ==
    /\ pc # "closed" /\ backlog < MaxBacklog
    /\ backlog' = backlog + 1
    /\ UNCHANGED <<pc, stopping, conn, idle, age, revents, acceptable>>

\* The next unit: the body of the frame begun, or the header of a new one.
Units(s) ==
    IF Len(s) % 2 = 1 THEN {s[Len(s)]}
    ELSE IF Len(s) < 2 * MaxFrames THEN {Len(s) \div 2 + 1, Long, Malformed} ELSE {}

Send(f) ==
    /\ f \in Live /\ conn[f].peer = "open"
    /\ \E u \in Units(conn[f].sent) :
          conn' = [conn EXCEPT ![f].sent = Append(@, u), ![f].wire = Append(@, u)]
    /\ UNCHANGED <<pc, stopping, backlog, idle, age, revents, acceptable>>

Leave(f, how) ==
    /\ f \in Live /\ conn[f].peer # "gone" /\ conn[f].peer # how
    /\ conn' = [conn EXCEPT ![f].peer = how]
    /\ UNCHANGED <<pc, stopping, backlog, idle, age, revents, acceptable>>

Tick ==
    /\ pc # "closed"
    /\ age' = [f \in FD |-> IF f \in Live /\ age[f] <= IdleTimeout THEN age[f] + 1 ELSE age[f]]
    /\ UNCHANGED <<pc, stopping, backlog, conn, idle, revents, acceptable>>

stop_server ==
    /\ pc # "closed"
    /\ stopping' = TRUE
    /\ UNCHANGED <<pc, backlog, conn, idle, age, revents, acceptable>>

-----------------------------------------------------------------------------
\* dlist_detach of a connection's node: the idle list without it.
Without(f) ==
    LET i == CHOOSE i \in 1 .. Len(idle) : idle[i] = f
    IN  SubSeq(idle, 1, i - 1) \o SubSeq(idle, i + 1, Len(idle))

\* while (try_one_request(conn)): the frames served are the whole acceptable
\* ones up to the first that is not; what follows them may end the connection.
Served(buf) == Max({n \in 0 .. Len(buf) \div 2 : \A j \in 1 .. 2 * n : buf[j] > 0})

\* Mutant: one request for each read.
try_requests_One(c) ==
    LET n == IF Served(c.incoming) > 0 THEN 1 ELSE 0
        rest == SubSeq(c.incoming, 2 * n + 1, Len(c.incoming))
    IN  [c EXCEPT !.incoming = rest,
                  !.outgoing = @ \o SubSeq(c.incoming, 1, 2 * n)]

try_requests(c) ==
    LET n == Served(c.incoming)
        rest == SubSeq(c.incoming, 2 * n + 1, Len(c.incoming))
    IN  [c EXCEPT !.incoming = rest,
                  !.outgoing = @ \o SubSeq(c.incoming, 1, 2 * n),
                  !.want_close = \/ @
                                 \/ Len(rest) >= 1 /\ rest[1] = Long
                                 \/ Len(rest) >= 2 /\ rest[1] = Malformed]

\* What write() may do: refuse for now, fail, or take a prefix of outgoing.
Wrote(c, n) ==
    LET rest == SubSeq(c.outgoing, n + 1, Len(c.outgoing))
    IN  [c EXCEPT !.outgoing = rest, !.recv = @ \o SubSeq(c.outgoing, 1, n),
                  !.want_read = @ \/ rest = <<>>, !.want_write = @ /\ rest # <<>>]

\* Mutant: a partial write drops the rest of the buffer.
handle_write_Drops(c) ==
    {c} \cup IF c.peer = "gone" THEN {[c EXCEPT !.want_close = TRUE]}
             ELSE {[Wrote(c, n) EXCEPT !.outgoing = <<>>] : n \in 1 .. Len(c.outgoing)}

handle_write(c) ==
    {c} \cup IF c.peer = "gone" THEN {[c EXCEPT !.want_close = TRUE]}
             ELSE {Wrote(c, n) : n \in 1 .. Len(c.outgoing)}

\* What follows a read() of n units.
Received(c, n) ==
    LET d == try_requests([c EXCEPT !.incoming = @ \o SubSeq(c.wire, 1, n),
                                    !.wire = SubSeq(c.wire, n + 1, Len(c.wire))])
    IN  IF d.outgoing = <<>> THEN {d}
        ELSE handle_write([d EXCEPT !.want_read = FALSE, !.want_write = TRUE])

handle_read(c) ==
    {c} \cup IF c.peer = "gone" \/ (c.peer = "fin" /\ c.wire = <<>>)
             THEN {[c EXCEPT !.want_close = TRUE]}
             ELSE UNION {Received(c, n) : n \in 1 .. Len(c.wire)}

\* Mutant: reading goes on while responses wait.
Revents_AlwaysIn(f, writable) ==
    IF f \notin Live THEN {}
    ELSE LET c == conn[f]
         IN  {e \in {"in"} : c.wire # <<>> \/ c.peer # "open"}
             \cup {e \in {"out"} : c.want_write /\ f \in writable}
             \cup {e \in {"err"} : c.peer = "gone"}

\* What poll reports of a descriptor; only the kernel knows which have room to
\* write.
Revents(f, writable) ==
    IF f \notin Live THEN {}
    ELSE LET c == conn[f]
         IN  {e \in {"in"} : c.want_read /\ (c.wire # <<>> \/ c.peer # "open")}
             \cup {e \in {"out"} : c.want_write /\ f \in writable}
             \cup {e \in {"err"} : c.peer = "gone"}

-----------------------------------------------------------------------------
\* Mutant: a stop is noticed only when no client is connected.
Top_Waits ==
    /\ pc = "top"
    /\ pc' = IF stopping /\ Live = {} THEN "closed" ELSE "poll"
    /\ UNCHANGED <<stopping, backlog, conn, idle, age, revents, acceptable>>

\* The steps of run_tcp_server.  Its while (!stopping); at the end it destroys
\* every connection.
Top ==
    /\ pc = "top"
    /\ IF stopping
       THEN /\ pc' = "closed"
            /\ conn' = [f \in FD |-> Null] /\ idle' = <<>> /\ age' = [f \in FD |-> 0]
       ELSE pc' = "poll" /\ UNCHANGED <<conn, idle, age>>
    /\ UNCHANGED <<stopping, backlog, revents, acceptable>>

\* poll() returns: something is ready, or the timeout has passed, which is never
\* longer than a second.
Poll ==
    /\ pc = "poll" /\ pc' = "accept"
    /\ \E writable \in SUBSET Live : revents' = [f \in FD |-> Revents(f, writable)]
    /\ acceptable' = (backlog > 0)
    /\ UNCHANGED <<stopping, backlog, conn, idle, age>>

\* poll() fails with EINTR, after the handler of the signal has run: continue.
Interrupted ==
    /\ pc = "poll" /\ stopping /\ pc' = "top"
    /\ UNCHANGED <<stopping, backlog, conn, idle, age, revents, acceptable>>

\* handle_accept, when accept() succeeds: one connection for each round.
handle_accept ==
    \E f \in FD \ Live :
        /\ acceptable /\ backlog' = backlog - 1
        /\ conn' = [conn EXCEPT ![f] = NewConn]
        /\ age' = [age EXCEPT ![f] = 0]
        /\ idle' = Append(idle, f)

Accept ==
    /\ pc = "accept" /\ pc' = "conns" /\ acceptable' = FALSE
    /\ \/ handle_accept
       \/ UNCHANGED <<backlog, conn, idle, age>>
    /\ UNCHANGED <<stopping, revents>>

Ready == {f \in FD : revents[f] # {}}

\* Mutant: only input is handled.
Handled_NoWrite(c, ev) == IF "in" \in ev THEN handle_read(c) ELSE {c}

\* The body of the loop over poll_args, for what it reads and writes.
Handled(c, ev) ==
    LET afterRead == IF "in" \in ev THEN handle_read(c) ELSE {c}
    IN  UNION {IF "out" \in ev /\ ~d.want_close /\ d.outgoing # <<>>
               THEN handle_write(d) ELSE {d} : d \in afterRead}

\* Mutant: a connection that is used keeps its place in the list.
Handle_NoTouch ==
    /\ pc = "conns" /\ Ready # {}
    /\ LET f == Min(Ready)
       IN  \E d \in Handled(conn[f], revents[f]) :
              /\ revents' = [revents EXCEPT ![f] = {}]
              /\ age' = [age EXCEPT ![f] = 0]
              /\ IF d.want_close \/ "err" \in revents[f]
                 THEN conn' = [conn EXCEPT ![f] = Null] /\ idle' = Without(f)
                 ELSE conn' = [conn EXCEPT ![f] = d] /\ idle' = idle
    /\ UNCHANGED <<pc, stopping, backlog, acceptable>>

Handle ==
    /\ pc = "conns" /\ Ready # {}
    /\ LET f == Min(Ready)
       IN  \E d \in Handled(conn[f], revents[f]) :
              /\ revents' = [revents EXCEPT ![f] = {}]
              /\ age' = [age EXCEPT ![f] = 0]
              /\ IF d.want_close \/ "err" \in revents[f]
                 THEN conn' = [conn EXCEPT ![f] = Null] /\ idle' = Without(f)
                 ELSE conn' = [conn EXCEPT ![f] = d] /\ idle' = Append(Without(f), f)
    /\ UNCHANGED <<pc, stopping, backlog, acceptable>>

\* The connections that have expired, as far as the list is scanned.
Expired ==
    Max({n \in 0 .. Len(idle) : \A j \in 1 .. n : age[idle[j]] > IdleTimeout})

\* Mutant: the timers run before the events poll reported.
process_timers_Early ==
    LET old == {idle[j] : j \in 1 .. Expired}
    IN  /\ pc = "conns" /\ pc' = IF Ready = {} THEN "top" ELSE "conns"
        /\ conn' = [f \in FD |-> IF f \in old THEN Null ELSE conn[f]]
        /\ idle' = SubSeq(idle, Expired + 1, Len(idle))
        /\ age' = [f \in FD |-> IF f \in old THEN 0 ELSE age[f]]
        /\ UNCHANGED <<stopping, backlog, revents, acceptable>>

\* Mutant: the timers of connections are not looked at.
process_timers_None ==
    /\ pc = "conns" /\ Ready = {} /\ pc' = "top"
    /\ UNCHANGED <<stopping, backlog, conn, idle, age, revents, acceptable>>

process_timers ==
    LET old == {idle[j] : j \in 1 .. Expired}
    IN  /\ pc = "conns" /\ Ready = {} /\ pc' = "top"
        /\ conn' = [f \in FD |-> IF f \in old THEN Null ELSE conn[f]]
        /\ idle' = SubSeq(idle, Expired + 1, Len(idle))
        /\ age' = [f \in FD |-> IF f \in old THEN 0 ELSE age[f]]
        /\ UNCHANGED <<stopping, backlog, revents, acceptable>>

Terminated == pc = "closed" /\ UNCHANGED vars

Round == Top \/ Poll \/ Accept \/ Handle \/ process_timers

Next ==
    \/ Round \/ Interrupted \/ Terminated
    \/ Connect \/ Tick \/ stop_server
    \/ \E f \in FD : Send(f) \/ \E how \in {"fin", "gone"} : Leave(f, how)

Spec == Init /\ [][Next]_vars

\* The loop keeps running, since poll always returns; time passes; and a read or
\* write on a socket that poll keeps reporting is not refused for ever.
Moves(f) == Handle /\ conn'[f] # conn[f]
FairSpec ==
    Spec /\ WF_vars(Round) /\ WF_vars(Tick) /\ \A f \in FD : SF_vars(Moves(f))

-----------------------------------------------------------------------------
(***************************************************************************)
(* Properties.                                                             *)
(***************************************************************************)
\* Responses retain the order of the requests, and none is lost or doubled,
\* however frames are cut up by reads and writes: what a client received, what
\* waits in either buffer and what it has not been asked for is what it sent.
PipelineOrder ==
    \A f \in Live : LET c == conn[f]
                    IN  c.recv \o c.outgoing \o c.incoming \o c.wire = c.sent

\* Whenever the loop polls, a connection waits for exactly one direction, for
\* writing if and only if responses are left, and no whole request sits in its
\* buffer that no event would make the loop look at again.
InterestExact ==
    pc \in {"top", "poll"} =>
        \A f \in Live : LET c == conn[f]
                        IN  /\ ~c.want_close /\ c.want_read = ~c.want_write
                            /\ c.want_write <=> c.outgoing # <<>>
                            /\ Served(c.incoming) = 0

\* The idle list holds every connection once, the longest idle first: stopping
\* the scan at the first that has not expired misses none.
IdleListExact ==
    /\ \A i, j \in 1 .. Len(idle) : i < j => idle[i] # idle[j] /\ age[idle[i]] >= age[idle[j]]
    /\ {idle[i] : i \in 1 .. Len(idle)} = Live

\* The loop over poll_args dereferences fd2conn without a test: no connection
\* that poll reported is destroyed before its turn.
ReportedAlive == Ready \subseteq Live

\* A client that ends its sending side is closed for that only after it was sent
\* the response to every request.
GracefulClose ==
    [][\A f \in Live :
          /\ pc = "conns" /\ Ready # {} /\ conn'[f] = Null
          /\ conn[f].peer # "gone" /\ \A j \in DOMAIN conn[f].sent : conn[f].sent[j] > 0
          => Len(conn[f].recv) = 2 * Served(conn[f].sent)]_vars

Owed(f) == f \in Live /\ Len(conn[f].recv) < 2 * Served(conn[f].sent)

\* Every whole request is answered, unless the connection is closed first.
RequestAnswered == \A f \in FD : Owed(f) ~> ~Owed(f)

\* A connection that stays idle is closed.
IdleReaped == \A f \in FD : (f \in Live /\ age[f] > IdleTimeout) ~> (f \notin Live \/ age[f] = 0)

\* A signal to stop ends the loop.
StopEnds == stopping ~> pc = "closed"
=============================================================================
