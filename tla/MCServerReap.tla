---------------------------- MODULE MCServerReap ----------------------------
(***************************************************************************)
(* ServerLoop where time passes only in the two places where the loop's    *)
(* thread spends it: in poll, while nothing is ready, and in on_request,   *)
(* whose time is let pass after the step Handle that calls it.  Two        *)
(* history variables follow what on_request and the sockets hold.          *)
(***************************************************************************)
EXTENDS ServerLoop

VARIABLES busy,     \* the connection whose request on_request has in hand, if any
          waiting   \* connections with a whole request in the socket, in time

reapVars == <<vars, busy, waiting>>

\* The loop handles f and serves a request of it.
Answers(f) ==
    /\ f \in Ready /\ revents'[f] = {} /\ conn'[f] # Null
    /\ Len(conn'[f].recv \o conn'[f].outgoing) > Len(conn[f].recv \o conn[f].outgoing)

\* poll has nothing to return for.
Quiet == pc = "poll" /\ backlog = 0 /\ \A f \in FD : Revents(f, {}) = {}

\* A request that the loop has only to read is whole.
Pending(c) == c # Null /\ c.want_read /\ Served(c.incoming \o c.wire) > Served(c.incoming)

ReapInit == Init /\ busy = {} /\ waiting = {}

ReapNext ==
    /\ \/ Round /\ busy' = {f \in FD : Answers(f)}
       \/ Tick /\ (Quiet \/ busy # {}) /\ busy' = busy
       \/ /\ \/ Interrupted \/ Terminated \/ Connect \/ stop_server
             \/ \E f \in FD : Send(f) \/ \E how \in {"fin", "gone"} : Leave(f, how)
          /\ busy' = busy
    /\ waiting' = {f \in Live : /\ Pending(conn'[f])
                                /\ f \in waiting \/ (~Pending(conn[f]) /\ age[f] <= IdleTimeout)}

ReapSpec == ReapInit /\ [][ReapNext]_reapVars

\* README.md: "Idle connections close after roughly five seconds."  A connection
\* whose next request reached the socket in time is not idle: process_timers does
\* not close it, however long on_request took for another connection.
OnlyIdleReaped ==
    [][pc = "conns" /\ Ready = {} => \A f \in waiting : conn'[f] # Null]_reapVars
=============================================================================
