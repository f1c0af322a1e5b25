---------------------------- MODULE ProxyLifecycle ----------------------------
(***************************************************************************)
(* What QUICProxy promises its caller, with the accept thread and the      *)
(* socket hidden: start() makes the proxy serve, stop() takes it back to   *)
(* stopped, and a stopped proxy holds no connection.  Handlers appear only *)
(* for datagrams received while the proxy is started or still stopping,    *)
(* and the periodic cleanup removes some of them.  A stop() that has       *)
(* begun completes.                                                        *)
(***************************************************************************)
CONSTANT Addrs     \* client addresses (ip:port keys)

VARIABLES
    phase,   \* "stopped", "running" or "stopping" (inside stop())
    conns    \* the client keys that have a handler

vars == <<phase, conns>>

Init == phase = "stopped" /\ conns = {}

\* start() succeeding.
Start ==
    /\ phase = "stopped"
    /\ phase' = "running"
    /\ UNCHANGED conns

\* A datagram from a: its handler is found or created.  The accept thread
\* may still serve one after stop() has begun and before it is joined.
Serve(a) ==
    /\ phase \in {"running", "stopping"}
    /\ conns' = conns \cup {a}
    /\ UNCHANGED phase

\* cleanupInactiveConnections removes the handlers in gone.
Reap(gone) ==
    /\ phase \in {"running", "stopping"}
    /\ gone # {} /\ gone \subseteq conns
    /\ conns' = conns \ gone
    /\ UNCHANGED phase

BeginStop ==
    /\ phase = "running"
    /\ phase' = "stopping"
    /\ UNCHANGED conns

\* stop() returns: the thread is gone and the table is empty.
EndStop ==
    /\ phase = "stopping"
    /\ phase' = "stopped"
    /\ conns' = {}

Next ==
    \/ Start \/ BeginStop \/ EndStop
    \/ \E a \in Addrs : Serve(a)
    \/ \E gone \in SUBSET conns : Reap(gone)

Spec == Init /\ [][Next]_vars /\ WF_vars(EndStop)
==============================================================================
