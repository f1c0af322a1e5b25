------------------------------ MODULE QUICProxy ------------------------------
(***************************************************************************)
(* The proxy front end: class QUICProxy (quic_proxy.cpp).  Two threads:    *)
(* the caller of start()/stop() ("main") and the accept thread running     *)
(* acceptLoop.  They share m_running (atomic), m_serverSocket (a plain     *)
(* int, read by the accept thread without synchronisation) and            *)
(* m_connections (under m_connectionsMutex).                               *)
(*                                                                         *)
(* A connection is abstracted to what the proxy reads of it: its client    *)
(* key (the source address), the ticks since its last activity (isActive) *)
(* and its m_accelerationEnabled.  Its protocol state is the QUICHandler   *)
(* module.  A tick is a unit of time large against the 100 ms select      *)
(* timeout.                                                                *)
(***************************************************************************)
EXTENDS Naturals, Sequences, FiniteSets

CONSTANTS
    Addrs,          \* client addresses ("ip:port" keys)
    IdleTimeout,    \* IDLE_TIMEOUT_MS, in ticks
    CleanupPeriod,  \* the 5 s between two cleanups, in ticks
    MaxStarts,      \* bound: calls of start()
    MaxAccelSets,   \* bound: calls of setAccelerationEnabled()
    Sock,           \* the descriptor socket() returns
    NoSock          \* -1

VARIABLES
    running,            \* m_running
    serverSocket,       \* m_serverSocket
    sockOpen,           \* the kernel's view: the descriptor is open
    connections,        \* m_connections: <<[key, idle, accel]>>
    accelerationEnabled, \* m_accelerationEnabled (a plain bool)
    accelPending,       \* {enabled} while a setAccelerationEnabled(enabled)
                        \* has written the flag and not yet updated the handlers
    accelSets,          \* number of setAccelerationEnabled() calls (bound)
    activeConnections,  \* m_activeConnections
    sinceCleanup,       \* ticks since the static lastCleanupTime
    mainPc,             \* where the start()/stop() caller is
    acceptPc,           \* where the accept thread is; "none" if not running
    starts,             \* number of start() calls (bound)
    badFd               \* ghost: FD_SET/FD_ISSET was given descriptor -1

vars == <<running, serverSocket, sockOpen, connections, activeConnections,
          sinceCleanup, mainPc, acceptPc, starts, badFd,
          accelerationEnabled, accelPending, accelSets>>

\* The variables only setAccelerationEnabled() writes, and connections'
\* accel fields.
accelVars == <<accelerationEnabled, accelPending, accelSets>>

\* accelPending when no setAccelerationEnabled() is half done.
NoPending == {}

\* What the proxy learns of a datagram: whether it is empty (any content
\* creates a handler; only an empty one leaves m_lastActivity alone).
Kinds == {"nonempty", "empty"}

MainPcs == {"stopped", "started", "close", "unset", "join", "clear"}
AcceptPcs == {"none", "check", "house", "fdset", "isset", "recv", "done"}

-----------------------------------------------------------------------------
(* Helpers                                                                 *)

\* QUICHandler::isActive: m_connected (never cleared) and idle < timeout.
IsActive(h) == h.idle < IdleTimeout

\* Mutant of FindHandler: the lookup compares the key with a field that
\* never equals it, so every datagram looks like a new client.
FindHandlerNone(k) == 0

\* Index of the handler whose getClientKey() equals k (find_if), or 0.
FindHandler(k) ==
    IF \E i \in DOMAIN connections : connections[i].key = k
    THEN CHOOSE i \in DOMAIN connections :
            connections[i].key = k /\ \A j \in 1 .. i - 1 : connections[j].key # k
    ELSE 0

\* Mutant of NewHandler: the handler is built with acceleration on, as the
\* proxy's constructor default, instead of the current setting.
NewHandlerDefaultAccel(a) == [key |-> a, idle |-> 0, accel |-> TRUE]

\* The QUICHandler acceptLoop creates for a new client key, with the
\* proxy's m_accelerationEnabled read under m_connectionsMutex.
NewHandler(a) == [key |-> a, idle |-> 0, accel |-> accelerationEnabled]

\* The handler after processIncomingPacket: activity is updated unless the
\* datagram is empty (the call returns before updateActivity).
Process(h, kind) == IF kind = "empty" THEN h ELSE [h EXCEPT !.idle = 0]

-----------------------------------------------------------------------------
(* Main thread: start() and stop()                                         *)

Init ==
    /\ running = FALSE
    /\ serverSocket = NoSock
    /\ sockOpen = FALSE
    /\ connections = << >>
    /\ activeConnections = 0
    /\ sinceCleanup = 0
    /\ mainPc = "stopped"
    /\ acceptPc = "none"
    /\ starts = 0
    /\ badFd = FALSE
    /\ accelerationEnabled = TRUE
    /\ accelPending = NoPending
    /\ accelSets = 0

\* setupServerSocket(): socket, setsockopt, inet_pton, bind and the two
\* fcntl calls may each fail; every failure path closes the socket and
\* writes -1 back, so it returns with m_serverSocket = -1 and no open
\* descriptor.  Success leaves the bound non-blocking socket in place.
SetupServerSocket(ok) ==
    IF ok THEN serverSocket' = Sock /\ sockOpen' = TRUE
          ELSE serverSocket' = NoSock /\ sockOpen' = FALSE

\* start(): if setupServerSocket fails it returns false; otherwise
\* m_running is set and the accept thread spawned.  start() with
\* m_running set returns false.
Start ==
    /\ mainPc = "stopped" /\ accelPending = NoPending
    /\ starts < MaxStarts
    /\ starts' = starts + 1
    /\ ~running
    /\ \E ok \in BOOLEAN :
          /\ SetupServerSocket(ok)
          /\ IF ok
             THEN /\ running' = TRUE
                  /\ acceptPc' = "check"
                  /\ mainPc' = "started"
             ELSE UNCHANGED <<running, mainPc, acceptPc>>
    /\ UNCHANGED <<connections, activeConnections, sinceCleanup, badFd, accelVars>>

\* Mutant of StopSignal: stop() forgets to clear m_running.
StopSignalKeepRunning ==
    /\ mainPc = "started" /\ accelPending = NoPending
    /\ mainPc' = "close"
    /\ UNCHANGED <<running, serverSocket, sockOpen, connections, activeConnections,
                   sinceCleanup, acceptPc, starts, badFd, accelVars>>

\* stop(), first statement: clear m_running.
StopSignal ==
    /\ mainPc = "started" /\ accelPending = NoPending
    /\ running' = FALSE
    /\ mainPc' = "close"
    /\ UNCHANGED <<serverSocket, sockOpen, connections, activeConnections,
                   sinceCleanup, acceptPc, starts, badFd, accelVars>>

\* "if (m_serverSocket != -1) close(m_serverSocket);"
StopClose ==
    /\ mainPc = "close"
    /\ IF serverSocket # NoSock
       THEN sockOpen' = FALSE /\ mainPc' = "unset"
       ELSE sockOpen' = sockOpen /\ mainPc' = "join"
    /\ UNCHANGED <<running, serverSocket, connections, activeConnections,
                   sinceCleanup, acceptPc, starts, badFd, accelVars>>

\* "m_serverSocket = -1;"
StopUnset ==
    /\ mainPc = "unset"
    /\ serverSocket' = NoSock
    /\ mainPc' = "join"
    /\ UNCHANGED <<running, sockOpen, connections, activeConnections,
                   sinceCleanup, acceptPc, starts, badFd, accelVars>>

\* Mutant of StopJoin: the thread is detached instead of joined.
StopDetach ==
    /\ mainPc = "join"
    /\ mainPc' = "clear"
    /\ UNCHANGED <<running, serverSocket, sockOpen, connections,
                   activeConnections, sinceCleanup, acceptPc, starts, badFd, accelVars>>

\* m_acceptThread->join(): waits for acceptLoop to return.
StopJoin ==
    /\ mainPc = "join"
    /\ acceptPc = "done"
    /\ acceptPc' = "none"
    /\ mainPc' = "clear"
    /\ UNCHANGED <<running, serverSocket, sockOpen, connections,
                   activeConnections, sinceCleanup, starts, badFd, accelVars>>

\* m_connections.clear() under the lock; m_activeConnections is left as is.
StopClear ==
    /\ mainPc = "clear"
    /\ connections' = << >>
    /\ mainPc' = "stopped"
    /\ UNCHANGED <<running, serverSocket, sockOpen, activeConnections,
                   sinceCleanup, acceptPc, starts, badFd, accelVars>>

\* setAccelerationEnabled(enabled), called by the thread that owns the
\* proxy between its start() and stop() calls: first m_accelerationEnabled
\* is written, without taking m_connectionsMutex.
SetAccelWrite(enabled) ==
    /\ mainPc \in {"stopped", "started"} /\ accelPending = NoPending
    /\ accelSets < MaxAccelSets
    /\ accelSets' = accelSets + 1
    /\ accelerationEnabled' = enabled
    /\ accelPending' = {enabled}
    /\ UNCHANGED <<running, serverSocket, sockOpen, connections, activeConnections,
                   sinceCleanup, mainPc, acceptPc, starts, badFd>>

\* Then, under m_connectionsMutex, every handler in m_connections gets
\* setAccelerationEnabled(enabled).
SetAccelApply ==
    /\ \E enabled \in accelPending :
          connections' = [i \in DOMAIN connections |->
                            [connections[i] EXCEPT !.accel = enabled]]
    /\ accelPending' = NoPending
    /\ UNCHANGED <<running, serverSocket, sockOpen, activeConnections, sinceCleanup,
                   mainPc, acceptPc, starts, badFd, accelerationEnabled, accelSets>>

-----------------------------------------------------------------------------
(* Accept thread: acceptLoop                                               *)

\* "while (m_running.load())".
LoopCheck ==
    /\ acceptPc = "check"
    /\ acceptPc' = IF running THEN "house" ELSE "done"
    /\ UNCHANGED <<running, serverSocket, sockOpen, connections,
                   activeConnections, sinceCleanup, mainPc, starts, badFd, accelVars>>

\* Mutant of Housekeeping: lastCleanupTime is refreshed on every call, before
\* the "< 5 s" early return, instead of only when the cleanup runs.
HousekeepingResetAlways ==
    /\ acceptPc = "house"
    /\ acceptPc' = "fdset"
    /\ sinceCleanup' = 0
    /\ IF sinceCleanup >= CleanupPeriod
       THEN LET kept == SelectSeq(connections, IsActive)
            IN  /\ connections' = kept
                /\ activeConnections' = IF Len(kept) # Len(connections)
                                        THEN Len(kept) ELSE activeConnections
       ELSE UNCHANGED <<connections, activeConnections>>
    /\ UNCHANGED <<running, serverSocket, sockOpen, mainPc, starts, badFd, accelVars>>

\* cleanupInactiveConnections then updateConnectionStats.  Cleanup runs
\* only if 5 s passed since the last one; it removes every inactive handler
\* and, only if it removed one, sets m_activeConnections to the table size.
Housekeeping ==
    /\ acceptPc = "house"
    /\ acceptPc' = "fdset"
    /\ IF sinceCleanup >= CleanupPeriod
       THEN LET kept == SelectSeq(connections, IsActive)
            IN  /\ sinceCleanup' = 0
                /\ connections' = kept
                /\ activeConnections' = IF Len(kept) # Len(connections)
                                        THEN Len(kept) ELSE activeConnections
       ELSE UNCHANGED <<sinceCleanup, connections, activeConnections>>
    /\ UNCHANGED <<running, serverSocket, sockOpen, mainPc, starts, badFd, accelVars>>

\* FD_SET(m_serverSocket) and select() with a 100 ms timeout.  A closed
\* descriptor makes select fail with EBADF and the loop breaks.  On an open
\* socket select times out, reports the socket readable, or fails with
\* another error than EINTR (ENOMEM), which also breaks the loop while
\* m_running stays set.  -1 is undefined behaviour (FD_SET indexes the bit
\* set with it): any outcome.
SelectWait ==
    /\ acceptPc = "fdset"
    /\ badFd' = (badFd \/ serverSocket = NoSock)
    /\ acceptPc' \in
         CASE serverSocket = NoSock -> {"check", "isset", "done"}
           [] ~sockOpen             -> {"done"}
           [] OTHER                 -> {"check", "isset", "done"}
    /\ UNCHANGED <<running, serverSocket, sockOpen, connections,
                   activeConnections, sinceCleanup, mainPc, starts, accelVars>>

\* FD_ISSET(m_serverSocket) reads the descriptor again.
IsSet ==
    /\ acceptPc = "isset"
    /\ badFd' = (badFd \/ serverSocket = NoSock)
    /\ acceptPc' \in IF serverSocket = NoSock THEN {"check", "recv"} ELSE {"recv"}
    /\ UNCHANGED <<running, serverSocket, sockOpen, connections,
                   activeConnections, sinceCleanup, mainPc, starts, accelVars>>

\* recvfrom on -1 or a closed descriptor fails: "continue".
RecvFail ==
    /\ acceptPc = "recv"
    /\ ~(serverSocket = Sock /\ sockOpen)
    /\ acceptPc' = "check"
    /\ UNCHANGED <<running, serverSocket, sockOpen, connections,
                   activeConnections, sinceCleanup, mainPc, starts, badFd, accelVars>>

\* Mutant of Receive: m_activeConnections++ for every datagram, not only
\* for a new handler.
ReceiveCountAll(a, kind) ==
    /\ acceptPc = "recv"
    /\ serverSocket = Sock /\ sockOpen
    /\ acceptPc' = "check"
    /\ activeConnections' = activeConnections + 1
    /\ LET i == FindHandler(a)
       IN  connections' = IF i = 0
                          THEN Append(connections,
                                  Process(NewHandler(a), kind))
                          ELSE [connections EXCEPT ![i] = Process(@, kind)]
    /\ UNCHANGED <<running, serverSocket, sockOpen, sinceCleanup, mainPc, starts, badFd, accelVars>>

\* Mutant of Receive: m_activeConnections++ sits in the branch for an
\* existing handler instead of the one that creates a handler.
ReceiveCountExisting(a, kind) ==
    /\ acceptPc = "recv"
    /\ serverSocket = Sock /\ sockOpen
    /\ acceptPc' = "check"
    /\ LET i == FindHandler(a)
       IN  IF i = 0
           THEN /\ connections' = Append(connections, Process(NewHandler(a), kind))
                /\ UNCHANGED activeConnections
           ELSE /\ connections' = [connections EXCEPT ![i] = Process(@, kind)]
                /\ activeConnections' = activeConnections + 1
    /\ UNCHANGED <<running, serverSocket, sockOpen, sinceCleanup, mainPc, starts, badFd, accelVars>>

\* A datagram from client a: under m_connectionsMutex, find the handler by
\* client key or create one (whatever the datagram is), then
\* processIncomingPacket.
Receive(a, kind) ==
    /\ acceptPc = "recv"
    /\ serverSocket = Sock /\ sockOpen
    /\ acceptPc' = "check"
    /\ LET i == FindHandler(a)
       IN  IF i = 0
           THEN /\ connections' = Append(connections,
                      Process(NewHandler(a), kind))
                /\ activeConnections' = activeConnections + 1
           ELSE /\ connections' = [connections EXCEPT ![i] = Process(@, kind)]
                /\ UNCHANGED activeConnections
    /\ UNCHANGED <<running, serverSocket, sockOpen, sinceCleanup, mainPc, starts, badFd, accelVars>>

\* Time passes: handler idle times and the cleanup timer advance.
Tick ==
    /\ connections' = [i \in DOMAIN connections |->
                         [connections[i] EXCEPT !.idle = IF @ >= IdleTimeout THEN @ ELSE @ + 1]]
    /\ sinceCleanup' = IF sinceCleanup >= CleanupPeriod THEN sinceCleanup ELSE sinceCleanup + 1
    /\ UNCHANGED <<running, serverSocket, sockOpen, activeConnections,
                   mainPc, acceptPc, starts, badFd, accelVars>>

MainStep ==
    \/ StopSignal \/ StopClose \/ StopUnset \/ StopJoin \/ StopClear
    \/ \E b \in BOOLEAN : SetAccelWrite(b)
    \/ SetAccelApply

AcceptStep ==
    \/ LoopCheck \/ Housekeeping \/ SelectWait \/ IsSet \/ RecvFail
    \/ \E a \in Addrs, k \in Kinds : Receive(a, k)

Next == Start \/ MainStep \/ AcceptStep \/ Tick

Spec == Init /\ [][Next]_vars

\* Both threads keep running once they have work (after select reports the
\* socket readable, recvfrom returns a datagram); time advances.  Calling
\* start(), stop() or setAccelerationEnabled() is the user's choice and
\* gets no fairness, but a call once begun runs to completion.
FairSpec ==
    /\ Spec
    /\ WF_vars(StopClose \/ StopUnset \/ StopJoin \/ StopClear \/ SetAccelApply)
    /\ WF_vars(AcceptStep)
    /\ WF_vars(Tick)

-----------------------------------------------------------------------------
(* Properties                                                              *)

TypeOK ==
    /\ running \in BOOLEAN
    /\ serverSocket \in {Sock, NoSock}
    /\ sockOpen \in BOOLEAN
    /\ connections \in Seq([key : Addrs, idle : 0 .. IdleTimeout, accel : BOOLEAN])
    /\ accelerationEnabled \in BOOLEAN
    /\ accelPending \in {NoPending} \cup {{b} : b \in BOOLEAN}
    /\ accelSets \in 0 .. MaxAccelSets
    /\ activeConnections \in 0 .. MaxStarts * Cardinality(Addrs)
    /\ sinceCleanup \in 0 .. CleanupPeriod
    /\ mainPc \in MainPcs
    /\ acceptPc \in AcceptPcs
    /\ starts \in 0 .. MaxStarts
    /\ badFd \in BOOLEAN

\* Once stop() has returned the accept thread has exited and no handler is
\* left: no datagram can be processed by a stopped proxy.  This rests on
\* stop() joining the thread before it clears the table.
StoppedIsQuiescent ==
    mainPc = "stopped" => acceptPc = "none" /\ connections = << >>

\* The lifecycle the caller sees: stop() in progress from its first
\* statement until it returns; the handlers are those in m_connections.
LifecyclePhase ==
    CASE mainPc = "stopped" -> "stopped"
      [] mainPc = "started" -> "running"
      [] OTHER              -> "stopping"

ConnectionKeys == {connections[i].key : i \in DOMAIN connections}

Lifecycle == INSTANCE ProxyLifecycle WITH phase <- LifecyclePhase, conns <- ConnectionKeys

\* start() and stop() with the accept thread implement ProxyLifecycle:
\* handlers appear only for datagrams served between start() and the
\* join in stop(), stop() leaves none behind, and a stop() that has begun
\* returns (the thread sees m_running or the closed socket and leaves
\* acceptLoop, so join() does not hang).
ImplementsLifecycle == Lifecycle!Spec

\* A handler idle past the timeout leaves the table, unless new traffic
\* revives it (spec 8.9), for as long as the accept thread runs:
\* cleanupInactiveConnections must run again within the cleanup period
\* and remove every inactive handler.  Only acceptLoop calls the cleanup,
\* so once a select error has ended acceptLoop, nothing removes handlers
\* until stop() clears them.
IdleConnectionsReaped ==
    \A a \in Addrs :
        (\E i \in DOMAIN connections : connections[i].key = a /\ ~IsActive(connections[i]))
            ~> \/ ~(\E i \in DOMAIN connections : connections[i].key = a /\ ~IsActive(connections[i]))
               \/ acceptPc \in {"done", "none"}

\* Whenever no setAccelerationEnabled() is in progress, every handler runs
\* with the proxy's acceleration setting.  The call writes the flag
\* outside the lock and updates the handlers under it, while acceptLoop
\* builds new handlers from the flag under the lock: a handler created
\* before the write must be caught by the loop, one created after it must
\* read the new value.
HandlersFollowAcceleration ==
    accelPending = NoPending =>
        \A i \in DOMAIN connections : connections[i].accel = accelerationEnabled

\* No client address has two handlers, so the table never holds more
\* handlers than there are source addresses.  acceptLoop looks the client
\* key up and appends a new handler within one hold of m_connectionsMutex;
\* setAccelerationEnabled, the cleanup and stop() only change or remove
\* handlers.
ClientKeysUnique ==
    \A i, j \in DOMAIN connections :
        connections[i].key = connections[j].key => i = j

\* m_activeConnections, which printStats reports, never shows fewer
\* handlers than m_connections holds.  acceptLoop increments it for each
\* new handler.  A cleanup resynchronises it only when it removed a
\* handler.  stop() clears the table without resetting it.  Across a
\* restart it therefore over-reports, and it must never fall below the
\* table.
ActiveCountCoversTable ==
    activeConnections >= Len(connections)

\* The accept thread never hands descriptor -1 to FD_SET or FD_ISSET.
\* stop() writes m_serverSocket = -1 while acceptLoop may be between its
\* m_running check and select(), reading the plain int without a lock.
NoInvalidDescriptorUse ==
    ~badFd
=============================================================================
