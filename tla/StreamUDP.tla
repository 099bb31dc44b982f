----------------------------- MODULE StreamUDP -----------------------------
(***************************************************************************)
(* The life of one udpServer (internal/stream/stream.go): the serve loop,  *)
(* the sessions it creates, one per client address, the goroutine each     *)
(* session runs for the answers of its backend, the cleanup ticker and the *)
(* part of Server.Stop that ends it all.                                   *)
(*                                                                         *)
(* A session object that is closed and that no goroutine uses any more is  *)
(* garbage, and its identifier may stand for a new object.                 *)
(***************************************************************************)
EXTENDS Integers, FiniteSets

CONSTANTS Clients, Sessions, UdpTargets, UdpNone

ASSUME UDPAssumption ==
    /\ IsFiniteSet(Sessions)
    /\ UdpNone \notin Clients /\ UdpNone \notin Sessions /\ UdpNone \notin UdpTargets

VARIABLES
    sessions,                   \* per client: the session in the map, or None
    open, client, udpTarget,    \* per session: not yet closed; whose; to where
    idle,                       \* per session: time.Since(lastActive) >= timeout
    reader,                     \* per session: the goroutine reading answers
    udpConns, udpHealthy,       \* per target
    serve, udpCur, curSession,  \* the serve loop and its local variables
    cleaner,                    \* startCleanupTicker is running
    stopped                     \* Stop closed stopCh, conn and the sessions

udpSvars == <<sessions, open, client, udpTarget, idle, udpConns>>
udpVars == <<udpSvars, reader, udpHealthy, serve, udpCur, curSession, cleaner, stopped>>

UdpInit ==
    /\ sessions = [c \in Clients |-> UdpNone]
    /\ open = [s \in Sessions |-> FALSE]
    /\ client = [s \in Sessions |-> UdpNone]
    /\ udpTarget = [s \in Sessions |-> UdpNone]
    /\ idle = [s \in Sessions |-> FALSE]
    /\ reader = [s \in Sessions |-> "none"]
    /\ udpConns = [t \in UdpTargets |-> 0]
    /\ udpHealthy = [t \in UdpTargets |-> TRUE]
    /\ serve = "read" /\ udpCur = UdpNone /\ curSession = UdpNone
    /\ cleaner = TRUE /\ stopped = FALSE

OpenOn(t) == {s \in Sessions : open[s] /\ udpTarget[s] = t}

\* close of every session in S, each under its closeOnce
CloseAll(S) ==
    /\ open' = [s \in Sessions |-> open[s] /\ s \notin S]
    /\ udpConns' = [t \in UdpTargets |-> udpConns[t] - Cardinality(OpenOn(t) \cap S)]

\* Mutant of RemoveSession: the session leaves the map and stays open.
RemoveSessionOnly(c) ==
    /\ sessions' = [sessions EXCEPT ![c] = UdpNone]
    /\ UNCHANGED <<open, udpConns, client, udpTarget, idle>>

\* removeSession: whichever session the client has now
RemoveSession(c) ==
    /\ CloseAll({sessions[c]} \ {UdpNone})
    /\ sessions' = [sessions EXCEPT ![c] = UdpNone]
    /\ UNCHANGED <<client, udpTarget, idle>>

-----------------------------------------------------------------------------
(* serve *)

\* ReadFromUDP returned a datagram of client c
Receive(c) ==
    /\ serve = "read" /\ ~stopped
    /\ serve' = "lookup" /\ udpCur' = c
    /\ UNCHANGED <<udpSvars, reader, udpHealthy, curSession, cleaner, stopped>>

\* getSession, under the read lock
GetSession ==
    /\ serve = "lookup"
    /\ IF sessions[udpCur] # UdpNone
       THEN /\ curSession' = sessions[udpCur] /\ serve' = "write"
            /\ idle' = [idle EXCEPT ![sessions[udpCur]] = FALSE]
       ELSE serve' = "create" /\ UNCHANGED <<curSession, idle>>
    /\ UNCHANGED <<sessions, open, client, udpTarget, udpConns, reader, udpHealthy, udpCur,
                   cleaner, stopped>>

Fresh == {s \in Sessions : reader[s] = "none" /\ ~open[s]}

\* The rest of getOrCreateSession, under the write lock.  No other goroutine
\* creates sessions, so the second look finds none.
CreateSession ==
    /\ serve = "create"
    /\ \E s \in Fresh, t \in UdpTargets :
          /\ udpHealthy[t]
          /\ sessions' = [sessions EXCEPT ![udpCur] = s]
          /\ open' = [open EXCEPT ![s] = TRUE]
          /\ client' = [client EXCEPT ![s] = udpCur]
          /\ udpTarget' = [udpTarget EXCEPT ![s] = t]
          /\ idle' = [idle EXCEPT ![s] = FALSE]
          /\ reader' = [reader EXCEPT ![s] = "read"]
          /\ udpConns' = [udpConns EXCEPT ![t] = @ + 1]
          /\ curSession' = s
    /\ serve' = "write"
    /\ UNCHANGED <<udpHealthy, udpCur, cleaner, stopped>>

\* no healthy target, or the dial failed: the datagram is dropped
CreateFails ==
    /\ serve = "create"
    /\ serve' = "read" /\ udpCur' = UdpNone
    /\ UNCHANGED <<udpSvars, reader, udpHealthy, curSession, cleaner, stopped>>

\* targetConn.Write, which fails on a closed session
WriteSucceeds ==
    /\ serve = "write" /\ open[curSession]
    /\ serve' = "read" /\ udpCur' = UdpNone /\ curSession' = UdpNone
    /\ UNCHANGED <<udpSvars, reader, udpHealthy, cleaner, stopped>>

WriteFails ==
    /\ serve = "write"
    /\ RemoveSession(udpCur)
    /\ serve' = "read" /\ udpCur' = UdpNone /\ curSession' = UdpNone
    /\ UNCHANGED <<reader, udpHealthy, cleaner, stopped>>

ServeEnds ==
    /\ serve = "read" /\ stopped
    /\ serve' = "done"
    /\ UNCHANGED <<udpSvars, reader, udpHealthy, udpCur, curSession, cleaner, stopped>>

Serve == (\E c \in Clients : Receive(c)) \/ GetSession \/ CreateSession
         \/ CreateFails \/ WriteSucceeds \/ WriteFails \/ ServeEnds

-----------------------------------------------------------------------------
(* handleBackendResponse *)

\* An answer of the backend: the session is active again
ReadAnswer(s) ==
    /\ reader[s] = "read" /\ open[s]
    /\ idle' = [idle EXCEPT ![s] = FALSE]
    /\ reader' = [reader EXCEPT ![s] = "reply"]
    /\ UNCHANGED <<sessions, open, client, udpTarget, udpConns, udpHealthy, serve, udpCur,
                   curSession, cleaner, stopped>>

\* The deadline passed on an idle session.  On one that is not, the loop goes
\* round.
ReadTimesOut(s) ==
    /\ reader[s] = "read" /\ open[s] /\ idle[s]
    /\ reader' = [reader EXCEPT ![s] = "remove"]
    /\ UNCHANGED <<udpSvars, udpHealthy, serve, udpCur, curSession, cleaner, stopped>>

\* Mutant of ReadFails: any error is treated as a deadline.
ReadFailsRetries(s) ==
    /\ reader[s] = "read" /\ open[s] /\ idle[s]
    /\ reader' = [reader EXCEPT ![s] = "remove"]
    /\ UNCHANGED <<udpSvars, udpHealthy, serve, udpCur, curSession, cleaner, stopped>>

\* Another error: the connection was closed under the read, or refused
ReadFails(s) ==
    /\ reader[s] = "read"
    /\ reader' = [reader EXCEPT ![s] = "remove"]
    /\ UNCHANGED <<udpSvars, udpHealthy, serve, udpCur, curSession, cleaner, stopped>>

\* WriteToUDP to the client
Reply(s) ==
    /\ reader[s] = "reply" /\ ~stopped
    /\ reader' = [reader EXCEPT ![s] = "read"]
    /\ UNCHANGED <<udpSvars, udpHealthy, serve, udpCur, curSession, cleaner, stopped>>

ReplyFails(s) ==
    /\ reader[s] = "reply"
    /\ reader' = [reader EXCEPT ![s] = "remove"]
    /\ UNCHANGED <<udpSvars, udpHealthy, serve, udpCur, curSession, cleaner, stopped>>

\* removeSession(sess.clientAddr), and the goroutine returns.  Its identifier
\* is reused once serve holds no pointer to it either.
ReaderRemoves(s) ==
    /\ reader[s] = "remove"
    /\ RemoveSession(client[s])
    /\ reader' = [reader EXCEPT ![s] = IF curSession = s THEN "held" ELSE "none"]
    /\ UNCHANGED <<udpHealthy, serve, udpCur, curSession, cleaner, stopped>>

Collect(s) ==
    /\ reader[s] = "held" /\ curSession # s
    /\ reader' = [reader EXCEPT ![s] = "none"]
    /\ UNCHANGED <<udpSvars, udpHealthy, serve, udpCur, curSession, cleaner, stopped>>

Reader(s) == ReadAnswer(s) \/ ReadTimesOut(s) \/ ReadFails(s) \/ Reply(s)
             \/ ReplyFails(s) \/ ReaderRemoves(s) \/ Collect(s)

-----------------------------------------------------------------------------
(* Cleanup, Stop and the environment *)

\* cleanupExpiredSessions, under the write lock
Cleanup ==
    /\ cleaner
    /\ LET expired == {s \in Sessions : idle[s] /\ \E c \in Clients : sessions[c] = s}
       IN  /\ expired # {}
           /\ CloseAll(expired)
           /\ sessions' = [c \in Clients |-> IF sessions[c] \in expired
                                             THEN UdpNone ELSE sessions[c]]
    /\ UNCHANGED <<client, udpTarget, idle, reader, udpHealthy, serve, udpCur, curSession,
                   cleaner, stopped>>

CleanerEnds ==
    /\ cleaner /\ stopped
    /\ cleaner' = FALSE
    /\ UNCHANGED <<udpSvars, reader, udpHealthy, serve, udpCur, curSession, stopped>>

\* Server.Stop: running, stopCh, conn.Close, closeSessions
UdpStop ==
    /\ ~stopped
    /\ stopped' = TRUE
    /\ CloseAll({sessions[c] : c \in Clients} \ {UdpNone})
    /\ sessions' = [c \in Clients |-> UdpNone]
    /\ UNCHANGED <<client, udpTarget, idle, reader, udpHealthy, serve, udpCur, curSession,
                   cleaner>>

\* Nothing was sent or received for the timeout
BecomesIdle(s) ==
    /\ open[s] /\ ~idle[s]
    /\ idle' = [idle EXCEPT ![s] = TRUE]
    /\ UNCHANGED <<sessions, open, client, udpTarget, udpConns, reader, udpHealthy, serve,
                   udpCur, curSession, cleaner, stopped>>

\* the health checker, or a TCP connection of the same upstream
HealthChanges(t) ==
    /\ udpHealthy' = [udpHealthy EXCEPT ![t] = ~@]
    /\ UNCHANGED <<udpSvars, reader, serve, udpCur, curSession, cleaner, stopped>>

UdpNext ==
    \/ Serve \/ Cleanup \/ CleanerEnds \/ UdpStop
    \/ \E s \in Sessions : Reader(s) \/ BecomesIdle(s)
    \/ \E t \in UdpTargets : HealthChanges(t)

UdpSpec == UdpInit /\ [][UdpNext]_udpVars

\* The goroutines run and time passes.  Nobody need ever send, stop or tick.
UdpFairness ==
    /\ WF_udpVars(Serve) /\ WF_udpVars(CleanerEnds)
    /\ \A s \in Sessions : WF_udpVars(Reader(s)) /\ WF_udpVars(BecomesIdle(s))

UdpFairSpec == UdpSpec /\ UdpFairness

-----------------------------------------------------------------------------
(* Properties *)

UdpTypeOK ==
    /\ sessions \in [Clients -> Sessions \cup {UdpNone}]
    /\ open \in [Sessions -> BOOLEAN] /\ idle \in [Sessions -> BOOLEAN]
    /\ client \in [Sessions -> Clients \cup {UdpNone}]
    /\ udpTarget \in [Sessions -> UdpTargets \cup {UdpNone}]
    /\ reader \in [Sessions -> {"none", "read", "reply", "remove", "held"}]
    /\ udpConns \in [UdpTargets -> Nat] /\ udpHealthy \in [UdpTargets -> BOOLEAN]
    /\ serve \in {"read", "lookup", "create", "write", "done"}
    /\ udpCur \in Clients \cup {UdpNone} /\ curSession \in Sessions \cup {UdpNone}
    /\ cleaner \in BOOLEAN /\ stopped \in BOOLEAN

\* The count least_conn decides by is exact, although the reader, serve, the
\* cleanup and Stop may all close the same session (stream.go:921-930).
SessionsCounted ==
    UdpTypeOK /\ \A t \in UdpTargets : udpConns[t] = Cardinality(OpenOn(t))

\* The map and the open sessions agree: a session in the map is open, belongs
\* to its client and has a goroutine that will notice its end, and no open
\* session is outside the map, where nothing could close it
\* (stream.go:867,900,1068).
MapOwnsSessions ==
    \A s \in Sessions :
        /\ open[s] <=> \E c \in Clients : sessions[c] = s
        /\ open[s] => sessions[client[s]] = s
        /\ open[s] => reader[s] \in {"read", "reply", "remove"}

\* The sessions are accounted for, whoever of the reader, serve, the cleanup
\* and Stop closes one, and whoever else does it at the same time.
SessionsExact == SessionsCounted /\ MapOwnsSessions

\* After Stop every session ends, also one that serve created from a datagram
\* it had read before the socket was closed (stream.go:951-972,1012).
StopReleases ==
    <>[](stopped => \A s \in Sessions : ~open[s] /\ reader[s] \in {"none", "held"})

\* stream.go:725: a session is cleaned up after its idle timeout.  One that is
\* not idle goes only when its own backend or client failed, or at Stop.
ActiveSessionKept ==
    [][\A s \in Sessions :
          open[s] /\ ~open'[s] =>
             \/ idle[s] \/ reader[s] = "remove" \/ WriteFails \/ UdpStop]_udpVars
=============================================================================
