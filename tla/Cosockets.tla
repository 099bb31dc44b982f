----------------------------- MODULE Cosockets -----------------------------
(***************************************************************************)
(* A TCP socket of a script and the manager of its operations:             *)
(* lua/api_socket_tcp.go and lua/socket_manager.go.  One script calls the  *)
(* methods, one goroutine works on each operation, and the manager's       *)
(* clean-up ends operations that are overdue.  Sockets share nothing but   *)
(* the manager's map, so one of them is enough.                            *)
(***************************************************************************)
EXTENDS Integers, FiniteSets

CONSTANT MaxOps    \* bound: the operations of the socket

ASSUME SocketAssumption == MaxOps \in Nat \ {0}

Ops == 1..MaxOps

VARIABLES
    socket,      \* [state, conn, closed]: conn is whether s.conn is set
    link,        \* the TCP connection: "none", "open" or "shut"
    currentOp,   \* an operation; 0 is nil
    ops,         \* per operation: [kind, pc] of its goroutine
    operations,  \* the manager's map
    completed,   \* the operations whose Done is closed
    overdue,     \* the operations that are older than their timeout
    activeOps,      \* ActiveOperations
    sweep        \* what a clean-up has collected and not completed yet

socketVars ==
    <<socket, link, currentOp, ops, operations, completed, overdue, activeOps, sweep>>
managerVars == <<operations, completed, overdue, activeOps, sweep>>

SocketInit ==
    /\ socket = [state |-> "idle", conn |-> FALSE, closed |-> FALSE]
    /\ link = "none" /\ currentOp = 0
    /\ ops = [o \in Ops |-> [kind |-> "none", pc |-> "none"]]
    /\ operations = {} /\ completed = {} /\ overdue = {} /\ activeOps = 0 /\ sweep = {}

setState(s) == socket' = [socket EXCEPT !.state = s]
OpGoto(o, label) == ops' = [ops EXCEPT ![o].pc = label]

\* StartOperation, and the operation becomes the socket's current one.
StartOperation(o, kind) ==
    /\ ops[o].pc = "none" /\ \A p \in 1..(o - 1) : ops[p].pc # "none"
    /\ ops' = [ops EXCEPT ![o] = [kind |-> kind, pc |-> "io"]]
    /\ operations' = operations \cup {o} /\ activeOps' = activeOps + 1
    /\ currentOp' = o /\ UNCHANGED <<completed, overdue, sweep>>

-----------------------------------------------------------------------------
(* The script *)

\* ConnectAsync, connectWithOp.  Nobody else works on an idle socket.
Connect(o) ==
    /\ currentOp = 0 /\ socket.state = "idle" /\ UNCHANGED link
    /\ setState("connecting") /\ StartOperation(o, "connect")

\* The address is a literal one and private.
ConnectDenied ==
    /\ currentOp = 0 /\ socket.state = "idle" /\ setState("error")
    /\ UNCHANGED <<link, currentOp, ops, managerVars>>

Usable == socket.state = "connected" /\ socket.conn

SendAsync(o) == Usable /\ setState("sending") /\ StartOperation(o, "send") /\ UNCHANGED link
ReceiveAsync(o) ==
    Usable /\ setState("receiving") /\ StartOperation(o, "receive") /\ UNCHANGED link

\* receive with a pattern, receiveuntil: the script waits for the connection;
\* data and the end of the stream leave the socket as it was.
ReceiveSync ==
    /\ Usable /\ setState("error")
    /\ UNCHANGED <<link, currentOp, ops, managerVars>>

\* Close: the script's, or the collector's for a socket it has forgotten
Close ==
    /\ ~socket.closed
    /\ IF currentOp # 0 /\ currentOp \notin completed
         THEN /\ currentOp' = 0
              /\ operations' = operations \ {currentOp}
              /\ completed' = IF currentOp \in operations
                                THEN completed \cup {currentOp} ELSE completed
              /\ activeOps' = activeOps - Cardinality({currentOp} \cap operations)
         ELSE UNCHANGED <<currentOp, operations, completed, activeOps>>
    /\ link' = IF socket.conn THEN "shut" ELSE link
    /\ socket' = [state |-> "closed", conn |-> FALSE, closed |-> TRUE]
    /\ UNCHANGED <<ops, overdue, sweep>>

-----------------------------------------------------------------------------
(* The goroutine of an operation *)

\* The name, or the address it stands for, is refused, or the dial fails; a
\* transfer fails, for one because the connection was closed under it.
IOFails(o) ==
    /\ ops[o].pc = "io" /\ OpGoto(o, "complete") /\ setState("error")
    /\ UNCHANGED <<link, currentOp, managerVars>>

DialSucceeds(o) ==
    /\ ops[o].pc = "io" /\ ops[o].kind = "connect" /\ OpGoto(o, "complete")
    /\ link' = "open"
    /\ socket' = [socket EXCEPT !.conn = TRUE, !.state = "connected"]
    /\ UNCHANGED <<currentOp, managerVars>>

\* Data, the end of the stream, or a deadline that cannot be set.
TransferEnds(o) ==
    /\ ops[o].pc = "io" /\ ops[o].kind # "connect" /\ OpGoto(o, "complete")
    /\ UNCHANGED <<socket, link, currentOp, managerVars>>

\* CompleteOperation removes the operation from the map ...
Removes(o) ==
    /\ operations' = operations \ {o}
    /\ UNCHANGED <<socket, link, currentOp, completed, overdue, activeOps>>

OpRemoved(o) ==
    /\ ops[o].pc = "complete" /\ Removes(o) /\ UNCHANGED sweep
    /\ OpGoto(o, IF o \in operations THEN "signal" ELSE "unset")

\* ... and then whoever removed it completes it.
Signals(o) == completed' = completed \cup {o} /\ activeOps' = activeOps - 1

OpSignals(o) ==
    /\ ops[o].pc = "signal" /\ OpGoto(o, "unset") /\ Signals(o)
    /\ UNCHANGED <<socket, link, currentOp, operations, overdue, sweep>>

\* The deferred calls: whatever the current operation is by now ...
OpUnset(o) ==
    /\ ops[o].pc = "unset" /\ currentOp' = 0
    /\ OpGoto(o, IF ops[o].kind = "connect" THEN "end" ELSE "reset")
    /\ UNCHANGED <<socket, link, managerVars>>

\* ... and whatever the state is.
OpReset(o) ==
    /\ ops[o].pc = "reset" /\ setState("connected") /\ OpGoto(o, "end")
    /\ UNCHANGED <<link, currentOp, managerVars>>

-----------------------------------------------------------------------------
(* The clean-up *)

Overdue(o) ==
    /\ o \in operations /\ o \notin overdue /\ overdue' = overdue \cup {o}
    /\ UNCHANGED <<socket, link, currentOp, ops, operations, completed, activeOps, sweep>>

Late == {o \in operations : o \notin completed /\ o \in overdue}

Collect ==
    /\ sweep = {} /\ Late # {} /\ sweep' = {<<o, "found">> : o \in Late}
    /\ UNCHANGED <<socket, link, currentOp, ops, operations, completed, overdue, activeOps>>

SweepRemoves(o) ==
    /\ <<o, "found">> \in sweep /\ Removes(o) /\ UNCHANGED ops
    /\ sweep' = (sweep \ {<<o, "found">>})
                  \cup IF o \in operations THEN {<<o, "gone">>} ELSE {}

SweepSignals(o) ==
    /\ <<o, "gone">> \in sweep /\ sweep' = sweep \ {<<o, "gone">>} /\ Signals(o)
    /\ UNCHANGED <<socket, link, currentOp, ops, operations, overdue>>

SweepSteps == Collect \/ \E o \in Ops : SweepRemoves(o) \/ SweepSignals(o)

OpTail(o) == OpRemoved(o) \/ OpSignals(o) \/ OpUnset(o) \/ OpReset(o)

SocketNext ==
    \/ ConnectDenied \/ ReceiveSync \/ Close \/ SweepSteps
    \/ \E o \in Ops :
          \/ Connect(o) \/ SendAsync(o) \/ ReceiveAsync(o)
          \/ IOFails(o) \/ DialSucceeds(o) \/ TransferEnds(o)
          \/ OpTail(o) \/ Overdue(o)

(* The clean-up runs every 30 seconds and goroutines are scheduled; the peer
   need not answer, not even within a timeout (0 is none for a dial). *)
SocketFairness ==
    /\ WF_socketVars(SweepSteps)
    /\ \A o \in Ops : WF_socketVars(Overdue(o)) /\ WF_socketVars(OpTail(o))

SocketSpec == SocketInit /\ [][SocketNext]_socketVars /\ SocketFairness

-----------------------------------------------------------------------------
\* The script, the goroutine, close and the clean-up may all complete one
\* operation: ActiveOperations counts exactly those that nobody has completed
\* (socket_manager.go:303-320,367).  And a connection is used by one transfer at
\* a time, although every goroutine ends by setting the state to connected
\* (api_socket_tcp.go:270,364).
SocketOpsExact ==
    /\ activeOps = Cardinality({o \in Ops : ops[o].pc # "none"} \ completed)
    /\ operations \cap completed = {}
    /\ Cardinality({o \in Ops : ops[o].kind # "connect" /\ ops[o].pc \notin {"none", "end"}}) <= 1

\* Nobody waits for an operation.
OpsDone == operations \subseteq completed
=============================================================================
