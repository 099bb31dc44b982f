--------------------------- MODULE SessionTickets ---------------------------
(***************************************************************************)
(* The keys of TLS session tickets (ssl/session_tickets.go).  A manager    *)
(* loads its keys, hands a copy to the TLS configuration once              *)
(* (ssl.go:149-158) and rotates them on a timer; the file is rewritten by  *)
(* every rotation, truncated first.  Keys are numbers in the order of      *)
(* their making.  crypto/tls (external) encrypts with the first key it was *)
(* given and decrypts with any of them.  A reload makes a new manager and  *)
(* stops the old one afterwards, when its server has drained; a server     *)
(* started alone never stops its own (server.go:907-915).                  *)
(***************************************************************************)
EXTENDS Integers, SequencesExt

CONSTANTS
    RetainKeys,     \* SessionTicketsConfig.RetainKeys
    MaxKeys,        \* bound: keys made
    MaxManagers     \* bound: managers made, over all reloads and restarts

ASSUME TicketsAssumption == RetainKeys \in Nat \ {0, 1} /\ MaxKeys \in Nat /\ MaxManagers \in Nat

VARIABLES
    managers,   \* of this process, the serving one last: [keys, live, started, fired, saving]
    keyFile,    \* the keys in the file
    keysMade,
    booted,     \* managers made
    ticket,     \* a ticket some client holds: [key, rotations], key 0 if none
    clean       \* FALSE once a write failed or was cut off, an older manager rotated, or
                \* a manager was made during a write

ticketVars == <<managers, keyFile, keysMade, booted, ticket, clean>>

Serving == managers[Len(managers)]
Saving == \E i \in DOMAIN managers : managers[i].saving

\* The newest RetainKeys of them
Retained(keys) == IF Len(keys) > RetainKeys THEN SubSeq(keys, Len(keys) - RetainKeys + 1, Len(keys))
                  ELSE keys

Manager(keys) == [keys |-> keys, live |-> keys, started |-> TRUE, fired |-> FALSE, saving |-> FALSE]

TicketsInit ==
    /\ managers = <<>> /\ keyFile = <<>> /\ keysMade = 0 /\ booted = 0
    /\ ticket = [key |-> 0, rotations |-> 0] /\ clean = TRUE

\* NewSessionTicketManager: loadOrGenerateKey, then ApplyToTLSConfig and Start.
\* A file too short for one key (one being written, too) is replaced by a fresh
\* key; if that cannot be saved there is no manager, and crypto/tls makes keys of
\* its own, which this module leaves out.
NewManager(others) ==
    /\ booted < MaxManagers /\ booted' = booted + 1
    /\ clean' = (clean /\ ~Saving)
    /\ \/ /\ keyFile # <<>> /\ managers' = Append(others, Manager(Retained(keyFile)))
          /\ UNCHANGED <<keyFile, keysMade>>
       \/ /\ keyFile = <<>> /\ keysMade < MaxKeys /\ keysMade' = keysMade + 1
          /\ keyFile' = <<keysMade + 1>> /\ managers' = Append(others, Manager(keyFile'))
    /\ UNCHANGED ticket

\* A reload, perhaps while the file is being written; the old manager goes on.
Reload == managers # <<>> /\ NewManager(managers)

\* Stop, which waits for a rotation in progress, but not for a timer that has fired.
Stop(i) ==
    /\ managers[i].started /\ ~managers[i].saving
    /\ managers' = [managers EXCEPT ![i].started = FALSE]
    /\ UNCHANGED <<keyFile, keysMade, booted, ticket, clean>>

Restart == ~Saving /\ NewManager(<<>>)

\* The process ends while a file is being written: what is there of it stays.
Crash ==
    /\ Saving /\ clean' = FALSE
    /\ \E i \in DOMAIN managers : managers[i].saving /\
         \E n \in 0..Len(managers[i].keys) : keyFile' = SubSeq(managers[i].keys, 1, n)
    /\ managers' = <<>> /\ UNCHANGED <<keysMade, booted, ticket>>

\* Mutant of Rotated: one key too few is retained.
RotatedEarly(keys) == Retained(Tail(keys) \o <<keysMade + 1>>)

\* RotateKey, up to the file
Rotated(keys) == Retained(Append(keys, keysMade + 1))

\* The timer of scheduleRotationLocked fires; it was set when the last rotation
\* was over.
Fire(i) ==
    /\ managers[i].started /\ ~managers[i].fired /\ ~managers[i].saving
    /\ managers' = [managers EXCEPT ![i].fired = TRUE]
    /\ UNCHANGED <<keyFile, keysMade, booted, ticket, clean>>

\* Its callback sees that stopCh is closed, or it was past that check when the
\* manager was stopped and rotates once more: RotateKey, and saveKeys opens the
\* file, which empties it, unless that fails.  The keys of the TLS configuration
\* stay as they are.
SeesStop(i) ==
    /\ managers[i].fired /\ ~managers[i].started
    /\ managers' = [managers EXCEPT ![i].fired = FALSE]
    /\ UNCHANGED <<keyFile, keysMade, booted, ticket, clean>>

RotateKey(i, saved) ==
    /\ managers[i].fired /\ keysMade < MaxKeys
    /\ keysMade' = keysMade + 1
    /\ managers' = [managers EXCEPT ![i].keys = Rotated(@), ![i].fired = FALSE, ![i].saving = saved]
    /\ keyFile' = IF saved THEN <<>> ELSE keyFile
    /\ clean' = (clean /\ saved /\ i = Len(managers))
    /\ ticket' = IF ticket.key = 0 THEN ticket ELSE [ticket EXCEPT !.rotations = @ + 1]
    /\ UNCHANGED booted

\* saveKeys writes
Saved(i) ==
    /\ managers[i].saving /\ keyFile' = managers[i].keys
    /\ managers' = [managers EXCEPT ![i].saving = FALSE]
    /\ UNCHANGED <<keysMade, booted, ticket, clean>>

\* A client is given a ticket by the serving manager (external: crypto/tls).
Issue ==
    /\ managers # <<>> /\ Serving.live # <<>> /\ ticket.key = 0
    /\ ticket' = [key |-> Serving.live[1], rotations |-> 0]
    /\ UNCHANGED <<managers, keyFile, keysMade, booted, clean>>

TicketsNext ==
    \/ Reload \/ Restart \/ Crash \/ Issue
    \/ \E i \in DOMAIN managers :
         \/ Stop(i) \/ Fire(i) \/ SeesStop(i) \/ Saved(i)
         \/ \E saved \in BOOLEAN : RotateKey(i, saved)

TicketsSpec == TicketsInit /\ [][TicketsNext]_ticketVars

-----------------------------------------------------------------------------
Increasing(keys) == \A i, j \in DOMAIN keys : i < j => keys[i] < keys[j]

Rotations(m) == Last(m.keys) - Last(m.live)

\* A manager has at least one key and no more than it retains, in the order of
\* their making.  And while nothing went wrong with the file and only the newest
\* manager rotates, a restart accepts all tickets of the process it follows, and a
\* reload those of the server it replaces, as long as the keys that one began with
\* and its rotations do not exceed RetainKeys - not for RetainKeys rotations: it is
\* the oldest key that encrypts, so that with a full file one rotation is enough
\* (session_tickets.go:188-238, 292-345).
TicketsSurvive ==
    /\ \A i \in DOMAIN managers :
         LET m == managers[i] IN
         /\ Len(m.keys) \in 1..RetainKeys /\ Increasing(m.keys)
         /\ m.live # <<>> /\ Increasing(m.live)
    /\ (clean /\ managers # <<>> /\ ~Saving /\ Len(Serving.live) + Rotations(Serving) <= RetainKeys)
         => Range(Serving.live) \subseteq Range(keyFile)

\* What session_tickets.go:184 says: a new key encrypts new tickets and the old
\* ones still decrypt the tickets that are out: with RetainKeys keys, a ticket is
\* accepted until RetainKeys rotations after it.
IssuedDecrypt ==
    clean /\ ticket.key # 0 /\ managers # <<>> /\ ticket.rotations < RetainKeys
        => ticket.key \in Range(Serving.live)
=============================================================================
