------------------------------ MODULE RelaySync ------------------------------
(***************************************************************************)
(* How a revocation travels from the relay that issues it to a client: the *)
(* numbered revocation feed of RemoteRelayServer and syncAuthorityState of *)
(* RemoteRelayTransport (remote-relay.ts), RelaySyncScheduler              *)
(* (relay-sync-scheduler.ts) and its cursor file (durable-relay.ts), all   *)
(* in src/packages/collaboration/openbuddy-network/src/, and the           *)
(* projection into the event log of the runtime                            *)
(* (src/electron/main/collaboration/collaboration-runtime.ts).             *)
(*                                                                         *)
(* Three things are written apart from each other: the state of the relay, *)
(* the cursor of the client, and the client's event log.  Either side may  *)
(* crash between two of the writes, a query may fail, the projection may   *)
(* throw half way.  The presence feed travels in the same synchronization; *)
(* it is here as one more query that may fail.                             *)
(***************************************************************************)
EXTENDS Naturals, Sequences

CONSTANTS
    Identifier,        \* what can be revoked: credentials, capabilities, grants
    MaxCursorWrites,   \* bound on the cursor writes that wait for the disk
    MaxClientCrashes, MaxRelayCrashes

ASSUME BoundsAssumption ==
    /\ MaxCursorWrites \in Nat \ {0}
    /\ MaxClientCrashes \in Nat /\ MaxRelayCrashes \in Nat

VARIABLES
    issued,        \* relay: revocations, the record with sequence k at place k
    relayFile,     \* relay: the revocations in its file
    records,       \* client: authorityRevocations, from its event log
    recordFile,    \* client: those whose event is on disk
    denied,        \* client: the locallyRevoked sets of its transport
    cursorFile,    \* client: revocationSequence in the cursor file
    cursorWrites,  \* client: writeChain of the cursor store
    running,       \* scheduler: started and not stopped
    timer,         \* scheduler: its timer is set
    sync,          \* scheduler: the synchronization under way
    lost,          \* history: sequences a client crash took from the log after
                   \* the cursor had passed them
    burnt,         \* history: sequences a relay crash gave free to be issued again
    clientCrashes, relayCrashes

relayVars == <<issued, relayFile, burnt, relayCrashes>>
logVars == <<records, recordFile, denied, lost, clientCrashes>>
cursorVars == <<cursorFile, cursorWrites>>
vars == <<relayVars, logVars, cursorVars, running, timer, sync>>

Record == [sequence : Nat \ {0}, identifier : Identifier]
Sync == [phase : {"idle", "asked", "answered"}, cursor : Nat, next : Nat,
         found : SUBSET Record]

TypeOK ==
    /\ issued \in Seq(Identifier) /\ relayFile \in Seq(Identifier)
    /\ records \in SUBSET Record /\ recordFile \in SUBSET Record
    /\ denied \in SUBSET Identifier
    /\ cursorFile \in Nat /\ cursorWrites \in Seq(Nat)
    /\ running \in BOOLEAN /\ timer \in BOOLEAN
    /\ sync \in Sync
    /\ lost \in SUBSET Nat /\ burnt \in SUBSET Nat
    /\ clientCrashes \in Nat /\ relayCrashes \in Nat

Sequences(R) == {p.sequence : p \in R}
Identifiers(R) == {p.identifier : p \in R}
Issued(k) == [sequence |-> k, identifier |-> issued[k]]

(* syncOnce: the cursor is read when a synchronization begins.             *)
Asked(cursor) == [phase |-> "asked", cursor |-> cursor, next |-> 0, found |-> {}]
Idle == [phase |-> "idle", cursor |-> 0, next |-> 0, found |-> {}]

(* start() synchronizes at once.                                           *)
Init ==
    /\ issued = <<>> /\ relayFile = <<>> /\ burnt = {} /\ relayCrashes = 0
    /\ records = {} /\ recordFile = {} /\ denied = {} /\ lost = {}
    /\ clientCrashes = 0
    /\ cursorFile = 0 /\ cursorWrites = <<>>
    /\ running = TRUE /\ timer = FALSE /\ sync = Asked(0)

-----------------------------------------------------------------------------
(* The relay.                                                              *)

(* appendRevocation: a new record for what is not revoked yet; persist()   *)
(* queues the write.                                                       *)
Revoke(id) ==
    /\ \A k \in 1 .. Len(issued) : issued[k] # id
    /\ issued' = Append(issued, id)
    /\ UNCHANGED <<relayFile, burnt, relayCrashes, logVars, cursorVars, running,
                   timer, sync>>

(* One of the queued writes of the whole state has replaced the file.      *)
RelaySaves ==
    /\ \E k \in (Len(relayFile) + 1) .. Len(issued) :
           relayFile' = SubSeq(issued, 1, k)
    /\ UNCHANGED <<issued, burnt, relayCrashes, logVars, cursorVars, running,
                   timer, sync>>

(* The relay dies and is built again from its file: revocationSequence too *)
(* is what the file says.                                                  *)
RelayRestarts ==
    /\ relayCrashes < MaxRelayCrashes
    /\ relayCrashes' = relayCrashes + 1
    /\ issued' = relayFile
    /\ burnt' = burnt \union ((Len(relayFile) + 1) .. Len(issued))
    /\ UNCHANGED <<relayFile, logVars, cursorVars, running, timer, sync>>

-----------------------------------------------------------------------------
(* The client.                                                             *)

\* Mutant: the scheduler does not reschedule itself.
TimerForgotten == timer' = FALSE

(* schedule: nothing is scheduled after stop().                            *)
Rescheduled == timer' = running

(* cursorStore.save, which nobody awaits.                                  *)
SaveCursor(n) == cursorWrites' = Append(cursorWrites, n)

(* The timer fires.                                                        *)
SyncStarts ==
    /\ timer /\ sync.phase = "idle" /\ Len(cursorWrites) < MaxCursorWrites
    /\ timer' = FALSE
    /\ sync' = Asked(cursorFile)
    /\ UNCHANGED <<relayVars, logVars, cursorVars, running>>

(* revocations.query: the records after the cursor, and the sequence the   *)
(* relay is at.                                                            *)
Answered ==
    /\ sync.phase = "asked"
    /\ sync' = [phase |-> "answered", cursor |-> sync.cursor, next |-> Len(issued),
                found |-> {Issued(k) : k \in (sync.cursor + 1) .. Len(issued)}]
    /\ UNCHANGED <<relayVars, logVars, cursorVars, running, timer>>

(* The relay cannot be reached, for this query or for the presence query   *)
(* after it: the old cursor is written again, with the error.              *)
SyncFails ==
    /\ sync.phase # "idle"
    /\ sync' = Idle
    /\ SaveCursor(sync.cursor)
    /\ Rescheduled
    /\ UNCHANGED <<relayVars, logVars, cursorFile, running>>

(* applyAuthorityRevocation keeps the record it has of a sequence.         *)
Project(found) ==
    records' = records \union {p \in found : p.sequence \notin Sequences(records)}
Deny(found) == denied' = denied \union Identifiers(found)

(* Both feeds are here: the transport denies what was found, onSync brings *)
(* it into the event log, and the cursor moves to where the relay was.     *)
SyncEnds ==
    /\ sync.phase = "answered"
    /\ Deny(sync.found) /\ Project(sync.found)
    /\ SaveCursor(sync.next)
    /\ sync' = Idle
    /\ Rescheduled
    /\ UNCHANGED <<relayVars, recordFile, lost, clientCrashes, cursorFile, running>>

\* Mutant: the cursor moves although onSync has thrown.
ThrownCursorAhead == sync.next

(* onSync throws after some of the records: as for a failed query.         *)
ThrownCursor == sync.cursor
ProjectionThrows ==
    /\ sync.phase = "answered"
    /\ Deny(sync.found)
    /\ \E k \in sync.cursor .. sync.next :
           Project({p \in sync.found : p.sequence <= k})
    /\ SaveCursor(ThrownCursor)
    /\ sync' = Idle
    /\ Rescheduled
    /\ UNCHANGED <<relayVars, recordFile, lost, clientCrashes, cursorFile, running>>

(* The oldest write of the cursor is done, or has failed with a warning.   *)
CursorWritten ==
    /\ cursorWrites # <<>>
    /\ cursorFile' \in {Head(cursorWrites), cursorFile}
    /\ cursorWrites' = Tail(cursorWrites)
    /\ UNCHANGED <<relayVars, logVars, running, timer, sync>>

(* The append queue of the event log is flushed (module EventLog).         *)
LogFlushed ==
    /\ recordFile # records
    /\ recordFile' = records
    /\ UNCHANGED <<relayVars, records, denied, lost, clientCrashes, cursorVars,
                   running, timer, sync>>

(* stopRelaySync.                                                          *)
Stop ==
    /\ running
    /\ running' = FALSE /\ timer' = FALSE
    /\ UNCHANGED <<relayVars, logVars, cursorVars, sync>>

(* The client dies.  The next runtime replays its log, hands what it finds *)
(* to the transport, and starts a scheduler on the cursor in the file.     *)
ClientRestarts ==
    /\ clientCrashes < MaxClientCrashes
    /\ clientCrashes' = clientCrashes + 1
    /\ records' = recordFile
    /\ denied' = Identifiers(recordFile)
    /\ lost' = lost \union {k \in Sequences(records) \ Sequences(recordFile) :
                                k <= cursorFile}
    /\ cursorWrites' = <<>>
    /\ running' = TRUE /\ timer' = FALSE
    /\ sync' = Asked(cursorFile)
    /\ UNCHANGED <<relayVars, recordFile, cursorFile>>

Next ==
    \/ \E id \in Identifier : Revoke(id)
    \/ RelaySaves \/ RelayRestarts
    \/ SyncStarts \/ Answered \/ SyncFails \/ SyncEnds \/ ProjectionThrows
    \/ CursorWritten \/ LogFlushed \/ Stop \/ ClientRestarts

Spec == Init /\ [][Next]_vars

(* Timers fire and writes settle.  The relay answers again and again,      *)
(* though any number of queries may fail between two answers.              *)
FairSpec ==
    /\ Spec
    /\ WF_vars(SyncStarts) /\ WF_vars(CursorWritten)
    /\ SF_vars(Answered) /\ SF_vars(SyncEnds)

-----------------------------------------------------------------------------
(* Every revocation the cursor has passed, in the file or on its way to    *)
(* the file, is in the client's projection, or a crash took it from there; *)
(* the projection has it under the identifier the relay issued it for,     *)
(* unless the sequence was burnt; and whatever is projected is denied.     *)
(* "does not advance the cursor when the local projection fails"           *)
(* (relay-sync-scheduler.test.ts:38).                                      *)
Passed(n) == \A k \in 1 .. n : k \in Sequences(records) \/ k \in lost
Genuine(p) ==
    \/ p.sequence \in burnt
    \/ p.sequence <= Len(issued) /\ issued[p.sequence] = p.identifier
NothingSkipped ==
    /\ Passed(cursorFile)
    /\ \A i \in 1 .. Len(cursorWrites) : Passed(cursorWrites[i])
    /\ \A p \in records : Genuine(p)
    /\ Identifiers(records) \subseteq denied

(* A revocation that stays in the relay reaches a client that is not       *)
(* stopped: excepted are a sequence a relay crash had burnt, and one a     *)
(* client crash took from the log behind the cursor.                       *)
IssuedAs(k, id) == k \in 1 .. Len(issued) /\ issued[k] = id
RevocationArrives ==
    \A k \in 1 .. MaxRelayCrashes + 2, id \in Identifier :
        (IssuedAs(k, id) /\ running) ~>
            \/ id \in denied
            \/ ~running
            \/ ~IssuedAs(k, id)
            \/ k \in burnt \union lost
=============================================================================
