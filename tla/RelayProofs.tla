----------------------------- MODULE RelayProofs -----------------------------
(***************************************************************************)
(* The requester at the relay: the synchronization of revocations and the  *)
(* delivery of awarded tasks.                                              *)
(*                                                                         *)
(* NothingSkipped of RelaySync, for any identifiers and bounds.  It is not *)
(* inductive: the cursor is written long after the query it comes from, so *)
(* IndInv must also say what the synchronization under way has found and   *)
(* where it began, that the client's log on disk is a part of the one in   *)
(* memory, and that the relay's file is where the relay was.               *)
(*                                                                         *)
(* Every safety property of RelayOutbox and NetworkDelivery, for any tasks *)
(* and calls.  What a call does when its flush has ended rests on what was *)
(* true when it began, so DeliveryInv follows an envelope on its way: what *)
(* the jobs have still to flush, what they have found, and what memory,    *)
(* file and waiting saves keep.                                            *)
(***************************************************************************)
EXTENDS RelaySync, NetworkDelivery, SequenceTheorems, WellFoundedInduction, TLAPS

\* The relay's file is a beginning of what was issued.
FileIsPrefix ==
    /\ Len(relayFile) <= Len(issued)
    /\ \A k \in 1 .. Len(relayFile) : relayFile[k] = issued[k]

\* The synchronization under way began at a cursor that had skipped nothing,
\* and has found every sequence from there to where the relay was.
SyncIsComplete ==
    /\ sync.phase # "idle" => Passed(sync.cursor)
    /\ sync.phase = "answered" =>
           \A k \in 1 .. sync.next : k <= sync.cursor \/ k \in Sequences(sync.found)
    /\ \A p \in sync.found : Genuine(p)

IndInv ==
    /\ TypeOK
    /\ NothingSkipped
    /\ SyncIsComplete
    /\ FileIsPrefix
    /\ recordFile \subseteq records

-----------------------------------------------------------------------------
\* A projection adds records that were found, and every sequence of them.
LEMMA ProjectAdds ==
    ASSUME NEW found \in SUBSET Record, TypeOK, Project(found)
    PROVE  /\ records \subseteq records'
           /\ records' \subseteq records \union found
           /\ Sequences(found) \subseteq Sequences(records')
           /\ records' \in SUBSET Record
BY DEF Project, Sequences, TypeOK

\* More records have passed at least as much.
LEMMA PassedGrows ==
    ASSUME NEW n \in Nat, Passed(n), records \subseteq records', lost \subseteq lost'
    PROVE  Passed(n)'
BY DEF Passed, Sequences

\* What is genuine stays so while the relay only appends.
LEMMA GenuineStays ==
    ASSUME TypeOK, NEW p \in Record, Genuine(p), burnt \subseteq burnt',
           issued' = issued \/ \E id \in Identifier : issued' = Append(issued, id)
    PROVE  Genuine(p)'
BY DEF Genuine, TypeOK, Record

\* A record of the relay is a record, and genuine.
LEMMA IssuedIsGenuine ==
    ASSUME TypeOK, NEW k \in 1 .. Len(issued)
    PROVE  Issued(k) \in Record /\ Genuine(Issued(k))
BY DEF TypeOK, Issued, Record, Genuine

\* An idle synchronization is complete; one that begins is if its cursor is.
LEMMA IdleIsComplete == Idle \in Sync /\ Idle.phase = "idle" /\ Idle.found = {}
BY DEF Idle, Sync
LEMMA AskedIsSync ==
    ASSUME NEW n \in Nat
    PROVE  /\ Asked(n) \in Sync /\ Asked(n).phase = "asked"
           /\ Asked(n).cursor = n /\ Asked(n).found = {}
BY DEF Asked, Sync

\* A cursor that has skipped nothing joins those that wait for the disk.
LEMMA CursorJoins ==
    ASSUME TypeOK, NothingSkipped, NEW n \in Nat, SaveCursor(n), Passed(n)',
           records \subseteq records', lost \subseteq lost'
    PROVE  /\ cursorWrites' \in Seq(Nat)
           /\ (\A i \in 1 .. Len(cursorWrites) : Passed(cursorWrites[i]))'
<1>1. cursorWrites \in Seq(Nat) /\ cursorWrites' = Append(cursorWrites, n)
  BY DEF TypeOK, SaveCursor
<1>2. /\ cursorWrites' \in Seq(Nat) /\ Len(cursorWrites') = Len(cursorWrites) + 1
      /\ cursorWrites'[Len(cursorWrites) + 1] = n
      /\ \A i \in 1 .. Len(cursorWrites) : cursorWrites'[i] = cursorWrites[i]
  BY <1>1
<1>3. \A i \in 1 .. Len(cursorWrites) : \A k \in 1 .. cursorWrites[i] :
          k \in Sequences(records') \/ k \in lost'
  BY DEF NothingSkipped, Passed, Sequences
<1>4. \A k \in 1 .. n : k \in Sequences(records') \/ k \in lost'
  BY DEF Passed
<1>5. SUFFICES ASSUME NEW i \in 1 .. Len(cursorWrites'), NEW k \in 1 .. cursorWrites'[i]
               PROVE  k \in Sequences(records') \/ k \in lost'
  BY <1>2 DEF Passed
<1>6. CASE i = Len(cursorWrites) + 1
  BY <1>2, <1>4, <1>6
<1>7. CASE i \in 1 .. Len(cursorWrites)
  BY <1>2, <1>3, <1>7
<1> QED BY <1>1, <1>2, <1>6, <1>7

\* What was projected is still part of the log, and denied.
LEMMA EndKeepsLog ==
    ASSUME IndInv, NEW found \in SUBSET Record, Project(found), Deny(sync.found),
           found \subseteq sync.found, recordFile' = recordFile,
           lost' = lost, burnt' = burnt, issued' = issued
    PROVE  /\ records' \in SUBSET Record /\ denied' \in SUBSET Identifier
           /\ records \subseteq records' /\ Sequences(found) \subseteq Sequences(records')
           /\ recordFile' \subseteq records'
           /\ (\A p \in records : Genuine(p))'
           /\ Identifiers(records') \subseteq denied'
<1> USE DEF IndInv
<1>1. /\ records \subseteq records' /\ records' \subseteq records \union found
      /\ Sequences(found) \subseteq Sequences(records') /\ records' \in SUBSET Record
  BY ProjectAdds
<1>2. sync.found \in SUBSET Record /\ denied \in SUBSET Identifier
  BY DEF TypeOK, Sync
<1>3. denied' \in SUBSET Identifier
  BY <1>2 DEF Deny, Identifiers, Record
<1>4. (\A p \in records : Genuine(p))'
  BY <1>1 DEF NothingSkipped, SyncIsComplete, Genuine
<1>5. Identifiers(records') \subseteq denied'
  BY <1>1 DEF NothingSkipped, Deny, Identifiers
<1> QED BY <1>1, <1>3, <1>4, <1>5

-----------------------------------------------------------------------------
LEMMA InitInv == Init => IndInv
<1> SUFFICES ASSUME Init PROVE IndInv
  OBVIOUS
<1> USE DEF Init
<1>1. sync \in Sync /\ sync.phase = "asked" /\ sync.cursor = 0 /\ sync.found = {}
  BY AskedIsSync
<1>2. TypeOK
  <2>1. issued \in Seq(Identifier) /\ relayFile \in Seq(Identifier) /\ cursorWrites \in Seq(Nat)
    OBVIOUS
  <2>2. running \in BOOLEAN /\ timer \in BOOLEAN
    BY Zenon
  <2> QED BY <1>1, <2>1, <2>2 DEF TypeOK
<1>3. NothingSkipped
  BY DEF NothingSkipped, Passed, Identifiers
<1>4. SyncIsComplete
  BY <1>1 DEF SyncIsComplete, Passed
<1> QED BY <1>2, <1>3, <1>4 DEF IndInv, FileIsPrefix

\* The relay appends, saves and forgets.
LEMMA RelayStep ==
    ASSUME IndInv, (\E id \in Identifier : Revoke(id)) \/ RelaySaves \/ RelayRestarts
    PROVE  IndInv'
<1> USE DEF IndInv
<1>1. UNCHANGED <<logVars, cursorVars, running, timer, sync>>
  BY DEF Revoke, RelaySaves, RelayRestarts
<1>2. /\ issued' \in Seq(Identifier) /\ relayFile' \in Seq(Identifier)
      /\ burnt' \in SUBSET Nat /\ relayCrashes' \in Nat /\ FileIsPrefix'
  <2>1. CASE \E id \in Identifier : Revoke(id)
    BY <2>1 DEF Revoke, TypeOK, FileIsPrefix
  <2>2. CASE RelaySaves
    BY <2>2 DEF RelaySaves, TypeOK, FileIsPrefix
  <2>3. CASE RelayRestarts
    <3>1. ((Len(relayFile) + 1) .. Len(issued)) \in SUBSET Nat
      BY DEF TypeOK
    <3>2. /\ issued' = relayFile /\ relayFile' = relayFile
          /\ burnt' = burnt \union ((Len(relayFile) + 1) .. Len(issued))
          /\ relayCrashes' = relayCrashes + 1
      BY <2>3 DEF RelayRestarts
    <3>3. FileIsPrefix'
      BY <3>2 DEF FileIsPrefix, TypeOK
    <3>4. burnt' \in SUBSET Nat
      BY <3>1, <3>2 DEF TypeOK
    <3>5. issued' \in Seq(Identifier) /\ relayFile' \in Seq(Identifier)
            /\ relayCrashes' \in Nat
      BY <3>2 DEF TypeOK
    <3> QED BY <3>3, <3>4, <3>5
  <2> QED BY <2>1, <2>2, <2>3
<1>3. ASSUME NEW p \in Record, Genuine(p) PROVE Genuine(p)'
  <2>1. CASE \E id \in Identifier : Revoke(id)
    BY <1>3, <2>1 DEF Revoke, Genuine, Record, TypeOK
  <2>2. CASE RelaySaves
    BY <1>3, <2>2 DEF RelaySaves, Genuine
  <2>3. CASE RelayRestarts
    BY <1>3, <2>3 DEF RelayRestarts, Genuine, Record, TypeOK, FileIsPrefix
  <2> QED BY <2>1, <2>2, <2>3
<1>4. TypeOK'
  BY <1>1, <1>2 DEF TypeOK, logVars, cursorVars
<1>5. NothingSkipped'
  BY <1>1, <1>3 DEF NothingSkipped, Passed, TypeOK, logVars, cursorVars
<1>6. SyncIsComplete'
  BY <1>1, <1>3 DEF SyncIsComplete, Passed, TypeOK, Sync, logVars
<1> QED BY <1>1, <1>2, <1>4, <1>5, <1>6 DEF logVars

\* A synchronization begins, and is answered.
LEMMA QueryStep == ASSUME IndInv, SyncStarts \/ Answered PROVE IndInv'
<1> USE DEF IndInv
<1>1. UNCHANGED <<relayVars, logVars, cursorVars, running>>
  BY DEF SyncStarts, Answered
<1>2. sync' \in Sync /\ timer' \in BOOLEAN /\ SyncIsComplete'
  <2>1. CASE SyncStarts
    BY <1>1, <2>1, AskedIsSync
       DEF SyncStarts, SyncIsComplete, NothingSkipped, Passed, TypeOK, logVars
  <2>2. CASE Answered
    <3>1. sync'.found = {Issued(k) : k \in (sync.cursor + 1) .. Len(issued)}
      BY <2>2 DEF Answered
    <3>2. sync \in Sync /\ sync.cursor \in Nat /\ Len(issued) \in Nat
      BY DEF TypeOK, Sync
    <3>3. \A p \in sync'.found : p \in Record /\ Genuine(p)
      BY <3>1, <3>2, IssuedIsGenuine
    <3>4. \A k \in (sync.cursor + 1) .. Len(issued) : k \in Sequences(sync'.found)
      <4> TAKE k \in (sync.cursor + 1) .. Len(issued)
      <4>1. Issued(k) \in sync'.found /\ Issued(k).sequence = k
        BY <3>1 DEF Issued
      <4> QED BY <4>1 DEF Sequences
    <3>5. sync' \in Sync
      BY <2>2, <3>1, <3>2, <3>3 DEF Answered, Sync
    <3>6. SyncIsComplete'
      <4>1. /\ sync'.phase = "answered" /\ sync'.cursor = sync.cursor
            /\ sync'.next = Len(issued)
        BY <2>2 DEF Answered
      <4>2. Passed(sync.cursor)'
        BY <1>1, <2>2, <4>1 DEF Answered, SyncIsComplete, Passed, logVars
      <4>3. \A k \in 1 .. sync'.next : k <= sync'.cursor \/ k \in Sequences(sync'.found)
        BY <3>2, <3>4, <4>1
      <4>4. (\A p \in sync.found : Genuine(p))'
        BY <1>1, <3>3 DEF Genuine, relayVars
      <4> QED BY <4>2, <4>3, <4>4 DEF SyncIsComplete
    <3>7. timer' \in BOOLEAN
      BY <2>2 DEF Answered, TypeOK
    <3> QED BY <3>5, <3>6, <3>7
  <2> QED BY <2>1, <2>2
<1>3. TypeOK'
  BY <1>1, <1>2 DEF TypeOK, relayVars, logVars, cursorVars
<1>4. NothingSkipped'
  BY <1>1 DEF NothingSkipped, Passed, Genuine, relayVars, logVars, cursorVars
<1> QED BY <1>1, <1>2, <1>3, <1>4 DEF FileIsPrefix, relayVars, logVars

\* A synchronization is over, in one of three ways.
LEMMA EndStep ==
    ASSUME IndInv, SyncFails \/ SyncEnds \/ ProjectionThrows PROVE IndInv'
<1> USE DEF IndInv
<1>1. /\ UNCHANGED <<relayVars, recordFile, lost, clientCrashes, cursorFile, running>>
      /\ sync' = Idle /\ Rescheduled
  BY DEF SyncFails, SyncEnds, ProjectionThrows, logVars
<1>2. /\ sync.found \in SUBSET Record /\ sync.cursor \in Nat /\ sync.next \in Nat
      /\ Passed(sync.cursor)
  BY DEF SyncFails, SyncEnds, ProjectionThrows, SyncIsComplete, TypeOK, Sync
<1>3. /\ records' \in SUBSET Record /\ denied' \in SUBSET Identifier
      /\ records \subseteq records' /\ recordFile' \subseteq records'
      /\ (\A p \in records : Genuine(p))' /\ Identifiers(records') \subseteq denied'
  <2>1. CASE SyncFails
    BY <1>1, <2>1 DEF SyncFails, NothingSkipped, Genuine, TypeOK, relayVars, logVars
  <2>2. CASE SyncEnds
    BY <1>1, <1>2, <2>2, EndKeepsLog DEF SyncEnds, relayVars
  <2>3. CASE ProjectionThrows
    <3>1. PICK k \in sync.cursor .. sync.next :
              Project({p \in sync.found : p.sequence <= k})
      BY <2>3 DEF ProjectionThrows
    <3> DEFINE found == {p \in sync.found : p.sequence <= k}
    <3>2. found \in SUBSET Record /\ found \subseteq sync.found /\ Project(found)
      BY <1>2, <3>1
    <3> HIDE DEF found
    <3> QED BY <1>1, <2>3, <3>2, EndKeepsLog DEF ProjectionThrows, relayVars
  <2> QED BY <2>1, <2>2, <2>3
<1>4. \E n \in Nat : SaveCursor(n) /\ Passed(n)'
  <2>1. CASE SyncFails \/ ProjectionThrows
    <3>1. SaveCursor(sync.cursor)
      BY <2>1 DEF SyncFails, ProjectionThrows, ThrownCursor
    <3>2. PICK n \in Nat : n = sync.cursor
      BY <1>2
    <3> QED BY <1>1, <1>2, <1>3, <3>1, <3>2 DEF Passed, Sequences
  <2>2. CASE SyncEnds
    <3>1. PICK n \in Nat : n = sync.next
      BY <1>2
    <3>2. SaveCursor(n)
      BY <2>2, <3>1 DEF SyncEnds
    <3>3. \A k \in 1 .. n : k <= sync.cursor \/ k \in Sequences(sync.found)
      BY <2>2, <3>1 DEF SyncEnds, SyncIsComplete
    <3>4. Sequences(sync.found) \subseteq Sequences(records')
      BY <1>2, <2>2, ProjectAdds DEF SyncEnds
    <3>5. Passed(n)'
      BY <1>1, <1>2, <1>3, <3>3, <3>4 DEF Passed, Sequences
    <3> QED BY <3>2, <3>5
  <2> QED BY <2>1, <2>2
<1>5. /\ cursorWrites' \in Seq(Nat)
      /\ (\A i \in 1 .. Len(cursorWrites) : Passed(cursorWrites[i]))'
  BY <1>1, <1>3, <1>4, CursorJoins
<1>6. TypeOK'
  BY <1>1, <1>3, <1>5, IdleIsComplete DEF TypeOK, Rescheduled, relayVars
<1>7. NothingSkipped'
  <2>1. Passed(cursorFile)'
    BY <1>1, <1>3 DEF NothingSkipped, Passed, Sequences
  <2> QED BY <1>3, <1>5, <2>1 DEF NothingSkipped
<1>8. SyncIsComplete'
  BY <1>1, IdleIsComplete DEF SyncIsComplete
<1> QED BY <1>1, <1>3, <1>6, <1>7, <1>8 DEF FileIsPrefix, relayVars

\* Files are written, the scheduler is stopped, and the client dies.
LEMMA ClientStep ==
    ASSUME IndInv, CursorWritten \/ LogFlushed \/ Stop \/ ClientRestarts PROVE IndInv'
<1> USE DEF IndInv
<1>1. UNCHANGED relayVars
  BY DEF CursorWritten, LogFlushed, Stop, ClientRestarts
<1>2. CASE CursorWritten
  <2>1. /\ UNCHANGED <<logVars, running, timer, sync>>
        /\ cursorFile' \in {cursorWrites[1], cursorFile}
        /\ cursorWrites' \in Seq(Nat) /\ Len(cursorWrites') = Len(cursorWrites) - 1
        /\ \A i \in 1 .. Len(cursorWrites') : cursorWrites'[i] = cursorWrites[i + 1]
        /\ 1 \in 1 .. Len(cursorWrites) /\ cursorWrites[1] \in Nat
    BY <1>2 DEF CursorWritten, TypeOK
  <2>2. TypeOK'
    BY <1>1, <2>1 DEF TypeOK, relayVars, logVars
  <2>3. NothingSkipped'
    <3>1. Passed(cursorFile)'
      BY <2>1 DEF NothingSkipped, Passed, logVars
    <3>2. (\A i \in 1 .. Len(cursorWrites) : Passed(cursorWrites[i]))'
      <4> SUFFICES ASSUME NEW i \in 1 .. Len(cursorWrites')
                   PROVE  Passed(cursorWrites[i])'
        OBVIOUS
      <4>1. cursorWrites'[i] = cursorWrites[i + 1] /\ i + 1 \in 1 .. Len(cursorWrites)
        BY <2>1 DEF TypeOK
      <4> QED BY <2>1, <4>1 DEF NothingSkipped, Passed, logVars
    <3> QED BY <1>1, <2>1, <3>1, <3>2 DEF NothingSkipped, Genuine, relayVars, logVars
  <2> QED BY <1>1, <2>1, <2>2, <2>3
          DEF SyncIsComplete, Passed, Genuine, FileIsPrefix, relayVars, logVars
<1>3. CASE LogFlushed
  <2>1. /\ recordFile' = records
        /\ UNCHANGED <<records, denied, lost, clientCrashes, cursorVars, running, timer, sync>>
    BY <1>3 DEF LogFlushed
  <2> QED BY <1>1, <2>1
          DEF TypeOK, NothingSkipped, SyncIsComplete, Passed, Genuine, FileIsPrefix,
              relayVars, cursorVars
<1>4. CASE Stop
  <2>1. UNCHANGED <<logVars, cursorVars, sync>> /\ running' = FALSE /\ timer' = FALSE
    BY <1>4 DEF Stop
  <2> QED BY <1>1, <2>1
          DEF TypeOK, NothingSkipped, SyncIsComplete, Passed, Genuine, FileIsPrefix,
              relayVars, logVars, cursorVars
<1>5. CASE ClientRestarts
  <2>1. /\ records' = recordFile /\ denied' = Identifiers(recordFile)
        /\ recordFile' = recordFile /\ cursorFile' = cursorFile /\ cursorWrites' = <<>>
        /\ lost' = lost \union {k \in Sequences(records) \ Sequences(recordFile) :
                                    k <= cursorFile}
        /\ clientCrashes' = clientCrashes + 1 /\ running' = TRUE /\ timer' = FALSE
        /\ sync' = Asked(cursorFile)
    BY <1>5 DEF ClientRestarts
  <2>2. sync' \in Sync /\ sync'.phase = "asked" /\ sync'.cursor = cursorFile
          /\ sync'.found = {}
    BY <2>1, AskedIsSync DEF TypeOK
  <2>3. \A k \in 1 .. cursorFile : k \in Sequences(records') \/ k \in lost'
    BY <2>1 DEF NothingSkipped, Passed, TypeOK
  <2>4. TypeOK'
    <3>1. Sequences(records) \in SUBSET Nat /\ denied' \in SUBSET Identifier
      BY <2>1 DEF TypeOK, Sequences, Identifiers, Record
    <3>2. cursorWrites' \in Seq(Nat) /\ clientCrashes' \in Nat
      BY <2>1 DEF TypeOK
    <3>4. lost' \in SUBSET Nat
      BY <2>1, <3>1 DEF TypeOK
    <3>3. running' \in BOOLEAN /\ timer' \in BOOLEAN
      BY <2>1, Zenon
    <3> QED BY <1>1, <2>1, <2>2, <3>1, <3>2, <3>3, <3>4 DEF TypeOK, relayVars
  <2>5. NothingSkipped'
    <3>1. Passed(cursorFile)' /\ Len(cursorWrites') = 0
      BY <2>1, <2>3 DEF Passed
    <3>2. (\A p \in records : Genuine(p))'
      BY <1>1, <2>1 DEF NothingSkipped, Genuine, relayVars
    <3> QED BY <2>1, <3>1, <3>2 DEF NothingSkipped
  <2>6. SyncIsComplete'
    BY <2>1, <2>2, <2>3 DEF SyncIsComplete, Passed
  <2> QED BY <1>1, <2>1, <2>4, <2>5, <2>6 DEF FileIsPrefix, relayVars
<1> QED BY <1>2, <1>3, <1>4, <1>5

\* A step that changes nothing keeps the invariant.
LEMMA Stutter == ASSUME IndInv, UNCHANGED vars PROVE IndInv'
BY DEF IndInv, TypeOK, NothingSkipped, SyncIsComplete, FileIsPrefix, Passed, Genuine,
       vars, relayVars, logVars, cursorVars

\* The invariant holds always.
THEOREM Invariance == Spec => []IndInv
<1>1. Init => IndInv
  BY InitInv
<1>2. IndInv /\ [Next]_vars => IndInv'
  <2> SUFFICES ASSUME IndInv, [Next]_vars PROVE IndInv'
    OBVIOUS
  <2>1. CASE (\E id \in Identifier : Revoke(id)) \/ RelaySaves \/ RelayRestarts
    BY <2>1, RelayStep
  <2>2. CASE SyncStarts \/ Answered
    BY <2>2, QueryStep
  <2>3. CASE SyncFails \/ SyncEnds \/ ProjectionThrows
    BY <2>3, EndStep
  <2>4. CASE CursorWritten \/ LogFlushed \/ Stop \/ ClientRestarts
    BY <2>4, ClientStep
  <2>5. CASE UNCHANGED vars
    BY <2>5, Stutter
  <2> QED BY <2>1, <2>2, <2>3, <2>4, <2>5 DEF Next
<1> QED BY <1>1, <1>2, PTL DEF Spec

\* Relay, client and scheduler keep their types (the state of RelaySync).
THEOREM SyncTypeCorrect == Spec => []TypeOK
<1>1. IndInv => TypeOK
  BY DEF IndInv
<1> QED BY <1>1, Invariance, PTL

\* The cursor of RelaySyncScheduler never passes a revocation the client's
\* projection lacks, over failed queries, projections that throw half way,
\* failed writes and any number of crashes on both sides.
THEOREM CursorSkipsNothing == Spec => []NothingSkipped
<1>1. IndInv => NothingSkipped
  BY DEF IndInv
<1> QED BY <1>1, Invariance, PTL

\* A scheduler that was not stopped has its timer set or a synchronization under
\* way, and never both, through failed queries, projections that throw, stops and
\* crashes: nothing but stop() silences it (RelaySyncScheduler).  The steps
\* FairSpec is fair to are SyncStarts with the timer, and the end of the other.
SchedulerIsAlive == timer <=> (running /\ sync.phase = "idle")

THEOREM SchedulerStaysAlive == Spec => []SchedulerIsAlive
<1>1. Idle.phase = "idle" /\ \A n : Asked(n).phase # "idle"
  BY DEF Idle, Asked
<1>2. Init => SchedulerIsAlive
  BY <1>1, Zenon DEF Init, SchedulerIsAlive
<1>3. ASSUME SchedulerIsAlive, [Next]_vars PROVE SchedulerIsAlive'
  <2>1. CASE SyncStarts
    BY <1>1, <2>1, Zenon DEF SyncStarts, SchedulerIsAlive
  <2>2. CASE Answered
    <3>1. sync.phase # "idle" /\ sync'.phase # "idle" /\ UNCHANGED <<timer, running>>
      BY <2>2 DEF Answered
    <3> QED BY <1>3, <3>1, Zenon DEF SchedulerIsAlive
  <2>3. CASE SyncFails \/ SyncEnds \/ ProjectionThrows
    <3>1. sync'.phase = "idle" /\ timer' = running /\ running' = running
      BY <1>1, <2>3 DEF SyncFails, SyncEnds, ProjectionThrows, Rescheduled
    <3> QED BY <3>1, Zenon DEF SchedulerIsAlive
  <2>4. CASE Stop
    BY <2>4, Zenon DEF Stop, SchedulerIsAlive
  <2>5. CASE ClientRestarts
    BY <1>1, <2>5, Zenon DEF ClientRestarts, SchedulerIsAlive
  <2>6. ASSUME UNCHANGED <<timer, running, sync>> PROVE SchedulerIsAlive'
    BY <1>3, <2>6, Zenon DEF SchedulerIsAlive
  <2> QED BY <1>3, <2>1, <2>2, <2>3, <2>4, <2>5, <2>6
          DEF Next, vars, Revoke, RelaySaves, RelayRestarts, CursorWritten, LogFlushed
<1> QED BY <1>2, <1>3, PTL DEF Spec

-----------------------------------------------------------------------------
(***************************************************************************)
(* Sequences, seen as the sets of their elements.                          *)
(***************************************************************************)

\* A sequence one longer.
LEMMA AppendElements ==
    ASSUME NEW S, NEW s \in Seq(S), NEW x \in S
    PROVE  /\ Append(s, x) \in Seq(S)
           /\ ToSet(Append(s, x)) = ToSet(s) \cup {x}
           /\ Append(s, x) # <<>> /\ Last(Append(s, x)) = x
<1>1. /\ Append(s, x) \in Seq(S) /\ DOMAIN Append(s, x) = 1..(Len(s) + 1)
      /\ Append(s, x)[Len(s) + 1] = x /\ DOMAIN s = 1..Len(s) /\ Len(s) \in Nat
      /\ \A i \in 1..Len(s) : Append(s, x)[i] = s[i]
  OBVIOUS
<1> DEFINE t == Append(s, x)
<1> HIDE DEF t
<1>2. /\ t \in Seq(S) /\ DOMAIN t = 1..(Len(s) + 1) /\ t[Len(s) + 1] = x
      /\ DOMAIN s = 1..Len(s) /\ Len(s) \in Nat
      /\ \A i \in 1..Len(s) : t[i] = s[i]
  BY <1>1 DEF t
<1>3. ToSet(t) \subseteq ToSet(s) \cup {x}
  <2> SUFFICES ASSUME NEW i \in 1..(Len(s) + 1) PROVE t[i] \in ToSet(s) \cup {x}
    BY <1>2 DEF ToSet
  <2>1. i = Len(s) + 1 \/ i \in 1..Len(s)
    BY <1>2
  <2> QED BY <1>2, <2>1 DEF ToSet
<1>4. ToSet(s) \subseteq ToSet(t)
  <2> SUFFICES ASSUME NEW i \in 1..Len(s) PROVE s[i] \in ToSet(t)
    BY <1>2 DEF ToSet
  <2>1. i \in 1..(Len(s) + 1) /\ t[i] = s[i]
    BY <1>2
  <2> QED BY <1>2, <2>1 DEF ToSet
<1>5. x \in ToSet(t)
  <2>1. Len(s) + 1 \in 1..(Len(s) + 1)
    BY <1>2
  <2> QED BY <1>2, <2>1 DEF ToSet
<1>6. t # <<>> /\ Last(t) = x
  BY <1>2 DEF Last
<1> QED BY <1>2, <1>3, <1>4, <1>5, <1>6 DEF t

\* A sequence without its head, or with another one.
LEMMA HeadElements ==
    ASSUME NEW S, NEW s \in Seq(S), s # <<>>
    PROVE  /\ Head(s) \in ToSet(s) /\ Head(s) \in S
           /\ Tail(s) \in Seq(S) /\ ToSet(Tail(s)) \subseteq ToSet(s)
           /\ Last(s) = IF Tail(s) = <<>> THEN Head(s) ELSE Last(Tail(s))
           /\ \A x \in S : /\ [s EXCEPT ![1] = x] \in Seq(S)
                           /\ ToSet([s EXCEPT ![1] = x]) \subseteq ToSet(s) \cup {x}
<1>1. Len(s) \in Nat /\ Len(s) > 0 /\ DOMAIN s = 1..Len(s) /\ Head(s) = s[1]
  OBVIOUS
<1>2. Head(s) \in ToSet(s) /\ Head(s) \in S
  BY <1>1 DEF ToSet
<1>3. Tail(s) \in Seq(S) /\ ToSet(Tail(s)) \subseteq ToSet(s)
  <2>1. /\ Tail(s) \in Seq(S) /\ DOMAIN Tail(s) = 1..(Len(s) - 1)
        /\ \A i \in 1..(Len(s) - 1) : Tail(s)[i] = s[i + 1] /\ i + 1 \in 1..Len(s)
    BY <1>1
  <2> QED BY <1>1, <2>1 DEF ToSet
<1>4. ASSUME NEW x \in S
      PROVE  /\ [s EXCEPT ![1] = x] \in Seq(S)
             /\ ToSet([s EXCEPT ![1] = x]) \subseteq ToSet(s) \cup {x}
  BY <1>1 DEF ToSet
<1>5. Last(s) = IF Tail(s) = <<>> THEN Head(s) ELSE Last(Tail(s))
  <2> DEFINE u == Tail(s)
  <2>1. /\ u \in Seq(S) /\ Len(u) = Len(s) - 1
        /\ \A i \in 1..Len(u) : u[i] = s[i + 1]
    BY HeadTailProperties
  <2> HIDE DEF u
  <2>2. CASE u = <<>>
    <3>1. Len(u) = 0
      BY <2>2
    <3>2. Len(s) = 1
      <4>1. Len(s) \in Nat /\ Len(u) = Len(s) - 1
        BY <1>1, <2>1
      <4> QED BY <3>1, <4>1
    <3> QED BY <1>1, <2>2, <3>2 DEF Last, u
  <2>3. CASE u # <<>>
    <3>1. Len(u) \in 1..Len(u) /\ Len(u) + 1 = Len(s)
      BY <1>1, <2>1, <2>3
    <3>2. Last(u) = s[Len(s)]
      BY <2>1, <3>1 DEF Last
    <3> QED BY <2>3, <3>2 DEF Last, u
  <2> QED BY <2>2, <2>3
<1> QED BY <1>2, <1>3, <1>4, <1>5

\* The elements of a sequence belong to it, and it contains them.
LEMMA ElementsOf ==
    ASSUME NEW S, NEW s \in Seq(S)
    PROVE  /\ ToSet(s) \subseteq S
           /\ \A x : Contains(s, x) <=> x \in ToSet(s)
           /\ s # <<>> => Last(s) \in ToSet(s)
<1>1. Len(s) \in Nat /\ DOMAIN s = 1..Len(s) /\ \A i \in 1..Len(s) : s[i] \in S
  OBVIOUS
<1>2. s # <<>> => Len(s) \in 1..Len(s)
  BY <1>1
<1> QED BY <1>1, <1>2 DEF ToSet, Contains, Last

\* Deleting one element leaves the others.
LEMMA RemovedElements ==
    ASSUME NEW S, NEW s \in Seq(S), NEW e
    PROVE  /\ RemoveFirst(s, e) \in Seq(S)
           /\ ToSet(RemoveFirst(s, e)) \subseteq ToSet(s)
           /\ ToSet(s) \subseteq ToSet(RemoveFirst(s, e)) \cup {e}
<1>1. CASE ~\E i \in 1..Len(s) : s[i] = e
  BY <1>1 DEF RemoveFirst
<1>2. CASE \E i \in 1..Len(s) : s[i] = e
  <2> DEFINE I == {i \in 1..Len(s) : s[i] = e}
             R == {p \in Nat \X Nat : p[1] < p[2]}
  <2>1. Len(s) \in Nat /\ DOMAIN s = 1..Len(s) /\ \A i \in 1..Len(s) : s[i] \in S
    OBVIOUS
  <2>2. I # {} /\ I \subseteq Nat /\ \A i \in I : i \in 1..Len(s) /\ s[i] = e
    BY <1>2, <2>1
  <2> HIDE DEF I
  <2>3. IsWellFoundedOn(R, Nat)
    BY NatLessThanWellFounded DEF OpToRel
  <2>4. \A i, j \in Nat : i < j => <<i, j>> \in R
    OBVIOUS
  <2> HIDE DEF R
  <2>5. PICK m \in I : \A y \in I : <<y, m>> \notin R
    BY <2>2, <2>3, WFMin
  <2>6. \A y \in I : m <= y
    <3> TAKE y \in I
    <3>1. y \in Nat /\ m \in Nat /\ <<y, m>> \notin R
      BY <2>2, <2>5
    <3>2. ~(y < m)
      BY <2>4, <3>1
    <3> QED BY <3>1, <3>2
  <2> DEFINE k == Min(I)
  <2>7. k \in I
    BY <2>5, <2>6 DEF Min
  <2> HIDE DEF k
  <2>8. k \in 1..Len(s) /\ s[k] = e
    BY <2>2, <2>7
  <2>9. RemoveFirst(s, e) = RemoveAt(s, k)
    <3>1. SelectInSeq(s, LAMBDA v : v = e) = k
      BY <2>2 DEF SelectInSeq, I, k
    <3> QED BY <1>2, <3>1, Zenon DEF RemoveFirst
  <2> DEFINE a == SubSeq(s, 1, k - 1)
             b == SubSeq(s, k + 1, Len(s))
  <2>10. /\ a \in Seq(S) /\ Len(a) = k - 1 /\ \A i \in 1..(k - 1) : a[i] = s[i]
    <3>1. 1 \in Int /\ k - 1 \in Int /\ \A i \in 1..(k - 1) : s[i] \in S
      BY <2>1, <2>8
    <3>2. /\ a \in Seq(S) /\ Len(a) = IF 1 <= k - 1 THEN (k - 1) - 1 + 1 ELSE 0
          /\ \A i \in 1..((k - 1) - 1 + 1) : a[i] = s[1 + i - 1]
      BY <3>1, SubSeqProperties
    <3> HIDE DEF a
    <3> QED BY <2>8, <3>2
  <2>11. /\ b \in Seq(S) /\ Len(b) = Len(s) - k
         /\ \A i \in 1..(Len(s) - k) : b[i] = s[k + i]
    <3>1. k + 1 \in Int /\ Len(s) \in Int /\ \A i \in (k + 1)..Len(s) : s[i] \in S
      BY <2>1, <2>8
    <3>2. /\ b \in Seq(S) /\ Len(b) = IF k + 1 <= Len(s) THEN Len(s) - (k + 1) + 1 ELSE 0
          /\ \A i \in 1..(Len(s) - (k + 1) + 1) : b[i] = s[(k + 1) + i - 1]
      BY <3>1, SubSeqProperties
    <3> HIDE DEF b
    <3>3. k \in Nat /\ Len(s) \in Nat /\ k <= Len(s)
      BY <2>1, <2>8
    <3>4. Len(s) - (k + 1) + 1 = Len(s) - k
      BY <3>3
    <3>5. Len(b) = Len(s) - k
      BY <3>2, <3>3
    <3>6. \A i \in 1..(Len(s) - k) : (k + 1) + i - 1 = k + i
      BY <3>3
    <3> QED BY <3>2, <3>4, <3>5, <3>6
  <2> DEFINE r == a \o b
  <2>12. r = RemoveFirst(s, e)
    BY <2>9 DEF RemoveAt
  <2> HIDE DEF a, b
  <2>13. /\ r \in Seq(S) /\ Len(r) = Len(s) - 1
         /\ \A i \in 1..(Len(s) - 1) : r[i] = IF i <= k - 1 THEN s[i] ELSE s[i + 1]
    <3>1. /\ r \in Seq(S) /\ Len(r) = Len(a) + Len(b)
          /\ \A i \in 1..(Len(a) + Len(b)) : r[i] = IF i <= Len(a) THEN a[i] ELSE b[i - Len(a)]
      BY <2>10, <2>11, ConcatProperties
    <3> HIDE DEF r
    <3>3. k \in Nat /\ Len(s) \in Nat /\ 1 <= k /\ k <= Len(s)
      BY <2>1, <2>8
    <3>4. Len(a) + Len(b) = Len(s) - 1
      BY <2>10, <2>11, <3>3
    <3>2. ASSUME NEW i \in 1..(Len(s) - 1)
          PROVE  r[i] = IF i <= k - 1 THEN s[i] ELSE s[i + 1]
      <4>0. r[i] = IF i <= k - 1 THEN a[i] ELSE b[i - (k - 1)]
        BY <2>10, <3>1, <3>4
      <4>1. CASE i <= k - 1
        <5>1. i \in 1..(k - 1)
          BY <3>3, <4>1
        <5> QED BY <2>10, <4>0, <4>1, <5>1
      <4>2. CASE ~(i <= k - 1)
        <5>1. r[i] = b[i - (k - 1)] /\ i - (k - 1) \in 1..(Len(s) - k)
          BY <3>3, <4>0, <4>2
        <5>2. k + (i - (k - 1)) = i + 1
          BY <2>1, <2>8
        <5> QED BY <2>11, <4>2, <5>1, <5>2
      <4> QED BY <4>1, <4>2
    <3> QED BY <3>1, <3>2, <3>4
  <2> HIDE DEF r
  <2>14. DOMAIN r = 1..(Len(s) - 1)
    BY <2>13
  <2>15. ASSUME NEW i \in 1..(Len(s) - 1) PROVE r[i] \in ToSet(s)
    <3>1. i \in 1..Len(s) /\ i + 1 \in 1..Len(s)
      BY <2>1
    <3> QED BY <2>1, <2>13, <3>1 DEF ToSet
  <2>16. ASSUME NEW i \in 1..Len(s) PROVE s[i] \in ToSet(r) \cup {e}
    <3>1. CASE i = k
      BY <2>8, <3>1
    <3>2. CASE i < k
      <4>1. i \in 1..(Len(s) - 1) /\ i <= k - 1
        BY <2>1, <2>8, <3>2
      <4> QED BY <2>13, <2>14, <4>1 DEF ToSet
    <3>3. CASE i > k
      <4>1. i - 1 \in 1..(Len(s) - 1) /\ ~(i - 1 <= k - 1) /\ (i - 1) + 1 = i
        BY <2>1, <2>8, <3>3
      <4> QED BY <2>13, <2>14, <4>1 DEF ToSet
    <3> QED BY <2>1, <2>8, <3>1, <3>2, <3>3
  <2>17. ToSet(r) \subseteq ToSet(s)
    BY <2>14, <2>15 DEF ToSet
  <2>18. ToSet(s) \subseteq ToSet(r) \cup {e}
    BY <2>1, <2>16 DEF ToSet
  <2> QED BY <2>12, <2>13, <2>17, <2>18
<1> QED BY <1>1, <1>2

-----------------------------------------------------------------------------
(***************************************************************************)
(* RelayOutbox.  Its jobs, running, waiting or waiting for their save, the *)
(* tasks they have still to flush, the results they have, and the tasks    *)
(* that are kept anywhere: in memory, in the file or in a save.            *)
(***************************************************************************)
SaveRecord == [keep : Seq(Task), next : Job \cup {NoJob}]

Jobs == ToSet(jobs) \cup {j \in Job : \E s \in ToSet(saves) : s.next = j}
ToDo == UNION {ToSet(j.todo) : j \in Jobs}
Results == UNION {ToSet(j.results) : j \in Jobs}
Kept == ToSet(entries) \cup ToSet(file) \cup UNION {ToSet(s.keep) : s \in ToSet(saves)}

\* The last save that waits writes what is in memory.
SavesLead == saves # <<>> => Last(saves).keep = entries

OutboxInv == OutboxTypeOK /\ SavesLead /\ OutboxIsSaved

\* What a step of the outbox may bring: tasks to flush, results, tasks kept.
Brings(todo, results, kept) ==
    /\ ToDo' \subseteq ToDo \cup todo
    /\ Results' \subseteq Results \cup results
    /\ Kept' \subseteq Kept \cup kept

\* The parts of the outbox have their types.
LEMMA OutboxTypes ==
    ASSUME OutboxTypeOK
    PROVE  /\ Jobs \subseteq Job /\ ToDo \subseteq Task /\ Kept \subseteq Task
           /\ \A r \in Results : r.task \in Task
           /\ ToSet(entries) \subseteq Kept /\ ToSet(file) \subseteq Kept
           /\ ToSet(jobs) \subseteq Jobs
<1>1. /\ entries \in Seq(Task) /\ file \in Seq(Task) /\ saves \in Seq(SaveRecord)
      /\ jobs \in Seq(Job)
  BY DEF OutboxTypeOK, SaveRecord
<1>2. Jobs \subseteq Job
  BY <1>1, ElementsOf DEF Jobs
<1>3. \A j \in Job : ToSet(j.todo) \subseteq Task /\ \A r \in ToSet(j.results) : r.task \in Task
  <2> SUFFICES ASSUME NEW j \in Job
               PROVE  ToSet(j.todo) \subseteq Task /\ \A r \in ToSet(j.results) : r.task \in Task
    OBVIOUS
  <2> DEFINE R == [task : Task, status : {"delivered", "pending", "expired"}]
  <2>1. j.todo \in Seq(Task) /\ j.results \in Seq(R)
    BY DEF Job
  <2>2. \A r \in R : r.task \in Task
    OBVIOUS
  <2> HIDE DEF R
  <2> QED BY <2>1, <2>2, ElementsOf
<1>4. \A s \in ToSet(saves) : ToSet(s.keep) \subseteq Task
  <2>1. ToSet(saves) \subseteq SaveRecord
    BY <1>1, ElementsOf
  <2>2. \A s \in SaveRecord : s.keep \in Seq(Task)
    BY DEF SaveRecord
  <2> QED BY <2>1, <2>2, ElementsOf
<1>5. ToSet(entries) \subseteq Task /\ ToSet(file) \subseteq Task
  BY <1>1, ElementsOf
<1>6. ToDo \subseteq Task /\ \A r \in Results : r.task \in Task
  BY <1>2, <1>3 DEF ToDo, Results
<1>7. Kept \subseteq Task
  BY <1>4, <1>5 DEF Kept
<1> QED BY <1>2, <1>6, <1>7 DEF Kept, Jobs

\* A save that is asked for is the last one, and writes what is in memory.
LEMMA PersistedLeads ==
    ASSUME NEW ss \in Seq(SaveRecord), NEW written, NEW es \in Seq(Task)
    PROVE  /\ Persisted(ss, written, es) \in Seq(SaveRecord)
           /\ \A s \in ToSet(Persisted(ss, written, es)) :
                s \in ToSet(ss) \/ (s.keep = es /\ s.next = NoJob)
           /\ Persisted(ss, written, es) # <<>> => Last(Persisted(ss, written, es)).keep = es
           /\ Persisted(ss, written, es) = <<>> => es = written
<1> DEFINE x == [keep |-> es, next |-> NoJob]
           p == Persisted(ss, written, es)
<1>1. x \in SaveRecord /\ x.keep = es /\ x.next = NoJob
  BY DEF SaveRecord
<1> HIDE DEF x
<1>2. p = IF es = (IF ss = <<>> THEN written ELSE Last(ss).keep) THEN ss ELSE Append(ss, x)
  BY DEF Persisted, x
<1> SUFFICES /\ p \in Seq(SaveRecord)
             /\ \A s \in ToSet(p) : s \in ToSet(ss) \/ (s.keep = es /\ s.next = NoJob)
             /\ p # <<>> => Last(p).keep = es
             /\ p = <<>> => es = written
  OBVIOUS
<1> HIDE DEF p
<1>3. CASE p = ss /\ es = (IF ss = <<>> THEN written ELSE Last(ss).keep)
  BY <1>3
<1>4. CASE p = Append(ss, x)
  <2>1. p \in Seq(SaveRecord) /\ ToSet(p) = ToSet(ss) \cup {x}
    BY <1>1, <1>4, AppendElements
  <2>2. p # <<>> /\ Last(p) = x
    BY <1>1, <1>4 DEF Last
  <2> QED BY <1>1, <2>1, <2>2
<1> QED BY <1>2, <1>3, <1>4

\* The entries have changed and are persisted: the outbox keeps no task that
\* it did not keep, and its jobs are what they were.
LEMMA KeepOnlyStep ==
    ASSUME OutboxTypeOK, NEW es \in Seq(Task), ToSet(es) \subseteq Kept, KeepOnly(es)
    PROVE  /\ entries' \in Seq(Task) /\ file' \in Seq(Task) /\ unsaved' \in BOOLEAN
           /\ saves' \in Seq(SaveRecord)
           /\ SavesLead' /\ (OutboxIsSaved => OutboxIsSaved')
           /\ Kept' \subseteq Kept
           /\ \A s \in ToSet(saves') : s \in ToSet(saves) \/ s.next = NoJob
<1>1. /\ entries \in Seq(Task) /\ file \in Seq(Task) /\ saves \in Seq(SaveRecord)
      /\ unsaved \in BOOLEAN
  BY DEF OutboxTypeOK, SaveRecord
<1>2. entries' = es /\ file' = file /\ unsaved' = unsaved /\ saves' = Persisted(saves, file, es)
  BY DEF KeepOnly
<1>3. /\ saves' \in Seq(SaveRecord)
      /\ \A s \in ToSet(saves') : s \in ToSet(saves) \/ (s.keep = es /\ s.next = NoJob)
      /\ saves' # <<>> => Last(saves').keep = es
      /\ saves' = <<>> => es = file
  BY <1>1, <1>2, PersistedLeads
<1>4. SavesLead' /\ OutboxIsSaved'
  BY <1>2, <1>3 DEF SavesLead, OutboxIsSaved
<1>5. Kept' \subseteq Kept
  BY <1>2, <1>3 DEF Kept
<1>6. unsaved' \in BOOLEAN
  BY <1>1, <1>2
<1> QED BY <1>1, <1>2, <1>3, <1>4, <1>5, <1>6

\* A job that is made, and a job whose current flush has ended.
LEMMA NewJobType ==
    ASSUME NEW c \in Call, NEW kind \in {"send", "retry"}, NEW todo \in Seq(Task)
    PROVE  /\ NewJob(c, kind, todo) \in Job /\ NewJob(c, kind, todo) # NoJob
           /\ NewJob(c, kind, todo).todo = todo /\ NewJob(c, kind, todo).results = <<>>
BY DEF NewJob, Job, NoJob

LEMMA NoJobIsNone == NoJob \notin Job
BY DEF NoJob, Job

\* The running job, and the task it flushes.
LEMMA RunningJob ==
    ASSUME OutboxTypeOK, Running
    PROVE  /\ jobs \in Seq(Job) /\ jobs # <<>>
           /\ Now \in Job /\ Now \in Jobs
           /\ ToSet(Now.todo) \subseteq ToDo /\ ToSet(Now.results) \subseteq Results
           /\ Now.todo \in Seq(Task)
           /\ Flushing => Current \in ToSet(Now.todo) /\ Current \in Task /\ Current \in ToDo
<1>1. jobs \in Seq(Job) /\ jobs # <<>>
  BY DEF OutboxTypeOK, Running
<1>2. Now \in Job /\ Now \in ToSet(jobs)
  BY <1>1, HeadElements DEF Now
<1>3. Now.todo \in Seq(Task)
  BY <1>2 DEF Job
<1>4. Flushing => Current \in ToSet(Now.todo) /\ Current \in Task
  BY <1>3, HeadElements DEF Flushing, Current
<1>5. Now \in Jobs /\ ToSet(Now.todo) \subseteq ToDo /\ ToSet(Now.results) \subseteq Results
  BY <1>2 DEF Jobs, ToDo, Results
<1> QED BY <1>1, <1>2, <1>3, <1>4, <1>5

LEMMA AdvanceStep ==
    ASSUME OutboxTypeOK, Flushing, NEW status \in {"delivered", "pending", "expired"},
           Advance(status)
    PROVE  /\ jobs' \in Seq(Job)
           /\ \A j \in ToSet(jobs') :
                j \in Jobs \/ (/\ ToSet(j.todo) \subseteq ToDo
                               /\ ToSet(j.results) \subseteq
                                    Results \cup {ResultOf(Current, status)})
<1> DEFINE r == ResultOf(Current, status)
           R == [task : Task, status : {"delivered", "pending", "expired"}]
           x == Advanced(status)
<1>0. Running
  BY DEF Flushing
<1>6. jobs' = IF Len(Now.todo) = 1 THEN Tail(jobs) ELSE [jobs EXCEPT ![1] = x]
  BY DEF Advance
<1>1. /\ jobs \in Seq(Job) /\ jobs # <<>> /\ Now \in Job /\ Now \in Jobs
      /\ ToSet(Now.todo) \subseteq ToDo /\ ToSet(Now.results) \subseteq Results
      /\ Now.todo \in Seq(Task) /\ Now.todo # <<>> /\ Current \in Task
  BY <1>0, RunningJob DEF Flushing
<1>2. r \in R
  BY <1>1 DEF ResultOf
<1> HIDE DEF r
<1>3. Now.results \in Seq(R)
  BY <1>1 DEF Job
<1> HIDE DEF R
<1>4. /\ Append(Now.results, r) \in Seq(R)
      /\ ToSet(Append(Now.results, r)) = ToSet(Now.results) \cup {r}
      /\ Tail(Now.todo) \in Seq(Task)
      /\ ToSet(Tail(Now.todo)) \subseteq ToSet(Now.todo)
  BY <1>1, <1>2, <1>3, AppendElements, HeadElements
<1>5. /\ x.todo = Tail(Now.todo) /\ x.results = Append(Now.results, r)
      /\ x \in Job
  BY <1>1, <1>4 DEF Advanced, Job, R, r
<1> HIDE DEF x
<1>7. CASE jobs' = Tail(jobs)
  <2>1. jobs' \in Seq(Job) /\ ToSet(jobs') \subseteq ToSet(jobs)
    BY <1>1, <1>7, HeadElements
  <2> QED BY <2>1 DEF Jobs
<1>8. CASE jobs' = [jobs EXCEPT ![1] = x]
  <2>1. jobs' \in Seq(Job) /\ ToSet(jobs') \subseteq ToSet(jobs) \cup {x}
    BY <1>1, <1>5, <1>8, HeadElements
  <2>2. ToSet(x.todo) \subseteq ToDo /\ ToSet(x.results) \subseteq Results \cup {r}
    BY <1>1, <1>4, <1>5
  <2> QED BY <2>1, <2>2 DEF Jobs, r
<1> QED BY <1>6, <1>7, <1>8

\* Jobs bring what they bring each.
LEMMA JobsBring ==
    ASSUME NEW todo, NEW results, NEW kept, Kept' \subseteq Kept \cup kept,
           \A j \in ToSet(jobs') :
             j \in Jobs \/ (/\ ToSet(j.todo) \subseteq ToDo \cup todo
                            /\ ToSet(j.results) \subseteq Results \cup results),
           \A s \in ToSet(saves') : s.next \in Job =>
             s.next \in Jobs \/ (/\ ToSet(s.next.todo) \subseteq ToDo \cup todo
                                 /\ ToSet(s.next.results) \subseteq Results \cup results)
    PROVE  Brings(todo, results, kept)
<1>1. \A j \in Jobs' :
        j \in Jobs \/ (/\ ToSet(j.todo) \subseteq ToDo \cup todo
                       /\ ToSet(j.results) \subseteq Results \cup results)
  BY DEF Jobs
<1>2. ToDo' \subseteq ToDo \cup todo
  BY <1>1 DEF ToDo
<1>3. Results' \subseteq Results \cup results
  BY <1>1 DEF Results
<1> QED BY <1>2, <1>3 DEF Brings

\* send: the task is kept, and is to be flushed by a job that has yet to run.
LEMMA SendStep ==
    ASSUME OutboxInv, NEW c \in Call, NEW t \in Task, Send(c, t)
    PROVE  /\ OutboxInv'
           /\ Brings({t}, {}, {t})
           /\ overdue' = overdue
           /\ ToSet(entries) \subseteq ToSet(entries') /\ t \in ToSet(entries')
<1> DEFINE j == NewJob(c, "send", <<t>>)
<1>1. /\ entries \in Seq(Task) /\ file \in Seq(Task) /\ saves \in Seq(SaveRecord)
      /\ jobs \in Seq(Job) /\ unsaved \in BOOLEAN /\ overdue \subseteq Task
      /\ SavesLead /\ OutboxIsSaved
  BY DEF OutboxInv, OutboxTypeOK, SaveRecord
<1>2. <<t>> \in Seq(Task) /\ ToSet(<<t>>) = {t} /\ ToSet(<<>>) = {}
  BY DEF ToSet
<1>3. j \in Job /\ j # NoJob /\ j.todo = <<t>> /\ j.results = <<>>
  BY <1>2, NewJobType
<1> HIDE DEF j
<1>4. ToSet(j.todo) = {t} /\ ToSet(j.results) = {}
  BY <1>2, <1>3
<1>5. UNCHANGED <<file, unsaved, overdue>>
  BY DEF Send
<1>6. CASE Contains(entries, t)
  <2>1. jobs' = Append(jobs, j) /\ UNCHANGED <<entries, saves>>
    BY <1>6, Zenon DEF Send, j
  <2>2. t \in ToSet(entries)
    BY <1>1, <1>6, ElementsOf
  <2>3. jobs' \in Seq(Job) /\ ToSet(jobs') = ToSet(jobs) \cup {j}
    BY <1>1, <1>3, <2>1, AppendElements
  <2>4. OutboxInv'
    BY <1>1, <1>5, <2>1, <2>3 DEF OutboxInv, OutboxTypeOK, SavesLead, OutboxIsSaved, SaveRecord
  <2>5. Kept' \subseteq Kept \cup {t}
    BY <1>5, <2>1 DEF Kept
  <2>6. Brings({t}, {}, {t})
    BY <1>4, <2>1, <2>3, <2>5, JobsBring DEF Jobs
  <2> QED BY <1>5, <2>1, <2>2, <2>4, <2>6
<1>7. CASE ~Contains(entries, t)
  <2> DEFINE s == [keep |-> entries', next |-> j]
  <2>1. entries' = Append(entries, t) /\ saves' = Append(saves, s) /\ jobs' = jobs
    BY <1>7, Zenon DEF Send, j
  <2>2. entries' \in Seq(Task) /\ ToSet(entries') = ToSet(entries) \cup {t}
    BY <1>1, <2>1, AppendElements
  <2>3. s \in SaveRecord /\ s.keep = entries' /\ s.next = j
    BY <1>3, <2>2 DEF SaveRecord
  <2> HIDE DEF s
  <2>4. saves' \in Seq(SaveRecord) /\ ToSet(saves') = ToSet(saves) \cup {s}
    BY <1>1, <2>1, <2>3, AppendElements
  <2>5. saves' # <<>> /\ Last(saves') = s
    BY <1>1, <2>1, <2>3, AppendElements
  <2>6. OutboxInv'
    BY <1>1, <1>5, <2>1, <2>2, <2>3, <2>4, <2>5
       DEF OutboxInv, OutboxTypeOK, SavesLead, OutboxIsSaved, SaveRecord
  <2>7. Kept' \subseteq Kept \cup {t}
    BY <1>5, <2>2, <2>3, <2>4 DEF Kept
  <2>8. Brings({t}, {}, {t})
    <3>1. \A k \in ToSet(jobs') : k \in Jobs
      BY <2>1 DEF Jobs
    <3>2. \A x \in ToSet(saves') : x.next \in Job => x.next \in Jobs \/ x.next = j
      BY <2>3, <2>4 DEF Jobs
    <3> QED BY <1>4, <2>7, <3>1, <3>2, JobsBring
  <2> QED BY <1>5, <2>2, <2>6, <2>8
<1> QED BY <1>6, <1>7

\* retryPending: a job with nothing to flush yet.
LEMMA RetryPendingStep ==
    ASSUME OutboxInv, NEW c \in Call, RetryPending(c)
    PROVE  OutboxInv' /\ Brings({}, {}, {}) /\ UNCHANGED <<entries, overdue>>
<1> DEFINE j == NewJob(c, "retry", <<>>)
<1>1. /\ jobs \in Seq(Job) /\ UNCHANGED <<entries, file, saves, unsaved, overdue>>
      /\ jobs' = Append(jobs, j)
  BY DEF OutboxInv, OutboxTypeOK, RetryPending
<1>2. <<>> \in Seq(Task) /\ ToSet(<<>>) = {}
  BY DEF ToSet
<1>3. j \in Job /\ j.todo = <<>> /\ j.results = <<>>
  BY <1>2, NewJobType
<1> HIDE DEF j
<1>4. jobs' \in Seq(Job) /\ ToSet(jobs') = ToSet(jobs) \cup {j}
  BY <1>1, <1>3, AppendElements
<1>5. OutboxInv'
  BY <1>1, <1>4 DEF OutboxInv, OutboxTypeOK, SavesLead, OutboxIsSaved
<1>6. Kept' \subseteq Kept
  BY <1>1 DEF Kept
<1>7. Brings({}, {}, {})
  BY <1>1, <1>2, <1>3, <1>4, <1>6, JobsBring DEF Jobs
<1> QED BY <1>1, <1>5, <1>7

\* A save ends: a job that waited for it may run.
LEMMA SaveEndsStep ==
    ASSUME OutboxInv, SaveEnds
    PROVE  OutboxInv' /\ Brings({}, {}, {}) /\ UNCHANGED <<entries, overdue>>
<1> DEFINE s == Head(saves)
<1>1. /\ entries \in Seq(Task) /\ file \in Seq(Task) /\ saves \in Seq(SaveRecord)
      /\ jobs \in Seq(Job) /\ unsaved \in BOOLEAN /\ overdue \subseteq Task
      /\ SavesLead /\ OutboxIsSaved
  BY DEF OutboxInv, OutboxTypeOK, SaveRecord
<1>2. /\ saves # <<>> /\ UNCHANGED <<entries, overdue>>
      /\ \/ file' = s.keep /\ ~unsaved'
         \/ file' = file /\ unsaved'
      /\ IF s.next = NoJob
           THEN saves' = Tail(saves) /\ jobs' = jobs
           ELSE /\ saves' = Persisted(Tail(saves), file', entries)
                /\ jobs' = Append(jobs, s.next)
  BY DEF SaveEnds
<1>3. unsaved' \in BOOLEAN
  BY DEF SaveEnds
<1>4. /\ s \in ToSet(saves) /\ s \in SaveRecord
      /\ Tail(saves) \in Seq(SaveRecord) /\ ToSet(Tail(saves)) \subseteq ToSet(saves)
  BY <1>1, <1>2, HeadElements
<1>5. Last(saves) = IF Tail(saves) = <<>> THEN s ELSE Last(Tail(saves))
  BY <1>1, <1>2, HeadElements
<1> HIDE DEF s
<1>7. s.keep \in Seq(Task) /\ ToSet(s.keep) \subseteq Kept
  BY <1>4 DEF SaveRecord, Kept
<1>8. file' \in Seq(Task) /\ ToSet(file') \subseteq Kept
  BY <1>1, <1>2, <1>7 DEF Kept
<1>9. /\ saves' \in Seq(SaveRecord)
      /\ \A x \in ToSet(saves') : x \in ToSet(saves) \/ (x.keep = entries /\ x.next = NoJob)
      /\ saves' # <<>> => Last(saves').keep = entries
      /\ saves' = <<>> => unsaved' \/ file' = entries
      /\ jobs' \in Seq(Job) /\ ToSet(jobs') \subseteq Jobs
  <2>1. CASE s.next = NoJob
    <3>1. saves' = Tail(saves) /\ jobs' = jobs
      BY <1>2, <2>1
    <3>2. saves' # <<>> => Last(saves').keep = entries
      BY <1>1, <1>2, <1>5, <3>1 DEF SavesLead
    <3>3. saves' = <<>> => unsaved' \/ file' = entries
      BY <1>1, <1>2, <1>5, <3>1 DEF SavesLead
    <3> QED BY <1>1, <1>4, <3>1, <3>2, <3>3 DEF Jobs
  <2>2. CASE s.next # NoJob
    <3>1. saves' = Persisted(Tail(saves), file', entries) /\ jobs' = Append(jobs, s.next)
      BY <1>2, <2>2
    <3>2. s.next \in Job /\ s.next \in Jobs
      BY <1>4, <2>2 DEF SaveRecord, Jobs
    <3>3. jobs' \in Seq(Job) /\ ToSet(jobs') = ToSet(jobs) \cup {s.next}
      BY <1>1, <3>1, <3>2, AppendElements
    <3> DEFINE ss == Tail(saves)
               written == file'
               p == Persisted(ss, written, entries)
    <3>5. ss \in Seq(SaveRecord) /\ p = saves'
      BY <1>4, <3>1
    <3> HIDE DEF ss, written
    <3>6. /\ p \in Seq(SaveRecord)
          /\ \A x \in ToSet(p) : x \in ToSet(ss) \/ (x.keep = entries /\ x.next = NoJob)
          /\ p # <<>> => Last(p).keep = entries
          /\ p = <<>> => entries = written
      BY <1>1, <3>5, PersistedLeads
    <3> HIDE DEF p
    <3>4. /\ saves' \in Seq(SaveRecord)
          /\ \A x \in ToSet(saves') :
               x \in ToSet(Tail(saves)) \/ (x.keep = entries /\ x.next = NoJob)
          /\ saves' # <<>> => Last(saves').keep = entries
          /\ saves' = <<>> => entries = file'
      BY <3>5, <3>6 DEF ss, written
    <3> QED BY <1>4, <3>2, <3>3, <3>4 DEF Jobs
  <2> QED BY <2>1, <2>2
<1>10. OutboxTypeOK'
  BY <1>1, <1>2, <1>3, <1>8, <1>9 DEF OutboxTypeOK, SaveRecord
<1>11. SavesLead' /\ OutboxIsSaved'
  BY <1>2, <1>9 DEF SavesLead, OutboxIsSaved
<1>12. Kept' \subseteq Kept
  <2>1. ToSet(entries) \subseteq Kept /\ \A x \in ToSet(saves) : ToSet(x.keep) \subseteq Kept
    BY DEF Kept
  <2> QED BY <1>2, <1>8, <1>9, <2>1 DEF Kept
<1>13. Brings({}, {}, {})
  <2>1. \A x \in ToSet(saves') : x.next \in Job => x.next \in Jobs
    BY <1>9, NoJobIsNone DEF Jobs
  <2> QED BY <1>9, <1>12, <2>1, JobsBring
<1> QED BY <1>2, <1>10, <1>11, <1>13 DEF OutboxInv

\* retryPending reads its keys, finds none, or hands an entry to the relay.
LEMMA JobGoesOn ==
    ASSUME OutboxInv, StartRetry \/ NothingToRetry \/ Transmit
    PROVE  /\ OutboxInv'
           /\ Brings(ToSet(entries), {}, {})
           /\ UNCHANGED <<entries, overdue>>
           /\ ToDo' \subseteq ToDo \/ StartRetry
<1>1. /\ entries \in Seq(Task) /\ file \in Seq(Task) /\ saves \in Seq(SaveRecord)
      /\ unsaved \in BOOLEAN /\ overdue \subseteq Task
      /\ SavesLead /\ OutboxIsSaved /\ OutboxTypeOK
  BY DEF OutboxInv, OutboxTypeOK, SaveRecord
<1>2. /\ jobs \in Seq(Job) /\ jobs # <<>> /\ Now \in Job /\ Now \in Jobs
      /\ ToSet(Now.todo) \subseteq ToDo /\ ToSet(Now.results) \subseteq Results
  <2>1. Running
    BY DEF StartRetry, NothingToRetry, Transmit, Flushing
  <2> QED BY <1>1, <2>1, RunningJob
<1>3. /\ entries' \in Seq(Task) /\ file' \in Seq(Task) /\ unsaved' \in BOOLEAN
      /\ saves' \in Seq(SaveRecord) /\ SavesLead' /\ OutboxIsSaved'
      /\ Kept' \subseteq Kept
      /\ \A s \in ToSet(saves') : s \in ToSet(saves) \/ s.next = NoJob
      /\ UNCHANGED <<entries, overdue>>
  <2>1. CASE StartRetry \/ NothingToRetry
    BY <1>1, <2>1 DEF StartRetry, NothingToRetry, SavesLead, OutboxIsSaved, Kept
  <2>2. CASE Transmit
    <3>1. KeepOnly(entries) /\ overdue' = overdue /\ entries' = entries
      BY <2>2 DEF Transmit, KeepOnly
    <3>2. ToSet(entries) \subseteq Kept
      BY DEF Kept
    <3> QED BY <1>1, <3>1, <3>2, KeepOnlyStep
  <2> QED BY <2>1, <2>2
<1>4. \E todo \in {{}, ToSet(entries)} :
        /\ todo = {} \/ StartRetry
        /\ jobs' \in Seq(Job)
        /\ \A j \in ToSet(jobs') :
             j \in Jobs \/ (/\ ToSet(j.todo) \subseteq ToDo \cup todo
                            /\ ToSet(j.results) \subseteq Results)
  <2>1. CASE StartRetry
    <3> DEFINE x == [Now EXCEPT !.todo = entries]
    <3>1. x \in Job /\ x.todo = entries /\ x.results = Now.results
      BY <1>1, <1>2 DEF Job
    <3>2. jobs' = [jobs EXCEPT ![1] = x]
      <4>1. Now = jobs[1]
        BY <1>2 DEF Now
      <4> QED BY <2>1, <4>1 DEF StartRetry
    <3> HIDE DEF x
    <3>3. jobs' \in Seq(Job) /\ ToSet(jobs') \subseteq ToSet(jobs) \cup {x}
      BY <1>2, <3>1, <3>2, HeadElements
    <3> QED BY <1>2, <2>1, <3>1, <3>3 DEF Jobs
  <2>2. CASE NothingToRetry
    <3>1. jobs' = Tail(jobs)
      BY <2>2 DEF NothingToRetry
    <3>2. jobs' \in Seq(Job) /\ ToSet(jobs') \subseteq ToSet(jobs)
      BY <1>2, <3>1, HeadElements
    <3> QED BY <3>2 DEF Jobs
  <2>3. CASE Transmit
    <3> DEFINE x == [Now EXCEPT !.sending = TRUE]
    <3>1. x \in Job /\ x.todo = Now.todo /\ x.results = Now.results
      BY <1>1, <1>2 DEF Job
    <3>2. jobs' = [jobs EXCEPT ![1] = x]
      <4>1. Now = jobs[1]
        BY <1>2 DEF Now
      <4> QED BY <2>3, <4>1 DEF Transmit
    <3> HIDE DEF x
    <3>3. jobs' \in Seq(Job) /\ ToSet(jobs') \subseteq ToSet(jobs) \cup {x}
      BY <1>2, <3>1, <3>2, HeadElements
    <3> QED BY <1>2, <3>1, <3>3 DEF Jobs
  <2> QED BY <2>1, <2>2, <2>3
<1>5. PICK todo \in {{}, ToSet(entries)} :
        /\ todo = {} \/ StartRetry
        /\ jobs' \in Seq(Job)
        /\ \A j \in ToSet(jobs') :
             j \in Jobs \/ (/\ ToSet(j.todo) \subseteq ToDo \cup todo
                            /\ ToSet(j.results) \subseteq Results)
  BY <1>4
<1>6. Brings(todo, {}, {})
  <2>1. \A x \in ToSet(saves') : x.next \in Job => x.next \in Jobs
    BY <1>3, NoJobIsNone DEF Jobs
  <2> QED BY <1>3, <1>5, <2>1, JobsBring
<1>7. OutboxTypeOK'
  BY <1>1, <1>3, <1>5 DEF OutboxTypeOK, SaveRecord
<1> QED BY <1>3, <1>5, <1>6, <1>7 DEF OutboxInv, Brings

\* The flush of the current task ends: its result joins those of the job, and
\* no other entry is touched.
LEMMA FlushEnds ==
    ASSUME OutboxInv, NEW status \in {"delivered", "pending", "expired"}, Advance(status),
           AlreadyGone \/ Expire \/ Acknowledged \/ NotAcknowledged
    PROVE  /\ OutboxInv'
           /\ Brings({}, {ResultOf(Current, status)}, {})
           /\ ToSet(entries) \subseteq ToSet(entries') \cup {Current}
           /\ overdue' = overdue
<1>0. Flushing /\ Running /\ overdue' = overdue
  BY DEF AlreadyGone, Expire, Acknowledged, NotAcknowledged, Flushing
<1>1. /\ entries \in Seq(Task) /\ file \in Seq(Task) /\ saves \in Seq(SaveRecord)
      /\ unsaved \in BOOLEAN /\ overdue \subseteq Task
      /\ SavesLead /\ OutboxIsSaved /\ OutboxTypeOK
  BY DEF OutboxInv, OutboxTypeOK, SaveRecord
<1>2. /\ jobs' \in Seq(Job)
      /\ \A j \in ToSet(jobs') :
           j \in Jobs \/ (/\ ToSet(j.todo) \subseteq ToDo
                          /\ ToSet(j.results) \subseteq Results \cup {ResultOf(Current, status)})
  BY <1>0, <1>1, AdvanceStep
<1> DEFINE gone == RemoveFirst(entries, Current)
<1>3. /\ gone \in Seq(Task) /\ ToSet(gone) \subseteq ToSet(entries)
      /\ ToSet(entries) \subseteq ToSet(gone) \cup {Current}
  BY <1>1, RemovedElements
<1> HIDE DEF gone
<1>4. /\ entries' \in Seq(Task) /\ file' \in Seq(Task) /\ unsaved' \in BOOLEAN
      /\ saves' \in Seq(SaveRecord) /\ SavesLead' /\ OutboxIsSaved'
      /\ Kept' \subseteq Kept
      /\ \A s \in ToSet(saves') : s \in ToSet(saves) \/ s.next = NoJob
      /\ ToSet(entries) \subseteq ToSet(entries') \cup {Current}
  <2>1. CASE AlreadyGone
    <3>1. UNCHANGED <<entries, file, saves, unsaved>>
      BY <2>1 DEF AlreadyGone
    <3> QED BY <1>1, <3>1 DEF SavesLead, OutboxIsSaved, Kept
  <2>2. CASE Expire \/ Acknowledged
    <3>1. KeepOnly(gone) /\ entries' = gone
      BY <2>2 DEF Expire, Acknowledged, KeepOnly, gone
    <3>2. ToSet(gone) \subseteq Kept
      BY <1>3 DEF Kept
    <3> QED BY <1>1, <1>3, <3>1, <3>2, KeepOnlyStep
  <2>3. CASE NotAcknowledged
    <3>1. KeepOnly(entries) /\ entries' = entries
      BY <2>3 DEF NotAcknowledged, KeepOnly
    <3>2. ToSet(entries) \subseteq Kept
      BY DEF Kept
    <3> QED BY <1>1, <3>1, <3>2, KeepOnlyStep
  <2> QED BY <2>1, <2>2, <2>3
<1>5. Brings({}, {ResultOf(Current, status)}, {})
  <2>1. \A x \in ToSet(saves') : x.next \in Job => x.next \in Jobs
    BY <1>4, NoJobIsNone DEF Jobs
  <2> QED BY <1>2, <1>4, <2>1, JobsBring
<1>6. OutboxTypeOK'
  BY <1>0, <1>1, <1>2, <1>4 DEF OutboxTypeOK, SaveRecord
<1> QED BY <1>0, <1>4, <1>5, <1>6 DEF OutboxInv

\* A new process keeps what the file keeps, and has nothing to flush.
LEMMA OutboxRestartStep ==
    ASSUME OutboxInv, OutboxRestart
    PROVE  /\ OutboxInv'
           /\ ToDo' = {} /\ Results' = {} /\ Kept' \subseteq Kept
           /\ ToSet(entries') \subseteq Kept /\ overdue' = overdue
<1>1. /\ file \in Seq(Task) /\ overdue \subseteq Task
      /\ entries' = file /\ file' = file /\ saves' = <<>> /\ jobs' = <<>>
      /\ overdue' = overdue /\ unsaved' = FALSE
  BY DEF OutboxInv, OutboxTypeOK, OutboxRestart
<1>2. \A S : <<>> \in Seq(S)
  OBVIOUS
<1>3. ToSet(<<>>) = {}
  BY DEF ToSet
<1>4. OutboxTypeOK'
  BY <1>1, <1>2 DEF OutboxTypeOK
<1>5. SavesLead' /\ OutboxIsSaved'
  BY <1>1 DEF SavesLead, OutboxIsSaved
<1>6. ToDo' = {} /\ Results' = {}
  BY <1>1, <1>3 DEF ToDo, Results, Jobs
<1>7. Kept' \subseteq Kept /\ ToSet(entries') \subseteq Kept
  BY <1>1, <1>3 DEF Kept
<1> QED BY <1>1, <1>4, <1>5, <1>6, <1>7 DEF OutboxInv

\* An outbox at rest, and one whose envelopes expire.
LEMMA OutboxRests ==
    ASSUME OutboxInv,
           UNCHANGED outboxVars \/ \E t \in Task : BecomesOverdue(t)
    PROVE  /\ OutboxInv' /\ Brings({}, {}, {}) /\ entries' = entries
           /\ overdue \subseteq overdue'
<1>1. /\ UNCHANGED <<entries, file, saves, unsaved, jobs>>
      /\ overdue \subseteq overdue' /\ overdue' \subseteq Task
  BY DEF outboxVars, BecomesOverdue, OutboxInv, OutboxTypeOK
<1>2. OutboxInv'
  BY <1>1 DEF OutboxInv, OutboxTypeOK, SavesLead, OutboxIsSaved
<1>3. Brings({}, {}, {})
  BY <1>1 DEF Brings, ToDo, Results, Kept, Jobs
<1> QED BY <1>1, <1>2, <1>3

-----------------------------------------------------------------------------
(***************************************************************************)
(* retryPendingNetworkDeliveries: what holds of intents and deliveries     *)
(* after each of the results, by induction on their number.                *)
(***************************************************************************)

\* A set of naturals with 0 and the successor of each of its elements has
\* them all.
LEMMA SetInduction ==
    ASSUME NEW T, T \subseteq Nat, 0 \in T, \A n \in T : n + 1 \in T
    PROVE  T = Nat
<1> DEFINE R == {p \in Nat \X Nat : p[1] < p[2]}
           Bad == Nat \ T
<1>1. IsWellFoundedOn(R, Nat)
  BY NatLessThanWellFounded DEF OpToRel
<1>2. \A i, j \in Nat : i < j => <<i, j>> \in R
  OBVIOUS
<1> HIDE DEF R
<1>3. SUFFICES ASSUME Bad # {} PROVE FALSE
  OBVIOUS
<1>4. PICK m \in Bad : \A y \in Bad : <<y, m>> \notin R
  BY <1>1, <1>3, WFMin
<1>5. m # 0 /\ m \in Nat /\ m - 1 \in Nat /\ m - 1 < m
  BY <1>4
<1>6. m - 1 \in T
  BY <1>4, <1>5, <1>2
<1> QED BY <1>4, <1>5, <1>6

\* What the loop begins with, and the states it goes through.
Before == [intent |-> intent, delivery |-> delivery, thrown |-> FALSE]
SettledUpTo(results, k) ==
    CHOOSE f : f = [n \in 0..k |-> IF n = 0 THEN Before ELSE SettledBy(f[n - 1], results[n])]

\* There are such states for every number of results.
LEMMA SettledUpToExists ==
    ASSUME NEW results, NEW k \in Nat
    PROVE  SettledUpTo(results, k) =
             [n \in 0..k |-> IF n = 0 THEN Before
                             ELSE SettledBy(SettledUpTo(results, k)[n - 1], results[n])]
<1> DEFINE Good(f, m) ==
             f = [n \in 0..m |-> IF n = 0 THEN Before ELSE SettledBy(f[n - 1], results[n])]
           T == {m \in Nat : \E f : Good(f, m)}
<1>1. 0 \in T
  <2> DEFINE f == [n \in 0..0 |-> Before]
  <2>1. Good(f, 0)
    OBVIOUS
  <2> QED BY <2>1
<1>2. ASSUME NEW m \in T PROVE m + 1 \in T
  <2>1. PICK f : Good(f, m)
    OBVIOUS
  <2> DEFINE g == [n \in 0..(m + 1) |-> IF n <= m THEN f[n]
                                        ELSE SettledBy(f[m], results[m + 1])]
  <2>2. \A n \in 0..m : f[n] = IF n = 0 THEN Before ELSE SettledBy(f[n - 1], results[n])
    BY <2>1, Zenon
  <2>3. \A n \in 0..m : g[n] = f[n]
    OBVIOUS
  <2>4. g[m + 1] = SettledBy(f[m], results[m + 1])
    OBVIOUS
  <2>5. DOMAIN g = 0..(m + 1) /\ g = [n \in 0..(m + 1) |-> g[n]]
    OBVIOUS
  <2> HIDE DEF g
  <2>6. \A n \in 0..(m + 1) : g[n] = IF n = 0 THEN Before ELSE SettledBy(g[n - 1], results[n])
    <3> TAKE n \in 0..(m + 1)
    <3>1. CASE n = m + 1
      <4>1. n # 0 /\ n - 1 = m /\ g[m] = f[m]
        BY <3>1, <2>3
      <4> QED BY <4>1, <2>4, <3>1
    <3>2. CASE n = 0
      <4>1. n \in 0..m
        BY <3>2
      <4> QED BY <4>1, <3>2, <2>2, <2>3
    <3>3. CASE n # 0 /\ n # m + 1
      <4>1. n \in 0..m /\ n - 1 \in 0..m
        BY <3>3
      <4> QED BY <4>1, <3>3, <2>2, <2>3
    <3> QED BY <3>1, <3>2, <3>3
  <2>7. Good(g, m + 1)
    BY <2>5, <2>6, Zenon
  <2> QED BY <2>7
<1>3. T = Nat
  <2> HIDE DEF T
  <2>1. T \subseteq Nat
    BY DEF T
  <2> QED BY <1>1, <1>2, <2>1, SetInduction
<1>4. \E f : Good(f, k)
  BY <1>3
<1> QED BY <1>4, Zenon DEF SettledUpTo

\* The statuses of an intent that a delivery has still to use up, and what no
\* step takes back from an intent: it is used, or it is not open any more.
Open == {"approved", "consumed"}

StaysUsed(intents) ==
    \A t \in Task : /\ intent[t] \in Used => intents[t] \in Used
                    /\ intent[t] \notin Open => intents[t] \notin Open

\* Intents and deliveries agree: a delivery has used up its intent, unless it
\* is late or torn, and delivered or completed is only what is in seen.
Agree(intents, deliveries, seen) ==
    \A t \in Task :
        /\ deliveries[t] = "delivered" => t \in seen
        /\ deliveries[t] = "delivered" /\ t \notin late \cup torn => intents[t] \notin Open
        /\ intents[t] = "completed" => t \in seen
        /\ intents[t] = "expired" => t \in late

IntentsAndDeliveries == [intent : [Task -> IntentStatus],
                         delivery : [Task -> DeliveryStatus], thrown : BOOLEAN]

\* One turn of the loop, and all of them.
Turned(w, seen) ==
    /\ w \in IntentsAndDeliveries
    /\ Agree(w.intent, w.delivery, seen)
    /\ StaysUsed(w.intent)

LEMMA TurnKeeps ==
    ASSUME NEW w, NEW seen, Turned(w, seen), NEW r, r.task \in Task,
           r.status \in {"delivered", "pending", "expired"},
           r.status = "delivered" => r.task \in seen
    PROVE  Turned(SettledBy(w, r), seen)
<1> DEFINE t == r.task
           i == w.intent[t]
           tooLate == r.status = "delivered" /\ i = "approved" /\ t \in late
           d2 == IF r.status = "pending" THEN "pending_delivery"
                 ELSE IF r.status = "expired" THEN "failed" ELSE "delivered"
           i2 == IF tooLate THEN "expired"
                 ELSE IF r.status = "delivered" /\ i \in {"approved", "consumed"}
                        THEN "completed"
                 ELSE IF r.status = "expired" /\ i = "consumed" THEN "failed" ELSE i
           x == [w EXCEPT !.thrown = tooLate, !.delivery[t] = d2, !.intent[t] = i2]
<1>1. CASE w.thrown \/ w.delivery[t] = "none"
  <2>1. SettledBy(w, r) = w
    BY <1>1, Zenon DEF SettledBy
  <2> QED BY <2>1
<1>2. CASE ~(w.thrown \/ w.delivery[t] = "none")
  <2>1. SettledBy(w, r) = x
    BY <1>2, Zenon DEF SettledBy
  <2>2. /\ w.intent \in [Task -> IntentStatus] /\ w.delivery \in [Task -> DeliveryStatus]
        /\ DOMAIN w = {"intent", "delivery", "thrown"} /\ t \in Task
    BY DEF Turned, IntentsAndDeliveries
  <2>3. tooLate \in BOOLEAN
    BY Zenon
  <2>4. i2 \in IntentStatus /\ d2 \in DeliveryStatus
    BY <2>2 DEF IntentStatus, DeliveryStatus
  <2>5. /\ d2 = "delivered" => t \in seen
        /\ d2 = "delivered" /\ t \notin late => i2 \notin Open
        /\ i2 = "completed" => t \in seen
        /\ i2 = "expired" => t \in late
        /\ intent[t] \in Used => i2 \in Used
        /\ intent[t] \notin Open => i2 \notin Open
    <3>1. /\ i = "completed" => t \in seen
          /\ i = "expired" => t \in late
          /\ intent[t] \in Used => i \in Used
          /\ intent[t] \notin Open => i \notin Open
      BY <2>2 DEF Turned, Agree, StaysUsed
    <3>2. d2 = "delivered" => r.status = "delivered"
      OBVIOUS
    <3> QED BY <3>1, <3>2 DEF Used, Open
  <2> HIDE DEF tooLate, i2, d2
  <2>6. /\ x.intent = [w.intent EXCEPT ![t] = i2] /\ x.delivery = [w.delivery EXCEPT ![t] = d2]
        /\ x \in IntentsAndDeliveries
    BY <2>2, <2>3, <2>4 DEF Turned, IntentsAndDeliveries
  <2> HIDE DEF x
  <2>7. ASSUME NEW u \in Task
        PROVE  /\ x.intent[u] = IF u = t THEN i2 ELSE w.intent[u]
               /\ x.delivery[u] = IF u = t THEN d2 ELSE w.delivery[u]
    BY <2>2, <2>6
  <2> QED BY <2>1, <2>5, <2>6, <2>7 DEF Turned, Agree, StaysUsed
<1> QED BY <1>1, <1>2

\* All the turns.
LEMMA RetryKeeps ==
    ASSUME NEW seen, Turned(Before, seen), NEW results,
           NEW k \in Nat, Len(results) = k,
           \A n \in 1..k : /\ results[n].task \in Task
                           /\ results[n].status \in {"delivered", "pending", "expired"}
                           /\ results[n].status = "delivered" => results[n].task \in seen,
           RetryEnds(results)
    PROVE  /\ intent' \in [Task -> IntentStatus] /\ delivery' \in [Task -> DeliveryStatus]
           /\ Agree(intent', delivery', seen)
           /\ StaysUsed(intent')
<1> DEFINE f == SettledUpTo(results, k)
           T == {n \in Nat : n <= k => Turned(f[n], seen)}
<1>1. intent' = f[k].intent /\ delivery' = f[k].delivery
  BY Zenon DEF RetryEnds, SettledUpTo, Before
<1>2. f = [n \in 0..k |-> IF n = 0 THEN Before ELSE SettledBy(f[n - 1], results[n])]
  BY SettledUpToExists
<1> HIDE DEF f
<1>3. \A n \in 0..k : f[n] = IF n = 0 THEN Before ELSE SettledBy(f[n - 1], results[n])
  BY <1>2, Zenon
<1>4. 0 \in T
  BY <1>3
<1>5. ASSUME NEW n \in T PROVE n + 1 \in T
  <2>1. SUFFICES ASSUME n + 1 <= k PROVE Turned(f[n + 1], seen)
    OBVIOUS
  <2>2. n \in Nat /\ Turned(f[n], seen)
    BY <2>1
  <2>3. n + 1 \in 1..k /\ n + 1 \in 0..k /\ n + 1 # 0 /\ (n + 1) - 1 = n
    BY <2>1, <2>2
  <2>4. f[n + 1] = SettledBy(f[n], results[n + 1])
    BY <1>3, <2>3
  <2> QED BY <2>2, <2>3, <2>4, TurnKeeps
<1>6. T = Nat
  <2> HIDE DEF T
  <2>1. T \subseteq Nat
    BY DEF T
  <2> QED BY <1>4, <1>5, <2>1, SetInduction
<1>7. Turned(f[k], seen)
  BY <1>6
<1> QED BY <1>1, <1>7 DEF Turned, IntentsAndDeliveries

-----------------------------------------------------------------------------
(***************************************************************************)
(* NetworkDelivery.  Intents and deliveries agree, in memory and in the    *)
(* log; a task that is to be flushed is still an entry or was seen, by a   *)
(* verifier or after its envelope had expired, and so is what a job has    *)
(* found delivered; and what the outbox knows, or a provider has worked    *)
(* on, has a used intent, unless a crash has forgotten it.                 *)
(***************************************************************************)
Seen == {t \in Task : verdict[t] # "none"} \cup overdue

RuntimeTypeOK ==
    /\ calls \in [Call -> [busy : BOOLEAN, had : DeliveryStatus]]
    /\ intent \in [Task -> IntentStatus]
    /\ delivery \in [Task -> DeliveryStatus]
    /\ disk \in File
    /\ late \subseteq Task /\ forgotten \subseteq Task /\ torn \subseteq Task
    /\ verdict \in [Task -> {"none", "accepted", "rejected"}]

FlushedOrSeen ==
    /\ ToDo \subseteq ToSet(entries) \cup Seen
    /\ \A r \in Results : r.status = "delivered" => r.task \in Seen

KnownIsUsed ==
    \A t \in Task : (t \in ToDo \cup Kept \/ verdict[t] # "none") /\ t \notin forgotten
                      => intent[t] \in Used

\* What the file says of a task was so, and if it says delivered, the memory
\* of the process knows the intent as used up: a line lost does not matter
\* before the next process reads the file.
FileAgrees ==
    \A t \in Task :
        /\ disk.delivery[t] = "delivered" => t \in Seen
        /\ disk.delivery[t] = "delivered" /\ t \notin late \cup torn => intent[t] \notin Open
        /\ disk.intent[t] = "completed" => t \in Seen

DeliveryInv ==
    /\ OutboxInv
    /\ RuntimeTypeOK
    /\ Agree(intent, delivery, Seen)
    /\ FileAgrees
    /\ FlushedOrSeen
    /\ KnownIsUsed

\* What every step but a write of the log and a restart has to show.
LEMMA DeliveryInvFrom ==
    ASSUME DeliveryInv, OutboxInv', RuntimeTypeOK', NEW todo, NEW results, NEW kept,
           Brings(todo, results, kept),
           Seen \subseteq Seen', late \subseteq late', UNCHANGED <<disk, forgotten, torn>>,
           ToSet(entries) \subseteq ToSet(entries') \cup Seen',
           todo \subseteq ToSet(entries') \cup Seen',
           \A r \in results : r.status = "delivered" => r.task \in Seen',
           Agree(intent, delivery, Seen)',
           StaysUsed(intent'),
           \A t \in Task : (t \in todo \cup kept \/ verdict'[t] # verdict[t]) /\ t \notin forgotten
                             => intent'[t] \in Used
    PROVE  DeliveryInv'
<1>1. FileAgrees'
  BY DEF DeliveryInv, FileAgrees, StaysUsed
<1>2. FlushedOrSeen'
  BY DEF DeliveryInv, FlushedOrSeen, Brings
<1>3. KnownIsUsed'
  BY DEF DeliveryInv, KnownIsUsed, Brings, StaysUsed
<1> QED BY <1>1, <1>2, <1>3 DEF DeliveryInv

\* A step that brings the outbox nothing, and in which nobody works.
LEMMA DeliveryInvQuiet ==
    ASSUME DeliveryInv, OutboxInv', RuntimeTypeOK', Brings({}, {}, {}),
           Seen \subseteq Seen', late \subseteq late', UNCHANGED <<disk, forgotten, verdict>>,
           \A t \in Task : t \in torn => t \in torn' \/ intent'[t] \notin Open,
           entries' = entries, Agree(intent, delivery, Seen)',
           StaysUsed(intent')
    PROVE  DeliveryInv'
<1>1. FileAgrees'
  BY DEF DeliveryInv, FileAgrees, StaysUsed
<1>2. FlushedOrSeen'
  BY DEF DeliveryInv, FlushedOrSeen, Brings
<1>3. KnownIsUsed'
  BY DEF DeliveryInv, KnownIsUsed, Brings, StaysUsed
<1> QED BY <1>1, <1>2, <1>3 DEF DeliveryInv

\* pending(...) writes over a delivery or leaves it.
LEMMA PendingKeeps ==
    ASSUME RuntimeTypeOK, NEW t \in Task, NEW had, NEW seen,
           Agree(intent, delivery, seen), Pending(t, had)
    PROVE  delivery' \in [Task -> DeliveryStatus] /\ Agree(intent, delivery', seen)
<1>1. CASE delivery' = [delivery EXCEPT ![t] = "pending_delivery"]
  <2>1. "pending_delivery" \in DeliveryStatus
    BY DEF DeliveryStatus
  <2> QED BY <1>1, <2>1 DEF RuntimeTypeOK, Agree
<1>2. CASE delivery' = delivery
  BY <1>2 DEF RuntimeTypeOK
<1> QED BY <1>1, <1>2 DEF Pending

\* networkAwardBid goes on: it settles intent and delivery together.
LEMMA AwardEndsKeeps ==
    ASSUME RuntimeTypeOK, NEW c \in Call, NEW t \in Task, NEW status, NEW seen,
           Agree(intent, delivery, seen), status = "delivered" => t \in seen,
           AwardEnds(c, t, status)
    PROVE  /\ intent' \in [Task -> IntentStatus] /\ delivery' \in [Task -> DeliveryStatus]
           /\ Agree(intent', delivery', seen)
           /\ StaysUsed(intent')
<1>1. intent \in [Task -> IntentStatus] /\ delivery \in [Task -> DeliveryStatus]
  BY DEF RuntimeTypeOK
<1> DEFINE had == calls[c].had
<1>2. CASE /\ status = "delivered" /\ intent[t] \in {"none", "consumed"}
           /\ intent' = [intent EXCEPT ![t] = IF @ = "consumed" THEN "completed" ELSE @]
           /\ delivery' = [delivery EXCEPT ![t] = "delivered"]
  BY <1>1, <1>2 DEF IntentStatus, DeliveryStatus, Agree, StaysUsed, Used, Open
<1>3. CASE /\ status = "expired"
           /\ intent' = [intent EXCEPT ![t] = IF @ = "consumed" THEN "failed" ELSE @]
           /\ delivery' = [delivery EXCEPT ![t] = IF had = "failed" THEN @ ELSE "failed"]
  BY <1>1, <1>3 DEF IntentStatus, DeliveryStatus, Agree, StaysUsed, Used, Open
<1>4. CASE Pending(t, had) /\ intent' = intent
  BY <1>1, <1>4, PendingKeeps DEF StaysUsed
<1> QED BY <1>2, <1>3, <1>4 DEF AwardEnds

\* The call that a flush belongs to goes on, if that was the last of its job.
LEMMA AnswerKeeps ==
    ASSUME DeliveryInv, Flushing, NEW status \in {"delivered", "pending", "expired"},
           NEW seen, Seen \subseteq seen, status = "delivered" => Current \in seen,
           Answer(status)
    PROVE  /\ calls' \in [Call -> [busy : BOOLEAN, had : DeliveryStatus]]
           /\ intent' \in [Task -> IntentStatus] /\ delivery' \in [Task -> DeliveryStatus]
           /\ UNCHANGED <<disk, late, forgotten, torn>>
           /\ Agree(intent', delivery', seen)
           /\ StaysUsed(intent')
<1>0. RuntimeTypeOK /\ OutboxTypeOK /\ Running
  BY DEF DeliveryInv, OutboxInv, Flushing
<1>1. /\ Now \in Job /\ ToSet(Now.results) \subseteq Results /\ Current \in Task
      /\ Now.call \in Call
  BY <1>0, RunningJob DEF Job
<1>2. Agree(intent, delivery, seen)
  BY DEF DeliveryInv, Agree
<1>3. UNCHANGED <<disk, late, forgotten, torn>>
  BY DEF Answer
<1>4. CASE UNCHANGED <<calls, intent, delivery>>
  BY <1>0, <1>2, <1>3, <1>4 DEF RuntimeTypeOK, StaysUsed
<1>5. CASE calls' = [calls EXCEPT ![Now.call] = NotCalled]
  <2>1. calls' \in [Call -> [busy : BOOLEAN, had : DeliveryStatus]]
    <3>1. NotCalled \in [busy : BOOLEAN, had : DeliveryStatus]
      BY DEF NotCalled, DeliveryStatus
    <3> QED BY <1>0, <1>5, <3>1 DEF RuntimeTypeOK
  <2>2. CASE AwardEnds(Now.call, Current, status)
    BY <1>0, <1>1, <1>2, <1>3, <2>1, <2>2, AwardEndsKeeps
  <2>3. CASE RetryEnds(Append(Now.results, ResultOf(Current, status)))
    <3> DEFINE R == [task : Task, status : {"delivered", "pending", "expired"}]
               r == ResultOf(Current, status)
               results == Append(Now.results, r)
    <3>1. Now.results \in Seq(R)
      BY <1>1 DEF Job
    <3>2. r \in R /\ r.task = Current /\ r.status = status
      BY <1>1 DEF ResultOf
    <3> HIDE DEF r
    <3>3. \A x \in R : x.task \in Task /\ x.status \in {"delivered", "pending", "expired"}
      OBVIOUS
    <3> HIDE DEF R
    <3>4. results \in Seq(R) /\ ToSet(results) = ToSet(Now.results) \cup {r}
      BY <3>1, <3>2, AppendElements
    <3>5. RetryEnds(results)
      BY <2>3 DEF r
    <3> HIDE DEF results
    <3>6. PICK k \in Nat : k = Len(results)
      BY <3>4
    <3>7. \A n \in 1..k : results[n] \in ToSet(results) /\ results[n] \in R
      BY <3>4, <3>6 DEF ToSet
    <3>8. \A x \in ToSet(results) : x.status = "delivered" => x.task \in seen
      BY <1>1, <3>2, <3>4 DEF DeliveryInv, FlushedOrSeen
    <3>9. Turned(Before, seen)
      BY <1>0, <1>2 DEF Turned, Before, IntentsAndDeliveries, RuntimeTypeOK, StaysUsed
    <3>10. /\ intent' \in [Task -> IntentStatus] /\ delivery' \in [Task -> DeliveryStatus]
           /\ Agree(intent', delivery', seen)
           /\ StaysUsed(intent')
      BY <3>3, <3>5, <3>6, <3>7, <3>8, <3>9, RetryKeeps
    <3> QED BY <1>3, <2>1, <3>10
  <2> QED BY <1>5, <2>2, <2>3, <1>4 DEF Answer
<1> QED BY <1>4, <1>5 DEF Answer

\* Nobody has worked on anything, and nothing is sent.
LEMMA DeliveryInitInv == DeliveryInit => DeliveryInv
<1> SUFFICES ASSUME DeliveryInit PROVE DeliveryInv
  OBVIOUS
<1>1. /\ entries = <<>> /\ file = <<>> /\ saves = <<>> /\ jobs = <<>>
      /\ unsaved = FALSE /\ overdue = {}
  BY DEF DeliveryInit, OutboxInit
<1>2. \A S : <<>> \in Seq(S)
  OBVIOUS
<1>3. ToSet(<<>>) = {}
  BY DEF ToSet
<1>4. OutboxTypeOK
  <2>1. unsaved \in BOOLEAN
    BY <1>1, Zenon
  <2> QED BY <1>1, <1>2, <2>1 DEF OutboxTypeOK
<1>5. OutboxInv
  BY <1>1, <1>4 DEF OutboxInv, SavesLead, OutboxIsSaved
<1>6. Kept = {} /\ ToDo = {} /\ Results = {}
  BY <1>1, <1>3 DEF Kept, ToDo, Results, Jobs
<1>7. /\ calls = [c \in Call |-> NotCalled] /\ intent \in [Task -> {"none", "approved"}]
      /\ delivery = [t \in Task |-> "none"] /\ disk = [intent |-> intent, delivery |-> delivery]
      /\ late = {} /\ forgotten = {} /\ torn = {} /\ verdict = [t \in Task |-> "none"]
  BY DEF DeliveryInit
<1>8. RuntimeTypeOK
  <2>1. NotCalled \in [busy : BOOLEAN, had : DeliveryStatus]
    BY DEF NotCalled, DeliveryStatus
  <2> HIDE DEF NotCalled
  <2>2. {"none", "approved"} \subseteq IntentStatus \ {"expired"} /\ "none" \in DeliveryStatus
    BY DEF IntentStatus, DeliveryStatus
  <2> QED BY <1>7, <2>1, <2>2 DEF RuntimeTypeOK, File
<1>9. Agree(intent, delivery, Seen) /\ FileAgrees
  BY <1>7 DEF Agree, FileAgrees
<1>10. FlushedOrSeen /\ KnownIsUsed
  BY <1>6, <1>7 DEF FlushedOrSeen, KnownIsUsed
<1> QED BY <1>5, <1>8, <1>9, <1>10 DEF DeliveryInv

\* networkAwardBid of what is delivered, refused or late, a cancellation, and
\* an intent that becomes late: the outbox is at rest.
LEMMA RuntimeStep ==
    ASSUME DeliveryInv, NEW t \in Task,
           \/ \E c \in Call : AwardDelivered(c, t) \/ AwardUnavailable(c, t) \/ AwardLate(c, t)
           \/ Cancel(t) \/ BecomesLate(t)
    PROVE  DeliveryInv'
<1>1. RuntimeTypeOK /\ OutboxInv /\ Agree(intent, delivery, Seen)
  BY DEF DeliveryInv
<1>2. UNCHANGED <<outboxVars, calls, disk, verdict, forgotten>>
  BY DEF AwardDelivered, AwardUnavailable, AwardLate, Cancel, BecomesLate
<1>3. OutboxInv' /\ Brings({}, {}, {}) /\ entries' = entries
  BY <1>1, <1>2, OutboxRests
<1>4. Seen' = Seen
  BY <1>2 DEF Seen, outboxVars
<1> DEFINE Settled ==
             /\ intent' \in [Task -> IntentStatus] /\ delivery' \in [Task -> DeliveryStatus]
             /\ late \subseteq late' /\ late' \subseteq Task /\ torn' \subseteq torn
             /\ Agree(intent, delivery, Seen)'
             /\ StaysUsed(intent')
             /\ \A u \in Task : u \in torn => u \in torn' \/ intent'[u] \notin Open
<1>5. Settled
  <2>0. intent \in [Task -> IntentStatus] /\ delivery \in [Task -> DeliveryStatus]
          /\ late \subseteq Task
    BY <1>1 DEF RuntimeTypeOK
  <2>1. ASSUME NEW c \in Call, AwardDelivered(c, t)
        PROVE  Settled
    <3>1. /\ delivery[t] = "delivered" /\ delivery' = delivery /\ late' = late
          /\ torn' = torn \ {t}
          /\ intent' = [intent EXCEPT ![t] =
                          IF @ = "approved" /\ t \in late THEN "expired"
                          ELSE IF @ \in {"approved", "consumed"} THEN "completed" ELSE @]
      BY <2>1 DEF AwardDelivered
    <3> QED BY <1>1, <1>4, <2>0, <3>1 DEF IntentStatus, Agree, StaysUsed, Used, Open
  <2>2. ASSUME NEW c \in Call, AwardUnavailable(c, t)
        PROVE  Settled
    <3>1. Pending(t, delivery[t]) /\ intent' = intent /\ late' = late /\ torn' = torn
      BY <2>2 DEF AwardUnavailable
    <3>2. delivery' \in [Task -> DeliveryStatus] /\ Agree(intent, delivery', Seen)
      BY <1>1, <3>1, PendingKeeps
    <3> QED BY <1>4, <2>0, <3>1, <3>2 DEF Agree, StaysUsed
  <2>3. ASSUME NEW c \in Call, AwardLate(c, t)
        PROVE  Settled
    <3>1. /\ intent[t] = "approved" /\ t \in late /\ delivery' = delivery /\ late' = late
          /\ torn' = torn /\ intent' = [intent EXCEPT ![t] = "expired"]
      BY <2>3 DEF AwardLate
    <3> QED BY <1>1, <1>4, <2>0, <3>1 DEF IntentStatus, Agree, StaysUsed, Used, Open
  <2>4. CASE Cancel(t)
    <3>1. /\ intent[t] \in {"approved", "expired"} /\ delivery' = delivery /\ late' = late
          /\ torn' = torn /\ intent' = [intent EXCEPT ![t] = "cancelled"]
      BY <2>4 DEF Cancel
    <3> QED BY <1>1, <1>4, <2>0, <3>1 DEF IntentStatus, Agree, StaysUsed, Used, Open
  <2>5. CASE BecomesLate(t)
    <3>1. late' = late \cup {t} /\ intent' = intent /\ delivery' = delivery /\ torn' = torn
      BY <2>5 DEF BecomesLate
    <3> QED BY <1>1, <1>4, <2>0, <3>1 DEF Agree, StaysUsed
  <2> QED BY <2>1, <2>2, <2>3, <2>4, <2>5
<1>6. RuntimeTypeOK'
  BY <1>1, <1>2, <1>5 DEF RuntimeTypeOK
<1>7. verdict' = verdict /\ UNCHANGED <<disk, forgotten>>
  BY <1>2
<1> QED BY <1>3, <1>4, <1>5, <1>6, <1>7, DeliveryInvQuiet

\* A save ends, an envelope expires, nothing happens: the runtime waits.
LEMMA WaitingStep ==
    ASSUME DeliveryInv, UNCHANGED runtimeVars,
           SaveEnds \/ UNCHANGED outboxVars \/ \E t \in Task : BecomesOverdue(t)
    PROVE  DeliveryInv'
<1>1. OutboxInv /\ RuntimeTypeOK
  BY DEF DeliveryInv
<1>2. OutboxInv' /\ Brings({}, {}, {}) /\ entries' = entries /\ overdue \subseteq overdue'
  BY <1>1, SaveEndsStep, OutboxRests
<1>3. UNCHANGED <<calls, intent, delivery, disk, late, verdict, forgotten, torn>>
  BY DEF runtimeVars
<1>4. RuntimeTypeOK'
  BY <1>1, <1>3 DEF RuntimeTypeOK
<1>5. Seen \subseteq Seen'
  BY <1>2, <1>3 DEF Seen
<1>6. Agree(intent, delivery, Seen)'
  BY <1>3, <1>5 DEF DeliveryInv, Agree
<1>7. StaysUsed(intent')
  BY <1>3 DEF StaysUsed
<1> QED BY <1>2, <1>3, <1>4, <1>5, <1>6, <1>7, DeliveryInvQuiet

\* networkAwardBid consumes the intent and sends; a retry asks for its turn.
LEMMA CallStep ==
    ASSUME DeliveryInv, NEW c \in Call, Retry(c) \/ \E t \in Task : Award(c, t)
    PROVE  DeliveryInv'
<1>0. /\ OutboxInv /\ RuntimeTypeOK /\ Agree(intent, delivery, Seen)
      /\ intent \in [Task -> IntentStatus] /\ delivery \in [Task -> DeliveryStatus]
      /\ calls \in [Call -> [busy : BOOLEAN, had : DeliveryStatus]]
  BY DEF DeliveryInv, RuntimeTypeOK
<1>1. \A had \in DeliveryStatus :
        [calls EXCEPT ![c] = [busy |-> TRUE, had |-> had]] \in
          [Call -> [busy : BOOLEAN, had : DeliveryStatus]]
  <2> TAKE had \in DeliveryStatus
  <2>1. [busy |-> TRUE, had |-> had] \in [busy : BOOLEAN, had : DeliveryStatus]
    OBVIOUS
  <2> QED BY <1>0, <2>1
<1>2. CASE Retry(c)
  <2>1. /\ RetryPending(c) /\ calls' = [calls EXCEPT ![c] = [busy |-> TRUE, had |-> "none"]]
        /\ UNCHANGED <<intent, delivery, disk, late, verdict, forgotten, torn>>
    BY <1>2 DEF Retry
  <2>2. OutboxInv' /\ Brings({}, {}, {}) /\ UNCHANGED <<entries, overdue>>
    BY <1>0, <2>1, RetryPendingStep
  <2>3. "none" \in DeliveryStatus
    BY DEF DeliveryStatus
  <2>4. RuntimeTypeOK'
    BY <1>0, <1>1, <2>1, <2>3 DEF RuntimeTypeOK
  <2>5. Seen' = Seen
    BY <2>1, <2>2 DEF Seen
  <2>6. Agree(intent, delivery, Seen)'
    BY <1>0, <2>1, <2>5 DEF Agree
  <2>7. StaysUsed(intent')
    BY <2>1 DEF StaysUsed
  <2> QED BY <2>1, <2>2, <2>4, <2>5, <2>6, <2>7, DeliveryInvQuiet
<1>3. ASSUME NEW t \in Task, Award(c, t) PROVE DeliveryInv'
  <2>1. /\ Send(c, t) /\ delivery[t] # "delivered"
        /\ calls' = [calls EXCEPT ![c] = [busy |-> TRUE, had |-> delivery[t]]]
        /\ UNCHANGED <<delivery, disk, late, verdict, forgotten, torn>>
        /\ \/ intent[t] \in {"none", "consumed"} /\ intent' = intent
           \/ intent[t] = "approved" /\ intent' = [intent EXCEPT ![t] = "consumed"]
    BY <1>3 DEF Award
  <2>2. /\ OutboxInv' /\ Brings({t}, {}, {t}) /\ overdue' = overdue
        /\ ToSet(entries) \subseteq ToSet(entries') /\ t \in ToSet(entries')
    BY <1>0, <2>1, SendStep
  <2>3. /\ intent' \in [Task -> IntentStatus] /\ intent'[t] \in Used
        /\ StaysUsed(intent')
    BY <1>0, <2>1 DEF IntentStatus, StaysUsed, Used, Open
  <2>4. RuntimeTypeOK'
    <3>1. delivery[t] \in DeliveryStatus
      BY <1>0
    <3>2. calls' \in [Call -> [busy : BOOLEAN, had : DeliveryStatus]]
      BY <1>1, <2>1, <3>1
    <3> QED BY <1>0, <2>1, <2>3, <3>2 DEF RuntimeTypeOK
  <2>5. Seen' = Seen
    BY <2>1, <2>2 DEF Seen
  <2>6. Agree(intent, delivery, Seen)'
    BY <1>0, <2>1, <2>5 DEF Agree
  <2> DEFINE todo == {t}
             results == {}
             kept == {t}
  <2>7. /\ Brings(todo, results, kept)
        /\ ToSet(entries) \subseteq ToSet(entries') \cup Seen'
        /\ todo \subseteq ToSet(entries') \cup Seen'
        /\ \A r \in results : r.status = "delivered" => r.task \in Seen'
        /\ \A u \in Task : (u \in todo \cup kept \/ verdict'[u] # verdict[u]) => u = t
    BY <2>1, <2>2
  <2> HIDE DEF todo, results, kept
  <2>8. \A u \in Task : (u \in todo \cup kept \/ verdict'[u] # verdict[u]) /\ u \notin forgotten
                          => intent'[u] \in Used
    BY <2>3, <2>7
  <2>9. Seen \subseteq Seen' /\ late \subseteq late' /\ UNCHANGED <<disk, forgotten, torn>>
    BY <2>1, <2>5
  <2> QED BY <2>2, <2>3, <2>4, <2>6, <2>7, <2>8, <2>9, DeliveryInvFrom
<1> QED BY <1>2, <1>3


\* A job goes on, without an answer.
LEMMA JobGoesOnKeeps ==
    ASSUME DeliveryInv,
           \/ (StartRetry \/ Transmit) /\ UNCHANGED runtimeVars
           \/ /\ NothingToRetry
              /\ calls' = [calls EXCEPT ![Now.call] = NotCalled]
              /\ UNCHANGED <<intent, delivery, disk, late, verdict, forgotten, torn>>
    PROVE  DeliveryInv'
<1>1. OutboxInv /\ RuntimeTypeOK /\ Agree(intent, delivery, Seen)
  BY DEF DeliveryInv
<1>2. /\ OutboxInv' /\ Brings(ToSet(entries), {}, {}) /\ UNCHANGED <<entries, overdue>>
      /\ UNCHANGED <<intent, delivery, disk, late, verdict, forgotten, torn>>
  BY <1>1, JobGoesOn DEF runtimeVars
<1>3. RuntimeTypeOK'
  <2>1. NotCalled \in [busy : BOOLEAN, had : DeliveryStatus]
    BY DEF NotCalled, DeliveryStatus
  <2>2. calls' \in [Call -> [busy : BOOLEAN, had : DeliveryStatus]]
    BY <1>1, <2>1 DEF RuntimeTypeOK, runtimeVars
  <2> QED BY <1>1, <1>2, <2>2 DEF RuntimeTypeOK
<1>4. Seen' = Seen
  BY <1>2 DEF Seen
<1>5. Agree(intent, delivery, Seen)'
  BY <1>1, <1>2, <1>4 DEF Agree
<1>6. \A t \in Task : t \in ToSet(entries) /\ t \notin forgotten => intent[t] \in Used
  BY DEF DeliveryInv, KnownIsUsed, Kept
<1> DEFINE todo == ToSet(entries)
           results == {}
           kept == {}
<1>7. /\ Brings(todo, results, kept)
      /\ ToSet(entries) \subseteq ToSet(entries') \cup Seen'
      /\ todo \subseteq ToSet(entries') \cup Seen'
      /\ \A r \in results : r.status = "delivered" => r.task \in Seen'
      /\ \A t \in Task : (t \in todo \cup kept \/ verdict'[t] # verdict[t]) /\ t \notin forgotten
                           => intent'[t] \in Used
      /\ StaysUsed(intent')
  BY <1>2, <1>6 DEF StaysUsed
<1> HIDE DEF todo, results, kept
<1>8. Seen \subseteq Seen' /\ late \subseteq late' /\ UNCHANGED <<disk, forgotten, torn>>
  BY <1>2, <1>4
<1> QED BY <1>2, <1>3, <1>5, <1>7, <1>8, DeliveryInvFrom

\* A flush ends; only a provider that was reached has a verdict that is new.
LEMMA FlushEndsKeeps ==
    ASSUME DeliveryInv, NEW status \in {"delivered", "pending", "expired"},
           Advance(status), Answer(status),
           \/ AlreadyGone /\ status = "delivered" /\ UNCHANGED verdict
           \/ Expire /\ status = "expired" /\ UNCHANGED verdict
           \/ Acknowledged /\ status = "delivered" /\ Acks(Current)
           \/ NotAcknowledged /\ status = "pending" /\ Rejects(Current)
    PROVE  DeliveryInv'
<1>1. /\ OutboxInv /\ RuntimeTypeOK /\ OutboxTypeOK /\ FlushedOrSeen /\ KnownIsUsed
      /\ verdict \in [Task -> {"none", "accepted", "rejected"}]
  BY DEF DeliveryInv, OutboxInv, RuntimeTypeOK
<1>2. Flushing /\ Running
  BY DEF AlreadyGone, Expire, Acknowledged, NotAcknowledged, Flushing
<1>3. Current \in Task /\ Current \in ToDo
  BY <1>1, <1>2, RunningJob
<1> DEFINE r == ResultOf(Current, status)
<1>4. /\ OutboxInv' /\ Brings({}, {r}, {}) /\ overdue' = overdue
      /\ ToSet(entries) \subseteq ToSet(entries') \cup {Current}
  BY <1>1, FlushEnds
<1>5. r.task = Current /\ r.status = status
  BY DEF ResultOf
<1> HIDE DEF r
<1>6. /\ verdict' \in [Task -> {"none", "accepted", "rejected"}]
      /\ \A t \in Task : verdict[t] # "none" => verdict'[t] = verdict[t]
      /\ \A t \in Task : verdict'[t] # verdict[t] => t = Current
  <2>1. verdict' = verdict \/ \E v \in {"accepted", "rejected"} : Works(Current, v)
    BY DEF Acks, Rejects
  <2> QED BY <1>1, <1>3, <2>1 DEF Works
<1>7. Seen \subseteq Seen'
  BY <1>4, <1>6 DEF Seen
<1>8. status = "delivered" \/ status = "expired" => Current \in Seen'
  <2>1. CASE AlreadyGone
    <3>1. Current \notin ToSet(entries)
      BY <2>1 DEF AlreadyGone, Contains, ToSet
    <3> QED BY <1>1, <1>3, <1>7, <3>1 DEF FlushedOrSeen
  <2>2. CASE Expire
    BY <2>2, <1>7 DEF Expire, Seen
  <2>3. CASE Acknowledged /\ Acks(Current)
    <3>1. verdict'[Current] # "none"
      BY <1>1, <1>3, <2>3 DEF Acks, Works
    <3> QED BY <1>3, <3>1 DEF Seen
  <2> QED BY <2>1, <2>2, <2>3
<1>9. ToSet(entries) \subseteq ToSet(entries') \cup Seen'
  <2>1. CASE NotAcknowledged
    BY <2>1 DEF NotAcknowledged, KeepOnly
  <2>2. CASE status # "pending"
    BY <2>2, <1>4, <1>8
  <2> QED BY <2>1, <2>2
<1> DEFINE seen == Seen'
<1>10. Seen \subseteq seen /\ (status = "delivered" => Current \in seen)
  BY <1>7, <1>8
<1>11. /\ calls' \in [Call -> [busy : BOOLEAN, had : DeliveryStatus]]
       /\ intent' \in [Task -> IntentStatus] /\ delivery' \in [Task -> DeliveryStatus]
       /\ UNCHANGED <<disk, late, forgotten, torn>>
       /\ Agree(intent', delivery', seen)
       /\ StaysUsed(intent')
  <2> HIDE DEF seen
  <2> QED BY <1>2, <1>10, AnswerKeeps
<1>12. RuntimeTypeOK'
  BY <1>1, <1>6, <1>11 DEF RuntimeTypeOK
<1>13. Agree(intent, delivery, Seen)'
  BY <1>11 DEF Agree
<1> DEFINE todo == {}
           results == {r}
           kept == {}
<1>14. /\ Brings(todo, results, kept)
       /\ todo \subseteq ToSet(entries') \cup Seen'
       /\ \A x \in results : x.status = "delivered" => x.task \in Seen'
  BY <1>4, <1>5, <1>8
<1>15. \A t \in Task : (t \in todo \cup kept \/ verdict'[t] # verdict[t]) /\ t \notin forgotten
                        => intent'[t] \in Used
  BY <1>1, <1>3, <1>6, <1>11 DEF KnownIsUsed, StaysUsed
<1> HIDE DEF todo, results, kept
<1>16. late \subseteq late' /\ UNCHANGED <<disk, forgotten, torn>>
  BY <1>11
<1> QED BY <1>4, <1>7, <1>9, <1>11, <1>12, <1>13, <1>14, <1>15, <1>16, DeliveryInvFrom

LEMMA JobStepKeeps == DeliveryInv /\ JobStep => DeliveryInv'
<1> SUFFICES ASSUME DeliveryInv, JobStep PROVE DeliveryInv'
  OBVIOUS
<1>1. ASSUME NEW status \in {"delivered", "pending", "expired"}, Answer(status),
             \/ AlreadyGone /\ status = "delivered" /\ UNCHANGED verdict
             \/ Expire /\ status = "expired" /\ UNCHANGED verdict
             \/ Acknowledged /\ status = "delivered" /\ Acks(Current)
             \/ NotAcknowledged /\ status = "pending" /\ Rejects(Current)
      PROVE  DeliveryInv'
  <2>1. Advance(status)
    BY <1>1 DEF AlreadyGone, Expire, Acknowledged, NotAcknowledged
  <2> QED BY <1>1, <2>1, FlushEndsKeeps
<1>2. CASE \/ (StartRetry \/ Transmit) /\ UNCHANGED runtimeVars
           \/ /\ NothingToRetry
              /\ calls' = [calls EXCEPT ![Now.call] = NotCalled]
              /\ UNCHANGED <<intent, delivery, disk, late, verdict, forgotten, torn>>
  BY <1>2, JobGoesOnKeeps
<1> QED BY <1>1, <1>2 DEF JobStep

\* What a file may hold was so, in this process or in the one before.
LEMMA HeldAgrees ==
    ASSUME DeliveryInv, NEW f \in File, MayHold(f), NEW t \in Task
    PROVE  /\ f.delivery[t] = "delivered" => t \in Seen
           /\ f.delivery[t] = "delivered" /\ t \notin late \cup torn => intent[t] \notin Open
           /\ f.intent[t] = "completed" => t \in Seen
           /\ f.intent[t] \in IntentStatus \ {"expired"}
<1>1. Agree(intent, delivery, Seen) /\ FileAgrees
  BY DEF DeliveryInv
<1>2. f.delivery[t] = disk.delivery[t] \/ f.delivery[t] = delivery[t]
  BY DEF MayHold
<1>3. f.intent[t] = "completed" => disk.intent[t] = "completed" \/ intent[t] = "completed"
  BY DEF MayHold, Logged
<1>4. f.intent[t] \in IntentStatus \ {"expired"}
  BY DEF File
<1> QED BY <1>1, <1>2, <1>3, <1>4 DEF Agree, FileAgrees

\* The log is written, up to anywhere: memory is as it was.
LEMMA WriteLogStep == DeliveryInv /\ WriteLog => DeliveryInv'
<1> SUFFICES ASSUME DeliveryInv, WriteLog PROVE DeliveryInv'
  OBVIOUS
<1>1. UNCHANGED <<outboxVars, calls, intent, delivery, late, verdict, forgotten, torn>>
  BY DEF WriteLog
<1>2. PICK f \in File : MayHold(f) /\ disk' = f
  BY DEF WriteLog
<1>3. /\ OutboxInv /\ RuntimeTypeOK /\ Agree(intent, delivery, Seen)
  BY DEF DeliveryInv
<1>4. OutboxInv' /\ Brings({}, {}, {}) /\ UNCHANGED <<entries, overdue>>
  BY <1>1, <1>3, OutboxRests DEF outboxVars
<1>5. Seen' = Seen
  BY <1>1, <1>4 DEF Seen
<1>6. RuntimeTypeOK'
  BY <1>1, <1>2, <1>3 DEF RuntimeTypeOK
<1>7. Agree(intent, delivery, Seen)'
  BY <1>1, <1>3, <1>5 DEF Agree
<1>8. FileAgrees'
  BY <1>1, <1>2, <1>5, HeldAgrees DEF FileAgrees
<1>9. FlushedOrSeen' /\ KnownIsUsed'
  BY <1>1, <1>4, <1>5 DEF DeliveryInv, FlushedOrSeen, KnownIsUsed, Brings
<1> QED BY <1>4, <1>6, <1>7, <1>8, <1>9 DEF DeliveryInv

\* The process stops: memory says what the file says, and a task of which the
\* last line of its intent was lost is torn or not delivered.
LEMMA RestartStep == DeliveryInv /\ Restart => DeliveryInv'
<1> SUFFICES ASSUME DeliveryInv, Restart PROVE DeliveryInv'
  OBVIOUS
<1>0. PICK f \in File :
        /\ MayHold(f)
        /\ intent' = f.intent /\ delivery' = f.delivery
        /\ disk' \in {f, disk}
        /\ forgotten' = forgotten \cup {t \in Task : intent[t] \in Used /\ f.intent[t] \notin Used}
        /\ torn' = {t \in Task : /\ "delivered" \in {f.delivery[t], disk'.delivery[t]}
                                 /\ t \in torn \/ f.intent[t] # Logged[t]}
  BY DEF Restart
<1>1. /\ OutboxRestart
      /\ calls' = [c \in Call |-> NotCalled]
      /\ UNCHANGED <<late, verdict>>
  BY DEF Restart
<1>2. /\ OutboxInv /\ RuntimeTypeOK /\ Agree(intent, delivery, Seen) /\ FileAgrees /\ KnownIsUsed
      /\ f.intent \in [Task -> IntentStatus] /\ f.delivery \in [Task -> DeliveryStatus]
      /\ intent \in [Task -> IntentStatus] /\ disk \in File
  BY DEF DeliveryInv, RuntimeTypeOK, File
<1>3. /\ OutboxInv' /\ ToDo' = {} /\ Results' = {} /\ Kept' \subseteq Kept
      /\ overdue' = overdue
  BY <1>1, <1>2, OutboxRestartStep
<1>4. Seen' = Seen
  BY <1>1, <1>3 DEF Seen
<1>5. RuntimeTypeOK'
  <2>1. NotCalled \in [busy : BOOLEAN, had : DeliveryStatus]
    BY DEF NotCalled, DeliveryStatus
  <2>2. calls' \in [Call -> [busy : BOOLEAN, had : DeliveryStatus]]
    BY <1>1, <2>1
  <2>3. /\ intent' \in [Task -> IntentStatus] /\ delivery' \in [Task -> DeliveryStatus]
        /\ forgotten' \subseteq Task /\ torn' \subseteq Task /\ disk' \in File
    BY <1>0, <1>2 DEF RuntimeTypeOK
  <2> QED BY <1>1, <1>2, <2>2, <2>3 DEF RuntimeTypeOK
<1>6. ASSUME NEW t \in Task
      PROVE  /\ f.delivery[t] = "delivered" => t \in Seen
             /\ disk.delivery[t] = "delivered" => t \in Seen
             /\ f.intent[t] = "completed" => t \in Seen
             /\ disk.intent[t] = "completed" => t \in Seen
             /\ f.intent[t] # "expired"
  BY <1>0, <1>2, HeldAgrees DEF FileAgrees
\* What the file says delivered has kept the last line of its intent, which
\* is used up, or is torn.
<1>7. ASSUME NEW t \in Task, t \notin late \cup torn',
             f.delivery[t] = "delivered" \/ disk'.delivery[t] = "delivered"
      PROVE  f.intent[t] \notin Open
  <2>1. t \notin torn /\ f.intent[t] = Logged[t]
    BY <1>0, <1>7
  <2>2. intent[t] \notin Open
    <3>1. f.delivery[t] = "delivered" \/ disk.delivery[t] = "delivered"
      BY <1>0, <1>7
    <3> QED BY <1>0, <1>2, <1>7, <2>1, <3>1, HeldAgrees DEF FileAgrees
  <2>3. intent[t] # "expired"
    BY <1>2, <1>7 DEF Agree
  <2> QED BY <2>1, <2>2, <2>3 DEF Logged
<1>8. Agree(intent, delivery, Seen)'
  BY <1>0, <1>1, <1>4, <1>6, <1>7 DEF Agree
<1>9. FileAgrees'
  BY <1>0, <1>1, <1>4, <1>6, <1>7 DEF FileAgrees
<1>10. FlushedOrSeen'
  BY <1>3 DEF FlushedOrSeen
<1>11. KnownIsUsed'
  <2> SUFFICES ASSUME NEW t \in Task, t \in Kept \/ verdict[t] # "none", t \notin forgotten'
               PROVE  intent'[t] \in Used
    BY <1>1, <1>3 DEF KnownIsUsed
  <2>1. intent[t] \in Used
    BY <1>0, <1>2 DEF KnownIsUsed
  <2> QED BY <1>0, <2>1
<1> QED BY <1>3, <1>5, <1>8, <1>9, <1>10, <1>11 DEF DeliveryInv

THEOREM DeliveryInvariance == DeliverySpec => []DeliveryInv
<1>1. DeliveryInv /\ [DeliveryNext]_deliveryVars => DeliveryInv'
  <2> SUFFICES ASSUME DeliveryInv, [DeliveryNext]_deliveryVars PROVE DeliveryInv'
    OBVIOUS
  <2>1. ASSUME NEW c \in Call, NEW t \in Task,
               AwardDelivered(c, t) \/ AwardUnavailable(c, t) \/ AwardLate(c, t)
        PROVE  DeliveryInv'
    BY <2>1, RuntimeStep
  <2>2. ASSUME NEW c \in Call, Retry(c) \/ \E t \in Task : Award(c, t)
        PROVE  DeliveryInv'
    BY <2>2, CallStep
  <2>3. CASE JobStep
    BY <2>3, JobStepKeeps
  <2>4. CASE SaveEnds /\ UNCHANGED runtimeVars
    BY <2>4, WaitingStep
  <2>5. ASSUME NEW t \in Task, BecomesOverdue(t) /\ UNCHANGED runtimeVars
        PROVE  DeliveryInv'
    BY <2>5, WaitingStep
  <2>6. ASSUME NEW t \in Task, BecomesLate(t) \/ Cancel(t)
        PROVE  DeliveryInv'
    BY <2>6, RuntimeStep
  <2>7. CASE WriteLog
    BY <2>7, WriteLogStep
  <2>8. CASE Restart
    BY <2>8, RestartStep
  <2>9. CASE UNCHANGED deliveryVars
    <3>1. UNCHANGED outboxVars /\ UNCHANGED runtimeVars
      BY <2>9 DEF deliveryVars
    <3> QED BY <3>1, WaitingStep
  <2> QED BY <2>1, <2>2, <2>3, <2>4, <2>5, <2>6, <2>7, <2>8, <2>9 DEF DeliveryNext
<1> QED BY <1>1, DeliveryInitInv, PTL DEF DeliverySpec

\* Type correctness: the outbox, the calls, what the runtime and the log say of
\* intents and deliveries, and what the providers have logged.
THEOREM DeliveryTypeCorrect == DeliverySpec => []DeliveryTypeOK
<1>1. DeliveryInv => DeliveryTypeOK
  BY DEF DeliveryInv, OutboxInv, RuntimeTypeOK, DeliveryTypeOK
<1> QED BY <1>1, DeliveryInvariance, PTL

\* Whenever no save of the outbox is under way, its file has just the entries of
\* memory, unless the last write itself failed (persist of durable-relay.ts).
THEOREM OutboxIsSavedAlways == DeliverySpec => []OutboxIsSaved
<1>1. DeliveryInv => OutboxIsSaved
  BY DEF DeliveryInv, OutboxInv
<1> QED BY <1>1, DeliveryInvariance, PTL

\* What a provider has worked on was consumed first, unless a crash has
\* forgotten it (networkAwardBid consumes before it sends).
THEOREM WorkIsConsumedAlways == DeliverySpec => []WorkIsConsumed
<1>1. DeliveryInv => WorkIsConsumed
  BY DEF DeliveryInv, KnownIsUsed, WorkIsConsumed, Used
<1> QED BY <1>1, DeliveryInvariance, PTL

\* A delivered task has used up its intent, whichever of the overlapping calls
\* of networkAwardBid and retryPendingNetworkDeliveries found out, over any
\* loss of lines, unless a restart has read the delivery without the last line
\* of its intent and networkAwardBid has not been called again.
THEOREM DeliveredIsSettledAlways == DeliverySpec => []DeliveredIsSettled
<1>1. DeliveryInv => DeliveredIsSettled
  BY DEF DeliveryInv, Agree, DeliveredIsSettled, Open
<1> QED BY <1>1, DeliveryInvariance, PTL

\* An intent is completed only for work that a verifier has seen, or when the
\* envelope had expired.
THEOREM CompletedWasVerifiedAlways == DeliverySpec => []CompletedWasVerified
<1>1. DeliveryInv => CompletedWasVerified
  <2> SUFFICES ASSUME DeliveryInv, NEW t \in Task, intent[t] = "completed"
               PROVE  verdict[t] # "none" \/ t \in overdue
    BY DEF CompletedWasVerified
  <2>1. t \in Seen
    BY DEF DeliveryInv, Agree
  <2> QED BY <2>1 DEF Seen
<1> QED BY <1>1, DeliveryInvariance, PTL

-----------------------------------------------------------------------------
(***************************************************************************)
(* The safety half of CallsAreAnswered.  A call under way has a job, in    *)
(* the chain or behind the save it waits for, and a job of send has a task *)
(* to flush: where a call waits, a save is under way or the first job of   *)
(* the chain has a step to take.                                           *)
(***************************************************************************)
Served == {j.call : j \in Jobs}

CallsHaveJobs == \A c \in Call : calls[c].busy => c \in Served
SendsHaveWork == \A j \in Jobs : j.kind = "send" => j.todo # <<>>

WaitInv == CallsHaveJobs /\ SendsHaveWork

NoCallHangs ==
    \A c \in Call : calls[c].busy =>
        saves # <<>> \/ (Running /\ (Now.kind = "retry" \/ Flushing))

\* Without its head a sequence has its other elements, and with another head
\* this one as well.
LEMMA HeadLeaves ==
    ASSUME NEW S, NEW s \in Seq(S), s # <<>>
    PROVE  /\ ToSet(s) \subseteq ToSet(Tail(s)) \cup {Head(s)}
           /\ \A x \in S : /\ x \in ToSet([s EXCEPT ![1] = x])
                           /\ ToSet(s) \subseteq ToSet([s EXCEPT ![1] = x]) \cup {Head(s)}
<1>1. Len(s) \in Nat /\ Len(s) > 0 /\ DOMAIN s = 1..Len(s) /\ Head(s) = s[1]
  OBVIOUS
<1>2. ToSet(s) \subseteq ToSet(Tail(s)) \cup {Head(s)}
  <2> DEFINE u == Tail(s)
  <2>1. DOMAIN u = 1..(Len(s) - 1) /\ \A i \in 1..(Len(s) - 1) : u[i] = s[i + 1]
    BY <1>1
  <2> HIDE DEF u
  <2> SUFFICES ASSUME NEW i \in 1..Len(s), i # 1 PROVE s[i] \in ToSet(u)
    BY <1>1 DEF ToSet, u
  <2>2. i - 1 \in 1..(Len(s) - 1) /\ (i - 1) + 1 = i
    BY <1>1
  <2>3. u[i - 1] = s[i]
    BY <2>1, <2>2
  <2> QED BY <2>1, <2>2, <2>3 DEF ToSet
<1>3. ASSUME NEW x \in S
      PROVE  /\ x \in ToSet([s EXCEPT ![1] = x])
             /\ ToSet(s) \subseteq ToSet([s EXCEPT ![1] = x]) \cup {Head(s)}
  <2> DEFINE u == [s EXCEPT ![1] = x]
  <2>1. DOMAIN u = 1..Len(s) /\ u[1] = x /\ \A i \in 1..Len(s) : i # 1 => u[i] = s[i]
    BY <1>1
  <2>2. 1 \in 1..Len(s)
    BY <1>1
  <2> HIDE DEF u
  <2>3. x \in ToSet(u) /\ ToSet(s) \subseteq ToSet(u) \cup {Head(s)}
    BY <1>1, <2>1, <2>2 DEF ToSet
  <2> QED BY <2>3 DEF u
<1> QED BY <1>2, <1>3

\* persist() takes no save away.
LEMMA PersistedAdds ==
    ASSUME NEW ss \in Seq(SaveRecord), NEW written, NEW es \in Seq(Task)
    PROVE  ToSet(ss) \subseteq ToSet(Persisted(ss, written, es))
<1> DEFINE x == [keep |-> es, next |-> NoJob]
<1>1. x \in SaveRecord
  BY DEF SaveRecord
<1>2. Persisted(ss, written, es) \in {ss, Append(ss, x)}
  BY DEF Persisted
<1> HIDE DEF x
<1>3. ToSet(Append(ss, x)) = ToSet(ss) \cup {x}
  BY <1>1, AppendElements
<1> QED BY <1>2, <1>3

\* Jobs and saves of a step that leaves the jobs behind the saves alone, or
\* puts them into the chain: whose calls are served, and that the jobs have work.
LEMMA ServedBy ==
    ASSUME OutboxTypeOK, OutboxTypeOK', SendsHaveWork, NEW done,
           \A s \in ToSet(saves) :
             s \in ToSet(saves') \/ s.next \notin Job \/ s.next \in ToSet(jobs'),
           \A j \in ToSet(jobs) :
             \/ j.call \in done
             \/ \E k \in ToSet(jobs') : k.call = j.call,
           \A j \in ToSet(jobs') : j \in Jobs \/ j.kind # "send" \/ j.todo # <<>>,
           \A s \in ToSet(saves') :
             s \in ToSet(saves) \/ s.next = NoJob \/ s.next.todo # <<>>
    PROVE  Served \subseteq Served' \cup done /\ SendsHaveWork'
<1>1. ToSet(jobs') \subseteq Job
  BY ElementsOf DEF OutboxTypeOK
<1>2. Served \subseteq Served' \cup done
  <2>1. ASSUME NEW j \in ToSet(jobs) PROVE j.call \in Served' \cup done
    BY DEF Served, Jobs
  <2>2. ASSUME NEW s \in ToSet(saves), s.next \in Job PROVE s.next \in Jobs'
    BY <2>2 DEF Jobs
  <2> QED BY <2>1, <2>2 DEF Served, Jobs
<1>3. SendsHaveWork'
  BY NoJobIsNone DEF SendsHaveWork, Jobs
<1> QED BY <1>2, <1>3

\* A call asks for a job, at once or behind a save.
LEMMA AskedIsServed ==
    ASSUME OutboxInv, SendsHaveWork, NEW c \in Call,
           RetryPending(c) \/ \E t \in Task : Send(c, t)
    PROVE  Served \cup {c} \subseteq Served' /\ SendsHaveWork'
<1>0. OutboxTypeOK /\ OutboxInv' /\ OutboxTypeOK'
  BY RetryPendingStep, SendStep DEF OutboxInv
<1>1. jobs \in Seq(Job) /\ saves \in Seq(SaveRecord)
  BY <1>0 DEF OutboxTypeOK, SaveRecord
<1>2. ASSUME NEW j \in Job, j.kind # "send" \/ j.todo # <<>>,
             jobs' = Append(jobs, j), saves' = saves, j.call = c
      PROVE  Served \cup {c} \subseteq Served' /\ SendsHaveWork'
  <2>1. ToSet(jobs') = ToSet(jobs) \cup {j}
    BY <1>1, <1>2, AppendElements
  <2>2. Served \subseteq Served' \cup {} /\ SendsHaveWork'
    BY <1>0, <1>2, <2>1, ServedBy DEF Jobs
  <2>3. c \in Served'
    BY <1>2, <2>1 DEF Served, Jobs
  <2> QED BY <2>2, <2>3
<1>3. CASE RetryPending(c)
  <2> DEFINE j == NewJob(c, "retry", <<>>)
  <2>1. jobs' = Append(jobs, j) /\ saves' = saves
    BY <1>3 DEF RetryPending
  <2>2. j \in Job /\ j.kind # "send" /\ j.call = c
    BY DEF NewJob, Job
  <2> HIDE DEF j
  <2> QED BY <1>2, <2>1, <2>2
<1>4. ASSUME NEW t \in Task, Send(c, t)
      PROVE  Served \cup {c} \subseteq Served' /\ SendsHaveWork'
  <2> DEFINE j == NewJob(c, "send", <<t>>)
  <2>1. j \in Job /\ j.todo # <<>> /\ j.call = c
    BY DEF NewJob, Job
  <2> HIDE DEF j
  <2>2. CASE Contains(entries, t)
    <3>1. jobs' = Append(jobs, j) /\ saves' = saves
      BY <1>4, <2>2, Zenon DEF Send, j
    <3> QED BY <1>2, <2>1, <3>1
  <2>3. CASE ~Contains(entries, t)
    <3> DEFINE s == [keep |-> entries', next |-> j]
    <3>1. saves' = Append(saves, s) /\ jobs' = jobs
      BY <1>4, <2>3, Zenon DEF Send, j
    <3>2. s \in SaveRecord /\ s.next = j
      BY <1>0, <2>1 DEF SaveRecord, OutboxTypeOK
    <3> HIDE DEF s
    <3>3. ToSet(saves') = ToSet(saves) \cup {s}
      BY <1>1, <3>1, <3>2, AppendElements
    <3>4. Served \subseteq Served' \cup {} /\ SendsHaveWork'
      BY <1>0, <2>1, <3>1, <3>2, <3>3, ServedBy DEF Jobs
    <3>5. c \in Served'
      BY <2>1, <3>2, <3>3 DEF Served, Jobs
    <3> QED BY <3>4, <3>5
  <2> QED BY <2>2, <2>3
<1> QED BY <1>3, <1>4

\* The job behind a save joins the chain when the save has ended.
LEMMA SavedIsServed ==
    ASSUME OutboxInv, SendsHaveWork, SaveEnds
    PROVE  Served \subseteq Served' /\ SendsHaveWork'
<1> DEFINE s == Head(saves)
<1>0. OutboxTypeOK /\ OutboxTypeOK'
  BY SaveEndsStep DEF OutboxInv
<1>1. jobs \in Seq(Job) /\ saves \in Seq(SaveRecord) /\ entries \in Seq(Task)
  BY <1>0 DEF OutboxTypeOK, SaveRecord
<1>2. /\ saves # <<>>
      /\ IF s.next = NoJob
           THEN saves' = Tail(saves) /\ jobs' = jobs
           ELSE /\ saves' = Persisted(Tail(saves), file', entries)
                /\ jobs' = Append(jobs, s.next)
  BY DEF SaveEnds
<1>3. /\ s \in ToSet(saves) /\ s \in SaveRecord /\ Tail(saves) \in Seq(SaveRecord)
      /\ ToSet(saves) \subseteq ToSet(Tail(saves)) \cup {s}
      /\ ToSet(Tail(saves)) \subseteq ToSet(saves)
  BY <1>1, <1>2, HeadElements, HeadLeaves
<1> HIDE DEF s
<1>4. CASE s.next = NoJob
  <2>1. saves' = Tail(saves) /\ jobs' = jobs /\ s.next \notin Job
    BY <1>2, <1>4, NoJobIsNone
  <2>2. Served \subseteq Served' \cup {} /\ SendsHaveWork'
    BY <1>0, <1>3, <2>1, ServedBy DEF Jobs
  <2> QED BY <2>2
<1>5. CASE s.next # NoJob
  <2>1. saves' = Persisted(Tail(saves), file', entries) /\ jobs' = Append(jobs, s.next)
    BY <1>2, <1>5
  <2>2. s.next \in Job /\ s.next \in Jobs
    BY <1>3, <1>5 DEF SaveRecord, Jobs
  <2>3. ToSet(jobs') = ToSet(jobs) \cup {s.next}
    BY <1>1, <2>1, <2>2, AppendElements
  <2>4. /\ ToSet(Tail(saves)) \subseteq ToSet(saves')
        /\ \A x \in ToSet(saves') : x \in ToSet(Tail(saves)) \/ x.next = NoJob
    <3> DEFINE ss == Tail(saves)
               written == file'
    <3>1. ss \in Seq(SaveRecord) /\ saves' = Persisted(ss, written, entries)
      BY <1>3, <2>1
    <3> HIDE DEF ss, written
    <3>2. /\ ToSet(ss) \subseteq ToSet(saves')
          /\ \A x \in ToSet(saves') : x \in ToSet(ss) \/ x.next = NoJob
      BY <1>1, <3>1, PersistedAdds, PersistedLeads
    <3> QED BY <3>2 DEF ss
  <2>5. Served \subseteq Served' \cup {} /\ SendsHaveWork'
    BY <1>0, <1>3, <2>2, <2>3, <2>4, ServedBy DEF Jobs
  <2> QED BY <2>5
<1> QED BY <1>4, <1>5

\* A change of the entries takes no job away.
LEMMA KeptSavesStay ==
    ASSUME OutboxTypeOK, NEW es \in Seq(Task), KeepOnly(es)
    PROVE  /\ ToSet(saves) \subseteq ToSet(saves')
           /\ \A s \in ToSet(saves') : s \in ToSet(saves) \/ s.next = NoJob
<1>1. saves \in Seq(SaveRecord) /\ saves' = Persisted(saves, file, es)
  BY DEF OutboxTypeOK, SaveRecord, KeepOnly
<1> QED BY <1>1, PersistedAdds, PersistedLeads

\* The running job goes on, or ends: only its own call is served no longer.
LEMMA RunningIsServed ==
    ASSUME OutboxInv, OutboxTypeOK', SendsHaveWork, Running, NEW done,
           ToSet(saves) \subseteq ToSet(saves'),
           \A s \in ToSet(saves') : s \in ToSet(saves) \/ s.next = NoJob,
           \/ jobs' = Tail(jobs) /\ Now.call \in done
           \/ \E x \in Job : /\ jobs' = [jobs EXCEPT ![1] = x]
                             /\ x.call = Now.call
                             /\ x.kind = "send" => x.todo # <<>>
    PROVE  Served \subseteq Served' \cup done /\ SendsHaveWork'
<1>1. /\ OutboxTypeOK /\ jobs \in Seq(Job) /\ jobs # <<>>
  BY RunningJob DEF OutboxInv
<1>2. CASE jobs' = Tail(jobs) /\ Now.call \in done
  <2>1. ToSet(jobs) \subseteq ToSet(jobs') \cup {Now} /\ ToSet(jobs') \subseteq ToSet(jobs)
    BY <1>1, <1>2, HeadElements, HeadLeaves DEF Now
  <2> QED BY <1>1, <1>2, <2>1, ServedBy DEF Jobs
<1>3. ASSUME NEW x \in Job, jobs' = [jobs EXCEPT ![1] = x], x.call = Now.call,
             x.kind = "send" => x.todo # <<>>
      PROVE  Served \subseteq Served' \cup done /\ SendsHaveWork'
  <2>1. /\ ToSet(jobs) \subseteq ToSet(jobs') \cup {Now} /\ x \in ToSet(jobs')
        /\ ToSet(jobs') \subseteq ToSet(jobs) \cup {x}
    BY <1>1, <1>3, HeadElements, HeadLeaves DEF Now
  <2> QED BY <1>1, <1>3, <2>1, ServedBy DEF Jobs
<1> QED BY <1>2, <1>3

\* A job starts, or hands an entry to the relay; a retry with no entries ends.
LEMMA GoingIsServed ==
    ASSUME OutboxInv, SendsHaveWork, StartRetry \/ NothingToRetry \/ Transmit
    PROVE  /\ Served \subseteq Served' \cup (IF NothingToRetry THEN {Now.call} ELSE {})
           /\ SendsHaveWork'
<1>1. /\ Running /\ OutboxTypeOK /\ OutboxTypeOK'
      /\ entries \in Seq(Task)
  BY JobGoesOn DEF StartRetry, NothingToRetry, Transmit, Flushing, OutboxInv, OutboxTypeOK
<1>2. /\ jobs \in Seq(Job) /\ jobs # <<>> /\ Now \in Job /\ Now \in Jobs /\ Now = jobs[1]
  BY <1>1, RunningJob DEF Now
<1>3. /\ ToSet(saves) \subseteq ToSet(saves')
      /\ \A s \in ToSet(saves') : s \in ToSet(saves) \/ s.next = NoJob
  <2>1. CASE StartRetry \/ NothingToRetry
    BY <2>1 DEF StartRetry, NothingToRetry
  <2>2. CASE Transmit
    BY <1>1, <2>2, KeptSavesStay DEF Transmit
  <2> QED BY <2>1, <2>2
<1> DEFINE done == IF NothingToRetry THEN {Now.call} ELSE {}
<1>4. \/ jobs' = Tail(jobs) /\ Now.call \in done
      \/ \E x \in Job : /\ jobs' = [jobs EXCEPT ![1] = x]
                        /\ x.call = Now.call
                        /\ x.kind = "send" => x.todo # <<>>
  <2>1. CASE StartRetry
    <3> DEFINE x == [Now EXCEPT !.todo = entries]
    <3>1. x \in Job /\ x.call = Now.call /\ x.kind = Now.kind
      BY <1>1, <1>2 DEF Job
    <3>2. x.kind # "send" /\ jobs' = [jobs EXCEPT ![1] = x]
      BY <1>2, <2>1, <3>1 DEF StartRetry
    <3> HIDE DEF x
    <3> QED BY <3>1, <3>2
  <2>2. CASE NothingToRetry
    BY <2>2 DEF NothingToRetry
  <2>3. CASE Transmit
    <3> DEFINE x == [Now EXCEPT !.sending = TRUE]
    <3>1. x \in Job /\ x.call = Now.call /\ x.todo = Now.todo
      BY <1>2 DEF Job
    <3>2. x.todo # <<>> /\ jobs' = [jobs EXCEPT ![1] = x]
      BY <1>2, <2>3, <3>1 DEF Transmit, Flushing
    <3> HIDE DEF x
    <3> QED BY <3>1, <3>2
  <2> QED BY <2>1, <2>2, <2>3
<1> HIDE DEF done
<1>5. Served \subseteq Served' \cup done /\ SendsHaveWork'
  BY <1>1, <1>3, <1>4, RunningIsServed
<1> QED BY <1>5 DEF done

\* The flush of the current task ends, and with the last one the job.
LEMMA FlushedIsServed ==
    ASSUME OutboxInv, SendsHaveWork,
           NEW status \in {"delivered", "pending", "expired"}, Advance(status),
           AlreadyGone \/ Expire \/ Acknowledged \/ NotAcknowledged
    PROVE  /\ Served \subseteq Served' \cup (IF Len(Now.todo) = 1 THEN {Now.call} ELSE {})
           /\ SendsHaveWork'
<1>1. /\ Running /\ Flushing /\ OutboxTypeOK /\ OutboxTypeOK' /\ entries \in Seq(Task)
  BY FlushEnds
     DEF AlreadyGone, Expire, Acknowledged, NotAcknowledged, Flushing, OutboxInv, OutboxTypeOK
<1>2. /\ jobs \in Seq(Job) /\ jobs # <<>> /\ Now \in Job
      /\ Now.todo \in Seq(Task) /\ Now.todo # <<>> /\ Current \in Task
  BY <1>1, RunningJob DEF Flushing
<1>3. /\ ToSet(saves) \subseteq ToSet(saves')
      /\ \A s \in ToSet(saves') : s \in ToSet(saves) \/ s.next = NoJob
  <2> DEFINE gone == RemoveFirst(entries, Current)
  <2>1. gone \in Seq(Task)
    BY <1>1, RemovedElements
  <2> HIDE DEF gone
  <2>2. CASE AlreadyGone
    BY <2>2 DEF AlreadyGone
  <2>3. CASE KeepOnly(gone) \/ KeepOnly(entries)
    BY <1>1, <2>1, <2>3, KeptSavesStay
  <2> QED BY <2>2, <2>3 DEF Expire, Acknowledged, NotAcknowledged, gone
<1> DEFINE done == IF Len(Now.todo) = 1 THEN {Now.call} ELSE {}
           x == Advanced(status)
           r == ResultOf(Current, status)
           R == [task : Task, status : {"delivered", "pending", "expired"}]
<1>4. CASE Len(Now.todo) = 1
  <2>1. jobs' = Tail(jobs) /\ Now.call \in done
    BY <1>4 DEF Advance
  <2> HIDE DEF done
  <2>2. Served \subseteq Served' \cup done /\ SendsHaveWork'
    BY <1>1, <1>3, <2>1, RunningIsServed
  <2> QED BY <2>2 DEF done
<1>5. CASE Len(Now.todo) # 1
  <2>1. jobs' = [jobs EXCEPT ![1] = x]
    BY <1>5 DEF Advance
  <2>2. Tail(Now.todo) \in Seq(Task) /\ Tail(Now.todo) # <<>>
    <3> DEFINE u == Tail(Now.todo)
    <3>1. u \in Seq(Task) /\ Len(u) = Len(Now.todo) - 1 /\ Len(Now.todo) \in Nat
      BY <1>2, HeadTailProperties
    <3> HIDE DEF u
    <3>2. Len(u) # 0
      BY <1>5, <3>1
    <3>3. u # <<>>
      BY <3>2
    <3> QED BY <3>1, <3>3 DEF u
  <2>3. Append(Now.results, r) \in Seq(R)
    <3>1. r \in R /\ Now.results \in Seq(R)
      BY <1>2 DEF Job, ResultOf
    <3> HIDE DEF r, R
    <3> QED BY <3>1, AppendElements
  <2>4. x \in Job /\ x.call = Now.call /\ x.todo = Tail(Now.todo)
    BY <1>2, <2>2, <2>3 DEF Advanced, Job
  <2> HIDE DEF x, done
  <2>5. Served \subseteq Served' \cup done /\ SendsHaveWork'
    BY <1>1, <1>3, <2>1, <2>2, <2>4, RunningIsServed
  <2> QED BY <2>5 DEF done
<1> QED BY <1>4, <1>5

\* Who waits has a job, whatever happens.
LEMMA WaitInvStep ==
    ASSUME DeliveryInv, WaitInv, [DeliveryNext]_deliveryVars
    PROVE  WaitInv'
<1>0. /\ OutboxInv /\ CallsHaveJobs /\ SendsHaveWork
      /\ calls \in [Call -> [busy : BOOLEAN, had : DeliveryStatus]]
  BY DEF DeliveryInv, RuntimeTypeOK, WaitInv
<1>1. ASSUME UNCHANGED <<calls, jobs, saves>> PROVE WaitInv'
  BY <1>0, <1>1 DEF WaitInv, CallsHaveJobs, SendsHaveWork, Served, Jobs
<1>2. ASSUME NEW c \in Call, Retry(c) \/ \E t \in Task : Award(c, t) PROVE WaitInv'
  <2>1. /\ RetryPending(c) \/ \E t \in Task : Send(c, t)
        /\ \E x : calls' = [calls EXCEPT ![c] = x]
    BY <1>2 DEF Retry, Award
  <2>2. Served \cup {c} \subseteq Served' /\ SendsHaveWork'
    BY <1>0, <2>1, AskedIsServed
  <2> QED BY <1>0, <2>1, <2>2 DEF WaitInv, CallsHaveJobs
<1>3. CASE SaveEnds /\ UNCHANGED runtimeVars
  BY <1>0, <1>3, SavedIsServed DEF WaitInv, CallsHaveJobs, runtimeVars
<1>4. ASSUME NEW done, Served \subseteq Served' \cup done, SendsHaveWork',
             \/ done = {} /\ calls' = calls
             \/ done \subseteq {Now.call} /\ calls' = [calls EXCEPT ![Now.call] = NotCalled]
      PROVE  WaitInv'
  BY <1>0, <1>4 DEF WaitInv, CallsHaveJobs, NotCalled
<1>5. CASE JobStep
  <2>1. CASE (StartRetry \/ Transmit) /\ UNCHANGED runtimeVars
    <3>1. Served \subseteq Served' \cup {} /\ SendsHaveWork'
      <4>1. StartRetry \/ Transmit => ~NothingToRetry
        BY DEF StartRetry, Transmit, NothingToRetry, Flushing
      <4> QED BY <1>0, <2>1, <4>1, GoingIsServed
    <3> QED BY <1>4, <2>1, <3>1 DEF runtimeVars
  <2>2. CASE NothingToRetry /\ calls' = [calls EXCEPT ![Now.call] = NotCalled]
    <3>1. Served \subseteq Served' \cup {Now.call} /\ SendsHaveWork'
      BY <1>0, <2>2, GoingIsServed
    <3> QED BY <1>4, <2>2, <3>1
  <2>3. ASSUME NEW status \in {"delivered", "pending", "expired"}, Answer(status),
               \/ AlreadyGone /\ status = "delivered"
               \/ Expire /\ status = "expired"
               \/ Acknowledged /\ status = "delivered"
               \/ NotAcknowledged /\ status = "pending"
        PROVE  WaitInv'
    <3>1. Advance(status) /\ Flushing
      BY <2>3 DEF AlreadyGone, Expire, Acknowledged, NotAcknowledged
    <3>2. /\ Served \subseteq Served' \cup (IF Len(Now.todo) = 1 THEN {Now.call} ELSE {})
          /\ SendsHaveWork'
      BY <1>0, <2>3, <3>1, FlushedIsServed
    <3>3. Len(Now.todo) \in Nat /\ Len(Now.todo) > 0
      <4>1. Now.todo \in Seq(Task) /\ Now.todo # <<>>
        BY <1>0, <3>1, RunningJob DEF OutboxInv, Flushing
      <4> QED BY <4>1
    <3>4. CASE Len(Now.todo) = 1
      <4>1. calls' = [calls EXCEPT ![Now.call] = NotCalled]
        BY <2>3, <3>4 DEF Answer
      <4> QED BY <1>4, <3>2, <3>4, <4>1
    <3>5. CASE Len(Now.todo) # 1
      <4> DEFINE n == Len(Now.todo)
      <4>1. n > 1
        <5>1. n \in Nat /\ n > 0 /\ n # 1
          BY <3>3, <3>5
        <5> HIDE DEF n
        <5> QED BY <5>1
      <4>2. calls' = calls
        BY <2>3, <4>1 DEF Answer
      <4> QED BY <1>4, <3>2, <3>5, <4>2
    <3> QED BY <3>4, <3>5
  <2> QED BY <1>5, <2>1, <2>2, <2>3 DEF JobStep
<1>6. CASE Restart
  <2>1. calls' = [c \in Call |-> NotCalled] /\ jobs' = <<>> /\ saves' = <<>>
    BY <1>6 DEF Restart, OutboxRestart
  <2>2. ToSet(<<>>) = {}
    BY DEF ToSet
  <2>3. \A c \in Call : ~calls'[c].busy
    BY <2>1 DEF NotCalled
  <2> QED BY <2>1, <2>2, <2>3 DEF WaitInv, CallsHaveJobs, SendsHaveWork, Jobs
<1>7. CASE UNCHANGED deliveryVars
  BY <1>1, <1>7 DEF deliveryVars, outboxVars, runtimeVars
<1>8. ASSUME NEW t \in Task, NEW c \in Call,
             AwardDelivered(c, t) \/ AwardUnavailable(c, t) \/ AwardLate(c, t)
      PROVE  WaitInv'
  BY <1>1, <1>8 DEF AwardDelivered, AwardUnavailable, AwardLate, outboxVars
<1>9. ASSUME NEW t \in Task,
             \/ BecomesOverdue(t) /\ UNCHANGED runtimeVars
             \/ BecomesLate(t) \/ Cancel(t)
      PROVE  WaitInv'
  BY <1>1, <1>9 DEF BecomesOverdue, BecomesLate, Cancel, outboxVars, runtimeVars
<1>10. CASE WriteLog
  BY <1>1, <1>10 DEF WriteLog, outboxVars
<1> QED BY <1>2, <1>3, <1>5, <1>6, <1>7, <1>8, <1>9, <1>10 DEF DeliveryNext

\* No call of networkAwardBid or retryPendingNetworkDeliveries can wait where
\* nothing is left to happen: a save is under way, or the job at the head of
\* the queue of durable-relay.ts has a task to flush or its keys to read.
THEOREM NobodyWaitsInVain == DeliverySpec => []NoCallHangs
<1>1. DeliveryInit => WaitInv
  <2> SUFFICES ASSUME DeliveryInit PROVE WaitInv
    OBVIOUS
  <2>1. jobs = <<>> /\ saves = <<>> /\ calls = [c \in Call |-> NotCalled]
    BY DEF DeliveryInit, OutboxInit
  <2>2. ToSet(<<>>) = {}
    BY DEF ToSet
  <2>3. \A c \in Call : ~calls[c].busy
    BY <2>1 DEF NotCalled
  <2> QED BY <2>1, <2>2, <2>3 DEF WaitInv, CallsHaveJobs, SendsHaveWork, Jobs
<1>2. DeliveryInv /\ WaitInv => NoCallHangs
  <2> SUFFICES ASSUME DeliveryInv, WaitInv, NEW c \in Call, calls[c].busy, saves = <<>>
               PROVE  Running /\ (Now.kind = "retry" \/ Flushing)
    BY DEF NoCallHangs
  <2>1. ToSet(<<>>) = {} /\ OutboxTypeOK
    BY DEF ToSet, DeliveryInv, OutboxInv
  <2>2. PICK j \in ToSet(jobs) : j.call = c
    BY <2>1 DEF WaitInv, CallsHaveJobs, Served, Jobs
  <2>3. Running
    BY <2>1, <2>2 DEF Running
  <2>4. Now \in Job /\ Now \in Jobs
    BY <2>1, <2>3, RunningJob
  <2>5. Now.kind = "retry" \/ Now.todo # <<>>
    BY <2>4 DEF WaitInv, SendsHaveWork, Job
  <2> QED BY <2>3, <2>5 DEF Flushing
<1>3. DeliveryInv /\ WaitInv /\ [DeliveryNext]_deliveryVars => WaitInv'
  BY WaitInvStep
<1>4. DeliverySpec => []WaitInv
  BY <1>1, <1>3, DeliveryInvariance, PTL DEF DeliverySpec
<1> QED BY <1>2, <1>4, DeliveryInvariance, PTL
=============================================================================
