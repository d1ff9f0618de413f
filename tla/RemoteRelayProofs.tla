--------------------------- MODULE RemoteRelayProofs ---------------------------
(***************************************************************************)
(* The safety properties of RemoteRelay, for any messages and bounds, from *)
(* one invariant.  What it adds to the properties:                         *)
(*   a frame of a message is on the connection its run waits on and the    *)
(*     relay believes in that connection, so that an answer settles the    *)
(*     run it belongs to;                                                  *)
(*   what is saved is as true of a message as what is in memory, whenever  *)
(*     it was saved;                                                       *)
(*   a message whose acceptance was not lost is worked on by the connection*)
(*     its run waits on, and once accepted it is delivered or its ack is on*)
(*     the way.                                                            *)
(***************************************************************************)
EXTENDS RemoteRelay, TLAPS

Carrier ==
    /\ endpoint # None => endpoint \in open
    /\ unseen \subseteq open
    /\ open \subseteq 1 .. connections
    /\ \A m \in Message, k \in Connection : k > connections => leg[m][k] = "none"
    /\ revoked => ~bound

\* What the relay knows of a message, and its file.
Known(m) ==
    /\ record[m] = "delivered" => accepted[m] > 0 /\ m \notin pending /\ run[m] = None
    /\ record[m] \in {"pending", "failed"} =>
           m \in pending \/ (~encrypted /\ restarts > 0)
    /\ run[m] # None => m \in pending /\ run[m] \in open
    /\ m \in asking => run[m] # None
Filed(m) ==
    /\ file.record[m] = "delivered" => accepted[m] > 0 /\ m \notin file.pending
    /\ file.record[m] \in {"pending", "failed"} => m \in file.pending \/ ~encrypted

\* Where its frames are.
Framed(m) ==
    \A k \in Connection :
        /\ leg[m][k] = "acked" => accepted[m] > 0
        /\ leg[m][k] \in {"task", "acked", "refused"} => run[m] = k /\ k \in open
        /\ leg[m][k] = "working" /\ k \in open => run[m] = k

\* Its acceptance, while it was not lost.
Single(m) ==
    m \notin disturbed =>
        /\ \A k \in Connection :
               leg[m][k] = "working" => run[m] = k /\ k \in open /\ wire = k
        /\ accepted[m] > 0 =>
               /\ accepted[m] = 1
               /\ record[m] = "delivered" \/ (run[m] # None /\ leg[m][run[m]] = "acked")

Sound(m) == Known(m) /\ Filed(m) /\ Framed(m) /\ Single(m)
RelayInv == TypeOK /\ Carrier /\ \A m \in Message : Sound(m)

-----------------------------------------------------------------------------
(* Types.                                                                  *)

LEMMA ConnectionFacts ==
    /\ Connection \subseteq Nat /\ None \notin Connection /\ None = 0
    /\ \A k \in Connection : k > 0
BY DEF Connection, None

LEMMA SetTypes ==
    /\ TypeOK => /\ lapsed \subseteq Connection /\ open \subseteq Connection
                 /\ ready \subseteq Connection /\ unseen \subseteq Connection
    /\ TypeOK' => /\ lapsed' \subseteq Connection /\ open' \subseteq Connection
                  /\ ready' \subseteq Connection /\ unseen' \subseteq Connection
BY DEF TypeOK

\* What deliver changes, message by message.
LEMMA DeliverEffect ==
    ASSUME TypeOK, NEW M \in SUBSET Message, NEW k \in Connection, Deliver(M, k)
    PROVE  /\ run' \in [Message -> Connection \union {None}]
           /\ record' \in [Message -> Status]
           /\ leg' \in [Message -> [Connection -> Leg]]
           /\ offered' \in [Connection -> [Message -> {"no", "begun", "joined"}]]
           /\ \A m \in Message :
                IF m \in M /\ run[m] = None
                THEN /\ run'[m] = k /\ record'[m] = "pending"
                     /\ leg'[m][k] \in {"task", "none"}
                     /\ \A q \in Connection : q # k => leg'[m][q] = leg[m][q]
                ELSE run'[m] = run[m] /\ record'[m] = record[m] /\ leg'[m] = leg[m]
           /\ \A m \in Message, q \in Connection : q # k => leg'[m][q] = leg[m][q]
<1> USE DEF TypeOK, Begun
<1>1. run' \in [Message -> Connection \union {None}] /\ record' \in [Message -> Status]
  BY DEF Deliver, Status
<1>2. leg' \in [Message -> [Connection -> Leg]]
  BY DEF Deliver, Leg
<1>3. offered' \in [Connection -> [Message -> {"no", "begun", "joined"}]]
  BY DEF Deliver
<1>4. ASSUME NEW m \in Message
      PROVE  IF m \in M /\ run[m] = None
             THEN /\ run'[m] = k /\ record'[m] = "pending"
                  /\ leg'[m][k] \in {"task", "none"}
                  /\ \A q \in Connection : q # k => leg'[m][q] = leg[m][q]
             ELSE run'[m] = run[m] /\ record'[m] = record[m] /\ leg'[m] = leg[m]
  BY <1>4 DEF Deliver
<1>5. ASSUME NEW m \in Message, NEW q \in Connection, q # k
      PROVE  leg'[m][q] = leg[m][q]
  BY <1>4, <1>5
<1> QED BY <1>1, <1>2, <1>3, <1>4, <1>5

LEMMA InitTyped == Init => TypeOK
<1> SUFFICES ASSUME Init PROVE TypeOK
  OBVIOUS
<1>1. /\ encrypted \in BOOLEAN /\ bound \in BOOLEAN /\ revoked \in BOOLEAN
  BY DEF Init
<1>2. /\ record \in [Message -> Status] /\ run \in [Message -> Connection \union {None}]
      /\ leg \in [Message -> [Connection -> Leg]] /\ accepted \in [Message -> Nat]
      /\ offered \in [Connection -> [Message -> {"no", "begun", "joined"}]]
  BY DEF Init, Status, Leg
<1>3. file \in [pending : SUBSET Message, record : [Message -> Status], revoked : BOOLEAN]
  BY <1>2 DEF Init
<1>4. connections \in 0 .. MaxConnections /\ restarts \in 0 .. MaxRestarts
  BY BoundsAssumption DEF Init
<1> QED BY <1>1, <1>2, <1>3, <1>4 DEF Init, TypeOK

\* The steps of the senders and of the file.
SenderStep(m) ==
    \/ SendOffline(m) \/ SendDelivers(m) \/ SenderLeaves(m)
    \/ \E k \in Connection : AckArrives(m, k)
ProviderStep(m) == TaskArrives(m) \/ \E k \in Connection : AcceptEnds(m, k)
RelayStep == Save \/ Revoke \/ Restart \/ \E k \in Connection : SocketCloses(k)
EndpointStep ==
    Register \/ Registered \/ WireDies
    \/ \E k \in Connection : Replay(k) \/ LeaseExpires(k)

LEMMA SenderType == ASSUME TypeOK, NEW m \in Message, SenderStep(m) PROVE TypeOK'
<1> USE DEF TypeOK
<1>1. CASE SendOffline(m)
  BY <1>1 DEF SendOffline, Status, carrierVars, historyVars
<1>2. CASE SendDelivers(m)
  <2>1. endpoint \in Connection /\ {m} \in SUBSET Message /\ Deliver({m}, endpoint)
    BY <1>2 DEF SendDelivers
  <2> QED BY <1>2, <2>1, DeliverEffect DEF SendDelivers
<1>3. CASE SenderLeaves(m)
  BY <1>3 DEF SenderLeaves, carrierVars, historyVars
<1>4. ASSUME NEW k \in Connection, AckArrives(m, k) PROVE TypeOK'
  <2>1. /\ leg' \in [Message -> [Connection -> Leg]] /\ record' \in [Message -> Status]
        /\ run' \in [Message -> Connection \union {None}] /\ pending' \subseteq Message
    BY <1>4, ZenonT(30) DEF AckArrives, Leg, Status
  <2> QED BY <1>4, <2>1 DEF AckArrives, historyVars
<1> QED BY <1>1, <1>2, <1>3, <1>4 DEF SenderStep

LEMMA ProviderType == ASSUME TypeOK, NEW m \in Message, ProviderStep(m) PROVE TypeOK'
<1> USE DEF TypeOK
<1>1. CASE TaskArrives(m)
  <2>1. leg' \in [Message -> [Connection -> Leg]]
    BY <1>1 DEF TaskArrives, Leg
  <2> QED BY <1>1, <2>1 DEF TaskArrives, relayVars, historyVars
<1>2. ASSUME NEW k \in Connection, AcceptEnds(m, k) PROVE TypeOK'
  <2>1. leg' \in [Message -> [Connection -> Leg]] /\ accepted' \in [Message -> Nat]
    BY <1>2 DEF AcceptEnds, Leg
  <2> QED BY <1>2, <2>1 DEF AcceptEnds, relayVars
<1> QED BY <1>1, <1>2 DEF ProviderStep

LEMMA RelayType == ASSUME TypeOK, RelayStep PROVE TypeOK'
<1> USE DEF TypeOK
<1>1. CASE Save
  <2>1. file' \in [pending : SUBSET Message, record : [Message -> Status],
                   revoked : BOOLEAN]
    BY <1>1 DEF Save, SavedPending
  <2> QED BY <1>1, <2>1 DEF Save, carrierVars, historyVars
<1>2. CASE Revoke
  <2>1. bound' \in BOOLEAN /\ revoked' \in BOOLEAN
    BY <1>2, Zenon DEF Revoke, BoundAfterRevocation
  <2> QED BY <1>2, <2>1 DEF Revoke, carrierVars, historyVars
<1>3. CASE Restart
  <2>1. /\ leg' \in [Message -> [Connection -> Leg]] /\ record' \in [Message -> Status]
        /\ run' \in [Message -> Connection \union {None}]
        /\ pending' \subseteq Message /\ restarts' \in 0 .. MaxRestarts
        /\ disturbed' \subseteq Message
    BY <1>3, BoundsAssumption DEF Restart, Leg
  <2>2. bound' \in BOOLEAN /\ revoked' \in BOOLEAN
    <3>1. file.revoked \in BOOLEAN
      BY DEF TypeOK
    <3> QED BY <1>3, <3>1, Zenon DEF Restart
  <2> QED BY <1>3, <2>1, <2>2 DEF Restart
<1>4. ASSUME NEW k \in Connection, SocketCloses(k) PROVE TypeOK'
  <2>1. bound' \in BOOLEAN
    BY <1>4, Zenon DEF SocketCloses
  <2>2. /\ leg' \in [Message -> [Connection -> Leg]] /\ record' \in [Message -> Status]
        /\ run' \in [Message -> Connection \union {None}] /\ asking' \subseteq Message
        /\ disturbed' \subseteq Message /\ endpoint' \in Connection \union {None}
    BY <1>4 DEF SocketCloses, FailRuns, CutOff, Leg, Status
  <2> QED BY <1>4, <2>1, <2>2 DEF SocketCloses
<1> QED BY <1>1, <1>2, <1>3, <1>4 DEF RelayStep

LEMMA EndpointType == ASSUME TypeOK, EndpointStep PROVE TypeOK'
<1> USE DEF TypeOK
<1>1. CASE Register
  <2>1. bound' \in BOOLEAN
    BY <1>1, Zenon DEF Register
  <2>2. connections' \in 0 .. MaxConnections /\ connections' \in Connection
    BY <1>1, BoundsAssumption DEF Register, Connection
  <2> QED BY <1>1, <2>1, <2>2 DEF Register, historyVars
<1>2. CASE Registered
  BY <1>2 DEF Registered, Announce, relayVars, historyVars
<1>3. CASE WireDies
  <2>1. leg' \in [Message -> [Connection -> Leg]]
    BY <1>3 DEF WireDies, Leg
  <2> QED BY <1>3, <2>1 DEF WireDies, relayVars
<1>4. ASSUME NEW k \in Connection, Replay(k) PROVE TypeOK'
  <2>1. /\ run' \in [Message -> Connection \union {None}]
        /\ record' \in [Message -> Status] /\ leg' \in [Message -> [Connection -> Leg]]
        /\ offered' \in [Connection -> [Message -> {"no", "begun", "joined"}]]
    BY <1>4, DeliverEffect DEF Replay
  <2> QED BY <1>4, <2>1 DEF Replay
<1>5. ASSUME NEW k \in Connection, LeaseExpires(k) PROVE TypeOK'
  BY <1>5 DEF LeaseExpires, relayVars, carrierVars, historyVars
<1> QED BY <1>1, <1>2, <1>3, <1>4, <1>5 DEF EndpointStep

-----------------------------------------------------------------------------
(* The invariant, action by action.                                        *)

LEMMA DeliverKeeps ==
    ASSUME RelayInv, NEW M \in SUBSET Message, NEW k \in Connection, k \in open,
           Deliver(M, k), M \subseteq pending', pending \subseteq pending',
           \A m \in Message : m \in pending' \ pending => record[m] # "delivered",
           \A m \in M : record[m] # "delivered",
           asking \subseteq asking', asking' \ asking \subseteq M,
           UNCHANGED <<encrypted, file, open, wire, accepted, disturbed, restarts>>
    PROVE  \A m \in Message : Sound(m)'
<1> SUFFICES ASSUME NEW m \in Message PROVE Sound(m)'
  OBVIOUS
<1>1. Sound(m) /\ TypeOK
  BY DEF RelayInv
<1>2. IF m \in M /\ run[m] = None
      THEN /\ run'[m] = k /\ record'[m] = "pending"
           /\ leg'[m][k] \in {"task", "none"}
           /\ \A q \in Connection : q # k => leg'[m][q] = leg[m][q]
      ELSE run'[m] = run[m] /\ record'[m] = record[m] /\ leg'[m] = leg[m]
  BY <1>1, DeliverEffect
<1>3. Filed(m)'
  BY <1>1 DEF Sound, Filed
<1>4. Known(m)'
  BY <1>1, <1>2, ConnectionFacts DEF Sound, Known
<1>5. Framed(m)'
  BY <1>1, <1>2, ConnectionFacts DEF Sound, Framed
<1>6. Single(m)'
  <2>1. CASE m \in M /\ run[m] = None
    BY <1>1, <1>2, <2>1, ConnectionFacts DEF Sound, Single
  <2>2. CASE ~(m \in M /\ run[m] = None)
    BY <1>1, <1>2, <2>2 DEF Sound, Single
  <2> QED BY <2>1, <2>2
<1> QED BY <1>3, <1>4, <1>5, <1>6 DEF Sound

\* A message a step does not touch.
LEMMA Untouched ==
    ASSUME NEW m \in Message, Sound(m),
           UNCHANGED <<encrypted, restarts, file, open, wire>>,
           run'[m] = run[m], record'[m] = record[m], leg'[m] = leg[m],
           accepted'[m] = accepted[m], m \in pending' <=> m \in pending,
           m \in asking' => m \in asking, m \in disturbed => m \in disturbed'
    PROVE  Sound(m)'
BY DEF Sound, Known, Filed, Framed, Single

LEMMA SenderKeeps == ASSUME RelayInv, NEW m \in Message, SenderStep(m) PROVE RelayInv'
<1>1. TypeOK /\ TypeOK' /\ Carrier /\ \A n \in Message : Sound(n)
  BY SenderType DEF RelayInv
<1>2. CASE SendOffline(m)
  <2>1. Carrier'
    BY <1>1, <1>2 DEF SendOffline, carrierVars, Carrier
  <2>2. /\ UNCHANGED <<encrypted, restarts, file, open, wire, run, leg, accepted, asking,
                       disturbed>>
        /\ record[m] # "delivered" /\ pending' = pending \union {m}
        /\ record'[m] = "failed"
        /\ \A n \in Message : n # m => record'[n] = record[n]
    BY <1>1, <1>2 DEF SendOffline, carrierVars, historyVars, TypeOK
  <2>3. Sound(m)'
    BY <1>1, <2>2 DEF Sound, Known, Filed, Framed, Single
  <2>4. ASSUME NEW n \in Message, n # m PROVE Sound(n)'
    BY <1>1, <2>2, <2>4, Untouched
  <2> QED BY <1>1, <2>1, <2>3, <2>4 DEF RelayInv
<1>3. CASE SendDelivers(m)
  <2>1. /\ endpoint \in Connection /\ endpoint \in open /\ Deliver({m}, endpoint)
        /\ {m} \in SUBSET Message
    BY <1>1, <1>3 DEF SendDelivers, TypeOK, Carrier
  <2>2. \A n \in Message : Sound(n)'
    BY <1>1, <1>3, <2>1, DeliverKeeps DEF SendDelivers, RelayInv
  <2>3. \A n \in Message, k \in Connection : k # endpoint => leg'[n][k] = leg[n][k]
    BY <1>1, <2>1, DeliverEffect
  <2>4. Carrier'
    BY <1>1, <1>3, <2>1, <2>3 DEF SendDelivers, Carrier, TypeOK, Connection
  <2> QED BY <1>1, <2>2, <2>4 DEF RelayInv
<1>4. CASE SenderLeaves(m)
  <2>1. Carrier'
    BY <1>1, <1>4 DEF SenderLeaves, carrierVars, Carrier
  <2>2. \A n \in Message : Sound(n)'
    BY <1>1, <1>4, Untouched DEF SenderLeaves, carrierVars, historyVars
  <2> QED BY <1>1, <2>1, <2>2 DEF RelayInv
<1>5. ASSUME NEW k \in Connection, AckArrives(m, k) PROVE RelayInv'
  <2>1. /\ UNCHANGED <<encrypted, restarts, file, open, unseen, wire, accepted, disturbed,
                       endpoint, connections, revoked, bound>>
        /\ leg'[m][k] = "none" /\ run'[m] = None /\ asking' = asking \ {m}
        /\ \A q \in Connection : q # k => leg'[m][q] = leg[m][q]
        /\ leg[m][k] = "acked" => record'[m] = "delivered" /\ pending' = pending \ {m}
        /\ leg[m][k] = "refused" => record'[m] = "failed" /\ pending' = pending
        /\ leg[m][k] \in {"acked", "refused"}
        /\ \A n \in Message : n # m => run'[n] = run[n] /\ record'[n] = record[n]
                                        /\ leg'[n] = leg[n]
    BY <1>1, <1>5 DEF AckArrives, historyVars, TypeOK
  <2>2. Carrier'
    BY <1>1, <2>1 DEF Carrier
  <2>3. run[m] = k /\ k \in open /\ m \in pending /\ Sound(m)
    BY <1>1, <2>1, ConnectionFacts DEF Sound, Framed, Known
  <2>4. Known(m)' /\ Filed(m)'
    BY <2>1, <2>3 DEF Sound, Known, Filed, Framed
  <2>5. Framed(m)'
    BY <2>1, <2>3 DEF Sound, Framed
  <2>6. Single(m)'
    BY <2>1, <2>3, ConnectionFacts DEF Sound, Single, Known
  <2>7. ASSUME NEW n \in Message, n # m PROVE Sound(n)'
    BY <1>1, <2>1, <2>7, Untouched
  <2> QED BY <1>1, <2>2, <2>4, <2>5, <2>6, <2>7 DEF RelayInv, Sound
<1> QED BY <1>2, <1>3, <1>4, <1>5 DEF SenderStep

LEMMA ProviderKeeps ==
    ASSUME RelayInv, NEW m \in Message, ProviderStep(m) PROVE RelayInv'
<1>1. TypeOK /\ TypeOK' /\ Carrier /\ Sound(m) /\ \A n \in Message : Sound(n)
  BY ProviderType DEF RelayInv
<1>2. CASE TaskArrives(m)
  <2>1. /\ UNCHANGED <<relayVars, open, wire, unseen, connections, accepted, disturbed,
                       restarts>>
        /\ wire \in Connection /\ leg[m][wire] = "task"
        /\ leg'[m][wire] \in {"working", "refused"}
        /\ \A q \in Connection : q # wire => leg'[m][q] = leg[m][q]
        /\ \A n \in Message : n # m => leg'[n] = leg[n]
    BY <1>1, <1>2 DEF TaskArrives, historyVars, TypeOK
  <2>2. Carrier'
    BY <1>1, <2>1 DEF Carrier, relayVars
  <2>3. run[m] = wire /\ wire \in open
    BY <1>1, <2>1 DEF Sound, Framed
  <2>4. Known(m)' /\ Filed(m)'
    BY <1>1, <2>1 DEF Sound, Known, Filed, relayVars
  <2>5. Framed(m)'
    BY <1>1, <2>1, <2>3 DEF Sound, Framed, relayVars
  <2>6. Single(m)'
    BY <1>1, <2>1, <2>3 DEF Sound, Single, Known, relayVars
  <2>7. ASSUME NEW n \in Message, n # m PROVE Sound(n)'
    BY <1>1, <2>1, <2>7, Untouched DEF relayVars
  <2> QED BY <1>1, <2>2, <2>4, <2>5, <2>6, <2>7 DEF RelayInv, Sound
<1>3. ASSUME NEW k \in Connection, AcceptEnds(m, k) PROVE RelayInv'
  <2>1. PICK ok \in BOOLEAN :
            /\ accepted' = [accepted EXCEPT ![m] = @ + (IF ok THEN 1 ELSE 0)]
            /\ leg' = [leg EXCEPT ![m][k] = IF wire # k \/ k \notin open THEN "none"
                                            ELSE IF ok THEN "acked" ELSE "refused"]
    BY <1>3 DEF AcceptEnds
  <2>2. /\ UNCHANGED <<relayVars, open, wire, unseen, connections, disturbed, restarts>>
        /\ leg[m][k] = "working" /\ accepted[m] \in Nat
        /\ accepted'[m] \in {accepted[m], accepted[m] + 1}
        /\ leg'[m][k] = "acked" => wire = k /\ k \in open /\ accepted'[m] = accepted[m] + 1
        /\ leg'[m][k] \in {"acked", "refused", "none"}
        /\ leg'[m][k] # "none" => wire = k /\ k \in open
        /\ accepted'[m] # accepted[m] =>
               leg'[m][k] = "acked" \/ wire # k \/ k \notin open
        /\ \A q \in Connection : q # k => leg'[m][q] = leg[m][q]
        /\ \A n \in Message : n # m => leg'[n] = leg[n] /\ accepted'[n] = accepted[n]
    BY <1>1, <1>3, <2>1 DEF AcceptEnds, TypeOK
  <2>3. Carrier'
    BY <1>1, <2>2 DEF Carrier, relayVars
  <2>4. Known(m)' /\ Filed(m)'
    BY <1>1, <2>2 DEF Sound, Known, Filed, relayVars
  <2>5. Framed(m)'
    BY <1>1, <2>2 DEF Sound, Framed, relayVars
  <2>6. Single(m)'
    <3>1. m \notin disturbed => run[m] = k /\ k \in open /\ wire = k /\ accepted[m] = 0
      BY <1>1, <2>2, ConnectionFacts DEF Sound, Single, Known
    <3> QED BY <1>1, <2>2, <3>1, ConnectionFacts DEF Sound, Single, relayVars
  <2>7. ASSUME NEW n \in Message, n # m PROVE Sound(n)'
    BY <1>1, <2>2, <2>7, Untouched DEF relayVars
  <2> QED BY <1>1, <2>3, <2>4, <2>5, <2>6, <2>7 DEF RelayInv, Sound
<1> QED BY <1>2, <1>3 DEF ProviderStep

LEMMA RelayKeeps == ASSUME RelayInv, RelayStep PROVE RelayInv'
<1>1. TypeOK /\ TypeOK' /\ Carrier /\ \A m \in Message : Sound(m)
  BY RelayType DEF RelayInv
<1>2. CASE Save
  <2>1. /\ UNCHANGED <<encrypted, pending, record, run, asking, endpoint, bound, revoked,
                       open, wire, unseen, leg, connections, accepted, disturbed, restarts>>
        /\ file'.pending = SavedPending /\ file'.record = record
    BY <1>2 DEF Save, carrierVars, historyVars
  <2>2. Carrier'
    BY <1>1, <2>1 DEF Carrier
  <2>3. ASSUME NEW m \in Message PROVE Sound(m)'
    <3>1. Filed(m)'
      BY <1>1, <2>1 DEF Sound, Known, Filed, SavedPending
    <3>2. Known(m)' /\ Framed(m)' /\ Single(m)'
      BY <1>1, <2>1 DEF Sound, Known, Framed, Single
    <3> QED BY <3>1, <3>2 DEF Sound
  <2> QED BY <1>1, <2>2, <2>3 DEF RelayInv
<1>3. CASE Revoke
  <2>1. Carrier'
    BY <1>1, <1>3 DEF Revoke, BoundAfterRevocation, Carrier, carrierVars
  <2>2. \A m \in Message : Sound(m)'
    BY <1>1, <1>3, Untouched DEF Revoke, carrierVars, historyVars
  <2> QED BY <1>1, <2>1, <2>2 DEF RelayInv
<1>4. CASE Restart
  <2>1. /\ UNCHANGED <<encrypted, file, wire, connections, accepted>>
        /\ restarts' = restarts + 1 /\ restarts \in Nat
        /\ pending' = file.pending /\ record' = file.record
        /\ asking' = {} /\ open' = {} /\ unseen' = {}
        /\ endpoint' = None /\ bound' = FALSE
        /\ \A m \in Message : run'[m] = None
        /\ \A m \in Message, k \in Connection :
               leg'[m][k] = IF leg[m][k] = "working" THEN "working" ELSE "none"
        /\ \A m \in Message : m \notin disturbed' =>
               /\ m \notin disturbed
               /\ \A k \in Connection : leg[m][k] \notin {"working", "acked"}
               /\ record[m] = "delivered" => file.record[m] = "delivered"
    BY <1>1, <1>4, BoundsAssumption DEF Restart, TypeOK
  <2>2. Carrier'
    BY <1>1, <2>1 DEF Carrier, TypeOK
  <2>3. ASSUME NEW m \in Message PROVE Sound(m)'
    <3>1. Known(m)' /\ Filed(m)'
      BY <1>1, <2>1 DEF Sound, Known, Filed, TypeOK
    <3>2. Framed(m)'
      BY <1>1, <2>1 DEF Sound, Framed
    <3>3. Single(m)'
      <4>1. run[m] \in Connection \union {None}
        BY <1>1 DEF TypeOK
      <4> QED BY <1>1, <2>1, <4>1 DEF Sound, Single
    <3> QED BY <3>1, <3>2, <3>3 DEF Sound
  <2> QED BY <1>1, <2>2, <2>3 DEF RelayInv
<1>5. ASSUME NEW k \in Connection, SocketCloses(k) PROVE RelayInv'
  <2>1. /\ UNCHANGED <<encrypted, pending, revoked, file, wire, connections, accepted,
                       restarts>>
        /\ k \in open /\ open' = open \ {k} /\ unseen' = unseen \ {k}
        /\ endpoint' = IF endpoint = k THEN None ELSE endpoint
        /\ bound' => bound
        /\ \A m \in Message : IF run[m] = k
             THEN run'[m] = None /\ record'[m] = "failed" /\ m \notin asking'
             ELSE run'[m] = run[m] /\ record'[m] = record[m]
        /\ asking' \subseteq asking
        /\ \A m \in Message, q \in Connection :
               leg'[m][q] = IF q # k \/ leg[m][q] = "working" THEN leg[m][q] ELSE "none"
        /\ \A m \in Message : m \notin disturbed' =>
               m \notin disturbed /\ leg[m][k] \notin {"working", "acked"}
    BY <1>1, <1>5 DEF SocketCloses, FailRuns, CutOff, TypeOK
  <2>2. Carrier'
    BY <1>1, <2>1 DEF Carrier
  <2>3. ASSUME NEW m \in Message PROVE Sound(m)'
    <3>1. Known(m)' /\ Filed(m)'
      BY <1>1, <2>1, ConnectionFacts DEF Sound, Known, Filed
    <3>2. Framed(m)'
      BY <1>1, <2>1 DEF Sound, Framed
    <3>3. Single(m)'
      <4>1. run[m] \in Connection \union {None}
        BY <1>1 DEF TypeOK
      <4> QED BY <1>1, <2>1, <4>1, ConnectionFacts DEF Sound, Single, Known
    <3> QED BY <3>1, <3>2, <3>3 DEF Sound
  <2> QED BY <1>1, <2>2, <2>3 DEF RelayInv
<1> QED BY <1>2, <1>3, <1>4, <1>5 DEF RelayStep

LEMMA EndpointKeeps == ASSUME RelayInv, EndpointStep PROVE RelayInv'
<1>1. TypeOK /\ TypeOK' /\ Carrier /\ \A m \in Message : Sound(m)
  BY EndpointType DEF RelayInv
<1>2. CASE Register
  <2>1. /\ UNCHANGED <<encrypted, pending, record, run, asking, revoked, file, unseen, leg,
                       accepted, disturbed, restarts>>
        /\ wire = None /\ ~revoked /\ connections \in Nat
        /\ connections' = connections + 1 /\ wire' = connections'
        /\ endpoint' = connections' /\ open' = open \union {connections'}
        /\ connections' \in Connection
    BY <1>1, <1>2, BoundsAssumption DEF Register, historyVars, TypeOK, Connection
  <2>2. \A m \in Message : leg[m][connections'] = "none"
    BY <1>1, <2>1 DEF Carrier
  <2>3. Carrier'
    <3>1. open' \subseteq 1 .. connections'
      <4>1. \A k \in open : k \in 1 .. connections
        BY <1>1 DEF Carrier
      <4>2. \A k \in open' : k \in 1 .. connections'
        BY <2>1, <4>1
      <4> QED BY <4>2
    <3>2. \A m \in Message, k \in Connection : k > connections' => leg'[m][k] = "none"
      <4> SUFFICES ASSUME NEW m \in Message, NEW k \in Connection, k > connections'
                   PROVE  leg'[m][k] = "none"
        OBVIOUS
      <4>1. k > connections
        BY <2>1, ConnectionFacts
      <4> QED BY <1>1, <2>1, <4>1 DEF Carrier
    <3> QED BY <1>1, <2>1, <3>1, <3>2 DEF Carrier
  <2>4. ASSUME NEW m \in Message PROVE Sound(m)'
    <3>1. Known(m)' /\ Filed(m)'
      BY <1>1, <2>1 DEF Sound, Known, Filed
    <3>2. Framed(m)'
      BY <1>1, <2>1, <2>2 DEF Sound, Framed
    <3>3. Single(m)'
      BY <1>1, <2>1, ConnectionFacts DEF Sound, Single
    <3> QED BY <3>1, <3>2, <3>3 DEF Sound
  <2> QED BY <1>1, <2>3, <2>4 DEF RelayInv
<1>3. CASE Registered
  <2>1. Carrier'
    BY <1>1, <1>3 DEF Registered, Announce, Carrier, relayVars
  <2>2. \A m \in Message : Sound(m)'
    BY <1>1, <1>3, Untouched DEF Registered, relayVars, historyVars
  <2> QED BY <1>1, <2>1, <2>2 DEF RelayInv
<1>4. CASE WireDies
  <2>1. /\ UNCHANGED <<relayVars, open, unseen, connections, accepted, restarts>>
        /\ wire \in Connection
        /\ \A m \in Message, q \in Connection :
               leg'[m][q] = IF q = wire /\ leg[m][q] = "task" THEN "none" ELSE leg[m][q]
        /\ \A m \in Message : m \notin disturbed' =>
               m \notin disturbed /\ leg[m][wire] # "working"
    BY <1>1, <1>4 DEF WireDies, TypeOK
  <2>2. Carrier'
    BY <1>1, <2>1 DEF Carrier, relayVars
  <2>3. ASSUME NEW m \in Message PROVE Sound(m)'
    <3>1. Known(m)' /\ Filed(m)'
      BY <1>1, <2>1 DEF Sound, Known, Filed, relayVars
    <3>2. Framed(m)'
      BY <1>1, <2>1 DEF Sound, Framed, relayVars
    <3>3. Single(m)'
      <4>1. run[m] \in Connection \union {None}
        BY <1>1 DEF TypeOK
      <4> QED BY <1>1, <2>1, <4>1 DEF Sound, Single, relayVars
    <3> QED BY <3>1, <3>2, <3>3 DEF Sound
  <2> QED BY <1>1, <2>2, <2>3 DEF RelayInv
<1>5. ASSUME NEW k \in Connection, Replay(k) PROVE RelayInv'
  <2>1. k \in open /\ unseen' \subseteq unseen
          /\ UNCHANGED <<encrypted, pending, asking, endpoint, bound, revoked, file, open,
                         wire, connections, accepted, disturbed, restarts>>
    BY <1>1, <1>5 DEF Replay, Carrier
  <2>2. CASE MayDeliver(k)
    <3>1. Deliver(pending, k) /\ pending \in SUBSET Message
      BY <1>1, <1>5, <2>2 DEF Replay, TypeOK
    <3>2. \A m \in pending : record[m] # "delivered"
      BY <1>1, <3>1 DEF Sound, Known
    <3>3. \A m \in Message : Sound(m)'
      BY <2>1, <3>1, <3>2, DeliverKeeps
    <3>4. \A m \in Message, q \in Connection : q # k => leg'[m][q] = leg[m][q]
      BY <1>1, <3>1, DeliverEffect
    <3>5. k \in 1 .. connections /\ connections \in Nat
      BY <1>1, <2>1 DEF Carrier, TypeOK
    <3>6. \A m \in Message, q \in Connection : q > connections => leg'[m][q] = "none"
      <4> SUFFICES ASSUME NEW m \in Message, NEW q \in Connection, q > connections
                   PROVE  leg'[m][q] = "none"
        OBVIOUS
      <4>1. q # k
        BY <3>5, ConnectionFacts
      <4> QED BY <1>1, <3>4, <4>1 DEF Carrier
    <3>7. Carrier'
      BY <1>1, <2>1, <3>6 DEF Carrier
    <3> QED BY <1>1, <3>3, <3>7 DEF RelayInv
  <2>3. CASE ~MayDeliver(k)
    <3>1. UNCHANGED <<run, record, leg>>
      BY <1>5, <2>3 DEF Replay
    <3>2. \A m \in Message : Sound(m)'
      BY <1>1, <2>1, <3>1, Untouched
    <3>3. Carrier'
      BY <1>1, <2>1, <3>1 DEF Carrier
    <3> QED BY <1>1, <3>2, <3>3 DEF RelayInv
  <2> QED BY <2>2, <2>3
<1>6. ASSUME NEW k \in Connection, LeaseExpires(k) PROVE RelayInv'
  <2>1. Carrier'
    BY <1>1, <1>6 DEF LeaseExpires, relayVars, carrierVars, Carrier
  <2>2. \A m \in Message : Sound(m)'
    BY <1>1, <1>6, Untouched DEF LeaseExpires, relayVars, carrierVars, historyVars
  <2> QED BY <1>1, <2>1, <2>2 DEF RelayInv
<1> QED BY <1>2, <1>3, <1>4, <1>5, <1>6 DEF EndpointStep

LEMMA Steps ==
    Next <=> \/ \E m \in Message : SenderStep(m) \/ ProviderStep(m)
             \/ RelayStep \/ EndpointStep
BY DEF Next, SenderStep, ProviderStep, RelayStep, EndpointStep

LEMMA RelayInvInductive == RelayInv /\ [Next]_vars => RelayInv'
<1>1. ASSUME RelayInv, UNCHANGED vars PROVE RelayInv'
  <2>1. TypeOK' /\ Carrier'
    BY <1>1 DEF RelayInv, TypeOK, Carrier, vars, relayVars, carrierVars, historyVars
  <2>2. \A m \in Message : Sound(m)'
    BY <1>1, Untouched DEF RelayInv, vars, relayVars, carrierVars, historyVars
  <2> QED BY <2>1, <2>2 DEF RelayInv
<1> QED BY <1>1, Steps, SenderKeeps, ProviderKeeps, RelayKeeps, EndpointKeeps

THEOREM RelayInvariance == Spec => []RelayInv
<1>1. Init => RelayInv
  <2> SUFFICES ASSUME Init PROVE RelayInv
    OBVIOUS
  <2>1. Carrier
    BY DEF Init, Carrier
  <2>2. ASSUME NEW m \in Message PROVE Sound(m)
    <3>1. Known(m) /\ Filed(m)
      BY DEF Init, Known, Filed
    <3>2. Framed(m) /\ Single(m)
      BY DEF Init, Framed, Single
    <3> QED BY <3>1, <3>2 DEF Sound
  <2> QED BY <2>1, <2>2, InitTyped DEF RelayInv
<1> QED BY <1>1, RelayInvInductive, PTL DEF Spec

-----------------------------------------------------------------------------
(* What follows.                                                           *)

\* The relay, its carrier and the histories keep their types.
THEOREM RelayTypeCorrect == Spec => []TypeOK
<1>1. RelayInv => TypeOK
  BY DEF RelayInv
<1> QED BY <1>1, RelayInvariance, PTL

\* An envelope is kept until the provider has accepted it, and a run that holds
\* it up waits on a connection the relay believes in (RemoteRelayServer.deliver).
THEOREM EnvelopeIsKept == Spec => []KeptUntilAccepted
<1>1. RelayInv => KeptUntilAccepted
  BY DEF RelayInv, Sound, Known, KeptUntilAccepted
<1> QED BY <1>1, RelayInvariance, PTL

\* A provider accepts an envelope twice only if its first acceptance was lost
\* with a connection or forgotten in a crash (deliveryRuns, deliveredMessages).
THEOREM EnvelopeIsAcceptedOnce == Spec => []AcceptedOnce
<1>1. ASSUME RelayInv PROVE AcceptedOnce
  <2>1. SUFFICES ASSUME NEW m \in Message, accepted[m] > 1, m \notin disturbed PROVE FALSE
    BY DEF AcceptedOnce
  <2>2. accepted[m] \in Nat /\ Single(m)
    BY <1>1 DEF RelayInv, TypeOK, Sound
  <2> QED BY <2>1, <2>2 DEF Single
<1> QED BY <1>1, RelayInvariance, PTL

\* No run begins while the grant is revoked (revokeRoomGrant, deliver).
THEOREM RevokedNotServed == Spec => RevokedIsNotServed
<1>1. ASSUME RelayInv, Next, NEW m \in Message, run[m] = None, run'[m] # None
      PROVE  ~revoked
  <2>1. TypeOK /\ Carrier
    BY <1>1 DEF RelayInv
  <2>2. CASE \E n \in Message : SendDelivers(n)
    BY <2>2 DEF SendDelivers
  <2>3. ASSUME NEW k \in Connection, Replay(k) PROVE ~revoked
    <3>1. MayDeliver(k)
      BY <1>1, <2>3 DEF Replay
    <3> QED BY <2>1, <3>1 DEF MayDeliver, Carrier
  <2>4. ASSUME NEW n \in Message, SenderStep(n), ~SendDelivers(n) PROVE FALSE
    BY <1>1, <2>1, <2>4 DEF SenderStep, SendOffline, SenderLeaves, AckArrives, TypeOK
  <2>5. ASSUME NEW n \in Message, ProviderStep(n) PROVE FALSE
    BY <1>1, <2>5 DEF ProviderStep, TaskArrives, AcceptEnds, relayVars
  <2>6. CASE RelayStep
    BY <1>1, <2>6 DEF RelayStep, Save, Revoke, Restart, SocketCloses, FailRuns
  <2>7. CASE EndpointStep /\ ~\E k \in Connection : Replay(k)
    BY <1>1, <2>7 DEF EndpointStep, Register, Registered, WireDies, LeaseExpires, relayVars
  <2> QED BY <1>1, <2>2, <2>3, <2>4, <2>5, <2>6, <2>7, Steps DEF EndpointStep
<1>2. RelayInv /\ [Next]_vars
        => [\A m \in Message : run[m] = None /\ run'[m] # None => ~revoked]_vars
  BY <1>1
<1> QED BY <1>2, RelayInvariance, PTL DEF Spec, RevokedIsNotServed

-----------------------------------------------------------------------------
(* A run is never left waiting for nothing.                                *)

\* An envelope whose run waits on the provider's own connection is somewhere on
\* it: as a task, at work, or as an answer.
Moving(m) == run[m] # None => run[m] # wire \/ leg[m][run[m]] # "none"

\* Every run waits on a connection the relay believes in, and either the
\* envelope is under way on it, or the provider has given it up, which the relay
\* will find out: one of the steps FairSpec is fair to is always due.
NoRunHangs == \A m \in Message : run[m] # None => run[m] \in open /\ Moving(m)

LEMMA MovingStays ==
    ASSUME NEW m \in Message, Moving(m), leg'[m] = leg[m],
           run'[m] = run[m] \/ run'[m] = None, wire' = wire \/ wire' = None
    PROVE  Moving(m)'
BY DEF Moving

LEMMA DeliverMoves ==
    ASSUME TypeOK, NEW M \in SUBSET Message, NEW k \in Connection, Deliver(M, k),
           wire' = wire, \A m \in Message : Moving(m)
    PROVE  \A m \in Message : Moving(m)'
<1> SUFFICES ASSUME NEW m \in Message PROVE Moving(m)'
  OBVIOUS
<1>1. CASE m \in M /\ run[m] = None
  <2>1. run'[m] = k /\ (wire = k => leg'[m][k] = "task")
    BY <1>1 DEF Deliver, Begun, TypeOK
  <2> QED BY <2>1 DEF Moving
<1>2. CASE ~(m \in M /\ run[m] = None)
  <2>1. run'[m] = run[m] /\ leg'[m] = leg[m]
    BY <1>2, DeliverEffect
  <2> QED BY <2>1, MovingStays
<1> QED BY <1>1, <1>2

LEMMA MovingInductive ==
    ASSUME RelayInv, RelayInv', \A m \in Message : Moving(m), [Next]_vars
    PROVE  \A m \in Message : Moving(m)'
<1>1. TypeOK /\ TypeOK' /\ Carrier /\ Carrier' /\ \A m \in Message : Framed(m)
  BY DEF RelayInv, Sound
<1> SUFFICES ASSUME NEW m \in Message PROVE Moving(m)'
  OBVIOUS
<1>2. ASSUME NEW n \in Message, SenderStep(n) PROVE Moving(m)'
  <2>1. CASE SendOffline(n) \/ SenderLeaves(n)
    BY <2>1, MovingStays DEF SendOffline, SenderLeaves, carrierVars
  <2>2. CASE SendDelivers(n)
    <3>1. /\ endpoint \in Connection /\ Deliver({n}, endpoint) /\ wire' = wire
          /\ {n} \in SUBSET Message
      BY <1>1, <2>2 DEF SendDelivers, TypeOK
    <3> QED BY <1>1, <3>1, DeliverMoves
  <2>3. ASSUME NEW k \in Connection, AckArrives(n, k) PROVE Moving(m)'
    <3>1. /\ wire' = wire /\ run'[n] = None
          /\ m # n => leg'[m] = leg[m] /\ run'[m] = run[m]
      BY <1>1, <2>3 DEF AckArrives, TypeOK
    <3> QED BY <3>1, MovingStays DEF Moving
  <2> QED BY <1>2, <2>1, <2>2, <2>3 DEF SenderStep
<1>3. ASSUME NEW n \in Message, ProviderStep(n) PROVE Moving(m)'
  <2>1. CASE TaskArrives(n)
    <3>1. /\ wire' = wire /\ run' = run
          /\ m # n => leg'[m] = leg[m]
          /\ leg'[n][wire] \in {"working", "refused"}
      BY <1>1, <2>1 DEF TaskArrives, relayVars, TypeOK
    <3>2. CASE m = n
      BY <3>1, <3>2 DEF Moving
    <3>3. CASE m # n
      BY <3>1, <3>3, MovingStays
    <3> QED BY <3>2, <3>3
  <2>2. ASSUME NEW k \in Connection, AcceptEnds(n, k) PROVE Moving(m)'
    <3>1. /\ wire' = wire /\ run' = run /\ open' = open
          /\ m # n => leg'[m] = leg[m]
          /\ \A q \in Connection : q # k => leg'[n][q] = leg[n][q]
          /\ wire = k /\ k \in open => leg'[n][k] \in {"acked", "refused"}
      BY <1>1, <2>2 DEF AcceptEnds, relayVars, TypeOK
    <3>2. run[n] # None => run[n] \in Connection /\ run[n] \in open
      BY DEF RelayInv, Sound, Known, TypeOK
    <3> QED BY <3>1, <3>2 DEF Moving
  <2> QED BY <1>3, <2>1, <2>2 DEF ProviderStep
<1>4. CASE RelayStep
  <2>1. CASE Save \/ Revoke
    BY <2>1, MovingStays DEF Save, Revoke, carrierVars
  <2>2. CASE Restart
    BY <2>2 DEF Restart, Moving
  <2>3. ASSUME NEW k \in Connection, SocketCloses(k) PROVE Moving(m)'
    <3>1. /\ wire' = wire /\ run'[m] = IF run[m] = k THEN None ELSE run[m]
          /\ \A q \in Connection : q # k => leg'[m][q] = leg[m][q]
      BY <1>1, <2>3 DEF SocketCloses, FailRuns, CutOff, TypeOK
    <3>2. run[m] \in Connection \union {None}
      BY <1>1 DEF TypeOK
    <3> QED BY <3>1, <3>2 DEF Moving
  <2> QED BY <1>4, <2>1, <2>2, <2>3 DEF RelayStep
<1>5. CASE EndpointStep
  <2>1. CASE Register
    <3>1. /\ wire' = connections + 1 /\ run' = run /\ connections \in Nat
          /\ open \subseteq 1 .. connections
      BY <1>1, <2>1 DEF Register, TypeOK, Carrier
    <3>2. run[m] # None => run[m] \in open
      BY DEF RelayInv, Sound, Known
    <3>3. run[m] # None => run[m] # connections + 1
      BY <3>1, <3>2
    <3> QED BY <3>1, <3>3 DEF Moving
  <2>2. CASE Registered
    BY <2>2, MovingStays DEF Registered, relayVars
  <2>3. CASE WireDies
    BY <2>3 DEF WireDies, relayVars, Moving
  <2>4. ASSUME NEW k \in Connection, Replay(k) PROVE Moving(m)'
    <3>1. CASE MayDeliver(k)
      <4>1. Deliver(pending, k) /\ pending \in SUBSET Message /\ wire' = wire
        BY <1>1, <2>4, <3>1 DEF Replay, TypeOK
      <4> QED BY <1>1, <4>1, DeliverMoves
    <3>2. CASE ~MayDeliver(k)
      BY <2>4, <3>2, MovingStays DEF Replay
    <3> QED BY <3>1, <3>2
  <2>5. ASSUME NEW k \in Connection, LeaseExpires(k) PROVE Moving(m)'
    BY <2>5, MovingStays DEF LeaseExpires, relayVars, carrierVars
  <2> QED BY <1>5, <2>1, <2>2, <2>3, <2>4, <2>5 DEF EndpointStep
<1>6. CASE UNCHANGED vars
  BY <1>6, MovingStays DEF vars, relayVars, carrierVars
<1> QED BY <1>2, <1>3, <1>4, <1>5, <1>6, Steps

\* Neither a replaced endpoint, a dead connection, a crash nor a replay leaves a
\* run of deliveryRuns waiting for an answer nobody will give: what is true of
\* every state where SendsAreAnswered is about to be.
THEOREM RunsAreCarried == Spec => []NoRunHangs
<1> DEFINE AllMoving == \A m \in Message : Moving(m)
<1>1. Init => AllMoving
  BY DEF Init, Moving
<1>2. RelayInv /\ RelayInv' /\ AllMoving /\ [Next]_vars => AllMoving'
  BY MovingInductive
<1>3. RelayInv /\ AllMoving => NoRunHangs
  BY DEF RelayInv, Sound, Known, NoRunHangs
<1> HIDE DEF AllMoving
<1> QED BY <1>1, <1>2, <1>3, RelayInvariance, PTL DEF Spec
===============================================================================
