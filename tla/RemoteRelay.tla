----------------------------- MODULE RemoteRelay -----------------------------
(***************************************************************************)
(* How the relay hands envelopes to a provider: the delivery half of       *)
(* RemoteRelayServer (remote-relay.ts) over the WebSocket carrier          *)
(* (remote-relay-websocket.ts), both in                                    *)
(* src/packages/collaboration/openbuddy-network/src/.                      *)
(*                                                                         *)
(* One provider serves one project room under one grant.  Its connection   *)
(* may die unseen by either end, and each end finds out by itself, so a    *)
(* connection the relay still believes in and a newer one may both carry   *)
(* the same envelope.  The relay saves its state behind its back and may   *)
(* crash; senders come back with what was not acknowledged (RelayOutbox).  *)
(*                                                                         *)
(* Abstractions.  Credentials, capability tokens, scopes and nonces are    *)
(* valid; what is refused before anything is noted down leaves no trace    *)
(* and is no step.  A connection carries one registration.                 *)
(***************************************************************************)
EXTENDS Naturals, FiniteSets

CONSTANTS
    Message,         \* envelopes, by messageId
    MaxConnections,  \* bound on the connections the provider makes
    MaxRestarts      \* bound on the crashes of the relay

ASSUME BoundsAssumption ==
    MaxConnections \in Nat /\ MaxRestarts \in Nat

VARIABLES
    encrypted,    \* relay: it has an envelopeCodec; a host may do without
    pending,      \* relay: pendingEnvelopes
    record,       \* relay: status of the delivery records; deliveredMessages
                  \* are those with status delivered
    run,          \* relay: the connection the run in deliveryRuns waits on
    asking,       \* relay: senders that wait for the answer to task.send
    endpoint,     \* relay: the connection the endpoint was registered on
    bound,        \* relay: endpointGrants has the grant for the endpoint
    revoked,      \* relay: the grant is in revokedRoomGrants
    lapsed,       \* connections whose presence lease or grant has expired
    file,         \* relay: what was saved last
    open,         \* connections the relay believes in
    wire,         \* provider: its connection
    ready,        \* connections the endpoint-ready frame has been sent on
    unseen,       \* those whose endpoint-ready frame is on its way
    leg,          \* how far an envelope is on each connection
    accepted,     \* history: how often the provider has accepted an envelope
    disturbed,    \* history: envelopes whose acceptance got lost on the way
    offered,      \* history: what a run or a replay has found on a connection
    connections, restarts

relayVars ==
    <<encrypted, pending, record, run, asking, endpoint, bound, revoked, file>>
carrierVars == <<open, wire, ready, unseen, leg, connections>>
historyVars == <<accepted, disturbed, offered>>
vars == <<relayVars, carrierVars, historyVars, lapsed, restarts>>

Connection == 1 .. MaxConnections
None == 0
Status == {"none", "pending", "failed", "delivered"}
Leg == {"none", "task", "working", "acked", "refused"}

TypeOK ==
    /\ encrypted \in BOOLEAN
    /\ pending \subseteq Message /\ asking \subseteq Message
    /\ record \in [Message -> Status]
    /\ run \in [Message -> Connection \union {None}]
    /\ endpoint \in Connection \union {None} /\ wire \in Connection \union {None}
    /\ bound \in BOOLEAN /\ revoked \in BOOLEAN
    /\ file \in [pending : SUBSET Message, record : [Message -> Status],
                 revoked : BOOLEAN]
    /\ \A S \in {lapsed, open, ready, unseen} : S \subseteq Connection
    /\ leg \in [Message -> [Connection -> Leg]]
    /\ accepted \in [Message -> Nat] /\ disturbed \subseteq Message
    /\ offered \in [Connection -> [Message -> {"no", "begun", "joined"}]]
    /\ connections \in 0 .. MaxConnections /\ restarts \in 0 .. MaxRestarts

Init ==
    /\ encrypted \in BOOLEAN
    /\ pending = {} /\ asking = {}
    /\ record = [m \in Message |-> "none"] /\ run = [m \in Message |-> None]
    /\ endpoint = None /\ wire = None /\ bound = FALSE /\ revoked = FALSE
    /\ file = [pending |-> {}, record |-> record, revoked |-> FALSE]
    /\ lapsed = {} /\ open = {} /\ ready = {} /\ unseen = {}
    /\ leg = [m \in Message |-> [k \in Connection |-> "none"]]
    /\ accepted = [m \in Message |-> 0] /\ disturbed = {}
    /\ offered = [k \in Connection |-> [m \in Message |-> "no"]]
    /\ connections = 0 /\ restarts = 0

-----------------------------------------------------------------------------
(* deliver.                                                                *)

(* Grant and lease are as they should be; the grant is looked up for the   *)
(* identity, whichever of its connections registered last.                 *)
MayDeliver(k) == bound /\ k \notin lapsed

\* Mutant: calls for one envelope are not joined.
BegunAnyway(M) == M

(* A second call for an envelope joins the run there is.                   *)
Begun(M) == {m \in M : run[m] = None}

(* deliver for the envelopes M over connection k: the record is pending    *)
(* and the task frame is sent.  A frame for a connection that only the     *)
(* provider knows to be dead goes nowhere.                                 *)
Deliver(M, k) ==
    /\ run' = [m \in Message |-> IF m \in Begun(M) THEN k ELSE run[m]]
    /\ record' = [m \in Message |-> IF m \in Begun(M) THEN "pending" ELSE record[m]]
    /\ leg' = [m \in Message |->
                 IF m \in Begun(M)
                   THEN [leg[m] EXCEPT ![k] = IF wire = k THEN "task" ELSE "none"]
                   ELSE leg[m]]
    /\ offered' = [offered EXCEPT ![k] =
                     [m \in Message |-> IF m \notin M THEN @[m]
                                        ELSE IF m \in Begun(M) THEN "begun"
                                        ELSE IF @[m] = "no" THEN "joined" ELSE @[m]]]

(* task.send while no endpoint is registered: "relay recipient endpoint is *)
(* unavailable", and the envelope waits.                                   *)
SendOffline(m) ==
    /\ m \notin asking /\ ~revoked /\ record[m] # "delivered"
    /\ endpoint = None
    /\ pending' = pending \union {m}
    /\ record' = [record EXCEPT ![m] = "failed"]
    /\ UNCHANGED <<encrypted, run, asking, endpoint, bound, revoked, file,
                   carrierVars, historyVars, lapsed, restarts>>

(* task.send to an endpoint.  A delivered envelope is answered as a        *)
(* duplicate; a revoked or expired grant, or an expired lease, is refused  *)
(* before the envelope is put aside.                                       *)
SendDelivers(m) ==
    /\ m \notin asking /\ ~revoked /\ record[m] # "delivered"
    /\ endpoint # None /\ MayDeliver(endpoint)
    /\ pending' = pending \union {m}
    /\ asking' = asking \union {m}
    /\ Deliver({m}, endpoint)
    /\ UNCHANGED <<encrypted, endpoint, bound, revoked, file, open, wire,
                   ready, unseen, connections, accepted, disturbed, lapsed,
                   restarts>>

(* The sender is gone before the answer: the run goes on.                  *)
SenderLeaves(m) ==
    /\ m \in asking
    /\ asking' = asking \ {m}
    /\ UNCHANGED <<encrypted, pending, record, run, endpoint, bound, revoked,
                   file, carrierVars, historyVars, lapsed, restarts>>

(* The ack of the provider ends the run and answers whoever waits for it.  *)
AckArrives(m, k) ==
    /\ leg[m][k] \in {"acked", "refused"}
    /\ leg' = [leg EXCEPT ![m][k] = "none"]
    /\ run' = [run EXCEPT ![m] = None]
    /\ asking' = asking \ {m}
    /\ IF leg[m][k] = "acked"
         THEN /\ record' = [record EXCEPT ![m] = "delivered"]
              /\ pending' = pending \ {m}
         ELSE /\ record' = [record EXCEPT ![m] = "failed"]
              /\ UNCHANGED pending
    /\ UNCHANGED <<encrypted, endpoint, bound, revoked, file, open, wire,
                   ready, unseen, connections, historyVars, lapsed,
                   restarts>>

(* persist(): its snapshots reach the file in order, later or never.       *)
SavedPending == IF encrypted THEN pending ELSE {}
Save ==
    /\ file' = [pending |-> SavedPending, record |-> record, revoked |-> revoked]
    /\ file' # file
    /\ UNCHANGED <<encrypted, pending, record, run, asking, endpoint, bound,
                   revoked, carrierVars, historyVars, lapsed, restarts>>

-----------------------------------------------------------------------------
(* The endpoint and its connections.                                       *)

(* endpoint.register over a new connection: the endpoint replaces the one  *)
(* of an older connection, which the relay may still believe in.  A        *)
(* revoked grant is refused.                                               *)
Register ==
    /\ wire = None /\ connections < MaxConnections /\ ~revoked
    /\ connections' = connections + 1
    /\ wire' = connections' /\ endpoint' = connections' /\ bound' = TRUE
    /\ open' = open \union {connections'}
    /\ UNCHANGED <<encrypted, pending, record, run, asking, revoked, file,
                   ready, unseen, leg, historyVars, lapsed, restarts>>

\* Mutant: the provider announces nothing after it registered.
AnnounceNothing(k) == unseen

Announce(k) == IF k \in open THEN unseen \union {k} ELSE unseen
(* The provider has the response, knows its endpoint on this connection    *)
(* from now on, and sends endpoint-ready.                                  *)
Registered ==
    /\ wire # None /\ wire \notin ready
    /\ ready' = ready \union {wire}
    /\ unseen' = Announce(wire)
    /\ UNCHANGED <<relayVars, open, wire, leg, connections, historyVars,
                   lapsed, restarts>>

(* endpoint-ready: replayEndpoint calls deliver for all that waits.  What  *)
(* deliver refuses stays as it is.                                         *)
Replay(k) ==
    /\ k \in unseen
    /\ unseen' = unseen \ {k}
    /\ IF MayDeliver(k) THEN Deliver(pending, k)
       ELSE UNCHANGED <<run, record, leg, offered>>
    /\ UNCHANGED <<encrypted, pending, asking, endpoint, bound, revoked,
                   file, open, wire, ready, connections, accepted, disturbed,
                   lapsed, restarts>>

(* The provider gets a task frame; before it knows its endpoint it refuses.*)
TaskArrives(m) ==
    /\ wire # None /\ leg[m][wire] = "task"
    /\ leg' = [leg EXCEPT ![m][wire] = IF wire \in ready THEN "working" ELSE "refused"]
    /\ UNCHANGED <<relayVars, open, wire, ready, unseen, connections,
                   historyVars, lapsed, restarts>>

(* endpoint.accept resolves or rejects; over a connection that one end has *)
(* given up no ack arrives.                                                *)
AcceptEnds(m, k) ==
    /\ leg[m][k] = "working"
    /\ \E ok \in BOOLEAN :
         /\ accepted' = [accepted EXCEPT ![m] = @ + (IF ok THEN 1 ELSE 0)]
         /\ leg' = [leg EXCEPT ![m][k] = IF wire # k \/ k \notin open THEN "none"
                                         ELSE IF ok THEN "acked" ELSE "refused"]
    /\ UNCHANGED <<relayVars, open, wire, ready, unseen, connections,
                   disturbed, offered, lapsed, restarts>>

(* The provider finds its connection dead and will make another one.       *)
WireDies ==
    /\ wire # None
    /\ wire' = None
    /\ leg' = [m \in Message |->
                 [leg[m] EXCEPT ![wire] = IF @ = "task" THEN "none" ELSE @]]
    /\ disturbed' = disturbed \union {m \in Message : leg[m][wire] = "working"}
    /\ UNCHANGED <<relayVars, open, ready, unseen, connections, accepted,
                   offered, lapsed, restarts>>

(* What was on its way on connection k does not arrive.                    *)
CutOff(k, l) == [l EXCEPT ![k] = IF @ = "working" THEN @ ELSE "none"]

\* Mutant: a closed socket rejects no waiter.
KeepWaiting(k) == UNCHANGED <<run, record, asking>>

(* cleanup rejects the waiters of the socket.                              *)
FailRuns(k) ==
    LET cut == {m \in Message : run[m] = k} IN
    /\ run' = [m \in Message |-> IF m \in cut THEN None ELSE run[m]]
    /\ record' = [m \in Message |-> IF m \in cut THEN "failed" ELSE record[m]]
    /\ asking' = asking \ cut

(* The relay finds connection k dead: cleanup unregisters its endpoint,    *)
(* unless it was replaced.                                                 *)
SocketCloses(k) ==
    /\ k \in open
    /\ open' = open \ {k} /\ unseen' = unseen \ {k}
    /\ endpoint' = (IF endpoint = k THEN None ELSE endpoint)
    /\ bound' = (bound /\ endpoint # k)
    /\ FailRuns(k)
    /\ leg' = [m \in Message |-> CutOff(k, leg[m])]
    /\ disturbed' = disturbed \union
                      {m \in Message : leg[m][k] \in {"working", "acked"}}
    /\ UNCHANGED <<encrypted, pending, revoked, file, wire, ready,
                   connections, accepted, offered, lapsed, restarts>>

LeaseExpires(k) ==
    /\ k \in open /\ k \notin lapsed
    /\ lapsed' = lapsed \union {k}
    /\ UNCHANGED <<relayVars, carrierVars, historyVars, restarts>>

\* Mutant: the endpoint keeps the revoked grant.
BoundAfterRevocationKept == bound

BoundAfterRevocation == FALSE
(* revokeRoomGrant: the grant is taken from every endpoint.                *)
Revoke ==
    /\ ~revoked
    /\ revoked' = TRUE
    /\ bound' = BoundAfterRevocation
    /\ UNCHANGED <<encrypted, pending, record, run, asking, endpoint, file,
                   carrierVars, historyVars, lapsed, restarts>>

(* The relay dies and starts from its file, without connections.           *)
Restart ==
    /\ restarts < MaxRestarts
    /\ restarts' = restarts + 1
    /\ pending' = file.pending /\ record' = file.record /\ revoked' = file.revoked
    /\ run' = [m \in Message |-> None] /\ asking' = {}
    /\ endpoint' = None /\ bound' = FALSE /\ open' = {} /\ unseen' = {}
    /\ leg' = [m \in Message |-> [k \in Connection |->
                 IF leg[m][k] = "working" THEN "working" ELSE "none"]]
    /\ disturbed' = disturbed \union
         {m \in Message : \/ \E k \in Connection : leg[m][k] \in {"working", "acked"}
                          \/ record[m] = "delivered" /\ file.record[m] # "delivered"}
    /\ UNCHANGED <<encrypted, file, wire, ready, connections, accepted,
                   offered, lapsed>>

Next ==
    \/ \E m \in Message :
         \/ SendOffline(m) \/ SendDelivers(m) \/ SenderLeaves(m) \/ TaskArrives(m)
         \/ \E k \in Connection : AckArrives(m, k) \/ AcceptEnds(m, k)
    \/ \E k \in Connection : Replay(k) \/ SocketCloses(k) \/ LeaseExpires(k)
    \/ Register \/ Registered \/ WireDies \/ Save \/ Revoke \/ Restart

Spec == Init /\ [][Next]_vars

(* Frames on a living connection arrive, the provider comes to an end with *)
(* a task, and the relay finds out in the end about a connection the       *)
(* provider has given up.                                                  *)
FairSpec ==
    /\ Spec
    /\ WF_vars(Registered)
    /\ \A k \in Connection : WF_vars(Replay(k)) /\ WF_vars(k # wire /\ SocketCloses(k))
    /\ \A m \in Message :
         /\ WF_vars(TaskArrives(m))
         /\ \A k \in Connection : WF_vars(AckArrives(m, k)) /\ WF_vars(AcceptEnds(m, k))

-----------------------------------------------------------------------------
(* "keeps the envelope until the provider's ACK ... and only then marks it *)
(* delivered" (docs/distributed-buddy-network-architecture.md:186): what   *)
(* is delivered was accepted and waits no longer; what is not delivered    *)
(* still waits, unless the relay has no codec and was restarted; and a run *)
(* waits for an envelope that is there, on a connection whose end will be  *)
(* noticed: a run on any other would hold up its envelope for good.        *)
KeptUntilAccepted ==
    \A m \in Message :
        /\ record[m] = "delivered" => accepted[m] > 0 /\ m \notin pending
        /\ record[m] \in {"pending", "failed"} =>
               m \in pending \/ (~encrypted /\ restarts > 0)
        /\ run[m] # None => m \in pending /\ run[m] \in open
        /\ m \in asking => run[m] # None

(* Joined runs, the delivery records and the connections together let the  *)
(* provider accept an envelope once, unless its acceptance was lost with a *)
(* connection or forgotten in a crash.                                     *)
AcceptedOnce == \A m \in Message : accepted[m] > 1 => m \in disturbed

(* Nothing is offered to a provider while its grant is revoked, by a send, *)
(* a replay of what waits, or an endpoint that has replaced another.       *)
RevokedIsNotServed ==
    [][\A m \in Message : run[m] = None /\ run'[m] # None => ~revoked]_vars

(* task.send is answered in the end, whichever connection its run waits    *)
(* on.  NetworkDelivery assumes it of relay.send.                          *)
SendsAreAnswered == \A m \in Message : m \in asking ~> m \notin asking

(* "replayed automatically when the provider registers again" (same line): *)
(* what waits is offered on the new connection as long as the registration *)
(* holds, except an envelope whose run still waits on an older connection: *)
(* the replay joins that run and is over with it.                          *)
ReplayOffers ==
    \A m \in Message, k \in Connection :
        (m \in pending /\ endpoint = k /\ wire = k) ~>
            \/ m \notin pending \/ offered[k][m] # "no"
            \/ endpoint # k \/ wire # k \/ k \in lapsed \/ ~bound
=============================================================================
