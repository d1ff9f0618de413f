--------------------------- MODULE NetworkMarket ---------------------------
(***************************************************************************)
(* OpenNetworkCoordinator of openbuddy-network and networkAwardBid and     *)
(* retryPendingNetworkDeliveries of collaboration-runtime.ts above it: a   *)
(* runtime proposes services to its peers, agrees on capabilities, takes   *)
(* bids, awards one and has the relay deliver the task to the winner.      *)
(*                                                                         *)
(* Every id of the coordinator ends in a number drawn from one sequence    *)
(* per runtime, and the ids of the envelope and of the task are made of    *)
(* the id of the proposal.  A restart continues the sequence after the     *)
(* last event of the log, so it may draw a number again whose event was    *)
(* lost; the outbox, the relay and the providers still know the first one. *)
(*                                                                         *)
(* Abstractions.  The peers are registered, were trusted once and have     *)
(* published an offer that outlives the proposals; none has an Agent Card. *)
(* There is one capability, whose scopes, actions and artifact types       *)
(* always fit; the runtime does not bid for itself.  The other runtimes of *)
(* the relay are done before this one starts.  Only numbers of proposals   *)
(* are kept: presence and other events draw too, so that the next one is   *)
(* any number above the last.  A crash loses a suffix of the log (EventLog *)
(* has the other losses).  The writes of the outbox succeed and the awards *)
(* of one proposal do not overlap (RelayOutbox and NetworkDelivery have    *)
(* what happens else), the relay does not forget (RemoteRelay), and        *)
(* verifiers accept.                                                       *)
(***************************************************************************)
EXTENDS Naturals, Sequences

CONSTANTS
    Provider,       \* the peers
    MaxNumber,      \* bound: numbers in ids
    MaxProposals,   \* bound: proposals made
    MaxAgreements,  \* bound: agreements in memory
    Expiring,       \* bound: proposals that may expire
    OtherNumber,    \* bound: numbers that other runtimes may have used
    MaxRestarts     \* bound: restarts

ASSUME MarketAssumption ==
    /\ MaxNumber \in Nat /\ MaxProposals \in Nat
    /\ Expiring \subseteq 1..MaxProposals /\ OtherNumber \subseteq 1..MaxNumber

VARIABLES
    mem,        \* the state of the coordinator
    disk,       \* the state that a replay of the written log would give
    stalled,    \* the log is not written any more
    outbox,     \* the entries of the outbox, by the number of the proposal
    file,       \* the entries in the file of the outbox
    sending,    \* awards that wait for the outbox
    relayed,    \* deliveredMessages of the relay
    done,       \* <<number, provider>>: evidence in the log of the provider
    overdue,    \* the proposals, and their envelopes, that have expired
    restarts,
    drawn,      \* history: the number of each proposal ever made
    chosen,     \* history: <<proposal, provider>>: the awards ever made
    worked,     \* history: <<proposal, provider>>: the work ever done
    others      \* numbers of proposals of other runtimes at this relay

coordinatorVars == <<mem, disk, stalled>>
outboxVars == <<outbox, file, sending>>
relayVars == <<relayed, done, worked, others>>
vars == <<coordinatorVars, outboxVars, relayVars, overdue, restarts, drawn, chosen>>

Number == 1..MaxNumber
Proposal == 1..MaxProposals

Bid == [number : Number, provider : Provider, agreement : Nat]
NoBid == [number |-> 0]
Entry == [proposal : Proposal, to : Provider]
NoEntry == [proposal |-> 0]

\* voided is history: the bids that were waiting when their provider was
\* blocked.
Coordinator ==
    [trust : [Provider -> {"known", "blocked"}],
     proposals : [Number -> Proposal \cup {0}],
     agreements : Seq([provider : Provider, number : Number, revoked : BOOLEAN]),
     bids : SUBSET Bid,
     awards : [Number -> Bid \cup {NoBid}],
     deliveries : [Number -> {"none", "pending_delivery", "delivered", "failed"}],
     last : Number \cup {0},
     voided : SUBSET Bid]

TypeOK ==
    /\ mem \in Coordinator /\ disk \in Coordinator /\ stalled \in BOOLEAN
    /\ outbox \in [Number -> Entry \cup {NoEntry}]
    /\ file \in [Number -> Entry \cup {NoEntry}]
    /\ sending \subseteq Number
    /\ relayed \subseteq Number
    /\ done \subseteq Number \X Provider
    /\ overdue \subseteq Proposal
    /\ restarts \in Nat
    /\ drawn \in Seq(Number)
    /\ chosen \subseteq Proposal \X Provider
    /\ worked \subseteq Proposal \X Provider
    /\ others \subseteq Number

Init ==
    /\ mem = [trust |-> [b \in Provider |-> "known"],
              proposals |-> [n \in Number |-> 0], agreements |-> <<>>, bids |-> {},
              awards |-> [n \in Number |-> NoBid],
              deliveries |-> [n \in Number |-> "none"], last |-> 0, voided |-> {}]
    /\ disk = mem /\ stalled = FALSE
    /\ outbox = [n \in Number |-> NoEntry] /\ file = outbox
    /\ sending = {} /\ done = {} /\ overdue = {} /\ restarts = 0
    /\ drawn = <<>> /\ chosen = {} /\ worked = {}
    /\ others \in SUBSET OtherNumber /\ relayed = others

-----------------------------------------------------------------------------
Known(n) == mem.proposals[n] # 0
Active(n) == Known(n) /\ mem.proposals[n] \notin overdue
Open(n) == Active(n) /\ mem.awards[n] = NoBid

\* An agreement that is accepted and has not expired with its proposal.
Usable(i) ==
    /\ i \in DOMAIN mem.agreements
    /\ ~mem.agreements[i].revoked
    /\ mem.proposals[mem.agreements[i].number] \notin overdue

\* mutate: the event is appended to the log, and written until the writer
\* stalls: the events from there on are the suffix that a crash loses.  An
\* operation of several events, which comes to m through these states, may be
\* written in part.
MutateThrough(states, m) ==
    /\ mem' = m
    /\ \/ disk' = (IF stalled THEN disk ELSE m) /\ UNCHANGED stalled
       \/ /\ ~stalled /\ restarts < MaxRestarts
          /\ disk' \in {disk} \cup states /\ stalled' = TRUE

Mutate(m) == MutateThrough({}, m)

\* The state m with the first k agreements of b revoked.
Revoked(m, b, k) ==
    [m EXCEPT !.agreements =
        [i \in DOMAIN @ |-> IF @[i].provider = b /\ i <= k THEN [@[i] EXCEPT !.revoked = TRUE]
                            ELSE @[i]]]

Waiting(b) == {x \in mem.bids : x.provider = b /\ mem.awards[x.number] # x}

\* Mutant: the agreements of a blocked peer stay.
MutantSetPeerTrust(b, trust) ==
    LET told == [mem EXCEPT !.trust[b] = trust] IN
    /\ Mutate(IF trust = "blocked" THEN [told EXCEPT !.voided = @ \cup Waiting(b)] ELSE told)
    /\ UNCHANGED <<outboxVars, relayVars, overdue, restarts, drawn, chosen>>

\* setPeerTrust: the change of trust and each revocation are events of their
\* own.
SetPeerTrust(b, trust) ==
    LET told == [mem EXCEPT !.trust[b] = trust]
        total == Len(mem.agreements)
    IN
    /\ IF trust = "blocked"
         THEN MutateThrough({Revoked(told, b, k) : k \in 0..total},
                            [Revoked(told, b, total) EXCEPT !.voided = @ \cup Waiting(b)])
         ELSE Mutate(told)
    /\ UNCHANGED <<outboxVars, relayVars, overdue, restarts, drawn, chosen>>

ProposeService(n) ==
    /\ n > mem.last /\ Len(drawn) < MaxProposals
    /\ drawn' = Append(drawn, n)
    /\ Mutate([mem EXCEPT !.proposals[n] = Len(drawn'), !.last = n])
    /\ UNCHANGED <<outboxVars, relayVars, overdue, restarts, chosen>>

\* The state after an agreement with b on the proposal n.
Agreed(b, n) ==
    [mem EXCEPT !.agreements =
        Append(@, [provider |-> b, number |-> n, revoked |-> FALSE])]

NegotiateCapability(b, n) ==
    /\ mem.trust[b] = "known" /\ Open(n)
    /\ Len(mem.agreements) < MaxAgreements
    /\ Mutate(Agreed(b, n))
    /\ UNCHANGED <<outboxVars, relayVars, overdue, restarts, drawn, chosen>>

\* submitBid takes the first agreement with this peer that still holds,
\* whichever proposal it was made for, or makes one.
SubmitBid(b, n) ==
    LET usable == {i \in DOMAIN mem.agreements : Usable(i) /\ mem.agreements[i].provider = b}
    IN
    /\ mem.trust[b] = "known" /\ Open(n)
    /\ \A i \in DOMAIN mem.agreements :
         mem.agreements[i].number = n => ~mem.agreements[i].revoked
    /\ IF usable = {}
         THEN /\ Len(mem.agreements) < MaxAgreements
              /\ MutateThrough({Agreed(b, n)}, [Agreed(b, n) EXCEPT !.bids = @ \cup
                   {[number |-> n, provider |-> b, agreement |-> Len(mem.agreements) + 1]}])
         ELSE \E i \in usable :
                /\ \A j \in usable : i <= j
                /\ Mutate([mem EXCEPT !.bids = @ \cup
                             {[number |-> n, provider |-> b, agreement |-> i]}])
    /\ UNCHANGED <<outboxVars, relayVars, overdue, restarts, drawn, chosen>>

RevokeAgreement(i) ==
    /\ i \in DOMAIN mem.agreements /\ ~mem.agreements[i].revoked
    /\ Mutate([mem EXCEPT !.agreements[i].revoked = TRUE])
    /\ UNCHANGED <<outboxVars, relayVars, overdue, restarts, drawn, chosen>>

-----------------------------------------------------------------------------
Awardable(x) ==
    /\ Open(x.number) /\ Usable(x.agreement)
    /\ mem.trust[x.provider] = "known"

\* networkAwardBid up to its await: it awards the bid if that has not been
\* done yet.
Awarded(x) ==
    /\ x.number \notin sending
    /\ mem.awards[x.number] = x \/ Awardable(x)
    /\ chosen' = chosen \cup {<<mem.proposals[x.number], x.provider>>}

\* A delivered task, or trust, contract, capability, relay, grant or intent
\* are not what they should be.
AwardUnsent(x) ==
    /\ Awarded(x)
    /\ LET awarded == [mem EXCEPT !.awards[x.number] = x] IN
       IF mem.deliveries[x.number] = "delivered"
         THEN Mutate(awarded)
         ELSE MutateThrough({awarded},
                            [awarded EXCEPT !.deliveries[x.number] = "pending_delivery"])
    /\ UNCHANGED <<outboxVars, relayVars, overdue, restarts, drawn>>

\* Mutant: the outbox replaces the entry of an envelope that it knows.
MutantKept(n, e) == e

\* The outbox keeps the entry of an envelope that it knows.
Kept(n, e) == IF outbox[n] = NoEntry THEN e ELSE outbox[n]

AwardSent(x) ==
    LET n == x.number IN
    /\ Awarded(x) /\ mem.deliveries[n] # "delivered" /\ mem.trust[x.provider] = "known"
    /\ Mutate([mem EXCEPT !.awards[n] = x])
    /\ outbox' = [outbox EXCEPT ![n] = Kept(n, [proposal |-> mem.proposals[n], to |-> x.provider])]
    /\ file' = IF outbox[n] = NoEntry THEN outbox' ELSE file
    /\ sending' = sending \cup {n}
    /\ UNCHANGED <<relayVars, overdue, restarts, drawn>>

\* The award that waits, or the retry that knows a delivery, records it.
Record(n, status) ==
    /\ IF n \in sending \/ mem.deliveries[n] # "none"
         THEN Mutate([mem EXCEPT !.deliveries[n] = status])
         ELSE UNCHANGED coordinatorVars
    /\ sending' = sending \ {n}

\* The entry is removed, and the file written at once or after a crash.
Remove(n) ==
    /\ outbox' = [outbox EXCEPT ![n] = NoEntry]
    /\ \/ file' = outbox'
       \/ restarts < MaxRestarts /\ UNCHANGED file

\* The relay passes the entry on to its provider, who works unless it has
\* evidence for a task of this id.
Serve(n) ==
    LET e == outbox[n] IN
    IF <<n, e.to>> \in done
      THEN UNCHANGED <<done, worked>>
      ELSE /\ done' = done \cup {<<n, e.to>>}
           /\ worked' = worked \cup {<<e.proposal, e.to>>}

Sendable(n) == outbox[n] # NoEntry /\ outbox[n].proposal \notin overdue

\* Mutant: the relay takes an envelope whose provider has not answered.
MutantFlushDelivered(n) ==
    /\ Sendable(n)
    /\ relayed' = relayed \cup {n}
    /\ \/ UNCHANGED <<done, worked>>
       \/ n \notin relayed /\ Serve(n)
    /\ Record(n, "delivered")
    /\ Remove(n)
    /\ UNCHANGED <<others, overdue, restarts, drawn, chosen>>

\* The relay answers: a message id that it knows is a duplicate.
FlushDelivered(n) ==
    /\ Sendable(n)
    /\ relayed' = relayed \cup {n}
    /\ IF n \in relayed THEN UNCHANGED <<done, worked>> ELSE Serve(n)
    /\ Record(n, "delivered")
    /\ Remove(n)
    /\ UNCHANGED <<others, overdue, restarts, drawn, chosen>>

\* The relay or the provider is not reached, or its answer is lost.
FlushFails(n) ==
    /\ Sendable(n)
    /\ \/ UNCHANGED <<relayed, done, worked>>
       \/ n \notin relayed /\ Serve(n) /\ relayed' \in {relayed, relayed \cup {n}}
    /\ Record(n, "pending_delivery")
    /\ UNCHANGED <<outbox, file, others, overdue, restarts, drawn, chosen>>

FlushExpired(n) ==
    /\ outbox[n] # NoEntry /\ outbox[n].proposal \in overdue
    /\ Record(n, "failed")
    /\ Remove(n)
    /\ UNCHANGED <<relayVars, overdue, restarts, drawn, chosen>>

-----------------------------------------------------------------------------
BecomesOverdue(p) ==
    /\ p <= Len(drawn) /\ overdue' = overdue \cup {p}
    /\ UNCHANGED <<coordinatorVars, outboxVars, relayVars, restarts, drawn, chosen>>

\* The process stops, and the next one replays the log and loads the outbox.
Restart ==
    /\ restarts < MaxRestarts /\ restarts' = restarts + 1
    /\ mem' = disk /\ stalled' = FALSE /\ outbox' = file /\ sending' = {}
    /\ UNCHANGED <<disk, file, relayVars, overdue, drawn, chosen>>

Next ==
    \/ \E b \in Provider :
         \/ \E trust \in {"known", "blocked"} : SetPeerTrust(b, trust)
         \/ \E n \in Number : NegotiateCapability(b, n) \/ SubmitBid(b, n)
    \/ \E i \in DOMAIN mem.agreements : RevokeAgreement(i)
    \/ \E x \in mem.bids : AwardUnsent(x) \/ AwardSent(x)
    \/ \E n \in Number :
         \/ ProposeService(n)
         \/ FlushDelivered(n) \/ FlushFails(n) \/ FlushExpired(n)
    \/ \E p \in Expiring : BecomesOverdue(p)
    \/ Restart

Spec == Init /\ [][Next]_vars

-----------------------------------------------------------------------------
(***************************************************************************)
(* "Kept until the provider acknowledges, and only then marked delivered": *)
(* the winner of a delivered proposal has worked on it.                    *)
(***************************************************************************)
DeliveredIsDone ==
    \A n \in Number :
        mem.deliveries[n] = "delivered" =>
            <<mem.proposals[n], mem.awards[n].provider>> \in worked

\* The number is one of another runtime's, or was drawn twice, or the award
\* of its proposal was lost and made again to another peer.
Ambiguous(n) ==
    \/ n \in others
    \/ \E p \in DOMAIN drawn : drawn[p] = n /\ p # mem.proposals[n]
    \/ \E b \in Provider : b # mem.awards[n].provider /\ <<mem.proposals[n], b>> \in chosen

(***************************************************************************)
(* The same as the code does keep it: whatever retries, lost answers,      *)
(* blocked peers and crashes come in between, a proposal is delivered only *)
(* when its winner has worked, as long as its number means one proposal    *)
(* with one winner to everybody who dedups by it.                          *)
(***************************************************************************)
DeliveredWasDone ==
    \A n \in Number :
        mem.deliveries[n] = "delivered" /\ ~Ambiguous(n) =>
            <<mem.proposals[n], mem.awards[n].provider>> \in worked

(***************************************************************************)
(* No proposal is worked on by two peers, not even if a crash forgets the  *)
(* award and another bid wins: outbox and relay still know the envelope.   *)
(***************************************************************************)
OneWorker ==
    \A p \in Proposal, a, b \in Provider :
        <<p, a>> \in worked /\ <<p, b>> \in worked => a = b

(***************************************************************************)
(* "revokes agreements when a trusted peer is blocked": a bid that waits   *)
(* when its provider is blocked never wins, also if the peer is trusted    *)
(* again, the bid rests on an agreement for another proposal, or the       *)
(* runtime restarts.  A crash between the writes of the trust and of the   *)
(* revocations undoes that block, and voided with it.                      *)
(***************************************************************************)
VoidedNeverWins ==
    \A n \in Number : mem.awards[n] \notin mem.voided
=============================================================================
