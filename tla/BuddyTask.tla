------------------------------ MODULE BuddyTask ------------------------------
(***************************************************************************)
(* One task of packages/collaboration/openbuddy-task: transitionTask as a  *)
(* state machine, and replayTask over the events it has produced.          *)
(*                                                                         *)
(* Each action is transitionTask called with one messageType, by any       *)
(* identity, with the context the callers build: a bidder names itself or  *)
(* nobody as provider (the requester, who reopens a negotiation, nobody),  *)
(* an award names any provider or nobody, a verifier names itself, and     *)
(* every other message names nobody, so that the identities of the state   *)
(* are kept.  Time is the one bit the guards read.                         *)
(***************************************************************************)
EXTENDS TaskProtocol, Naturals, Sequences

CONSTANT MaxEvents      \* bound: transitions explored for the task

ASSUME MaxEventsAssumption == MaxEvents \in Nat

VARIABLES
    task,       \* BuddyTaskState
    log,        \* the events transitionTask has returned, oldest first
    late        \* now >= envelope.expiresAt

vars == <<task, log, late>>

Event == [kind : Message, actor : Principal]

TypeOK ==
    /\ task \in TaskState
    /\ log \in Seq(Event)
    /\ late \in BOOLEAN

Init ==
    /\ task = InitialTask
    /\ log = <<>>
    /\ late = FALSE

Transition(msg, ctx) ==
    /\ Len(log) < MaxEvents
    /\ MayTransition(task, ctx, msg, late)
    /\ task' = AfterTransition(task, ctx, msg)
    /\ log' = Append(log, [kind |-> msg, actor |-> ctx.actor])
    /\ UNCHANGED late

Bid(a) ==
    \E p \in {NoOne, a} \ {Requester} : Transition("bid", Context(a, p, NoOne))
Award(a) ==
    \E p \in Principal \cup {NoOne} : Transition("award", Context(a, p, NoOne))
Authorize(a) == Transition("authorize", Context(a, NoOne, NoOne))
Progress(a)  == Transition("progress", Context(a, NoOne, NoOne))
Deliver(a)   == Transition("deliver", Context(a, NoOne, NoOne))
Verify(a)    == Transition("verify", Context(a, NoOne, a))
Accept(a)    == Transition("accept", Context(a, NoOne, NoOne))
Revoke(a)    == Transition("revoke", Context(a, NoOne, NoOne))
Fail(a)      == Transition("fail", Context(a, NoOne, NoOne))
RequestRevision(a) ==
    Transition("revision_requested", Context(a, NoOne, NoOne))
Dispute(a)   == Transition("dispute", Context(a, NoOne, NoOne))

\* The wall clock passes expiresAt.
Expire == late = FALSE /\ late' = TRUE /\ UNCHANGED <<task, log>>

Next ==
    \/ \E a \in Principal :
         \/ Bid(a)     \/ Award(a)  \/ Authorize(a) \/ Progress(a)
         \/ Deliver(a) \/ Verify(a) \/ Accept(a)    \/ Revoke(a)
         \/ Fail(a)    \/ RequestRevision(a)        \/ Dispute(a)
    \/ Expire

Spec == Init /\ [][Next]_vars

-----------------------------------------------------------------------------
(***************************************************************************)
(* replayTask: a fold of transitionTask over the events, with the provider *)
(* and the verifier inferred from the state and from the kind of event,    *)
(* because the events do not record them.  A transition that throws ends   *)
(* the replay, which is then Unreplayable.                                 *)
(***************************************************************************)
Unreplayable == [status |-> "rejected", providerId |-> NoOne, verifierId |-> NoOne]

\* Mutant: every actor is taken for the provider, not only a bidder.
MutantReplayContext(state, e) ==
    Context(e.actor, OrElse(state.providerId, e.actor),
            OrElse(state.verifierId, e.actor))

ReplayContext(state, e) ==
    Context(e.actor,
            OrElse(state.providerId, IF e.kind = "bid" THEN e.actor ELSE NoOne),
            OrElse(state.verifierId, IF e.kind = "verify" THEN e.actor ELSE NoOne))

ReplayTask(events) ==
    LET upTo[n \in 0..Len(events)] ==
            IF n = 0 THEN InitialTask
            ELSE LET state == upTo[n - 1]
                     ctx   == ReplayContext(state, events[n])
                 IN IF MayTransition(state, ctx, events[n].kind, FALSE)
                      THEN AfterTransition(state, ctx, events[n].kind)
                      ELSE Unreplayable
    IN upTo[Len(events)]

-----------------------------------------------------------------------------
\* Event n is of kind k.
Is(n, k) == n \in DOMAIN log /\ log[n].kind = k

\* No revision round has been opened before event n.
InFirstRound(n) == \A m \in 1..n : ~Is(m, "revision_requested")

(***************************************************************************)
(* Nobody verifies its own delivery: transitionTask means to ensure it     *)
(* (index.ts:78), and does until a revision round is opened, whoever is    *)
(* awarded and whoever claims the verification.  In later rounds the       *)
(* former verifier may, once awarded.                                      *)
(***************************************************************************)
FirstRoundVerificationIndependent ==
    \A n \in DOMAIN log :
        (Is(n, "verify") /\ InFirstRound(n)) => log[n].actor # log[n - 1].actor

(***************************************************************************)
(* An acceptance is never the deliverer's own, and it always accepts a     *)
(* delivery that was verified: the two events before it are a deliver by   *)
(* another identity and a verify.                                          *)
(***************************************************************************)
AcceptanceFollowsVerifiedDelivery ==
    \A n \in DOMAIN log :
        Is(n, "accept") =>
            /\ Is(n - 1, "verify") /\ Is(n - 2, "deliver")
            /\ log[n].actor = Requester /\ log[n - 2].actor # Requester

(***************************************************************************)
(* Every delivery closes an unbroken bid, award, authorize, progress run   *)
(* of its own round, and comes from the identity that did the work: a      *)
(* revision can not go back to work without a new award and authorization. *)
(***************************************************************************)
DeliveryFollowsAward ==
    \A n \in DOMAIN log :
        Is(n, "deliver") =>
            /\ Is(n - 1, "progress") /\ log[n - 1].actor = log[n].actor
            /\ Is(n - 2, "authorize") /\ Is(n - 3, "award") /\ Is(n - 4, "bid")

(***************************************************************************)
(* The requester is never locked out by the moves of the others: until the *)
(* envelope expires there is always a message transitionTask accepts from  *)
(* it, except after a revocation.                                          *)
(***************************************************************************)
RequesterNeverLockedOut ==
    late \/ task.status = "revoked"
        \/ \E m \in Message :
             MayTransition(task, Context(Requester, NoOne, NoOne), m, late)

\* Another identity than the requester bids first, is the provider, and has
\* done all the work.
BidderIsProvider ==
    Is(1, "bid") =>
        /\ log[1].actor = task.providerId
        /\ log[1].actor # Requester
        /\ \A n \in DOMAIN log : Is(n, "progress") => log[n].actor = log[1].actor

(***************************************************************************)
(* The event log is the source of truth: while the provider is the         *)
(* identity that bid first, replayTask over the events of the first round  *)
(* rebuilds the state transitionTask returned, whoever verifies and        *)
(* wherever the task stops.  In a later round it may throw: the events do  *)
(* not record the verifier transitionTask was told of.                     *)
(***************************************************************************)
ReplayRebuildsFirstRound ==
    (BidderIsProvider /\ InFirstRound(Len(log))) => ReplayTask(log) = task
=============================================================================
