---------------------------- MODULE TaskProtocol ----------------------------
(***************************************************************************)
(* The pure half of packages/collaboration/openbuddy-task: the transition  *)
(* table of a task, who may ask for each transition, and the state that a  *)
(* transition leaves.  No variables: BuddyTask runs these operators as a   *)
(* state machine, and TaskExecution runs them inside the executor of the   *)
(* organization.                                                           *)
(*                                                                         *)
(* Abstractions.  Identities are model values.  A task carries the fields  *)
(* the guards read; taskId, updatedAt and lastEventId are left out, and    *)
(* version is the number of transitions taken.                             *)
(***************************************************************************)

CONSTANTS
    Principal,      \* identities that may act on a task
    Requester,      \* envelope.sender: the identity that proposed it
    NoOne           \* an absent providerId or verifierId

ASSUME PrincipalAssumption ==
    /\ Requester \in Principal
    /\ NoOne \notin Principal

Status ==
    {"proposed", "negotiating", "awarded", "authorized", "running",
     "delivered", "verifying", "accepted", "rejected", "revoked", "failed",
     "revision_requested", "disputed"}

\* The successors each status admits.
Transitions ==
    [proposed    |-> {"negotiating", "rejected", "revoked"},
     negotiating |-> {"awarded", "rejected", "revoked"},
     awarded     |-> {"authorized", "revoked"},
     authorized  |-> {"running", "revoked"},
     running     |-> {"delivered", "failed", "revoked"},
     delivered   |-> {"verifying", "revision_requested", "disputed", "revoked"},
     verifying   |-> {"accepted", "revision_requested", "disputed", "failed",
                      "revoked"},
     accepted    |-> {"revision_requested", "disputed"},
     rejected    |-> {},
     revoked     |-> {},
     failed      |-> {"revision_requested", "disputed"},
     revision_requested |-> {"negotiating", "revoked"},
     disputed    |-> {"revision_requested", "revoked"}]

\* The status each protocol message asks for.  No message asks for
\* "rejected", and none of the rows above admits "proposed".
StatusFor ==
    [propose |-> "proposed",   bid      |-> "negotiating",
     award   |-> "awarded",    authorize |-> "authorized",
     progress |-> "running",   deliver  |-> "delivered",
     verify  |-> "verifying",  accept   |-> "accepted",
     revoke  |-> "revoked",    fail     |-> "failed",
     revision_requested |-> "revision_requested",
     dispute |-> "disputed"]

Message == DOMAIN StatusFor

\* Mutant: a requester may not ask for a revision.
MutantRequestersAllowed ==
    {"proposed", "negotiating", "awarded", "authorized", "revoked", "accepted"}

RequestersAllowed ==
    {"proposed", "negotiating", "awarded", "authorized", "revoked",
     "revision_requested", "accepted"}
ProvidersAllowed == {"awarded", "authorized", "running", "delivered", "failed"}
VerifiersAllowed == {"verifying", "revision_requested", "disputed"}

TaskState ==
    [status     : Status,
     providerId : Principal \cup {NoOne},
     verifierId : Principal \cup {NoOne}]

InitialTask == [status |-> "proposed", providerId |-> NoOne, verifierId |-> NoOne]

\* The identities a caller puts into a TaskTransitionContext.
Context(actor, providerId, verifierId) ==
    [actor |-> actor, providerId |-> providerId, verifierId |-> verifierId]

\* x ?? y
OrElse(x, y) == IF x = NoOne THEN y ELSE x

\* Mutant: whoever names itself verifier is one, the provider included.
MutantActorAllowed(task, ctx, next) ==
    \/ ctx.actor = Requester /\ next \in RequestersAllowed
    \/ next = "negotiating" /\ task.providerId = NoOne /\ ctx.actor # Requester
    \/ next = "verifying" /\ ctx.verifierId = ctx.actor
    \/ ctx.actor = task.providerId /\ next \in ProvidersAllowed
    \/ ctx.actor = task.verifierId /\ next \in VerifiersAllowed

ActorAllowed(task, ctx, next) ==
    \/ ctx.actor = Requester /\ next \in RequestersAllowed
    \/ next = "negotiating" /\ task.providerId = NoOne /\ ctx.actor # Requester
    \/ /\ next = "verifying"
       /\ ctx.verifierId = ctx.actor
       /\ ctx.actor # task.providerId
    \/ ctx.actor = task.providerId /\ next \in ProvidersAllowed
    \/ ctx.actor = task.verifierId /\ next \in VerifiersAllowed

\* Mutant: the provider of a task may accept it.
MutantSelfAcceptance(task, ctx, msg, late) ==
    LET next == StatusFor[msg] IN
    /\ ~late
    /\ next \in Transitions[task.status]
    /\ ActorAllowed(task, ctx, next)
    /\ next = "awarded" => OrElse(ctx.providerId, task.providerId) # NoOne

\* Mutant: the transition table is not consulted.
MutantNoTable(task, ctx, msg, late) ==
    /\ ~late
    /\ ActorAllowed(task, ctx, StatusFor[msg])

\* transitionTask returns instead of throwing; "late" is now >= expiresAt.
MayTransition(task, ctx, msg, late) ==
    LET next == StatusFor[msg] IN
    /\ ~late
    /\ next \in Transitions[task.status]
    /\ ActorAllowed(task, ctx, next)
    /\ next = "awarded" => OrElse(ctx.providerId, task.providerId) # NoOne
    /\ next = "verifying" => ctx.verifierId # NoOne
    /\ next = "accepted" => /\ task.verifierId # NoOne
                            /\ task.providerId # ctx.actor

\* The state it then returns.
AfterTransition(task, ctx, msg) ==
    LET next == StatusFor[msg]
        bidder == IF next = "negotiating" /\ ctx.actor # Requester
                    THEN ctx.actor ELSE NoOne
    IN [status     |-> next,
        providerId |-> OrElse(ctx.providerId, OrElse(task.providerId, bidder)),
        verifierId |-> OrElse(ctx.verifierId, task.verifierId)]
=============================================================================
