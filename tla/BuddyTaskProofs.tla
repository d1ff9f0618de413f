--------------------------- MODULE BuddyTaskProofs ---------------------------
(***************************************************************************)
(* Theorems about BuddyTask, for every set of identities and every bound   *)
(* on the number of events.  The inductive invariant is IndInv: the log is *)
(* a path of the transition table that ends in the status of the task, the *)
(* identity that works is the provider the task records, and before the    *)
(* first revision no verifier is recorded while the work is going on.      *)
(*                                                                         *)
(* replayTask is a fold of the log.  That it is unfolded event by event    *)
(* for a log of any length is proved by induction, stated as the set of    *)
(* the lengths for which it holds; ReplayInv then follows the task.        *)
(***************************************************************************)
EXTENDS BuddyTask, WellFoundedInduction, TLAPS

\* The statuses of a round before anybody has verified.
Working ==
    {"proposed", "negotiating", "awarded", "authorized", "running", "delivered"}

\* The event n was accepted by the table in the status left by event n - 1.
LogIsPath ==
    \A n \in DOMAIN log :
        StatusFor[log[n].kind] \in
            Transitions[IF n = 1 THEN "proposed" ELSE StatusFor[log[n - 1].kind]]

LogEndsInStatus ==
    task.status = IF log = <<>> THEN "proposed"
                  ELSE StatusFor[log[Len(log)].kind]

ProviderWorks ==
    /\ task.status \in {"running", "delivered"} =>
         log[Len(log)].actor = task.providerId
    /\ task.status = "verifying" => log[Len(log) - 1].actor = task.providerId

NoVerifierYet ==
    InFirstRound(Len(log)) /\ task.status \in Working => task.verifierId = NoOne

IndInv ==
    /\ TypeOK
    /\ LogIsPath
    /\ LogEndsInStatus
    /\ ProviderWorks
    /\ NoVerifierYet
    /\ FirstRoundVerificationIndependent
    /\ AcceptanceFollowsVerifiedDelivery
    /\ DeliveryFollowsAward

-----------------------------------------------------------------------------
\* The messages, spelled out.
LEMMA MessageSet ==
    Message = {"propose", "bid", "award", "authorize", "progress", "deliver",
               "verify", "accept", "revoke", "fail", "revision_requested",
               "dispute"}
BY DEF Message, StatusFor

\* Every message asks for a status.
LEMMA StatusForType == ASSUME NEW m \in Message PROVE StatusFor[m] \in Status
BY MessageSet DEF StatusFor, Status

\* The only predecessor of each status of the happy path.
LEMMA Predecessors ==
    ASSUME NEW s \in Status
    PROVE  /\ "accepted" \in Transitions[s] => s = "verifying"
           /\ "verifying" \in Transitions[s] => s = "delivered"
           /\ "delivered" \in Transitions[s] => s = "running"
           /\ "running" \in Transitions[s] => s = "authorized"
           /\ "authorized" \in Transitions[s] => s = "awarded"
           /\ "awarded" \in Transitions[s] => s = "negotiating"
           /\ "negotiating" \in Transitions[s] => s \in {"proposed", "revision_requested"}
BY DEF Transitions, Status

\* Only one message asks for each status.
LEMMA StatusForInjective ==
    ASSUME NEW m \in Message
    PROVE  /\ StatusFor[m] = "negotiating" => m = "bid"
           /\ StatusFor[m] = "awarded" => m = "award"
           /\ StatusFor[m] = "authorized" => m = "authorize"
           /\ StatusFor[m] = "running" => m = "progress"
           /\ StatusFor[m] = "delivered" => m = "deliver"
           /\ StatusFor[m] = "verifying" => m = "verify"
           /\ StatusFor[m] = "accepted" => m = "accept"
           /\ StatusFor[m] = "revision_requested" => m = "revision_requested"
BY MessageSet DEF StatusFor

-----------------------------------------------------------------------------
(***************************************************************************)
(* What a step does: it leaves task and log alone, or it is one call of    *)
(* transitionTask in which only a bid or an award names a provider and     *)
(* only a verification names a verifier, the caller.                       *)
(***************************************************************************)
Call(a, p, m) ==
    /\ MayTransition(task, Context(a, p, IF m = "verify" THEN a ELSE NoOne), m, late)
    /\ task' = AfterTransition(task, Context(a, p, IF m = "verify" THEN a ELSE NoOne), m)
    /\ log' = Append(log, [kind |-> m, actor |-> a])
    /\ late' = late

LEMMA StepIsCall ==
    ASSUME [Next]_vars
    PROVE  \/ /\ UNCHANGED <<task, log>>
              /\ late' \in {late, TRUE}
           \/ \E a \in Principal, p \in Principal \cup {NoOne}, m \in Message :
                /\ m \notin {"bid", "award"} => p = NoOne
                /\ m = "bid" => p \in {NoOne, a}
                /\ Call(a, p, m)
<1> SUFFICES ASSUME Next PROVE
           \/ UNCHANGED <<task, log>> /\ late' \in {late, TRUE}
           \/ \E a \in Principal, p \in Principal \cup {NoOne}, m \in Message :
                /\ m \notin {"bid", "award"} => p = NoOne
                /\ m = "bid" => p \in {NoOne, a}
                /\ Call(a, p, m)
  BY DEF vars
<1>1. CASE Expire
  BY <1>1 DEF Expire
<1>2. ASSUME NEW a \in Principal,
             \/ Bid(a)     \/ Award(a)  \/ Authorize(a) \/ Progress(a)
             \/ Deliver(a) \/ Verify(a) \/ Accept(a)    \/ Revoke(a)
             \/ Fail(a)    \/ RequestRevision(a)        \/ Dispute(a)
      PROVE  \E p \in Principal \cup {NoOne}, m \in Message :
                /\ m \notin {"bid", "award"} => p = NoOne
                /\ m = "bid" => p \in {NoOne, a}
                /\ Call(a, p, m)
  <2>1. CASE Bid(a)
    <3>1. PICK p \in {NoOne, a} \ {Requester} :
            Transition("bid", Context(a, p, NoOne))
      BY <2>1 DEF Bid
    <3>2. Call(a, p, "bid")
      BY <3>1 DEF Transition, Call, Context
    <3> QED BY <3>2, MessageSet
  <2>2. CASE Award(a)
    <3>1. PICK p \in Principal \cup {NoOne} :
            Transition("award", Context(a, p, NoOne))
      BY <2>2 DEF Award
    <3>2. Call(a, p, "award")
      BY <3>1 DEF Transition, Call, Context
    <3> QED BY <3>2, MessageSet
  <2>3. CASE Authorize(a)
    <3>1. Call(a, NoOne, "authorize")
      BY <2>3 DEF Authorize, Transition, Call, Context
    <3> QED BY <3>1, MessageSet
  <2>4. CASE Progress(a)
    <3>1. Call(a, NoOne, "progress")
      BY <2>4 DEF Progress, Transition, Call, Context
    <3> QED BY <3>1, MessageSet
  <2>5. CASE Deliver(a)
    <3>1. Call(a, NoOne, "deliver")
      BY <2>5 DEF Deliver, Transition, Call, Context
    <3> QED BY <3>1, MessageSet
  <2>6. CASE Verify(a)
    <3>1. Call(a, NoOne, "verify")
      BY <2>6 DEF Verify, Transition, Call, Context
    <3> QED BY <3>1, MessageSet
  <2>7. CASE Accept(a)
    <3>1. Call(a, NoOne, "accept")
      BY <2>7 DEF Accept, Transition, Call, Context
    <3> QED BY <3>1, MessageSet
  <2>8. CASE Revoke(a)
    <3>1. Call(a, NoOne, "revoke")
      BY <2>8 DEF Revoke, Transition, Call, Context
    <3> QED BY <3>1, MessageSet
  <2>9. CASE Fail(a)
    <3>1. Call(a, NoOne, "fail")
      BY <2>9 DEF Fail, Transition, Call, Context
    <3> QED BY <3>1, MessageSet
  <2>10. CASE RequestRevision(a)
    <3>1. Call(a, NoOne, "revision_requested")
      BY <2>10 DEF RequestRevision, Transition, Call, Context
    <3> QED BY <3>1, MessageSet
  <2>11. CASE Dispute(a)
    <3>1. Call(a, NoOne, "dispute")
      BY <2>11 DEF Dispute, Transition, Call, Context
    <3> QED BY <3>1, MessageSet
  <2> QED BY <1>2, <2>1, <2>2, <2>3, <2>4, <2>5, <2>6, <2>7, <2>8, <2>9, <2>10, <2>11
<1> QED BY <1>1, <1>2 DEF Next

LEMMA TypeOKStep == ASSUME TypeOK, [Next]_vars PROVE TypeOK'
<1>1. CASE UNCHANGED <<task, log>> /\ late' \in {late, TRUE}
  BY <1>1 DEF TypeOK
<1>2. ASSUME NEW a \in Principal, NEW p \in Principal \cup {NoOne},
             NEW m \in Message, Call(a, p, m)
      PROVE  TypeOK'
  <2>1. task' \in TaskState
    BY <1>2, StatusForType DEF Call, AfterTransition, Context, OrElse, TaskState, TypeOK
  <2>2. log' \in Seq(Event)
    BY <1>2 DEF Call, Event, TypeOK
  <2> QED BY <1>2, <2>1, <2>2 DEF Call, TypeOK
<1> QED BY <1>1, <1>2, StepIsCall

(***************************************************************************)
(* The task always has a status of the state machine and identities that   *)
(* take part in it, and the log holds protocol events only.                *)
(***************************************************************************)
THEOREM TypeCorrect == Spec => []TypeOK
<1>1. Init => TypeOK
  <2>1. InitialTask \in TaskState
    BY DEF TaskState, InitialTask, Status
  <2>2. <<>> \in Seq(Event)
    OBVIOUS
  <2> QED BY <2>1, <2>2 DEF Init, TypeOK
<1>2. TypeOK /\ [Next]_vars => TypeOK'
  BY TypeOKStep
<1> QED BY <1>1, <1>2, PTL DEF Spec

-----------------------------------------------------------------------------
\* A call adds one event to the log and leaves the others as they were.
LEMMA LogGrows ==
    ASSUME TypeOK, NEW a \in Principal, NEW p, NEW m \in Message, Call(a, p, m)
    PROVE  /\ Len(log) \in Nat
           /\ DOMAIN log = 1..Len(log)
           /\ Len(log') = Len(log) + 1
           /\ DOMAIN log' = 1..(Len(log) + 1)
           /\ \A n \in 1..Len(log) : log'[n] = log[n]
           /\ log'[Len(log) + 1] = [kind |-> m, actor |-> a]
           /\ \A n \in 1..Len(log) : log[n].kind \in Message
<1> DEFINE e == [kind |-> m, actor |-> a]
<1>1. log \in Seq(Event) /\ log' = Append(log, e)
  BY DEF TypeOK, Call
<1>2. e \in Event
  BY DEF Event
<1> HIDE DEF e
<1>3. \A n \in 1..Len(log) : log[n] \in Event
  BY <1>1
<1>4. \A n \in 1..Len(log) : log[n].kind \in Message
  BY <1>3 DEF Event
<1>5. /\ Len(log) \in Nat
      /\ DOMAIN log = 1..Len(log)
      /\ Len(log') = Len(log) + 1
      /\ DOMAIN log' = 1..(Len(log) + 1)
      /\ \A n \in 1..Len(log) : log'[n] = log[n]
      /\ log'[Len(log) + 1] = e
  BY <1>1, <1>2
<1> QED BY <1>4, <1>5 DEF e

\* What transitionTask checked of the message, and what it did to the task.
LEMMA CallFacts ==
    ASSUME TypeOK, NEW a \in Principal, NEW p \in Principal \cup {NoOne},
           NEW m \in Message, m \notin {"bid", "award"} => p = NoOne, Call(a, p, m)
    PROVE  /\ StatusFor[m] \in Transitions[task.status]
           /\ task'.status = StatusFor[m]
           /\ m \notin {"bid", "award"} => task'.providerId = task.providerId
           /\ m # "verify" => task'.verifierId = task.verifierId
           /\ m \in {"progress", "deliver"} => a = task.providerId
           /\ m = "verify" => a # task.providerId \/ a = task.verifierId
           /\ m = "accept" => a = Requester /\ a # task.providerId
<1> DEFINE ctx == Context(a, p, IF m = "verify" THEN a ELSE NoOne)
<1>1. /\ ctx.actor = a /\ ctx.providerId = p
      /\ ctx.verifierId = IF m = "verify" THEN a ELSE NoOne
  BY DEF Context
<1>2. MayTransition(task, ctx, m, late) /\ task' = AfterTransition(task, ctx, m)
  BY DEF Call
<1> HIDE DEF ctx
<1>3. StatusFor[m] \in Transitions[task.status]
  BY <1>2 DEF MayTransition
<1>4. task'.status = StatusFor[m]
  BY <1>2 DEF AfterTransition
<1>5. m \notin {"bid", "award"} => task'.providerId = task.providerId
  <2> SUFFICES ASSUME m \notin {"bid", "award"} PROVE task'.providerId = task.providerId
    OBVIOUS
  <2>1. ctx.providerId = NoOne /\ StatusFor[m] # "negotiating"
    BY <1>1, StatusForInjective
  <2> QED BY <1>2, <2>1 DEF AfterTransition, OrElse
<1>6. m # "verify" => task'.verifierId = task.verifierId
  BY <1>1, <1>2 DEF AfterTransition, OrElse
<1>7. ActorAllowed(task, ctx, StatusFor[m])
  BY <1>2 DEF MayTransition
<1>8. m = "progress" => a = task.providerId
  BY <1>1, <1>7 DEF ActorAllowed, StatusFor, RequestersAllowed, VerifiersAllowed
<1>9. m = "deliver" => a = task.providerId
  BY <1>1, <1>7 DEF ActorAllowed, StatusFor, RequestersAllowed, VerifiersAllowed
<1>10. m = "verify" => a # task.providerId \/ a = task.verifierId
  BY <1>1, <1>7 DEF ActorAllowed, StatusFor, RequestersAllowed, ProvidersAllowed
<1>11. m = "accept" => a = Requester /\ a # task.providerId
  <2>1. m = "accept" => a = Requester
    BY <1>1, <1>7 DEF ActorAllowed, StatusFor, ProvidersAllowed, VerifiersAllowed
  <2>2. m = "accept" => a # task.providerId
    BY <1>1, <1>2 DEF MayTransition, StatusFor
  <2> QED BY <2>1, <2>2
<1> QED BY <1>3, <1>4, <1>5, <1>6, <1>8, <1>9, <1>10, <1>11

LEMMA IndInvCall ==
    ASSUME IndInv, TypeOK', NEW a \in Principal, NEW p \in Principal \cup {NoOne},
           NEW m \in Message, m \notin {"bid", "award"} => p = NoOne, Call(a, p, m)
    PROVE  IndInv'
<1>1. TypeOK
  BY DEF IndInv
<1>0. PICK n \in Nat : n = Len(log)
  BY <1>1, LogGrows
<1>2. /\ Len(log) = n /\ DOMAIN log = 1..n
      /\ Len(log') = n + 1 /\ DOMAIN log' = 1..(n + 1)
      /\ \A i \in 1..n : log'[i] = log[i]
      /\ log'[n + 1] = [kind |-> m, actor |-> a]
      /\ \A i \in 1..n : log[i].kind \in Message
  BY <1>0, <1>1, LogGrows
<1>3. /\ StatusFor[m] \in Transitions[task.status]
      /\ task'.status = StatusFor[m]
      /\ m \notin {"bid", "award"} => task'.providerId = task.providerId
      /\ m # "verify" => task'.verifierId = task.verifierId
      /\ m \in {"progress", "deliver"} => a = task.providerId
      /\ m = "verify" => a # task.providerId \/ a = task.verifierId
      /\ m = "accept" => a = Requester /\ a # task.providerId
  BY <1>1, CallFacts
<1>4. log = <<>> <=> n = 0
  BY <1>1, <1>2 DEF TypeOK
<1>5. task.status = IF n = 0 THEN "proposed" ELSE StatusFor[log[n].kind]
  BY <1>2, <1>4 DEF IndInv, LogEndsInStatus
<1>6. task.status \in Status
  BY <1>1 DEF TypeOK, TaskState
<1>7. LogIsPath'
  <2> SUFFICES ASSUME NEW i \in 1..(n + 1)
               PROVE  StatusFor[log'[i].kind] \in
                        Transitions[IF i = 1 THEN "proposed"
                                    ELSE StatusFor[log'[i - 1].kind]]
    BY <1>2 DEF LogIsPath
  <2>1. CASE i = n + 1
    BY <1>2, <1>3, <1>5, <2>1
  <2>2. CASE i \in 1..n
    <3>1. log'[i] = log[i] /\ (i # 1 => log'[i - 1] = log[i - 1])
      BY <1>2, <2>2
    <3>2. StatusFor[log[i].kind] \in
            Transitions[IF i = 1 THEN "proposed" ELSE StatusFor[log[i - 1].kind]]
      BY <1>2, <2>2 DEF IndInv, LogIsPath
    <3> QED BY <3>1, <3>2
  <2> QED BY <1>2, <2>1, <2>2
<1>8. LogEndsInStatus'
  BY <1>2, <1>3 DEF LogEndsInStatus
\* The kinds of the last events, read off the status.
<1>9. /\ task.status = "running" => n > 0 /\ log[n].kind = "progress"
      /\ task.status = "delivered" => n > 0 /\ log[n].kind = "deliver"
      /\ task.status = "verifying" => n > 0 /\ log[n].kind = "verify"
      /\ task.status = "authorized" => n > 0 /\ log[n].kind = "authorize"
      /\ task.status = "awarded" => n > 0 /\ log[n].kind = "award"
      /\ task.status = "negotiating" => n > 0 /\ log[n].kind = "bid"
      /\ task.status = "revision_requested" => n > 0 /\ log[n].kind = "revision_requested"
  BY <1>2, <1>5, StatusForInjective
<1>10. /\ m = "accept" => task.status = "verifying"
       /\ m = "verify" => task.status = "delivered"
       /\ m = "deliver" => task.status = "running"
       /\ m = "progress" => task.status = "authorized"
       /\ m = "authorize" => task.status = "awarded"
       /\ m = "award" => task.status = "negotiating"
       /\ m = "bid" => task.status \in {"proposed", "revision_requested"}
  BY <1>3, <1>6, Predecessors DEF StatusFor
<1>11. ProviderWorks'
  <2>1. CASE m = "progress"
    BY <1>2, <1>3, <2>1 DEF ProviderWorks, StatusFor
  <2>2. CASE m = "deliver"
    BY <1>2, <1>3, <2>2 DEF ProviderWorks, StatusFor
  <2>3. CASE m = "verify"
    <3>1. n > 0 /\ log[n].actor = task.providerId
      BY <1>2, <1>9, <1>10, <2>3 DEF IndInv, ProviderWorks
    <3>2. log'[n].actor = task'.providerId
      BY <1>2, <1>3, <2>3, <3>1
    <3> QED BY <1>2, <1>3, <2>3, <3>2 DEF ProviderWorks, StatusFor
  <2>4. CASE m \notin {"progress", "deliver", "verify"}
    BY <1>3, <2>4, StatusForInjective DEF ProviderWorks
  <2> QED BY <2>1, <2>2, <2>3, <2>4
<1>12. \A i \in 0..n, k \in Message : Is(i, k)' <=> Is(i, k)
  BY <1>2 DEF Is
<1>13. \A k \in Message : Is(n + 1, k)' <=> m = k
  BY <1>2 DEF Is
<1>14. \A i \in 0..n : InFirstRound(i)' <=> InFirstRound(i)
  BY <1>2, <1>12, MessageSet DEF InFirstRound
<1>15. InFirstRound(n + 1)' => InFirstRound(n) /\ m # "revision_requested"
  BY <1>2, <1>12, <1>13, MessageSet DEF InFirstRound
<1>16. NoVerifierYet'
  <2> SUFFICES ASSUME InFirstRound(n + 1)', task'.status \in Working
               PROVE  task'.verifierId = NoOne
    BY <1>2 DEF NoVerifierYet
  <2>1. m # "verify" /\ task.status \in Working
    <3>1. m \in {"propose", "bid", "award", "authorize", "progress", "deliver"}
      BY <1>3, MessageSet DEF Working, StatusFor
    <3>2. m # "propose"
      BY <1>3, <1>6 DEF StatusFor, Transitions, Status
    <3>3. task.status # "revision_requested"
      BY <1>2, <1>9, <1>15 DEF InFirstRound, Is
    <3> QED BY <1>10, <3>1, <3>2, <3>3 DEF Working
  <2> QED BY <1>2, <1>3, <1>15, <2>1 DEF IndInv, NoVerifierYet
\* The last two events before a verification, an acceptance, a delivery.
<1>17. FirstRoundVerificationIndependent'
  <2> SUFFICES ASSUME NEW i \in 1..(n + 1), Is(i, "verify")', InFirstRound(i)'
               PROVE  log'[i].actor # log'[i - 1].actor
    BY <1>2 DEF FirstRoundVerificationIndependent
  <2>1. CASE i \in 1..n
    <3>1. Is(i, "verify") /\ InFirstRound(i)
      BY <1>12, <1>14, <2>1, MessageSet
    <3>2. Is(i - 1, "deliver")
      BY <1>1, <1>2, <3>1, StatusForType, StatusForInjective, Predecessors
         DEF IndInv, LogIsPath, Is, StatusFor, Status
    <3>3. log[i].actor # log[i - 1].actor
      BY <1>2, <2>1, <3>1 DEF IndInv, FirstRoundVerificationIndependent
    <3> QED BY <1>2, <2>1, <3>2, <3>3 DEF Is
  <2>2. CASE i = n + 1
    <3>1. m = "verify" /\ InFirstRound(n)
      BY <1>13, <1>15, <2>2, MessageSet
    <3>2. n > 0 /\ task.status = "delivered" /\ log[n].actor = task.providerId
      BY <1>2, <1>9, <1>10, <3>1 DEF IndInv, ProviderWorks
    <3>3. task.verifierId = NoOne
      BY <1>2, <3>1, <3>2 DEF IndInv, NoVerifierYet, Working
    <3>4. a # task.providerId
      BY <1>3, <3>1, <3>3, PrincipalAssumption
    <3> QED BY <1>2, <2>2, <3>2, <3>4
  <2> QED BY <2>1, <2>2
\* The only event that can precede each event of a round.
<1>18. \A i \in 1..n :
         /\ log[i].kind = "verify" => i > 1 /\ log[i - 1].kind = "deliver"
         /\ log[i].kind = "deliver" => i > 1 /\ log[i - 1].kind = "progress"
         /\ log[i].kind = "progress" => i > 1 /\ log[i - 1].kind = "authorize"
         /\ log[i].kind = "authorize" => i > 1 /\ log[i - 1].kind = "award"
         /\ log[i].kind = "award" => i > 1 /\ log[i - 1].kind = "bid"
  <2> TAKE i \in 1..n
  <2> DEFINE before == IF i = 1 THEN "proposed" ELSE StatusFor[log[i - 1].kind]
  <2>1. i > 1 => i - 1 \in 1..n /\ log[i - 1].kind \in Message
    BY <1>2
  <2>2. before \in Status /\ StatusFor[log[i].kind] \in Transitions[before]
    <3>1. StatusFor[log[i].kind] \in Transitions[before]
      BY <1>2 DEF IndInv, LogIsPath
    <3>2. "proposed" \in Status
      BY DEF Status
    <3> QED BY <2>1, <3>1, <3>2, StatusForType
  <2>3. i = 1 => before = "proposed"
    OBVIOUS
  <2>4. i > 1 => before = StatusFor[log[i - 1].kind]
    OBVIOUS
  <2>5. i = 1 \/ i > 1
    OBVIOUS
  <2> HIDE DEF before
  <2>6. /\ log[i].kind = "verify" => before = "delivered"
        /\ log[i].kind = "deliver" => before = "running"
        /\ log[i].kind = "progress" => before = "authorized"
        /\ log[i].kind = "authorize" => before = "awarded"
        /\ log[i].kind = "award" => before = "negotiating"
    BY <2>2, Predecessors DEF StatusFor
  <2> QED BY <2>1, <2>3, <2>4, <2>5, <2>6, StatusForInjective
<1>19. AcceptanceFollowsVerifiedDelivery'
  <2> SUFFICES ASSUME NEW i \in 1..(n + 1), Is(i, "accept")'
               PROVE  /\ Is(i - 1, "verify")' /\ Is(i - 2, "deliver")'
                      /\ log'[i].actor = Requester /\ log'[i - 2].actor # Requester
    BY <1>2 DEF AcceptanceFollowsVerifiedDelivery
  <2>1. CASE i \in 1..n
    <3>1. /\ Is(i - 1, "verify") /\ Is(i - 2, "deliver")
          /\ log[i].actor = Requester /\ log[i - 2].actor # Requester
      BY <1>2, <1>12, <2>1, MessageSet DEF IndInv, AcceptanceFollowsVerifiedDelivery
    <3>2. i - 1 \in 1..n /\ i - 2 \in 1..n
      BY <1>2, <3>1 DEF Is
    <3> QED BY <1>2, <1>12, <2>1, <3>1, <3>2, MessageSet
  <2>2. CASE i = n + 1
    <3>1. m = "accept"
      BY <1>13, <2>2, MessageSet
    <3>2. n > 0 /\ log[n].kind = "verify" /\ log[n - 1].actor = task.providerId
      BY <1>2, <1>9, <1>10, <3>1 DEF IndInv, ProviderWorks
    <3>3. n > 1 /\ log[n - 1].kind = "deliver"
      BY <1>18, <3>2
    <3>4. Is(n, "verify")' /\ Is(n - 1, "deliver")'
      BY <1>2, <3>2, <3>3 DEF Is
    <3> QED BY <1>2, <1>3, <2>2, <3>1, <3>2, <3>3, <3>4
  <2> QED BY <2>1, <2>2
<1>20. DeliveryFollowsAward'
  <2> SUFFICES ASSUME NEW i \in 1..(n + 1), Is(i, "deliver")'
               PROVE  /\ Is(i - 1, "progress")' /\ log'[i - 1].actor = log'[i].actor
                      /\ Is(i - 2, "authorize")' /\ Is(i - 3, "award")' /\ Is(i - 4, "bid")'
    BY <1>2 DEF DeliveryFollowsAward
  <2>1. CASE i \in 1..n
    <3>1. /\ Is(i - 1, "progress") /\ log[i - 1].actor = log[i].actor
          /\ Is(i - 2, "authorize") /\ Is(i - 3, "award") /\ Is(i - 4, "bid")
      BY <1>2, <1>12, <2>1, MessageSet DEF IndInv, DeliveryFollowsAward
    <3>2. i - 1 \in 1..n /\ i - 2 \in 1..n /\ i - 3 \in 1..n /\ i - 4 \in 1..n
      BY <1>2, <3>1 DEF Is
    <3> QED BY <1>2, <1>12, <2>1, <3>1, <3>2, MessageSet
  <2>2. CASE i = n + 1
    <3>1. m = "deliver" /\ a = task.providerId
      BY <1>3, <1>13, <2>2, MessageSet
    <3>2. n > 0 /\ log[n].kind = "progress" /\ log[n].actor = a
      BY <1>2, <1>9, <1>10, <3>1 DEF IndInv, ProviderWorks
    <3>3. n > 1 /\ log[n - 1].kind = "authorize"
      BY <1>18, <3>2
    <3>4. n > 2 /\ log[n - 2].kind = "award"
      BY <1>18, <3>3
    <3>5. n > 3 /\ log[n - 3].kind = "bid"
      BY <1>18, <3>4
    <3>6. Is(n, "progress")' /\ Is(n - 1, "authorize")' /\ Is(n - 2, "award")' /\ Is(n - 3, "bid")'
      BY <1>2, <3>2, <3>3, <3>4, <3>5 DEF Is
    <3> QED BY <1>2, <2>2, <3>2, <3>6
  <2> QED BY <2>1, <2>2
<1> QED BY <1>7, <1>8, <1>11, <1>16, <1>17, <1>19, <1>20 DEF IndInv

LEMMA IndInvStep == ASSUME IndInv, [Next]_vars PROVE IndInv'
<1>1. TypeOK'
  BY TypeOKStep DEF IndInv
<1>2. CASE UNCHANGED <<task, log>>
  BY <1>1, <1>2 DEF IndInv, LogIsPath, LogEndsInStatus, ProviderWorks, NoVerifierYet,
     FirstRoundVerificationIndependent, AcceptanceFollowsVerifiedDelivery,
     DeliveryFollowsAward, Is, InFirstRound
<1> QED BY <1>1, <1>2, StepIsCall, IndInvCall

THEOREM Inductive == Spec => []IndInv
<1>1. Init => IndInv
  <2> SUFFICES ASSUME Init PROVE IndInv
    OBVIOUS
  <2>1. InitialTask \in TaskState /\ <<>> \in Seq(Event)
    <3>1. InitialTask \in TaskState
      BY DEF TaskState, InitialTask, Status
    <3>2. <<>> \in Seq(Event)
      OBVIOUS
    <3> QED BY <3>1, <3>2
  <2>2. /\ TypeOK
        /\ DOMAIN log = {}
        /\ task.status = "proposed" /\ task.verifierId = NoOne /\ log = <<>>
    <3>1. DOMAIN <<>> = {}
      OBVIOUS
    <3>2. TypeOK /\ log = <<>>
      BY <2>1 DEF Init, TypeOK
    <3>3. task.status = "proposed" /\ task.verifierId = NoOne
      BY DEF Init, InitialTask
    <3> QED BY <3>1, <3>2, <3>3
  <2> QED BY <2>2 DEF IndInv, LogIsPath, LogEndsInStatus, ProviderWorks,
        NoVerifierYet, FirstRoundVerificationIndependent,
        AcceptanceFollowsVerifiedDelivery, DeliveryFollowsAward
<1>2. IndInv /\ [Next]_vars => IndInv'
  BY IndInvStep
<1> QED BY <1>1, <1>2, PTL DEF Spec

(***************************************************************************)
(* Before the first revision nobody verifies its own delivery, however     *)
(* many identities there are and whoever bids, is awarded or verifies.     *)
(***************************************************************************)
THEOREM FirstRoundVerification == Spec => []FirstRoundVerificationIndependent
<1>1. IndInv => FirstRoundVerificationIndependent
  BY DEF IndInv
<1> QED BY <1>1, Inductive, PTL

(***************************************************************************)
(* In every round an acceptance is the requester's, of a verified delivery *)
(* by another identity.                                                    *)
(***************************************************************************)
THEOREM VerifiedAcceptance == Spec => []AcceptanceFollowsVerifiedDelivery
<1>1. IndInv => AcceptanceFollowsVerifiedDelivery
  BY DEF IndInv
<1> QED BY <1>1, Inductive, PTL

(***************************************************************************)
(* In every round a delivery ends a bid, award, authorize, progress run    *)
(* and comes from the identity that reported the progress.                 *)
(***************************************************************************)
THEOREM AwardedDelivery == Spec => []DeliveryFollowsAward
<1>1. IndInv => DeliveryFollowsAward
  BY DEF IndInv
<1> QED BY <1>1, Inductive, PTL

(***************************************************************************)
(* The requester always has a message transitionTask accepts from it while *)
(* the envelope is valid, whatever the others have done, except after a    *)
(* revocation: a revocation of its own as long as the task is under way,   *)
(* and a request for a revision once it is over.  A task is never          *)
(* "rejected", which no message asks for.                                  *)
(***************************************************************************)
THEOREM RequesterAlwaysHasAMove == Spec => []RequesterNeverLockedOut
<1>1. IndInv => RequesterNeverLockedOut
  <2> SUFFICES ASSUME IndInv, ~late, task.status # "revoked"
               PROVE  \E m \in Message :
                        MayTransition(task, Context(Requester, NoOne, NoOne), m, late)
    BY DEF RequesterNeverLockedOut
  <2> DEFINE ctx == Context(Requester, NoOne, NoOne)
  <2>1. ctx.actor = Requester
    BY DEF Context
  <2> HIDE DEF ctx
  <2>2. task.status \in Status /\ task.status # "rejected"
    <3>1. task.status \in Status
      BY DEF IndInv, TypeOK, TaskState
    <3>2. CASE log = <<>>
      BY <3>1, <3>2 DEF IndInv, LogEndsInStatus
    <3>3. CASE log # <<>>
      <4>1. log[Len(log)] \in Event
        BY <3>3 DEF IndInv, TypeOK
      <4>2. log[Len(log)].kind \in Message
        BY <4>1 DEF Event
      <4>3. StatusFor[log[Len(log)].kind] # "rejected"
        BY <4>2, MessageSet DEF StatusFor
      <4> QED BY <3>1, <3>3, <4>3 DEF IndInv, LogEndsInStatus
    <3> QED BY <3>2, <3>3
  <2>3. CASE task.status \in {"accepted", "failed"}
    <3> DEFINE m == "revision_requested"
    <3>1. /\ m \in Message /\ StatusFor[m] \in Transitions[task.status]
          /\ StatusFor[m] \notin {"awarded", "verifying", "accepted"}
          /\ StatusFor[m] \in RequestersAllowed
      BY <2>3, MessageSet DEF StatusFor, Transitions, RequestersAllowed
    <3> HIDE DEF m
    <3>2. ActorAllowed(task, ctx, StatusFor[m])
      BY <2>1, <3>1 DEF ActorAllowed
    <3>3. MayTransition(task, ctx, m, late)
      BY <3>1, <3>2, Zenon DEF MayTransition
    <3> QED BY <3>1, <3>3 DEF ctx
  <2>4. CASE task.status \notin {"accepted", "failed"}
    <3> DEFINE m == "revoke"
    <3>1. /\ m \in Message /\ StatusFor[m] \in Transitions[task.status]
          /\ StatusFor[m] \notin {"awarded", "verifying", "accepted"}
          /\ StatusFor[m] \in RequestersAllowed
      BY <2>2, <2>4, MessageSet DEF StatusFor, Transitions, RequestersAllowed, Status
    <3> HIDE DEF m
    <3>2. ActorAllowed(task, ctx, StatusFor[m])
      BY <2>1, <3>1 DEF ActorAllowed
    <3>3. MayTransition(task, ctx, m, late)
      BY <3>1, <3>2, Zenon DEF MayTransition
    <3> QED BY <3>1, <3>3 DEF ctx
  <2> QED BY <2>3, <2>4
<1> QED BY <1>1, Inductive, PTL

-----------------------------------------------------------------------------
(***************************************************************************)
(* replayTask, unfolded: the replay of a log is a recursive function of    *)
(* its length.  What is said of it here goes by induction on the length,   *)
(* stated as the set of the numbers for which a fact holds.                *)
(***************************************************************************)

\* A set of naturals with 0 and the successor of each of its elements has
\* them all.
LEMMA SetInduction ==
    ASSUME NEW T, T \subseteq Nat, 0 \in T, \A n \in T : n + 1 \in T
    PROVE  T = Nat
<1> DEFINE R == {p \in Nat \X Nat : p[1] < p[2]}
           Bad == Nat \ T
<1>1. IsWellFoundedOn(R, Nat)
  BY NatLessThanWellFounded DEF OpToRel
<1>2. \A i, j \in Nat : i < j => <<i, j>> \in R
  OBVIOUS
<1> HIDE DEF R
<1>3. SUFFICES ASSUME Bad # {} PROVE FALSE
  OBVIOUS
<1>4. PICK m \in Bad : \A y \in Bad : <<y, m>> \notin R
  BY <1>1, <1>3, WFMin
<1>5. m # 0 /\ m \in Nat /\ m - 1 \in Nat /\ m - 1 < m
  BY <1>4
<1>6. m - 1 \in T
  BY <1>4, <1>5, <1>2
<1> QED BY <1>4, <1>5, <1>6

\* What the replay makes of a state and the next event.
Replayed(state, e) ==
    IF MayTransition(state, ReplayContext(state, e), e.kind, FALSE)
      THEN AfterTransition(state, ReplayContext(state, e), e.kind)
      ELSE Unreplayable

\* The states of the replay of the first k events.
UpTo(events, k) ==
    CHOOSE f : f = [n \in 0..k |-> IF n = 0 THEN InitialTask
                                   ELSE Replayed(f[n - 1], events[n])]

\* There are such states for every length.
LEMMA UpToExists ==
    ASSUME NEW events, NEW k \in Nat
    PROVE  UpTo(events, k) =
             [n \in 0..k |-> IF n = 0 THEN InitialTask
                             ELSE Replayed(UpTo(events, k)[n - 1], events[n])]
<1> DEFINE Good(f, m) ==
             f = [n \in 0..m |-> IF n = 0 THEN InitialTask
                                 ELSE Replayed(f[n - 1], events[n])]
           T == {m \in Nat : \E f : Good(f, m)}
<1>1. 0 \in T
  <2> DEFINE f == [n \in 0..0 |-> InitialTask]
  <2>1. Good(f, 0)
    OBVIOUS
  <2> QED BY <2>1
<1>2. ASSUME NEW m \in T PROVE m + 1 \in T
  <2>1. PICK f : Good(f, m)
    OBVIOUS
  <2> DEFINE g == [n \in 0..(m + 1) |-> IF n <= m THEN f[n]
                                        ELSE Replayed(f[m], events[m + 1])]
  <2>2. \A n \in 0..m : f[n] = IF n = 0 THEN InitialTask
                               ELSE Replayed(f[n - 1], events[n])
    BY <2>1, Zenon
  <2>3. \A n \in 0..m : g[n] = f[n]
    OBVIOUS
  <2>4. g[m + 1] = Replayed(f[m], events[m + 1])
    OBVIOUS
  <2>5. DOMAIN g = 0..(m + 1) /\ g = [n \in 0..(m + 1) |-> g[n]]
    OBVIOUS
  <2> HIDE DEF g
  <2>6. \A n \in 0..(m + 1) : g[n] = IF n = 0 THEN InitialTask
                                     ELSE Replayed(g[n - 1], events[n])
    <3> TAKE n \in 0..(m + 1)
    <3>1. CASE n = m + 1
      <4>1. n # 0 /\ n - 1 = m /\ g[m] = f[m]
        BY <3>1, <2>3
      <4> QED BY <4>1, <2>4, <3>1
    <3>2. CASE n = 0
      <4>1. n \in 0..m
        BY <3>2
      <4> QED BY <4>1, <3>2, <2>2, <2>3
    <3>3. CASE n # 0 /\ n # m + 1
      <4>1. n \in 0..m /\ n - 1 \in 0..m
        BY <3>3
      <4> QED BY <4>1, <3>3, <2>2, <2>3
    <3> QED BY <3>1, <3>2, <3>3
  <2>7. Good(g, m + 1)
    BY <2>5, <2>6, Zenon
  <2> QED BY <2>7
<1>3. T = Nat
  <2> HIDE DEF T
  <2>1. T \subseteq Nat
    BY DEF T
  <2> QED BY <1>1, <1>2, <2>1, SetInduction
<1>4. \E f : Good(f, k)
  BY <1>3
<1> QED BY <1>4, Zenon DEF UpTo

\* Each state of the replay, from the one before it.
LEMMA UpToStep ==
    ASSUME NEW events, NEW k \in Nat
    PROVE  /\ UpTo(events, k)[0] = InitialTask
           /\ \A n \in 1..k :
                UpTo(events, k)[n] = Replayed(UpTo(events, k)[n - 1], events[n])
<1> DEFINE f == UpTo(events, k)
<1>1. f = [n \in 0..k |-> IF n = 0 THEN InitialTask ELSE Replayed(f[n - 1], events[n])]
  BY UpToExists
<1> HIDE DEF f
<1>2. \A n \in 0..k : f[n] = IF n = 0 THEN InitialTask ELSE Replayed(f[n - 1], events[n])
  BY <1>1, Zenon
<1>3. f[0] = InitialTask
  BY <1>2
<1>4. ASSUME NEW n \in 1..k PROVE f[n] = Replayed(f[n - 1], events[n])
  <2>1. n # 0 /\ n \in 0..k
    OBVIOUS
  <2> QED BY <2>1, <1>2
<1> QED BY <1>3, <1>4 DEF f

\* Nothing replays to the initial task, and one more event takes the replay
\* one step further.
LEMMA ReplayOfAppend ==
    /\ ReplayTask(<<>>) = InitialTask
    /\ \A events \in Seq(Event), e \in Event :
         ReplayTask(Append(events, e)) = Replayed(ReplayTask(events), e)
<1>1. \A events : ReplayTask(events) = UpTo(events, Len(events))[Len(events)]
  BY Zenon DEF ReplayTask, UpTo, Replayed
<1>2. ReplayTask(<<>>) = InitialTask
  <2>1. Len(<<>>) = 0
    OBVIOUS
  <2> QED BY <1>1, <2>1, UpToStep
<1>3. ASSUME NEW events \in Seq(Event), NEW e \in Event
      PROVE  ReplayTask(Append(events, e)) = Replayed(ReplayTask(events), e)
  <2> DEFINE k == Len(events)
             s == Append(events, e)
             T == {n \in Nat : n <= k => UpTo(s, k + 1)[n] = UpTo(events, k)[n]}
  <2>1. /\ k \in Nat /\ Len(s) = k + 1 /\ s[k + 1] = e
        /\ \A i \in 1..k : s[i] = events[i]
    OBVIOUS
  <2> HIDE DEF s, k
  <2>2. /\ UpTo(s, k + 1)[0] = InitialTask
        /\ \A n \in 1..(k + 1) : UpTo(s, k + 1)[n] = Replayed(UpTo(s, k + 1)[n - 1], s[n])
    BY <2>1, UpToStep
  <2>3. /\ UpTo(events, k)[0] = InitialTask
        /\ \A n \in 1..k : UpTo(events, k)[n] = Replayed(UpTo(events, k)[n - 1], events[n])
    BY <2>1, UpToStep
  <2>4. 0 \in T
    BY <2>2, <2>3
  <2>5. ASSUME NEW n \in T PROVE n + 1 \in T
    <3>1. SUFFICES ASSUME n + 1 <= k
                   PROVE  UpTo(s, k + 1)[n + 1] = UpTo(events, k)[n + 1]
      OBVIOUS
    <3>2. n \in Nat /\ UpTo(s, k + 1)[n] = UpTo(events, k)[n]
      BY <2>1, <3>1
    <3>3. n + 1 \in 1..k /\ n + 1 \in 1..(k + 1) /\ (n + 1) - 1 = n
      BY <2>1, <3>1, <3>2
    <3> QED BY <2>1, <2>2, <2>3, <3>2, <3>3
  <2>6. T = Nat
    <3> HIDE DEF T
    <3>1. T \subseteq Nat
      BY DEF T
    <3> QED BY <2>4, <2>5, <3>1, SetInduction
  <2>7. UpTo(s, k + 1)[k] = UpTo(events, k)[k]
    BY <2>1, <2>6
  <2>8. k + 1 \in 1..(k + 1) /\ (k + 1) - 1 = k
    BY <2>1
  <2>9. UpTo(s, k + 1)[k + 1] = Replayed(UpTo(events, k)[k], e)
    BY <2>1, <2>2, <2>7, <2>8
  <2> QED BY <1>1, <2>1, <2>9 DEF s, k
<1> QED BY <1>2, <1>3

-----------------------------------------------------------------------------
(***************************************************************************)
(* The replay of the first round.  ReplayInv adds to the property what the *)
(* award needs: a negotiation of the first round has seen one event, the   *)
(* bid that made its sender the provider, so that an award that leaves the *)
(* provider the first bidder changes nothing the events do not tell.       *)
(***************************************************************************)
BidIsNamed ==
    InFirstRound(Len(log)) /\ task.status = "negotiating" =>
        /\ Len(log) = 1 /\ log[1].kind = "bid"
        /\ log[1].actor # Requester => task.providerId = log[1].actor

ReplayInv ==
    /\ log = <<>> => task = InitialTask
    /\ BidIsNamed
    /\ ReplayRebuildsFirstRound

\* The event a call of transitionTask appends.
LEMMA CallEvent ==
    ASSUME NEW a \in Principal, NEW m \in Message
    PROVE  /\ [kind |-> m, actor |-> a] \in Event
           /\ [kind |-> m, actor |-> a].kind = m
           /\ [kind |-> m, actor |-> a].actor = a
BY DEF Event

\* The state a call leaves, identity by identity: a bid makes its sender the
\* provider unless it is the requester's, only a verification names a
\* verifier.
LEMMA CallIdentities ==
    ASSUME NEW a \in Principal, NEW p \in Principal \cup {NoOne}, NEW m \in Message,
           m \notin {"bid", "award"} => p = NoOne, m = "bid" => p \in {NoOne, a},
           Call(a, p, m)
    PROVE  /\ task'.verifierId = IF m = "verify" THEN a ELSE task.verifierId
           /\ m \notin {"bid", "award"} => task'.providerId = task.providerId
           /\ m = "bid" /\ a # Requester /\ task.providerId = NoOne => task'.providerId = a
           /\ task' = [status |-> StatusFor[m], providerId |-> task'.providerId,
                       verifierId |-> task'.verifierId]
<1> DEFINE ctx == Context(a, p, IF m = "verify" THEN a ELSE NoOne)
<1>1. /\ ctx.actor = a /\ ctx.providerId = p
      /\ ctx.verifierId = IF m = "verify" THEN a ELSE NoOne
  BY DEF Context
<1>2. task' = AfterTransition(task, ctx, m)
  BY DEF Call
<1> HIDE DEF ctx
<1>3. task'.verifierId = IF m = "verify" THEN a ELSE task.verifierId
  BY <1>1, <1>2, PrincipalAssumption DEF AfterTransition, OrElse
<1>4. m \notin {"bid", "award"} => task'.providerId = task.providerId
  <2> SUFFICES ASSUME m \notin {"bid", "award"} PROVE task'.providerId = task.providerId
    OBVIOUS
  <2>1. ctx.providerId = NoOne /\ StatusFor[m] # "negotiating"
    BY <1>1, StatusForInjective
  <2> QED BY <1>2, <2>1 DEF AfterTransition, OrElse
<1>5. m = "bid" /\ a # Requester /\ task.providerId = NoOne => task'.providerId = a
  <2>1. m = "bid" => StatusFor[m] = "negotiating"
    BY DEF StatusFor
  <2> QED BY <1>1, <1>2, <2>1, PrincipalAssumption DEF AfterTransition, OrElse
<1>6. task' = [status |-> StatusFor[m], providerId |-> task'.providerId,
               verifierId |-> task'.verifierId]
  BY <1>2 DEF AfterTransition
<1> QED BY <1>3, <1>4, <1>5, <1>6

\* What a call of the first round finds: only the first event is a bid, an
\* award follows it at once, and no verifier is recorded before the
\* verification.
LEMMA FirstRoundCall ==
    ASSUME IndInv, ReplayInv, NEW a \in Principal, NEW p \in Principal \cup {NoOne},
           NEW m \in Message, m \notin {"bid", "award"} => p = NoOne,
           Call(a, p, m), InFirstRound(Len(log))'
    PROVE  /\ InFirstRound(Len(log))
           /\ m = "bid" => Len(log) = 0
           /\ m = "award" => /\ Len(log) = 1 /\ log[1].kind = "bid"
                             /\ log[1].actor # Requester => task.providerId = log[1].actor
           /\ m = "verify" => task.verifierId = NoOne
<1>0. TypeOK
  BY DEF IndInv
<1>1. /\ Len(log) \in Nat /\ DOMAIN log = 1..Len(log)
      /\ Len(log') = Len(log) + 1 /\ DOMAIN log' = 1..(Len(log) + 1)
      /\ \A i \in 1..Len(log) : log'[i] = log[i]
      /\ \A i \in 1..Len(log) : log[i].kind \in Message
  BY <1>0, LogGrows
<1>2. StatusFor[m] \in Transitions[task.status] /\ task.status \in Status
  BY <1>0, CallFacts DEF TypeOK, TaskState
<1>3. InFirstRound(Len(log))
  BY <1>1 DEF InFirstRound, Is
<1>4. task.status = IF Len(log) = 0 THEN "proposed" ELSE StatusFor[log[Len(log)].kind]
  BY <1>0, <1>1 DEF IndInv, LogEndsInStatus, TypeOK
<1>5. m = "bid" => Len(log) = 0
  <2> SUFFICES ASSUME m = "bid", Len(log) # 0 PROVE FALSE
    BY <1>1
  <2> DEFINE n == Len(log)
             k == log[n].kind
  <2>1. n \in 1..n /\ n \in DOMAIN log /\ k \in Message
    BY <1>1
  <2>2. k # "revision_requested"
    BY <1>3, <2>1 DEF InFirstRound, Is
  <2>3. StatusFor[k] \in {"proposed", "revision_requested"}
    BY <1>2, <1>4, Predecessors DEF StatusFor
  <2>4. StatusFor[k] = "proposed"
    BY <2>1, <2>2, <2>3, StatusForInjective
  <2>5. StatusFor[k] \in
          Transitions[IF n = 1 THEN "proposed" ELSE StatusFor[log[n - 1].kind]]
    BY <2>1 DEF IndInv, LogIsPath
  <2>6. n = 1 \/ log[n - 1].kind \in Message
    BY <1>1, <2>1
  <2>7. \E s \in Status : "proposed" \in Transitions[s]
    BY <2>4, <2>5, <2>6, StatusForType DEF Status
  <2> QED BY <2>7 DEF Transitions, Status
<1>6. m = "award" => task.status = "negotiating"
  BY <1>2, Predecessors DEF StatusFor
<1>7. m = "award" => /\ Len(log) = 1 /\ log[1].kind = "bid"
                     /\ log[1].actor # Requester => task.providerId = log[1].actor
  BY <1>3, <1>6 DEF ReplayInv, BidIsNamed
<1>8. m = "verify" => task.status = "delivered"
  BY <1>2, Predecessors DEF StatusFor
<1>9. m = "verify" => task.verifierId = NoOne
  BY <1>3, <1>8 DEF IndInv, NoVerifierYet, Working
<1> QED BY <1>3, <1>5, <1>7, <1>9

\* The replay takes the step transitionTask took, from the same state: it is
\* allowed the same move, and it infers the same identities.
LEMMA ReplayedCall ==
    ASSUME NEW a \in Principal, NEW p \in Principal \cup {NoOne}, NEW m \in Message,
           m \notin {"bid", "award"} => p = NoOne, m = "bid" => p \in {NoOne, a},
           Call(a, p, m),
           m = "bid" => task.providerId = NoOne /\ task'.providerId = a,
           m = "award" => task.providerId # NoOne /\ task'.providerId = task.providerId,
           m = "verify" => task.verifierId = NoOne
    PROVE  Replayed(task, [kind |-> m, actor |-> a]) = task'
<1> DEFINE e == [kind |-> m, actor |-> a]
           ctx == Context(a, p, IF m = "verify" THEN a ELSE NoOne)
           rctx == ReplayContext(task, e)
           next == StatusFor[m]
<1>1. e.kind = m /\ e.actor = a
  OBVIOUS
<1>2. /\ ctx.actor = a /\ ctx.providerId = p
      /\ ctx.verifierId = IF m = "verify" THEN a ELSE NoOne
  BY DEF Context
<1> HIDE DEF e
<1>3. /\ rctx.actor = a
      /\ rctx.providerId = OrElse(task.providerId, IF m = "bid" THEN a ELSE NoOne)
      /\ rctx.verifierId = OrElse(task.verifierId, IF m = "verify" THEN a ELSE NoOne)
  BY <1>1 DEF ReplayContext, Context
<1>4. MayTransition(task, ctx, m, late) /\ task' = AfterTransition(task, ctx, m)
  BY DEF Call
<1> HIDE DEF ctx, rctx
<1>5. /\ next \in Transitions[task.status]
      /\ ActorAllowed(task, ctx, next)
      /\ next = "accepted" => task.verifierId # NoOne /\ task.providerId # a
  BY <1>2, <1>4 DEF MayTransition
<1>6. /\ next = "awarded" => m = "award"
      /\ next = "verifying" => m = "verify"
      /\ next = "negotiating" <=> m = "bid"
  BY StatusForInjective DEF StatusFor
<1>7. next = "verifying" => rctx.verifierId = a
  BY <1>3, <1>6 DEF OrElse
<1>8. ActorAllowed(task, rctx, next)
  BY <1>2, <1>3, <1>5, <1>7 DEF ActorAllowed
<1>9. next = "awarded" => OrElse(rctx.providerId, task.providerId) # NoOne
  BY <1>3, <1>6 DEF OrElse
<1>10. next = "verifying" => rctx.verifierId # NoOne
  BY <1>7, PrincipalAssumption
<1>11. MayTransition(task, rctx, m, FALSE)
  <2> HIDE DEF next
  <2> QED BY <1>3, <1>5, <1>8, <1>9, <1>10, Zenon DEF MayTransition, next
<1>12. Replayed(task, e) = AfterTransition(task, rctx, m)
  BY <1>1, <1>11, Zenon DEF Replayed, rctx
<1>13. /\ task'.verifierId = IF m = "verify" THEN a ELSE task.verifierId
       /\ m \notin {"bid", "award"} => task'.providerId = task.providerId
       /\ task' = [status |-> next, providerId |-> task'.providerId,
                   verifierId |-> task'.verifierId]
  BY CallIdentities
<1>14. OrElse(rctx.verifierId, task.verifierId) = task'.verifierId
  BY <1>3, <1>13, PrincipalAssumption DEF OrElse
<1> DEFINE bidder == IF next = "negotiating" /\ rctx.actor # Requester
                       THEN rctx.actor ELSE NoOne
<1>15. OrElse(rctx.providerId, OrElse(task.providerId, bidder)) = task'.providerId
  <2>1. CASE m = "bid"
    BY <1>3, <2>1, PrincipalAssumption DEF OrElse
  <2>2. CASE m # "bid"
    <3>1. bidder = NoOne /\ task'.providerId = task.providerId
      BY <1>6, <1>13, <2>2
    <3> HIDE DEF bidder
    <3>2. rctx.providerId = task.providerId
      BY <1>3, <2>2 DEF OrElse
    <3> QED BY <3>1, <3>2 DEF OrElse
  <2> QED BY <2>1, <2>2
<1>16. AfterTransition(task, rctx, m) =
         [status |-> next,
          providerId |-> OrElse(rctx.providerId, OrElse(task.providerId, bidder)),
          verifierId |-> OrElse(rctx.verifierId, task.verifierId)]
  BY DEF AfterTransition
<1> HIDE DEF next, bidder
<1>17. AfterTransition(task, rctx, m) = task'
  BY <1>13, <1>14, <1>15, <1>16
<1> QED BY <1>12, <1>17 DEF e

LEMMA ReplayInvCall ==
    ASSUME IndInv, ReplayInv, NEW a \in Principal, NEW p \in Principal \cup {NoOne},
           NEW m \in Message, m \notin {"bid", "award"} => p = NoOne,
           m = "bid" => p \in {NoOne, a}, Call(a, p, m)
    PROVE  ReplayInv'
<1>0. TypeOK
  BY DEF IndInv
<1>1. /\ Len(log) \in Nat /\ DOMAIN log = 1..Len(log)
      /\ Len(log') = Len(log) + 1 /\ DOMAIN log' = 1..(Len(log) + 1)
      /\ \A i \in 1..Len(log) : log'[i] = log[i]
      /\ log'[Len(log) + 1] = [kind |-> m, actor |-> a]
  BY <1>0, LogGrows
<1> DEFINE e == [kind |-> m, actor |-> a]
<1>2. e \in Event /\ e.kind = m /\ e.actor = a
  BY CallEvent
<1> HIDE DEF e
<1>3. log \in Seq(Event) /\ log' = Append(log, e)
  BY <1>0 DEF TypeOK, Call, e
<1>4. log' # <<>>
  BY <1>1
<1>5. /\ task'.status = StatusFor[m]
      /\ task'.verifierId = IF m = "verify" THEN a ELSE task.verifierId
      /\ m \notin {"bid", "award"} => task'.providerId = task.providerId
      /\ m = "bid" /\ a # Requester /\ task.providerId = NoOne => task'.providerId = a
  BY <1>0, CallFacts, CallIdentities
<1>6. Len(log) = 0 => task = InitialTask /\ log = <<>>
  BY <1>0 DEF ReplayInv, TypeOK
<1>7. Len(log) = 0 => task.providerId = NoOne
  BY <1>6 DEF InitialTask
<1>8. SUFFICES ASSUME InFirstRound(Len(log))'
               PROVE  /\ task'.status = "negotiating" =>
                           /\ Len(log') = 1 /\ log'[1].kind = "bid"
                           /\ log'[1].actor # Requester => task'.providerId = log'[1].actor
                      /\ BidderIsProvider' => ReplayTask(log') = task'
  BY <1>4 DEF ReplayInv, BidIsNamed, ReplayRebuildsFirstRound
<1>9. /\ InFirstRound(Len(log))
      /\ m = "bid" => Len(log) = 0
      /\ m = "award" => /\ Len(log) = 1 /\ log[1].kind = "bid"
                        /\ log[1].actor # Requester => task.providerId = log[1].actor
      /\ m = "verify" => task.verifierId = NoOne
  BY <1>8, FirstRoundCall
<1>10. ASSUME task'.status = "negotiating"
       PROVE  /\ Len(log') = 1 /\ log'[1].kind = "bid"
              /\ log'[1].actor # Requester => task'.providerId = log'[1].actor
  <2>1. m = "bid"
    BY <1>5, <1>10, StatusForInjective
  <2>2. Len(log) = 0 /\ log'[1] = e
    BY <1>1, <1>9, <2>1 DEF e
  <2> QED BY <1>1, <1>2, <1>5, <1>7, <2>1, <2>2
<1>11. ASSUME BidderIsProvider' PROVE ReplayTask(log') = task'
  <2>1. Is(1, "bid")' => /\ log'[1].actor = task'.providerId
                         /\ log'[1].actor # Requester
                         /\ \A n \in DOMAIN log' : Is(n, "progress")' =>
                               log'[n].actor = log'[1].actor
    BY <1>11 DEF BidderIsProvider
  <2>2. m = "award" => /\ task'.providerId = task.providerId
                       /\ task.providerId = log[1].actor
                       /\ task.providerId # NoOne
    <3> SUFFICES ASSUME m = "award"
                 PROVE  /\ task'.providerId = task.providerId
                        /\ task.providerId = log[1].actor
                        /\ task.providerId # NoOne
      OBVIOUS
    <3>1. Is(1, "bid")' /\ log'[1] = log[1]
      BY <1>1, <1>9 DEF Is
    <3>2. log[1] \in Event
      BY <1>3, <1>9
    <3>3. log[1].actor \in Principal
      BY <3>2 DEF Event
    <3> QED BY <1>9, <2>1, <3>1, <3>3, PrincipalAssumption
  <2>3. m = "bid" => task.providerId = NoOne /\ task'.providerId = a
    <3> SUFFICES ASSUME m = "bid"
                 PROVE  task.providerId = NoOne /\ task'.providerId = a
      OBVIOUS
    <3>1. Len(log) = 0 /\ log'[1] = e
      BY <1>1, <1>9 DEF e
    <3>2. Is(1, "bid")'
      BY <1>1, <1>2, <3>1 DEF Is
    <3> QED BY <1>2, <1>7, <2>1, <3>1, <3>2
  <2>4. Replayed(task, e) = task'
    BY <1>9, <2>2, <2>3, ReplayedCall DEF e
  <2>5. BidderIsProvider
    <3> SUFFICES ASSUME Is(1, "bid")
                 PROVE  /\ log[1].actor = task.providerId
                        /\ log[1].actor # Requester
                        /\ \A n \in DOMAIN log : Is(n, "progress") =>
                              log[n].actor = log[1].actor
      BY DEF BidderIsProvider
    <3>1. 1 \in 1..Len(log) /\ log'[1] = log[1] /\ Len(log) # 0
      BY <1>1 DEF Is
    <3>2. Is(1, "bid")'
      BY <1>1, <3>1 DEF Is
    <3>3. task'.providerId = task.providerId
      BY <1>5, <1>9, <2>2, <3>1
    <3>4. \A n \in DOMAIN log : Is(n, "progress") => log[n].actor = log[1].actor
      BY <1>1, <2>1, <3>1, <3>2 DEF Is
    <3> QED BY <2>1, <3>1, <3>2, <3>3, <3>4
  <2>6. ReplayTask(log) = task
    BY <1>9, <2>5 DEF ReplayInv, ReplayRebuildsFirstRound
  <2> QED BY <1>2, <1>3, <2>4, <2>6, ReplayOfAppend
<1> QED BY <1>10, <1>11

(***************************************************************************)
(* The event log is the source of truth in the first round: as long as the *)
(* identity that bid first is the provider and has done the work, the      *)
(* replay of the log rebuilds the task, however many identities take part, *)
(* whoever verifies and wherever the task stops.                           *)
(***************************************************************************)
THEOREM ReplayRebuilds == Spec => []ReplayRebuildsFirstRound
<1>1. Init => ReplayInv
  <2> SUFFICES ASSUME Init PROVE ReplayInv
    OBVIOUS
  <2>1. task = InitialTask /\ log = <<>>
    BY DEF Init
  <2>2. task.status # "negotiating"
    BY <2>1 DEF InitialTask
  <2>3. ReplayTask(log) = task
    BY <2>1, ReplayOfAppend
  <2> QED BY <2>1, <2>2, <2>3 DEF ReplayInv, BidIsNamed, ReplayRebuildsFirstRound
<1>2. IndInv /\ ReplayInv /\ [Next]_vars => ReplayInv'
  <2> SUFFICES ASSUME IndInv, ReplayInv, [Next]_vars PROVE ReplayInv'
    OBVIOUS
  <2>1. CASE UNCHANGED <<task, log>>
    BY <2>1 DEF ReplayInv, BidIsNamed, ReplayRebuildsFirstRound, BidderIsProvider,
       InFirstRound, Is
  <2> QED BY <2>1, StepIsCall, ReplayInvCall
<1>3. ReplayInv => ReplayRebuildsFirstRound
  BY DEF ReplayInv
<1> QED BY <1>1, <1>2, <1>3, Inductive, PTL DEF Spec
==============================================================================
