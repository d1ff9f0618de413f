-------------------------- MODULE SideEffectIntent --------------------------
(***************************************************************************)
(* The side-effect intents of collaboration-runtime.ts with the approvals  *)
(* of the coordinator they rest on.  An intent is created with a request   *)
(* for approval, consumed once before the effect, completed or failed      *)
(* after it; a new process restores intents and approvals from the log.    *)
(*                                                                         *)
(* Abstractions.  An intent has one action, the one its request names; the *)
(* fingerprint is right; there is one user, the owner of the runtime.      *)
(***************************************************************************)
EXTENDS Naturals, Sequences

CONSTANTS
    Intent,         \* intent ids
    Task,           \* tasks of the organization
    NoOne,          \* an absent intent or task
    MaxSequence,    \* bound: numbers one process draws from its counter
    MaxEvents,      \* bound: length of the log
    MaxLosses       \* bound: writes and restarts that lose lines of the log

ASSUME IntentAssumption ==
    /\ NoOne \notin Intent \cup Task
    /\ MaxSequence \in Nat /\ MaxEvents \in Nat /\ MaxLosses \in Nat

VARIABLES
    approvals,      \* the coordinator's approval requests, by id
    sequence,       \* the coordinator's counter of ids
    intents,        \* this.sideEffectIntents
    late,           \* the intents whose expiresAt has passed
    spent,          \* history: "none", "consumed" or "forgotten" by the disk
    granted,        \* history: intents the user said yes to
    reused,         \* history: an id was drawn that was in use
    losses,         \* history: how often lines were lost
    events, unwritten, disk     \* the log, see DurableLog

logVars == <<events, unwritten, disk>>
vars == <<approvals, sequence, intents, late, spent, granted, reused,
          losses, events, unwritten, disk>>

Ids == 1..MaxSequence
Verdicts == {"approved", "rejected"}
Settlement == {"consumed", "completed", "failed", "cancelled"}
Status == {"none", "pending", "expired"} \cup Verdicts \cup Settlement

\* Events of the coordinator, with their number, and of the intents; ref is
\* the approvalId.
IntentEvent ==
    [n : Ids, kind : {"requested"} \cup Verdicts, ref : Ids,
     task : Task \cup {NoOne}, intent : {NoOne}]
    \cup
    [n : {0}, kind : {"created"}, ref : Ids, task : Task, intent : Intent]
    \cup
    [n : {0}, kind : Settlement, ref : {0}, task : {NoOne}, intent : Intent]

Log == INSTANCE DurableLog WITH Event <- IntentEvent

TypeOK ==
    /\ approvals \in
         [Ids -> [task : Task \cup {NoOne}, status : {"none", "pending"} \cup Verdicts]]
    /\ sequence \in 0..MaxSequence
    /\ intents \in
         [Intent -> [task : Task \cup {NoOne}, approval : 0..MaxSequence, status : Status]]
    /\ losses \in 0..MaxLosses
    /\ late \subseteq Intent /\ granted \subseteq Intent /\ reused \in BOOLEAN
    /\ spent \in [Intent -> {"none", "consumed", "forgotten"}]
    /\ Log!LogTypeOK

-----------------------------------------------------------------------------
RequestEvent(n, a, t) ==
    [n |-> n, kind |-> "requested", ref |-> a, task |-> t, intent |-> NoOne]
VerdictEvent(n, a, verdict) ==
    [n |-> n, kind |-> verdict, ref |-> a, task |-> NoOne, intent |-> NoOne]
CreatedEvent(i, t, a) ==
    [n |-> 0, kind |-> "created", ref |-> a, task |-> t, intent |-> i]
Settled(i, kind) ==
    [n |-> 0, kind |-> kind, ref |-> 0, task |-> NoOne, intent |-> i]

\* appendEvent drops an event whose id is known.
SameId(e, f) == e.n = f.n /\ (e.n = 0 => e.intent = f.intent /\ e.kind = f.kind)
Known(e) == \E k \in DOMAIN events : SameId(events[k], e)

\* What appendEvent adds to the log for e.
Added(e) == IF Known(e) THEN <<>> ELSE <<e>>

-----------------------------------------------------------------------------
NoApproval == [task |-> NoOne, status |-> "none"]

Latest(S) == CHOOSE k \in S : \A j \in S : j <= k

ApprovalStatus(kind) == IF kind = "requested" THEN "pending" ELSE kind

\* The coordinator's projection of a log: the last request of an id with the
\* last verdict after it.
ApprovalIn(log, a) ==
    LET requests == {k \in DOMAIN log : log[k].kind = "requested" /\ log[k].ref = a}
        verdicts == {k \in DOMAIN log : log[k].kind \in Verdicts /\ log[k].ref = a}
    IN IF requests = {} THEN NoApproval
       ELSE [task   |-> log[Latest(requests)].task,
             status |-> ApprovalStatus(log[Latest(requests \cup verdicts)].kind)]

\* Mutant: the event of a consumption is not restored.
MutantIntentStatus(kind, verdict, expired) ==
    IF kind \in Settlement \ {"consumed"} THEN kind
    ELSE IF verdict \in Verdicts THEN verdict
    ELSE IF expired THEN "expired" ELSE "pending"

\* The last event of an intent decides; a pending intent takes the verdict on
\* its approval or expires.
IntentStatus(kind, verdict, expired) ==
    IF kind # "created" THEN kind
    ELSE IF verdict \in Verdicts THEN verdict
    ELSE IF expired THEN "expired" ELSE "pending"

NoIntent == [task |-> NoOne, approval |-> 0, status |-> "none"]

\* restoreSideEffectIntents.
RestoredIntent(log, aps, expired, i) ==
    LET concerns == {k \in DOMAIN log : log[k].intent = i}
        creations == {k \in concerns : log[k].kind = "created"}
        created == log[Latest(creations)]
    IN IF creations = {} THEN NoIntent
       ELSE [task     |-> created.task,
             approval |-> created.ref,
             status   |-> IntentStatus(log[Latest(concerns)].kind,
                                       aps[created.ref].status, i \in expired)]

Restored(log, aps, expired) ==
    [i \in Intent |-> RestoredIntent(log, aps, expired, i)]

-----------------------------------------------------------------------------
Init ==
    /\ approvals = [a \in Ids |-> NoApproval]
    /\ sequence = 0
    /\ intents = [i \in Intent |-> NoIntent]
    /\ late = {} /\ granted = {} /\ reused = FALSE
    /\ spent = [i \in Intent |-> "none"]
    /\ losses = 0
    /\ Log!LogInit

\* requestApproval and decideApproval of the coordinator: no change when the
\* event id is known.
Asked(a, t) ==
    IF Known(RequestEvent(a + 1, a, t)) THEN approvals
    ELSE [approvals EXCEPT ![a] = [task |-> t, status |-> "pending"]]

Judged(aps, n, a, verdict) ==
    IF Known(VerdictEvent(n, a, verdict)) THEN aps
    ELSE [aps EXCEPT ![a].status = verdict]

\* decideApproval of the runtime: every pending intent with this approval.
Follow(a, verdict) ==
    [i \in Intent |->
       IF intents[i].approval = a /\ intents[i].status = "pending"
         THEN [intents[i] EXCEPT !.status = verdict] ELSE intents[i]]

\* The intents a user has in mind who decides approval a as it is listed.
Meant(a) ==
    {i \in Intent : intents[i].approval = a /\ intents[i].task = approvals[a].task}

\* The next approval id is one that something refers to already.
InUse(a, t) ==
    \/ approvals[a].status # "none" \/ Known(RequestEvent(a + 1, a, t))
    \/ \E i \in Intent : intents[i].approval = a

Fresh(i) ==
    /\ intents[i].status = "none"
    /\ \A k \in DOMAIN events : events[k].intent # i

\* createSideEffectIntent with the approval left open.
Create(i, t) ==
    LET a == sequence + 1 IN
    /\ Fresh(i)
    /\ a + 1 \in Ids /\ sequence' = a + 1
    /\ approvals' = Asked(a, t)
    /\ intents' = [intents EXCEPT ![i] = [task |-> t, approval |-> a, status |-> "pending"]]
    /\ Log!AppendEvents(Added(RequestEvent(a + 1, a, t)) \o <<CreatedEvent(i, t, a)>>)
    /\ late' = late \ {i} /\ granted' = granted \ {i}
    /\ spent' = [spent EXCEPT ![i] = "none"]
    /\ reused' = (reused \/ InUse(a, t))

\* createSideEffectIntent with approvedByUser: request, decide, create.
CreateApproved(i, t) ==
    LET a == sequence + 1
        yes == VerdictEvent(a + 2, a, "approved")
    IN
    /\ Fresh(i)
    /\ a + 2 \in Ids /\ sequence' = a + 2
    /\ Asked(a, t)[a].status = "pending"
    /\ approvals' = Judged(Asked(a, t), a + 2, a, "approved")
    /\ intents' = [Follow(a, "approved") EXCEPT
                     ![i] = [task |-> t, approval |-> a, status |-> "approved"]]
    /\ Log!AppendEvents(Added(RequestEvent(a + 1, a, t)) \o Added(yes)
                          \o <<CreatedEvent(i, t, a)>>)
    /\ late' = late \ {i} /\ granted' = granted \cup {i}
    /\ spent' = [spent EXCEPT ![i] = "none"]
    /\ reused' = (reused \/ InUse(a, t) \/ Known(yes))

\* createSideEffectIntent when decideApproval throws: the approval of this id
\* is not pending.  The request has been made nevertheless.
CreateThrows(t) ==
    LET a == sequence + 1 IN
    /\ a + 1 \in Ids /\ sequence' = a + 1
    /\ Asked(a, t)[a].status # "pending"
    /\ approvals' = Asked(a, t)
    /\ Log!AppendEvents(Added(RequestEvent(a + 1, a, t)))
    /\ reused' = (reused \/ InUse(a, t))
    /\ UNCHANGED <<intents, late, spent, granted>>

\* Mutant: the verdict goes to every pending intent.
MutantDecide(a, verdict) ==
    LET judgement == VerdictEvent(sequence + 1, a, verdict) IN
    /\ approvals[a].status = "pending"
    /\ sequence + 1 \in Ids /\ sequence' = sequence + 1
    /\ approvals' = Judged(approvals, sequence + 1, a, verdict)
    /\ intents' = [i \in Intent |-> IF intents[i].status = "pending"
                     THEN [intents[i] EXCEPT !.status = verdict] ELSE intents[i]]
    /\ Log!AppendEvents(Added(judgement))
    /\ granted' = IF verdict = "approved" THEN granted \cup Meant(a) ELSE granted
    /\ reused' = (reused \/ Known(judgement))
    /\ UNCHANGED <<late, spent>>

\* decideApproval: the user decides the request as it is listed.
Decide(a, verdict) ==
    LET judgement == VerdictEvent(sequence + 1, a, verdict) IN
    /\ approvals[a].status = "pending"
    /\ sequence + 1 \in Ids /\ sequence' = sequence + 1
    /\ approvals' = Judged(approvals, sequence + 1, a, verdict)
    /\ intents' = Follow(a, verdict)
    /\ Log!AppendEvents(Added(judgement))
    /\ granted' = IF verdict = "approved" THEN granted \cup Meant(a) ELSE granted
    /\ reused' = (reused \/ Known(judgement))
    /\ UNCHANGED <<late, spent>>

MayApprove(i) ==
    /\ intents[i].status = "pending"
    /\ approvals[intents[i].approval].status = "approved"

\* approveSideEffectIntent, also what is left of a consumption that throws
\* because another approval of the task is missing.
Approve(i) ==
    /\ MayApprove(i)
    /\ intents' = [intents EXCEPT ![i].status = "approved"]
    /\ UNCHANGED <<approvals, sequence, late, spent, granted, reused, logVars>>

IsApprovalGranted(t) ==
    \E a \in Ids : approvals[a].task = t /\ approvals[a].status = "approved"

Executable(i) ==
    /\ intents[i].status = "approved" \/ MayApprove(i)
    /\ IsApprovalGranted(intents[i].task)

Rest == UNCHANGED <<approvals, sequence, late, granted, reused>>

\* consumeSideEffectIntent.
Consume(i) ==
    /\ i \notin late /\ Executable(i)
    /\ intents' = [intents EXCEPT ![i].status = "consumed"]
    /\ spent' = [spent EXCEPT ![i] = "consumed"]
    /\ Log!AppendEvents(Added(Settled(i, "consumed")))
    /\ Rest

\* consumeSideEffectIntent of an expired intent, whatever its status is.
ConsumeLate(i) ==
    /\ i \in late /\ intents[i].status # "none"
    /\ intents' = [intents EXCEPT ![i].status = "expired"]
    /\ UNCHANGED <<spent, logVars>> /\ Rest

Settle(i, kind) ==
    /\ intents' = [intents EXCEPT ![i].status = kind]
    /\ Log!AppendEvents(Added(Settled(i, kind)))
    /\ UNCHANGED spent /\ Rest

\* Mutant: an effect may be failed after it was completed.
MutantFail(i) ==
    /\ intents[i].status \in {"consumed", "completed"}
    /\ Settle(i, "failed")

\* completeSideEffectIntent, failSideEffectIntent and cancelSideEffectIntent.
Complete(i) == intents[i].status = "consumed" /\ Settle(i, "completed")
Fail(i) == intents[i].status = "consumed" /\ Settle(i, "failed")
Cancel(i) ==
    /\ intents[i].status \notin {"none", "consumed", "completed", "failed"}
    /\ Settle(i, "cancelled")

\* expiresAt passes.
Expire(i) ==
    /\ intents[i].status # "none"
    /\ late' = late \cup {i}
    /\ UNCHANGED <<approvals, sequence, intents, spent, granted, reused, logVars>>

\* Of the disk the first keep lines are remembered and of the unwritten lines
\* those from lo to hi; the rest is lost.
Lose(keep, lo, hi) ==
    /\ losses' = IF keep = Len(disk) /\ lo = 1 /\ hi = Len(unwritten)
                   THEN losses ELSE losses + 1
    /\ losses' <= MaxLosses

\* A flush takes the whole queue: what is appended while it runs changes
\* nothing of its outcome.
WriteLog ==
    /\ unwritten # <<>>
    /\ \E keep \in 0..Len(disk), lo \in 1..2 :
         /\ Log!Meets(keep, lo)
         /\ \E hi \in (lo - 1)..Len(unwritten) :
              Lose(keep, lo, hi) /\ Log!Write(Len(unwritten), keep, lo, hi)
    /\ UNCHANGED <<approvals, sequence, intents, late, spent, granted, reused>>

In(e, log) == \E k \in DOMAIN log : log[k] = e

\* The process stops; a new one restores everything from the disk.
Restart ==
    /\ \E keep \in 0..Len(disk), lo \in 1..2 :
         /\ Log!Meets(keep, lo)
         /\ \E hi \in (lo - 1)..Len(unwritten) :
              Lose(keep, lo, hi) /\ Log!Restart(keep, lo, hi)
    /\ approvals' = [a \in Ids |-> ApprovalIn(disk', a)]
    /\ intents' = Restored(disk', approvals', late)
    /\ sequence' = 0
    /\ spent' = [i \in Intent |->
         IF spent[i] = "consumed" /\ ~In(Settled(i, "consumed"), disk')
           THEN "forgotten" ELSE spent[i]]
    /\ UNCHANGED <<late, granted, reused>>

Creation(i, t) == Create(i, t) \/ CreateApproved(i, t)

OtherOperation ==
    \/ \E i \in Intent :
         \/ Approve(i) \/ Consume(i) \/ ConsumeLate(i)
         \/ Complete(i) \/ Fail(i) \/ Cancel(i) \/ Expire(i)
    \/ \E t \in Task : CreateThrows(t)
    \/ \E a \in Ids, verdict \in Verdicts : Decide(a, verdict)

Operation == OtherOperation \/ \E i \in Intent, t \in Task : Creation(i, t)

Next ==
    \/ Len(events) < MaxEvents /\ Operation /\ UNCHANGED losses
    \/ WriteLog
    \/ Restart

Spec == Init /\ [][Next]_vars

-----------------------------------------------------------------------------
(***************************************************************************)
(* An intent is consumed once, over any number of restarts, not counting a *)
(* consumption whose event never reached the disk of the next process.     *)
(***************************************************************************)
ConsumedOnce == [][\A i \in Intent : Consume(i) => spent[i] # "consumed"]_vars

(***************************************************************************)
(* A consumption uses a yes of the user to this very intent, as long as no *)
(* id was drawn a second time.                                             *)
(***************************************************************************)
ConsumedWhenGranted ==
    [][\A i \in Intent : Consume(i) /\ ~reused => i \in granted]_vars

(***************************************************************************)
(* A restart with a fully written log changes the standing of no intent.   *)
(* Excepted are an expired one, whose expiry is not logged, and, once an   *)
(* id was drawn twice, verdicts that have not been acted on.               *)
(***************************************************************************)
RestoreIsExact ==
    \A i \in Intent :
      intents[i].status # "expired" /\ (reused => intents[i].status \in Settlement)
        => Restored(events, approvals, {})[i] = intents[i]

(***************************************************************************)
(* The log tells of one outcome of an effect, not of success and failure,  *)
(* and of none before it tells of the consumption, or that line is lost.   *)
(***************************************************************************)
OneOutcome ==
    \A k \in DOMAIN events :
      events[k].kind \in {"completed", "failed"} =>
        \A j \in DOMAIN events :
          events[j].intent = events[k].intent /\ events[j].kind \in Settlement \ {"cancelled"} =>
            IF events[j].kind = "consumed" THEN j < k ELSE j = k
=============================================================================
