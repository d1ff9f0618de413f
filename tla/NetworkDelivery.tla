-------------------------- MODULE NetworkDelivery --------------------------
(***************************************************************************)
(* networkAwardBid and retryPendingNetworkDeliveries of                    *)
(* collaboration-runtime.ts over the RelayOutbox: the requester consumes   *)
(* the intent of an awarded task, sends the task to the provider until the *)
(* relay acknowledges it or the envelope expires, and then settles intent  *)
(* and delivery.  On the other side executeNetworkEnvelope lets the        *)
(* provider work and a verifier judge the result.                          *)
(*                                                                         *)
(* Abstractions.  Every task has an awarded bid and a contract.  Of an     *)
(* intent only the status is kept, and its approval stays granted.  Every  *)
(* change of an intent or a delivery is a line of the log, and any of them *)
(* may be lost (EventLog says how); the lines that brought the task, its   *)
(* intent and its contract are not, nor is what the provider has logged.   *)
(***************************************************************************)
EXTENDS RelayOutbox

CONSTANTS
    MaxSaves        \* bound: saves waiting

VARIABLES
    calls,          \* the calls under way, and what each read before it waited
    intent,         \* status of the intent of each task, or "none"
    delivery,       \* deliveries of the network coordinator
    disk,           \* intents and deliveries as a restart would read them
    late,           \* tasks whose intent has expired
    verdict,        \* the verifier's verdict in the provider's log
    forgotten,      \* history: tasks whose consumption a crash has forgotten
    torn            \* history: delivered tasks whose intent lost its last line

runtimeVars == <<calls, intent, delivery, disk, late, verdict, forgotten, torn>>
deliveryVars == <<outboxVars, runtimeVars>>

IntentStatus == {"none", "approved", "consumed", "completed", "failed", "cancelled", "expired"}
DeliveryStatus == {"none", "pending_delivery", "delivered", "failed"}

\* The statuses of an intent that has been used, or that was not needed.
Used == {"none", "consumed", "completed", "failed"}

\* What a log may tell; it does not tell the expiry of an intent.
File == [intent : [Task -> IntentStatus \ {"expired"}], delivery : [Task -> DeliveryStatus]]

DeliveryTypeOK ==
    /\ OutboxTypeOK
    /\ calls \in [Call -> [busy : BOOLEAN, had : DeliveryStatus]]
    /\ intent \in [Task -> IntentStatus]
    /\ delivery \in [Task -> DeliveryStatus]
    /\ disk \in File
    /\ late \subseteq Task /\ forgotten \subseteq Task /\ torn \subseteq Task
    /\ verdict \in [Task -> {"none", "accepted", "rejected"}]

NotCalled == [busy |-> FALSE, had |-> "none"]

DeliveryInit ==
    /\ OutboxInit
    /\ calls = [c \in Call |-> NotCalled]
    /\ intent \in [Task -> {"none", "approved"}]
    /\ delivery = [t \in Task |-> "none"]
    /\ disk = [intent |-> intent, delivery |-> delivery]
    /\ late = {} /\ forgotten = {} /\ torn = {}
    /\ verdict = [t \in Task |-> "none"]

-----------------------------------------------------------------------------
\* pending(...) of a call that read the status had: a record like the last is
\* not repeated, and whether it is like depends on its reason.
Pending(t, had) ==
    \/ delivery' = [delivery EXCEPT ![t] = "pending_delivery"]
    \/ had = "pending_delivery" /\ UNCHANGED delivery

\* networkAwardBid of a delivered task only settles its intent.
AwardDelivered(c, t) ==
    /\ ~calls[c].busy /\ delivery[t] = "delivered"
    /\ intent' = [intent EXCEPT ![t] =
                    IF @ = "approved" /\ t \in late THEN "expired"
                    ELSE IF @ \in {"approved", "consumed"} THEN "completed" ELSE @]
    /\ torn' = torn \ {t}
    /\ UNCHANGED <<outboxVars, calls, delivery, disk, late, verdict, forgotten>>

\* Trust, capability, relay, grant or intent are not what they should be.
AwardUnavailable(c, t) ==
    /\ ~calls[c].busy /\ delivery[t] # "delivered"
    /\ Pending(t, delivery[t])
    /\ UNCHANGED <<outboxVars, calls, intent, disk, late, verdict, forgotten, torn>>

\* consumeSideEffectIntent throws.
AwardLate(c, t) ==
    /\ ~calls[c].busy /\ delivery[t] # "delivered"
    /\ intent[t] = "approved" /\ t \in late
    /\ intent' = [intent EXCEPT ![t] = "expired"]
    /\ UNCHANGED <<outboxVars, calls, delivery, disk, late, verdict, forgotten, torn>>

\* Mutant: the intent is left for the acknowledgement.
MutantAward(c, t) ==
    /\ ~calls[c].busy /\ delivery[t] # "delivered"
    /\ intent[t] \in {"none", "approved", "consumed"}
    /\ calls' = [calls EXCEPT ![c] = [busy |-> TRUE, had |-> delivery[t]]]
    /\ Send(c, t)
    /\ UNCHANGED <<intent, delivery, disk, late, verdict, forgotten, torn>>

\* networkAwardBid up to its await of the outbox.
Award(c, t) ==
    /\ ~calls[c].busy /\ delivery[t] # "delivered"
    /\ \/ intent[t] \in {"none", "consumed"} /\ UNCHANGED intent
       \/ /\ intent[t] = "approved" /\ t \notin late
          /\ intent' = [intent EXCEPT ![t] = "consumed"]
    /\ calls' = [calls EXCEPT ![c] = [busy |-> TRUE, had |-> delivery[t]]]
    /\ Send(c, t)
    /\ UNCHANGED <<delivery, disk, late, verdict, forgotten, torn>>

Retry(c) ==
    /\ ~calls[c].busy
    /\ calls' = [calls EXCEPT ![c] = [busy |-> TRUE, had |-> "none"]]
    /\ RetryPending(c)
    /\ UNCHANGED <<intent, delivery, disk, late, verdict, forgotten, torn>>

-----------------------------------------------------------------------------
\* networkAwardBid after its await.
AwardEnds(c, t, status) ==
    LET had == calls[c].had IN
    \/ /\ status = "delivered" /\ intent[t] \in {"none", "consumed"}
       /\ intent' = [intent EXCEPT ![t] = IF @ = "consumed" THEN "completed" ELSE @]
       /\ delivery' = [delivery EXCEPT ![t] = "delivered"]
    \/ /\ status = "expired"
       /\ intent' = [intent EXCEPT ![t] = IF @ = "consumed" THEN "failed" ELSE @]
       /\ delivery' = [delivery EXCEPT ![t] = IF had = "failed" THEN @ ELSE "failed"]
    \/ /\ \/ status = "pending"
          \/ status = "delivered" /\ intent[t] \notin {"none", "consumed"}
       /\ Pending(t, had)
       /\ UNCHANGED intent

\* Mutant: an intent that is not consumed is left alone.
MutantSettledBy(w, r) ==
    LET t == r.task IN
    IF w.thrown \/ w.delivery[t] = "none" THEN w
    ELSE [w EXCEPT !.delivery[t] = IF r.status = "pending" THEN "pending_delivery"
                                   ELSE IF r.status = "expired" THEN "failed" ELSE "delivered",
                   !.intent[t] = IF @ # "consumed" \/ r.status = "pending" THEN @
                                 ELSE IF r.status = "expired" THEN "failed" ELSE "completed"]

\* One turn of the loop of retryPendingNetworkDeliveries.  A late consumption
\* throws, and ends the loop.
SettledBy(w, r) ==
    LET t == r.task
        i == w.intent[t]
        tooLate == r.status = "delivered" /\ i = "approved" /\ t \in late
    IN
    IF w.thrown \/ w.delivery[t] = "none" THEN w
    ELSE [w EXCEPT
            !.thrown = tooLate,
            !.delivery[t] = IF r.status = "pending" THEN "pending_delivery"
                            ELSE IF r.status = "expired" THEN "failed" ELSE "delivered",
            !.intent[t] = IF tooLate THEN "expired"
                          ELSE IF r.status = "delivered" /\ i \in {"approved", "consumed"}
                                 THEN "completed"
                          ELSE IF r.status = "expired" /\ i = "consumed" THEN "failed" ELSE i]

RetryEnds(results) ==
    LET after[n \in 0..Len(results)] ==
            IF n = 0 THEN [intent |-> intent, delivery |-> delivery, thrown |-> FALSE]
            ELSE SettledBy(after[n - 1], results[n])
        w == after[Len(results)]
    IN intent' = w.intent /\ delivery' = w.delivery

\* The current flush ends with this status: if it was the last of its job, the
\* call goes on.
Answer(status) ==
    /\ IF Len(Now.todo) > 1
         THEN UNCHANGED <<calls, intent, delivery>>
         ELSE /\ calls' = [calls EXCEPT ![Now.call] = NotCalled]
              /\ IF Now.kind = "send"
                   THEN AwardEnds(Now.call, Current, status)
                   ELSE RetryEnds(Append(Now.results, ResultOf(Current, status)))
    /\ UNCHANGED <<disk, late, forgotten, torn>>

-----------------------------------------------------------------------------
\* The provider works and its result is verified, at most until there is
\* evidence.
Works(t, v) == verdict[t] = "none" /\ verdict' = [verdict EXCEPT ![t] = v]

\* Mutant: the relay acknowledges the receipt of an envelope.
MutantAcks(t) == Works(t, "accepted") \/ UNCHANGED verdict

\* executeNetworkEnvelope returns, now or because of earlier evidence.
Acks(t) ==
    \/ Works(t, "accepted")
    \/ verdict[t] # "none" /\ UNCHANGED verdict

\* It throws, it is never reached, or its answer is lost.
Rejects(t) ==
    \/ Works(t, "rejected")
    \/ Works(t, "accepted")
    \/ UNCHANGED verdict

JobStep ==
    \/ StartRetry /\ UNCHANGED runtimeVars
    \/ /\ NothingToRetry
       /\ calls' = [calls EXCEPT ![Now.call] = NotCalled]
       /\ UNCHANGED <<intent, delivery, disk, late, verdict, forgotten, torn>>
    \/ AlreadyGone /\ Answer("delivered") /\ UNCHANGED verdict
    \/ Expire /\ Answer("expired") /\ UNCHANGED verdict
    \/ Transmit /\ UNCHANGED runtimeVars
    \/ Acknowledged /\ Answer("delivered") /\ Acks(Current)
    \/ NotAcknowledged /\ Answer("pending") /\ Rejects(Current)

\* cancelSideEffectIntent.
Cancel(t) ==
    /\ intent[t] \in {"approved", "expired"}
    /\ intent' = [intent EXCEPT ![t] = "cancelled"]
    /\ UNCHANGED <<outboxVars, calls, delivery, disk, late, verdict, forgotten, torn>>

BecomesLate(t) ==
    /\ late' = late \cup {t}
    /\ UNCHANGED <<outboxVars, calls, intent, delivery, disk, verdict, forgotten, torn>>

Logged == [t \in Task |-> IF intent[t] = "expired" THEN "approved" ELSE intent[t]]

\* Of each intent and of each delivery the file has the last line, or an
\* earlier one: the later ones are still to be written, or they went with a
\* write that failed, or where a crash has torn the batch they were in.  An
\* intent may have been consumed and completed in one step.
MayHold(f) ==
    \A t \in Task :
        /\ f.delivery[t] \in {disk.delivery[t], delivery[t]}
        /\ \/ f.intent[t] \in {disk.intent[t], Logged[t]}
           \/ /\ disk.intent[t] = "approved" /\ Logged[t] \in {"completed", "failed"}
              /\ f.intent[t] = "consumed"

WriteLog ==
    /\ \E f \in File : MayHold(f) /\ disk' = f
    /\ UNCHANGED <<outboxVars, calls, intent, delivery, late, verdict, forgotten, torn>>

\* A new process reads the file.  If the newline of the last line is missing,
\* the next write destroys what this process has read of it.
Restart ==
    /\ OutboxRestart
    /\ calls' = [c \in Call |-> NotCalled]
    /\ \E f \in File :
         /\ MayHold(f)
         /\ intent' = f.intent /\ delivery' = f.delivery
         /\ disk' \in {f, disk}
         /\ forgotten' = forgotten \cup {t \in Task : intent[t] \in Used /\ f.intent[t] \notin Used}
         /\ torn' = {t \in Task : /\ "delivered" \in {f.delivery[t], disk'.delivery[t]}
                                  /\ t \in torn \/ f.intent[t] # Logged[t]}
    /\ UNCHANGED <<late, verdict>>

DeliveryNext ==
    \/ /\ Len(saves) < MaxSaves
       /\ \/ \E c \in Call, t \in Task :
               \/ AwardDelivered(c, t) \/ AwardUnavailable(c, t)
               \/ AwardLate(c, t) \/ Award(c, t)
          \/ \E c \in Call : Retry(c)
          \/ JobStep
    \/ SaveEnds /\ UNCHANGED runtimeVars
    \/ \E t \in Task :
         \/ BecomesOverdue(t) /\ UNCHANGED runtimeVars
         \/ BecomesLate(t) \/ Cancel(t)
    \/ WriteLog
    \/ Restart

DeliverySpec == DeliveryInit /\ [][DeliveryNext]_deliveryVars

\* Writes end, and relay.send resolves or rejects.
DeliveryFairness ==
    /\ WF_deliveryVars(SaveEnds /\ UNCHANGED runtimeVars)
    /\ WF_deliveryVars(JobStep /\ Len(saves) < MaxSaves)

FairDeliverySpec == DeliverySpec /\ DeliveryFairness

-----------------------------------------------------------------------------
(***************************************************************************)
(* Nothing is done abroad on an intent that could still be used at home:   *)
(* what a provider has worked on was consumed first, unless a crash has    *)
(* forgotten it.                                                           *)
(***************************************************************************)
WorkIsConsumed ==
    \A t \in Task : verdict[t] # "none" /\ t \notin forgotten
                      => intent[t] \in Used

(***************************************************************************)
(* A delivered task has used up its intent, whichever of the overlapping   *)
(* calls found out, also after a restart that has forgotten the            *)
(* consumption, unless the intent has expired.  Delivery and intent are    *)
(* separate lines: if a restart reads the one and has lost the last of the *)
(* other, the intent is open until networkAwardBid is called again.        *)
(***************************************************************************)
DeliveredIsSettled ==
    \A t \in Task : delivery[t] = "delivered" /\ t \notin late \cup torn
                      => intent[t] \notin {"approved", "consumed"}

(***************************************************************************)
(* An intent is completed only for work a verifier has seen, except that a *)
(* call may find the entry of an expired envelope gone and take it for     *)
(* delivered.  That the verifier accepted it does not hold: a retry of     *)
(* rejected work finds the evidence and is acknowledged.                   *)
(***************************************************************************)
CompletedWasVerified ==
    \A t \in Task : intent[t] = "completed" => verdict[t] # "none" \/ t \in overdue

(***************************************************************************)
(* Every call is answered, however many wait in the queue and whatever     *)
(* fails in it, unless the process stops.                                  *)
(***************************************************************************)
CallsAreAnswered == \A c \in Call : calls[c].busy ~> ~calls[c].busy
=============================================================================
