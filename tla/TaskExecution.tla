--------------------------- MODULE TaskExecution ---------------------------
(***************************************************************************)
(* executeCollaborationTask of collaboration-runtime.ts: one call of the   *)
(* OrganizationTaskExecutor is a run.  It consumes the intent of the task, *)
(* walks the task through TaskProtocol while it awaits provider and        *)
(* verifier, and settles the intent.  Runs of one task may overlap, and    *)
(* between two awaits everybody may use the intents and approvals of       *)
(* SideEffectIntent, or the process may stop.                              *)
(*                                                                         *)
(* Abstractions.  Scopes and policies fit.  The contracts and the events   *)
(* of the tasks are never lost.  Nobody requests approval of the action    *)
(* "task:execute" itself, so a calendar task without intent is refused.    *)
(***************************************************************************)
EXTENDS SideEffectIntent

CONSTANTS
    Run,            \* calls of executeCollaborationTask
    Calendar        \* the tasks with a calendar capability

ASSUME CalendarAssumption == Calendar \subseteq Task

P == INSTANCE TaskProtocol WITH
       Principal <- {"requester", "provider", "verifier"}, Requester <- "requester"

VARIABLES
    contract,       \* sideEffectIntentId of the contract of each task
    runs,           \* the runs
    overdue,        \* runs whose envelope has expired
    told,           \* the kinds of the logged events task-event-<task>-<n>, by n
    evidence        \* the verdict in the event evidence-<task>

intentVars == vars
runVars == <<contract, runs, overdue, told, evidence>>
allVars == <<intentVars, runVars>>

Active == {"listing", "invoking", "performed", "verifying"}
Result == {"accepted", "rejected", "failed", "thrown"}

ExecutionTypeOK ==
    /\ TypeOK
    /\ contract \in [Task -> Intent \cup {NoOne}]
    /\ runs \in [Run -> [at : {"new", "over", "dead"} \cup Active,
                         task : Task \cup {NoOne}, intent : Intent \cup {NoOne},
                         state : P!TaskState, said : Seq(P!Message),
                         effect : BOOLEAN, result : {"none"} \cup Result]]
    /\ overdue \subseteq Run
    /\ told \in [Task -> Seq(P!Message)]
    /\ evidence \in [Task -> {"none", "accepted", "rejected"}]

-----------------------------------------------------------------------------
NewRun(t, i) ==
    [at |-> "new", task |-> t, intent |-> i, state |-> P!InitialTask,
     said |-> <<>>, effect |-> FALSE, result |-> "none"]

ExecutionInit ==
    /\ Init
    /\ contract = [t \in Task |-> NoOne]
    /\ runs = [r \in Run |-> NewRun(NoOne, NoOne)]
    /\ overdue = {}
    /\ told = [t \in Task |-> <<>>]
    /\ evidence = [t \in Task |-> "none"]

\* The context the executor puts around each message.
ContextOf(msg) ==
    P!Context(CASE msg \in {"award", "authorize", "accept"} -> "requester"
                [] msg \in {"verify", "dispute"} -> "verifier"
                [] OTHER -> "provider",
              "provider",
              IF msg \in {"verify", "dispute", "accept"} THEN "verifier" ELSE NoOne)

\* transition of the executor: MaySay if it does not throw, and the run then.
MaySay(r, q, msg) == P!MayTransition(q.state, ContextOf(msg), msg, r \in overdue)

Says(q, msg) ==
    [q EXCEPT !.state = P!AfterTransition(@, ContextOf(msg), msg),
              !.said = Append(@, msg)]

\* appendEvent of what run q has said: ids and nonces carry the number of the
\* event in its run, so an event another run has logged is dropped.
Logged(q) ==
    told' = [told EXCEPT ![q.task] = @ \o SubSeq(q.said, Len(@) + 1, Len(q.said))]

Continue(r, q, at) == runs' = [runs EXCEPT ![r] = [q EXCEPT !.at = at]] /\ Logged(q)

End(r, q, result) == Continue(r, [q EXCEPT !.result = result], "over")

-----------------------------------------------------------------------------
\* The contract names the intent created last for its task.
Contract(i, t) ==
    /\ Creation(i, t)
    /\ \A r \in Run : runs[r].intent # i
    /\ contract' = [contract EXCEPT ![t] = i]
    /\ UNCHANGED <<runs, overdue, told, evidence>>

\* Mutant: a run goes on without an intent it can consume.
MutantBegin(r, t) ==
    LET opened == Says(Says(Says(Says(NewRun(t, contract[t]), "bid"), "award"),
                            "authorize"), "progress")
    IN
    /\ runs[r].at = "new"
    /\ Continue(r, opened, "listing")
    /\ \/ contract[t] # NoOne /\ Consume(contract[t])
       \/ UNCHANGED intentVars
    /\ UNCHANGED <<contract, overdue, evidence>>

\* The run up to the executor's first await: it consumes the intent if the
\* policy asks for approval, and opens the task.
Begin(r, t) ==
    LET opened == Says(Says(Says(Says(NewRun(t, contract[t]), "bid"), "award"),
                            "authorize"), "progress")
    IN
    /\ runs[r].at = "new"
    /\ Continue(r, opened, "listing")
    /\ IF t \in Calendar
         THEN contract[t] # NoOne /\ Consume(contract[t])
         ELSE UNCHANGED intentVars
    /\ UNCHANGED <<contract, overdue, evidence>>

\* The intent cannot be consumed: execute throws, but the call may leave the
\* intent approved or expired.
Refused(r, t) ==
    LET i == contract[t] IN
    /\ runs[r].at = "new" /\ t \in Calendar
    /\ End(r, NewRun(t, i), "thrown")
    /\ \/ i = NoOne /\ UNCHANGED intentVars
       \/ i # NoOne /\ ConsumeLate(i)
       \/ /\ i # NoOne /\ (i \notin late \/ intents[i].status = "none")
          /\ ~Executable(i)
          /\ Approve(i) \/ (~MayApprove(i) /\ UNCHANGED intentVars)
    /\ UNCHANGED <<contract, overdue, evidence>>

\* Mutant: the catch clause forgets the intent.
MutantTryFail(i) == UNCHANGED intentVars

\* failSideEffectIntent, its exception swallowed.
TryFail(i) ==
    \/ i # NoOne /\ Fail(i)
    \/ (i # NoOne => intents[i].status # "consumed") /\ UNCHANGED intentVars

\* The catch clause of execute, reached by the run as q.  Its transition may
\* throw in turn, and then nothing fails the intent.
Caught(r, q) ==
    /\ \/ /\ q.state.status = "running" /\ MaySay(r, q, "fail")
          /\ End(r, Says(q, "fail"), "failed") /\ TryFail(q.intent)
       \/ /\ q.state.status = "running" /\ ~MaySay(r, q, "fail")
          /\ End(r, q, "thrown") /\ UNCHANGED intentVars
       \/ /\ q.state.status # "running"
          /\ End(r, q, "failed") /\ TryFail(q.intent)
    /\ UNCHANGED <<contract, overdue, evidence>>

Same == UNCHANGED <<intentVars, contract, overdue, evidence>>

\* provider.list answers: the capability is there, and is invoked, or not.
List(r) ==
    /\ runs[r].at = "listing"
    /\ \/ Continue(r, runs[r], "invoking") /\ Same
       \/ Caught(r, runs[r])

\* The provider does what it was invoked for.
Perform(r) ==
    /\ runs[r].at = "invoking"
    /\ Continue(r, [runs[r] EXCEPT !.effect = TRUE], "performed")
    /\ Same

\* provider.invoke rejects, before or after the effect.
InvokeFails(r) ==
    /\ runs[r].at \in {"invoking", "performed"}
    /\ Caught(r, runs[r])

\* provider.invoke answers.
Deliver(r) ==
    /\ runs[r].at = "performed"
    /\ IF MaySay(r, runs[r], "deliver")
         THEN Continue(r, Says(runs[r], "deliver"), "verifying") /\ Same
         ELSE Caught(r, runs[r])

\* No bundle can be made of the delivery, the verifier throws or answers too
\* late for the transition, or there is no bundle for its verdict.
VerifyFails(r) ==
    /\ runs[r].at = "verifying"
    /\ \/ Caught(r, runs[r])
       \/ /\ MaySay(r, runs[r], "verify")
          /\ Caught(r, Says(runs[r], "verify"))

\* The evidence event of a task has one id.
Verified(t, verdict) ==
    evidence' = [evidence EXCEPT ![t] = IF @ = "none" THEN verdict ELSE @]

\* The intent can be settled, or there is none.
Settles(q) == q.intent # NoOne => intents[q.intent].status = "consumed"

\* Mutant: an error of completeSideEffectIntent is swallowed.
MutantAccept(r) ==
    LET q == Says(runs[r], "verify") IN
    /\ runs[r].at = "verifying" /\ MaySay(r, runs[r], "verify")
    /\ End(r, Says(q, "accept"), "accepted") /\ Verified(q.task, "accepted")
    /\ \/ q.intent # NoOne /\ Complete(q.intent)
       \/ (~Settles(q) \/ q.intent = NoOne) /\ UNCHANGED intentVars
    /\ UNCHANGED <<contract, overdue>>

\* The verifier accepts: the intent is completed, then the task accepted.
Accept(r) ==
    LET q == Says(runs[r], "verify") IN
    /\ runs[r].at = "verifying" /\ MaySay(r, runs[r], "verify")
    /\ \/ /\ Settles(q)
          /\ IF q.intent = NoOne THEN UNCHANGED intentVars ELSE Complete(q.intent)
          /\ End(r, Says(q, "accept"), "accepted") /\ Verified(q.task, "accepted")
          /\ UNCHANGED <<contract, overdue>>
       \/ ~Settles(q) /\ Caught(r, q)

\* The verifier rejects: the task is disputed, then the intent failed.
Reject(r) ==
    LET q == Says(Says(runs[r], "verify"), "dispute") IN
    /\ runs[r].at = "verifying" /\ MaySay(r, runs[r], "verify")
    /\ \/ /\ Settles(q)
          /\ IF q.intent = NoOne THEN UNCHANGED intentVars ELSE Fail(q.intent)
          /\ End(r, q, "rejected") /\ Verified(q.task, "rejected")
          /\ UNCHANGED <<contract, overdue>>
       \/ ~Settles(q) /\ Caught(r, q)

\* An hour passes since the envelope was made.
Overdue(r) ==
    /\ runs[r].at \in Active
    /\ overdue' = overdue \cup {r}
    /\ UNCHANGED <<intentVars, contract, runs, told, evidence>>

\* The runs die with the process.
Stop ==
    /\ Restart
    /\ runs' = [r \in Run |->
                  IF runs[r].at \in Active THEN [runs[r] EXCEPT !.at = "dead"] ELSE runs[r]]
    /\ UNCHANGED <<contract, overdue, told, evidence>>

Answer(r) ==
    \/ List(r) \/ Perform(r) \/ InvokeFails(r) \/ Deliver(r)
    \/ VerifyFails(r) \/ Accept(r) \/ Reject(r)

ExecutionNext ==
    \/ /\ Len(events) < MaxEvents
       /\ UNCHANGED losses
       /\ \/ \E i \in Intent, t \in Task : Contract(i, t)
          \/ OtherOperation /\ UNCHANGED runVars
          \/ \E r \in Run, t \in Task : Begin(r, t) \/ Refused(r, t)
    \/ \E r \in Run : (Answer(r) \/ Overdue(r)) /\ UNCHANGED losses
    \/ WriteLog /\ UNCHANGED runVars
    \/ Stop

ExecutionSpec == ExecutionInit /\ [][ExecutionNext]_allVars

\* Provider and verifier answer in the end.
FairExecutionSpec == ExecutionSpec /\ \A r \in Run : WF_allVars(Answer(r) /\ UNCHANGED losses)

-----------------------------------------------------------------------------
(***************************************************************************)
(* However runs, restarts and other users of the intents interleave, no    *)
(* two runs of a calendar task have their effect on one intent, unless     *)
(* lines of the log were lost.                                             *)
(***************************************************************************)
OneEffect ==
    \A r, s \in Run :
      (/\ r # s /\ runs[r].intent = runs[s].intent
       /\ runs[r].effect /\ runs[s].effect /\ runs[r].task \in Calendar)
        => losses > 0

(***************************************************************************)
(* What a run of a calendar task does, the user has said yes to, as long   *)
(* as no id was drawn a second time.                                       *)
(***************************************************************************)
EffectWasGranted ==
    \A r \in Run :
      runs[r].effect /\ runs[r].task \in Calendar /\ ~reused
        => runs[r].intent \in granted

(***************************************************************************)
(* The result a run reports is the one the log has for its intent, whoever *)
(* else has settled, cancelled or consumed it while the run was waiting.   *)
(***************************************************************************)
ResultIsLogged ==
    \A r \in Run :
      LET outcome == [accepted |-> "completed", rejected |-> "failed"]
          i == runs[r].intent
      IN runs[r].result \in DOMAIN outcome /\ i # NoOne /\ losses = 0
           => In(Settled(i, outcome[runs[r].result]), events)

(***************************************************************************)
(* Whoever fails, the intent a run has consumed is settled in the end,     *)
(* unless the process stops, the envelope expires, or a second consumption *)
(* finds the intent expired.                                               *)
(***************************************************************************)
IntentIsSettled ==
    \A r \in Run, i \in Intent :
      (runs[r].at = "listing" /\ runs[r].task \in Calendar /\ runs[r].intent = i)
        ~> \/ runs[r].at = "dead" \/ r \in overdue
           \/ intents[i].status \in {"completed", "failed", "expired", "cancelled"}
=============================================================================
