---------------------------- MODULE RelayOutbox ----------------------------
(***************************************************************************)
(* DurableRelayOutbox and JsonRelayOutboxStore of durable-relay.ts: the    *)
(* envelopes that no relay has acknowledged yet, one per task.  send and   *)
(* retryPending are jobs run one after the other; every change of the      *)
(* entries asks for a save of all of them, and the saves are written one   *)
(* after the other, each replacing the file by a rename.                   *)
(*                                                                         *)
(* Abstractions.  attempts, lastError and the times are left out, and with *)
(* them the saves that change nothing else.  What happens to a result is   *)
(* up to the caller, who continues within the step that ends its job: only *)
(* microtasks of the next job run in between.                              *)
(***************************************************************************)
EXTENDS Naturals, Sequences, SequencesExt

CONSTANTS
    Task,           \* tasks, whose envelopes have the ids network-message-<task>
    Call            \* calls of send and retryPending

VARIABLES
    entries,        \* the tasks in entries, in the order of the map
    file,           \* the entries in the file
    saves,          \* saves asked for and not written
    unsaved,        \* the last write failed
    jobs,           \* the chain of queue: the first job is running
    overdue         \* tasks whose envelope has expired

outboxVars == <<entries, file, saves, unsaved, jobs, overdue>>

ResultOf(t, status) == [task |-> t, status |-> status]

\* A run of flushEntry for the tasks of todo, one by one.
Job == [call : Call, kind : {"send", "retry"}, sending : BOOLEAN, todo : Seq(Task),
        results : Seq([task : Task, status : {"delivered", "pending", "expired"}])]

NoJob == [kind |-> "none"]

OutboxTypeOK ==
    /\ entries \in Seq(Task) /\ file \in Seq(Task)
    /\ saves \in Seq([keep : Seq(Task), next : Job \cup {NoJob}])
    /\ unsaved \in BOOLEAN
    /\ jobs \in Seq(Job)
    /\ overdue \subseteq Task

OutboxInit ==
    /\ entries = <<>> /\ file = <<>> /\ saves = <<>> /\ unsaved = FALSE
    /\ jobs = <<>>
    /\ overdue = {}

-----------------------------------------------------------------------------
\* persist(): a save of the entries es after the saves ss, unless it would
\* write what is written already.
Persisted(ss, written, es) ==
    IF es = (IF ss = <<>> THEN written ELSE Last(ss).keep)
      THEN ss
      ELSE Append(ss, [keep |-> es, next |-> NoJob])

\* Mutant: the deletion of an entry is not saved.
MutantKeepOnly(es) ==
    /\ entries' = es
    /\ UNCHANGED <<file, saves, unsaved>>

KeepOnly(es) ==
    /\ entries' = es
    /\ saves' = Persisted(saves, file, es)
    /\ UNCHANGED <<file, unsaved>>

NewJob(c, kind, todo) ==
    [call |-> c, kind |-> kind, sending |-> FALSE, todo |-> todo, results |-> <<>>]

\* send: a new envelope is scheduled when its save has ended, a known one at
\* once.
Send(c, t) ==
    /\ IF Contains(entries, t)
         THEN /\ jobs' = Append(jobs, NewJob(c, "send", <<t>>))
              /\ UNCHANGED <<entries, saves>>
         ELSE /\ entries' = Append(entries, t)
              /\ saves' = Append(saves, [keep |-> entries', next |-> NewJob(c, "send", <<t>>)])
              /\ UNCHANGED jobs
    /\ UNCHANGED <<file, unsaved, overdue>>

RetryPending(c) ==
    /\ jobs' = Append(jobs, NewJob(c, "retry", <<>>))
    /\ UNCHANGED <<entries, file, saves, unsaved, overdue>>

\* The first save ends, with its error logged and forgotten.
SaveEnds ==
    /\ saves # <<>>
    /\ LET s == Head(saves) IN
         /\ \/ file' = s.keep /\ unsaved' = FALSE
            \/ file' = file /\ unsaved' = TRUE
         /\ IF s.next = NoJob
              THEN saves' = Tail(saves) /\ UNCHANGED jobs
              ELSE /\ saves' = Persisted(Tail(saves), file', entries)
                   /\ jobs' = Append(jobs, s.next)
    /\ UNCHANGED <<entries, overdue>>

-----------------------------------------------------------------------------
Running == jobs # <<>>
Now == Head(jobs)
Current == Head(Now.todo)
Flushing == Running /\ Now.todo # <<>>

\* The job goes on to its next task.
Advanced(status) ==
    [Now EXCEPT !.sending = FALSE, !.todo = Tail(@),
                !.results = Append(@, ResultOf(Current, status))]

\* Mutant: what is not acknowledged is tried again at once.
MutantAdvance(status) ==
    jobs' = IF status = "pending" THEN [jobs EXCEPT ![1].sending = FALSE]
            ELSE IF Len(Now.todo) = 1 THEN Tail(jobs)
            ELSE [jobs EXCEPT ![1] = Advanced(status)]

\* The flush of the current task has ended with this status.
Advance(status) ==
    jobs' = IF Len(Now.todo) = 1 THEN Tail(jobs)
            ELSE [jobs EXCEPT ![1] = Advanced(status)]

\* retryPending reads its keys when its turn comes.
StartRetry ==
    /\ Running /\ Now.kind = "retry" /\ Now.todo = <<>> /\ entries # <<>>
    /\ jobs' = [jobs EXCEPT ![1].todo = entries]
    /\ UNCHANGED <<entries, file, saves, unsaved, overdue>>

NothingToRetry ==
    /\ Running /\ Now.kind = "retry" /\ Now.todo = <<>> /\ entries = <<>>
    /\ jobs' = Tail(jobs)
    /\ UNCHANGED <<entries, file, saves, unsaved, overdue>>

\* flushEntry finds no entry: another job has delivered or expired it.
AlreadyGone ==
    /\ Flushing /\ ~Contains(entries, Current)
    /\ Advance("delivered")
    /\ UNCHANGED <<entries, file, saves, unsaved, overdue>>

Expire ==
    /\ Flushing /\ ~Now.sending /\ Contains(entries, Current) /\ Current \in overdue
    /\ Advance("expired")
    /\ KeepOnly(RemoveFirst(entries, Current))
    /\ UNCHANGED overdue

\* relay.send is called.
Transmit ==
    /\ Flushing /\ ~Now.sending /\ Contains(entries, Current) /\ Current \notin overdue
    /\ jobs' = [jobs EXCEPT ![1].sending = TRUE]
    /\ KeepOnly(entries)
    /\ UNCHANGED overdue

\* relay.send resolves.
Acknowledged ==
    /\ Flushing /\ Now.sending
    /\ Advance("delivered")
    /\ KeepOnly(RemoveFirst(entries, Current))
    /\ UNCHANGED overdue

\* relay.send rejects: the entry stays.
NotAcknowledged ==
    /\ Flushing /\ Now.sending
    /\ Advance("pending")
    /\ KeepOnly(entries)
    /\ UNCHANGED overdue

BecomesOverdue(t) ==
    /\ overdue' = overdue \cup {t}
    /\ UNCHANGED <<entries, file, saves, unsaved, jobs>>

\* The process stops, and the next one loads the file.
OutboxRestart ==
    /\ entries' = file /\ saves' = <<>> /\ jobs' = <<>> /\ unsaved' = FALSE
    /\ UNCHANGED <<file, overdue>>

-----------------------------------------------------------------------------
(***************************************************************************)
(* "restart recovers": whenever no save is under way the file has just the *)
(* entries of memory, whatever sends, retries and expiries have done,      *)
(* unless the last write itself failed.                                    *)
(***************************************************************************)
OutboxIsSaved == saves = <<>> /\ ~unsaved => file = entries
=============================================================================
