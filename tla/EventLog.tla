------------------------------ MODULE EventLog ------------------------------
(***************************************************************************)
(* The batched event writer of collaboration-runtime.ts: appendEvent,      *)
(* enqueueAppend, flushAppendQueue, flushPendingIO and readEvents, with    *)
(* write errors and crashes at any moment.                                 *)
(*                                                                         *)
(* An action is the code between two awaits.  Events are identified by     *)
(* their id.  The queue limit is the constant FlushMax (64 in the code);   *)
(* timers fire at any time after they are set.                             *)
(***************************************************************************)
EXTENDS Naturals, Sequences

CONSTANTS
    Event,      \* the events the runtime may append
    FlushMax,   \* APPEND_FLUSH_MAX
    MaxChained  \* bound: flushes that flushPendingIO may find chained

ASSUME FlushMaxAssumption == FlushMax \in Nat \ {0}
ASSUME MaxChainedAssumption == MaxChained \in Nat

VARIABLES
    events,     \* this.events
    queue,      \* this.appendQueue
    timer,      \* this.appendFlushTimer is set
    flushes,    \* runs chained on this.appendWriteInFlight, not started
    batch,      \* the lines the current run has drained, <<>> if none
    pendingIO,  \* flushPendingIO: "idle", "rewriting" other files, "rejected"
    disk,       \* the events readEvents would return
    tail,       \* how the file ends: see Tails
    damaged     \* history: a line was lost since the last start

vars == <<events, queue, timer, flushes, batch, pendingIO, disk, tail, damaged>>

In(e, log) == \E n \in DOMAIN log : log[n] = e

\* "clean": the file is empty or ends with a newline.  "cut": it ends inside
\* a line.  "open": it ends with a line that lacks only its newline, which
\* readEvents still parses.
Tails == {"clean", "cut", "open"}

TypeOK ==
    /\ events \in Seq(Event) /\ queue \in Seq(Event)
    /\ batch \in Seq(Event)  /\ disk \in Seq(Event)
    /\ timer \in BOOLEAN /\ tail \in Tails /\ damaged \in BOOLEAN
    /\ flushes \in Nat
    /\ pendingIO \in {"idle", "rewriting", "rejected"}

Init ==
    /\ events = <<>> /\ queue = <<>> /\ batch = <<>> /\ disk = <<>>
    /\ timer = FALSE /\ tail = "clean" /\ damaged = FALSE
    /\ flushes = 0
    /\ pendingIO = "idle"

-----------------------------------------------------------------------------
\* Mutant: a line that fills the queue sets no timer and starts no flush.
MutantEnqueue(e) ==
    /\ queue' = Append(queue, e)
    /\ IF Len(queue') >= FlushMax THEN UNCHANGED <<timer, flushes>>
       ELSE timer' = TRUE /\ UNCHANGED flushes

\* enqueueAppend: flush at once when the queue is full, else within a tick.
Enqueue(e) ==
    /\ queue' = Append(queue, e)
    /\ IF Len(queue') >= FlushMax
         THEN flushes' = flushes + 1 /\ UNCHANGED timer
         ELSE timer' = TRUE /\ UNCHANGED flushes

\* Mutant: no check for an event that is already there.
MutantAppendEvent(e) ==
    /\ events' = Append(events, e)
    /\ Enqueue(e)
    /\ pendingIO' = IF pendingIO = "rejected" THEN "idle" ELSE pendingIO
    /\ UNCHANGED <<batch, disk, tail, damaged>>

\* appendEvent: an event whose id is known is dropped.
AppendEvent(e) ==
    /\ ~In(e, events)
    /\ events' = Append(events, e)
    /\ Enqueue(e)
    /\ pendingIO' = IF pendingIO = "rejected" THEN "idle" ELSE pendingIO
    /\ UNCHANGED <<batch, disk, tail, damaged>>

\* Mutant: the timer only clears itself.
MutantTimerFires ==
    /\ timer
    /\ timer' = FALSE
    /\ UNCHANGED <<events, queue, flushes, batch, pendingIO, disk, tail, damaged>>

TimerFires ==
    /\ timer
    /\ timer' = FALSE
    /\ flushes' = flushes + 1
    /\ UNCHANGED <<events, queue, batch, pendingIO, disk, tail, damaged>>

\* Mutant: a run does not wait for the one before it.
MutantOverlapping ==
    /\ flushes > 0
    /\ flushes' = flushes - 1
    /\ batch' = queue
    /\ queue' = <<>>
    /\ UNCHANGED <<events, timer, pendingIO, disk, tail, damaged>>

\* The next run of the chain starts when the one before has ended, and
\* drains the queue before its first await.
StartFlush ==
    /\ flushes > 0
    /\ batch = <<>>
    /\ flushes' = flushes - 1
    /\ batch' = queue
    /\ queue' = <<>>
    /\ UNCHANGED <<events, timer, pendingIO, disk, tail, damaged>>

\* What readEvents can parse once these whole lines are behind the file: an
\* unterminated last line is glued to the first of them, and both are lost.
Readable(lines) ==
    LET kept == IF tail = "open" THEN SubSeq(disk, 1, Len(disk) - 1) ELSE disk
        new  == IF tail # "clean" /\ lines # <<>> THEN Tail(lines) ELSE lines
    IN  kept \o new

\* Mutant: the batch is written in front of the file.
MutantWriteSucceeds ==
    /\ batch # <<>>
    /\ disk' = batch \o disk
    /\ tail' = "clean"
    /\ damaged' = (damaged \/ tail # "clean")
    /\ batch' = <<>>
    /\ UNCHANGED <<events, queue, timer, flushes, pendingIO>>

WriteSucceeds ==
    /\ batch # <<>>
    /\ disk' = Readable(batch)
    /\ tail' = "clean"
    /\ damaged' = (damaged \/ tail # "clean")
    /\ batch' = <<>>
    /\ UNCHANGED <<events, queue, timer, flushes, pendingIO>>

\* k lines of the batch have reached the file with their newlines, and of
\* the next one nothing, a part, or the whole without its newline.
PartlyWritten(k, next) ==
    /\ next # "nothing" => k < Len(batch)
    /\ IF k = 0 /\ next = "nothing"
         THEN UNCHANGED <<disk, tail>>
         ELSE /\ disk' = Readable(SubSeq(batch, 1, IF next = "whole" THEN k + 1 ELSE k))
              /\ tail' = IF next = "nothing" THEN "clean"
                         ELSE IF next = "part" \/ (k = 0 /\ tail # "clean") THEN "cut"
                         ELSE "open"

Nexts == {"nothing", "part", "whole"}

\* mkdir or appendFile rejects: the drained lines that were not written
\* are gone.
WriteFails ==
    /\ batch # <<>>
    /\ \E k \in 0..(Len(batch) - 1), next \in Nexts : PartlyWritten(k, next)
    /\ batch' = <<>>
    /\ damaged' = TRUE
    /\ UNCHANGED <<events, queue, timer, flushes, pendingIO>>

\* flushPendingIO clears the timer, rewrites the other files if they are
\* dirty, and only then chains a flush.
FlushPendingIO ==
    /\ pendingIO # "rewriting"
    /\ timer' = FALSE
    /\ \/ pendingIO' = "rewriting" /\ UNCHANGED flushes
       \/ pendingIO' = "idle" /\ flushes' = flushes + 1
    /\ flushes < MaxChained
    /\ UNCHANGED <<events, queue, batch, disk, tail, damaged>>

RewriteSucceeds ==
    /\ pendingIO = "rewriting"
    /\ pendingIO' = "idle"
    /\ flushes' = flushes + 1
    /\ UNCHANGED <<events, queue, timer, batch, disk, tail, damaged>>

\* The rewrite throws, and with it flushPendingIO.
RewriteFails ==
    /\ pendingIO = "rewriting"
    /\ pendingIO' = "rejected"
    /\ UNCHANGED <<events, queue, timer, flushes, batch, disk, tail, damaged>>

\* The process stops, perhaps while a batch is being written, and a new one
\* reads the file.
Crash ==
    /\ \E k \in 0..Len(batch), next \in Nexts : PartlyWritten(k, next)
    /\ events' = disk'
    /\ queue' = <<>> /\ batch' = <<>>
    /\ timer' = FALSE /\ flushes' = 0 /\ damaged' = FALSE
    /\ pendingIO' = "idle"

Next ==
    \/ \E e \in Event : AppendEvent(e)
    \/ TimerFires \/ StartFlush \/ WriteSucceeds \/ WriteFails
    \/ FlushPendingIO \/ RewriteSucceeds \/ RewriteFails
    \/ Crash

Spec == Init /\ [][Next]_vars

\* Timers fire, promise chains advance and writes end; errors, shutdowns
\* and crashes need not happen.
Fairness ==
    /\ WF_vars(TimerFires)
    /\ WF_vars(StartFlush)
    /\ WF_vars(WriteSucceeds)
    /\ WF_vars(RewriteSucceeds)

FairSpec == Spec /\ Fairness

-----------------------------------------------------------------------------
(***************************************************************************)
(* Every line is accounted for: unless a write has failed or met a file    *)
(* without its last newline since the process started, memory is the disk, *)
(* then the batch, then the queue.                                         *)
(***************************************************************************)
NothingMissing == damaged \/ events = disk \o batch \o queue

(***************************************************************************)
(* No queued line is forgotten: a timer or a flush will take it, or a      *)
(* flushPendingIO that is under way or that has told its caller it failed. *)
(***************************************************************************)
QueueIsScheduled ==
    queue # <<>> => timer \/ flushes > 0 \/ pendingIO \in {"rewriting", "rejected"}

(***************************************************************************)
(* The file never holds an event twice, nor one before an event that was   *)
(* appended earlier: replaying it can not reorder what memory has seen.    *)
(***************************************************************************)
DiskInMemoryOrder ==
    \A m, n \in DOMAIN disk :
        m < n => \E i, j \in DOMAIN events :
                    i < j /\ events[i] = disk[m] /\ events[j] = disk[n]

(***************************************************************************)
(* Every appended event is written in the end, unless a write fails, the   *)
(* process stops or flushPendingIO rejects.                                *)
(***************************************************************************)
EventuallyDurable ==
    \A e \in Event :
        In(e, events) ~> (In(e, disk) \/ ~In(e, events) \/ damaged
                                      \/ pendingIO = "rejected")

Abstract == INSTANCE DurableLog WITH unwritten <- batch \o queue

\* The writer implements what DurableLog promises.  A step of the writer is
\* an append, a write, a loss or a restart of the promise, or no step of it.
ImplementsDurableLog == Abstract!LogSpec
=============================================================================
