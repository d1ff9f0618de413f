----------------------------- MODULE DurableLog -----------------------------
(***************************************************************************)
(* What the event log of the collaboration runtime promises to the code    *)
(* that appends to it: an append is visible in memory at once and reaches  *)
(* the disk later, in order, if nothing goes wrong; a restart starts again *)
(* from what the disk holds.  What is on the disk stays there, but for its *)
(* last line: a crash or a failed write may have left that one without its *)
(* newline, and then the next write destroys it and its own first line.    *)
(* EventLog implements this specification; SideEffectIntent and            *)
(* OrgCoordinator are written on top of it.                                *)
(***************************************************************************)
EXTENDS Naturals, Sequences

CONSTANT Event          \* events, told apart by id (or by actor and nonce)

VARIABLES
    events,     \* this.events: the log in memory
    unwritten,  \* the events that have still to be written
    disk        \* the events a restart would read

logVars == <<events, unwritten, disk>>

In(e, log) == \E n \in DOMAIN log : log[n] = e

LogTypeOK ==
    /\ events \in Seq(Event)
    /\ unwritten \in Seq(Event)
    /\ disk \in Seq(Event)

LogInit ==
    /\ events = <<>>
    /\ unwritten = <<>>
    /\ disk = <<>>

\* appendEvent of new events; one whose id the log already holds is dropped,
\* which is no step.
AppendEvents(new) ==
    /\ \A n \in DOMAIN new : ~In(new[n], events)
    /\ events' = events \o new
    /\ unwritten' = unwritten \o new
    /\ UNCHANGED disk

\* What a write may do where it meets the file: the first keep lines stay,
\* and lo is the first line of its own that can be read.
Meets(keep, lo) ==
    \/ keep = Len(disk) /\ lo \in 1..2
    \/ keep = Len(disk) - 1 /\ keep >= 0 /\ lo = 2

\* The first n unwritten events have been dealt with: of these the ones
\* from lo to hi have reached the disk and the others never will.
Write(n, keep, lo, hi) ==
    /\ Meets(keep, lo)
    /\ disk' = SubSeq(disk, 1, keep) \o SubSeq(unwritten, lo, hi)
    /\ unwritten' = SubSeq(unwritten, n + 1, Len(unwritten))
    /\ UNCHANGED events

WriteSome ==
    \E n \in 1..Len(unwritten), keep \in 0..Len(disk), lo \in 1..2 :
        \E hi \in 0..n : Write(n, keep, lo, hi)

\* The process stops at any moment and a new one reads the file.
Restart(keep, lo, hi) ==
    /\ Meets(keep, lo)
    /\ disk' = SubSeq(disk, 1, keep) \o SubSeq(unwritten, lo, hi)
    /\ events' = disk'
    /\ unwritten' = <<>>

RestartSome ==
    \E keep \in 0..Len(disk), lo \in 1..2, hi \in 0..Len(unwritten) :
        Restart(keep, lo, hi)

LogNext ==
    \/ \E e \in Event : AppendEvents(<<e>>)
    \/ WriteSome
    \/ RestartSome

LogSpec == LogInit /\ [][LogNext]_logVars
=============================================================================
