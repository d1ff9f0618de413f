--------------------------- MODULE OrgCoordinator ---------------------------
(***************************************************************************)
(* OrganizationCoordinator of packages/collaboration/openbuddy-coordinator *)
(* inside a process of the collaboration runtime: members, delegations,    *)
(* approvals and task controls, every mutation an event of the durable     *)
(* log, the projection rebuilt from the log by a new process.              *)
(*                                                                         *)
(* Abstractions.  A delegation is its grantee and whether it was revoked;  *)
(* capabilities, scopes and expiry are left out, and so is the wording of  *)
(* a request.  An approval is for all actions of its task.                 *)
(*                                                                         *)
(* Duplicates are dropped twice, and the two know nothing of each other:   *)
(* apply by appliedEventIds, appendEvent by the ids and the nonces of the  *)
(* log.  Every event of the log comes back to apply, also those of network *)
(* mode, which have no organization and which apply does not count.        *)
(***************************************************************************)
EXTENDS Naturals, Sequences

CONSTANTS
    Identity,       \* identities that may act on the organization
    Owner,          \* the owner: the identity of the runtime
    Task,           \* tasks of the organization
    NoOne,          \* an absent identity or task
    Actions,        \* the task controls somebody may use
    MaxSequence,    \* bound: numbers one process draws from its counter
    MaxEvents       \* bound: length of the log

ASSUME OrgAssumption ==
    /\ Owner \in Identity
    /\ NoOne \notin Identity \cup Task
    /\ Actions \subseteq {"pause", "resume", "revoke", "takeover", "revision"}
    /\ MaxSequence \in Nat /\ MaxEvents \in Nat

VARIABLES
    org,            \* members, delegations, approvals, controls, taskOwners
    applied,        \* appliedEventIds
    sequence,       \* the counter of this process
    gap,            \* history: the disk lacks a line before one it has
    events, unwritten, disk     \* the log, see DurableLog

orgVars == <<org, applied, sequence>>
logVars == <<events, unwritten, disk>>
vars == <<org, applied, sequence, gap, events, unwritten, disk>>

Managers == {"owner", "admin"}
Control ==
    [pause |-> "paused", resume |-> "running", revoke |-> "revoked",
     takeover |-> "taken_over", revision |-> "revision_requested"]
Ids == 1..MaxSequence

Decided == {"approved", "rejected"}

EventKind ==
    {"task.proposed", "org.member_added", "org.member_removed", "delegation.granted",
     "delegation.revoked", "delegation.revoke_duplicate", "task.approval_requested",
     "network"}             \* an event of network mode, without an organization
      \cup Decided \cup DOMAIN Control

\* An event, with "nothing" in the fields its kind does not use.
OrgEvent ==
    {e \in [by     : Identity \cup Task,   n : 0..MaxSequence,     \* the event id
            kind   : EventKind,
            actor  : Identity,
            member : Identity \cup {NoOne},
            role   : {"", "member", "admin"},
            ref    : 0..MaxSequence,       \* delegationId or approvalId
            task   : Task \cup {NoOne}] :
       e.kind = "org.member_added" => e.role # ""}

\* The id of an event: "event-<uuid>" of a proposal, "network-event-<n>", or
\* "org-event:<actor>:<n>".
Source(e) ==
    IF e.kind = "task.proposed" THEN "event"
    ELSE IF e.kind = "network" THEN "network-event" ELSE "org-event"

Id(e) == <<Source(e), e.by, e.n>>

\* Mutant: the nonce of a mutation lacks the number.
MutantNonce(e) == <<e.kind, e.by>>

\* The nonce: "propose:<task>", or "org:<kind>:<actor>:<n>".
Nonce(e) == <<e.kind, e.by, e.n>>

EventId == {"event", "network-event", "org-event"} \X (Identity \cup Task) \X (0..MaxSequence)

Log == INSTANCE DurableLog WITH Event <- OrgEvent

Organization ==
    [members     : [Identity -> {"none", "removed", "member", "admin", "owner"}],
     delegations : [Ids -> [grantee : Identity \cup {NoOne}, revoked : BOOLEAN]],
     approvals   : [Ids -> [task : Task \cup {NoOne},
                            status : {"none", "pending"} \cup Decided]],
     controls    : [Task -> {"none"} \cup {Control[a] : a \in DOMAIN Control}],
     owners      : [Task -> Identity \cup {NoOne}]]

TypeOK ==
    /\ org \in Organization
    /\ applied \subseteq EventId
    /\ sequence \in 0..MaxSequence
    /\ gap \in BOOLEAN
    /\ Log!LogTypeOK

-----------------------------------------------------------------------------
\* The projection of an empty log.
NewOrg ==
    [members     |-> [i \in Identity |-> IF i = Owner THEN "owner" ELSE "none"],
     delegations |-> [d \in Ids |-> [grantee |-> NoOne, revoked |-> FALSE]],
     approvals   |-> [a \in Ids |-> [task |-> NoOne, status |-> "none"]],
     controls    |-> [t \in Task |-> "none"],
     owners      |-> [t \in Task |-> NoOne]]

\* What apply does to the projection of an event that it takes.
Effect(o, e) ==
    CASE e.kind = "task.proposed" -> [o EXCEPT !.owners[e.task] = e.actor]
      [] e.kind = "org.member_added" -> [o EXCEPT !.members[e.member] = e.role]
      [] e.kind = "org.member_removed" /\ o.members[e.member] # "none" ->
           [o EXCEPT !.members[e.member] = "removed"]
      [] e.kind = "delegation.granted" ->
           [o EXCEPT !.delegations[e.ref] = [grantee |-> e.member, revoked |-> FALSE]]
      [] e.kind = "delegation.revoked" /\ o.delegations[e.ref].grantee # NoOne ->
           [o EXCEPT !.delegations[e.ref].revoked = TRUE]
      [] e.kind = "task.approval_requested" ->
           [o EXCEPT !.approvals[e.ref] = [task |-> e.task, status |-> "pending"]]
      [] e.kind \in Decided /\ o.approvals[e.ref].status # "none" ->
           [o EXCEPT !.approvals[e.ref].status = e.kind]
      [] e.kind \in DOMAIN Control -> [o EXCEPT !.controls[e.task] = Control[e.kind]]
      [] OTHER -> o

Projection == [org |-> org, applied |-> applied]

\* apply: an event that was applied is dropped, and so is one of another
\* organization, before its id is noted.
Apply(p, e) ==
    IF Id(e) \in p.applied \/ e.kind = "network"
      THEN p
      ELSE [org |-> Effect(p.org, e), applied |-> p.applied \cup {Id(e)}]

\* The projections the constructor goes through: the n-th has n events in.
Projections(log) ==
    LET after[n \in 0..Len(log)] ==
          IF n = 0 THEN [org |-> NewOrg, applied |-> {}]
          ELSE Apply(after[n - 1], log[n])
    IN  after

\* The constructor over initialEvents.
Replay(log) == Projections(log)[Len(log)]

Blank(a, n, kind) ==
    [by |-> a, n |-> n, kind |-> kind, actor |-> a, member |-> NoOne,
     role |-> "", ref |-> 0, task |-> NoOne]

\* appendEvent drops an event if the log has its id, or its actor and nonce.
Dropped(e) ==
    \E n \in DOMAIN events :
        \/ Id(events[n]) = Id(e)
        \/ events[n].actor = e.actor /\ Nonce(events[n]) = Nonce(e)

Becomes(p) == org' = p.org /\ applied' = p.applied

\* appendEvent, when the projection is p: an event that is not dropped comes
\* back to the coordinator as an observed one.
AppendEvent(p, e) ==
    IF Dropped(e)
      THEN Becomes(p) /\ UNCHANGED logVars
      ELSE Becomes(Apply(p, e)) /\ Log!AppendEvents(<<e>>)

\* A mutation applies its event and then records it.
Record(e) == AppendEvent(Apply(Projection, e), e)

\* Any other event is only appended.
Emit(e) == AppendEvent(Projection, e)

Active(a) == org.members[a] \in Managers \cup {"member"}

\* Mutant: an inactive member is taken for what it was.
MutantManages(a) == org.members[a] \in Managers \cup {"removed"}

Manages(a) == org.members[a] \in Managers

-----------------------------------------------------------------------------
Init ==
    /\ org = NewOrg
    /\ applied = {}
    /\ sequence = 0
    /\ gap = FALSE
    /\ Log!LogInit

\* mutationEvent takes the next number of the counter.
Next1 == sequence + 1
Next2 == sequence + 2

AddMember(a, m, role) ==
    /\ Manages(a)
    /\ Next1 \in Ids /\ sequence' = Next1
    /\ Record([Blank(a, Next1, "org.member_added") EXCEPT !.member = m, !.role = role])
    /\ UNCHANGED gap

RemoveMember(a, m) ==
    /\ Manages(a) /\ m # Owner /\ Active(m)
    /\ Next1 \in Ids /\ sequence' = Next1
    /\ Record([Blank(a, Next1, "org.member_removed") EXCEPT !.member = m])
    /\ UNCHANGED gap

GrantDelegation(a, g) ==
    /\ Manages(a) /\ Active(g)
    /\ Next2 \in Ids /\ sequence' = Next2
    /\ Record([Blank(a, Next2, "delegation.granted") EXCEPT !.member = g, !.ref = Next1])
    /\ UNCHANGED gap

\* A second revocation is recorded, but not applied first.
RevokeDelegation(a, d) ==
    /\ Manages(a) /\ org.delegations[d].grantee # NoOne
    /\ Next1 \in Ids /\ sequence' = Next1
    /\ IF org.delegations[d].revoked
         THEN Emit([Blank(a, Next1, "delegation.revoke_duplicate") EXCEPT !.ref = d])
         ELSE Record([Blank(a, Next1, "delegation.revoked") EXCEPT !.ref = d])
    /\ UNCHANGED gap

RequestApproval(a, t) ==
    /\ Active(a)
    /\ Next2 \in Ids /\ sequence' = Next2
    /\ Record([Blank(a, Next2, "task.approval_requested") EXCEPT !.ref = Next1, !.task = t])
    /\ UNCHANGED gap

\* Mutant: a decided request may be decided again.
MutantDecideApproval(a, n, verdict) ==
    /\ Manages(a) /\ org.approvals[n].status # "none"
    /\ Next1 \in Ids /\ sequence' = Next1
    /\ Record([Blank(a, Next1, verdict) EXCEPT !.ref = n])
    /\ UNCHANGED gap

DecideApproval(a, n, verdict) ==
    /\ Manages(a) /\ org.approvals[n].status = "pending"
    /\ Next1 \in Ids /\ sequence' = Next1
    /\ Record([Blank(a, Next1, verdict) EXCEPT !.ref = n])
    /\ UNCHANGED gap

\* A manager or the member who proposed the task pauses it, takes it over...
ControlTask(a, t, action) ==
    /\ Active(a) /\ org.owners[t] # NoOne
    /\ Manages(a) \/ a = org.owners[t]
    /\ Next1 \in Ids /\ sequence' = Next1
    /\ Record([Blank(a, Next1, action) EXCEPT !.task = t])
    /\ UNCHANGED gap

\* Some other part of the runtime appends a proposal, or an event of network
\* mode.
ObserveProposal(a, t) ==
    /\ Emit([Blank(a, 0, "task.proposed") EXCEPT !.by = t, !.task = t])
    /\ UNCHANGED <<sequence, gap>>

ObserveNetwork(t) ==
    /\ Emit([Blank(Owner, 0, "network") EXCEPT !.by = t, !.task = t])
    /\ UNCHANGED <<sequence, gap>>

\* The log writes or loses lines; a line lost before one that is written
\* leaves a gap.
WriteLog ==
    /\ \E n \in 1..Len(unwritten), keep \in 0..Len(disk), lo \in 1..2 :
         \E hi \in 0..n :
           /\ Log!Write(n, keep, lo, hi)
           /\ gap' = (gap \/ lo = 2 \/ hi < n)
    /\ UNCHANGED orgVars

\* A new process starts its counter at 0 and replays what the disk has.
Restart ==
    /\ \E keep \in 0..Len(disk), lo \in 1..2, hi \in 0..Len(unwritten) :
         /\ Log!Restart(keep, lo, hi)
         /\ gap' = (gap \/ (lo = 2 /\ hi >= lo))
    /\ Becomes(Replay(disk'))
    /\ sequence' = 0

Mutation ==
    \/ \E a, m \in Identity :
         \/ \E role \in {"admin", "member"} : AddMember(a, m, role)
         \/ RemoveMember(a, m)
         \/ GrantDelegation(a, m)
    \/ \E a \in Identity, n \in Ids :
         \/ RevokeDelegation(a, n)
         \/ \E verdict \in Decided : DecideApproval(a, n, verdict)
    \/ \E a \in Identity, t \in Task :
         \/ RequestApproval(a, t)
         \/ \E action \in Actions : ControlTask(a, t, action)
         \/ ObserveProposal(a, t)
    \/ \E t \in Task : ObserveNetwork(t)

Next == (Len(events) < MaxEvents /\ Mutation) \/ WriteLog \/ Restart

Spec == Init /\ [][Next]_vars

-----------------------------------------------------------------------------
(***************************************************************************)
(* What the coordinator acts on, and what it takes for applied, is what a  *)
(* replay of the log in memory gives, although mutations are applied       *)
(* before they are logged and each side drops duplicates for itself: with  *)
(* a fully written log a restart changes no member, grant or approval.     *)
(***************************************************************************)
ProjectionIsReplay == Projection = Replay(events)

\* The events before event n.
Before(n) == SubSeq(events, 1, n - 1)

(***************************************************************************)
(* The log authorizes itself: the actor of every event that changes        *)
(* members, delegations or approvals was a manager, or for a request an    *)
(* active member, by the events before it, also after restarts.  A gap in  *)
(* the log, which may hide the event that admitted the actor, is excepted. *)
(***************************************************************************)
LogIsAuthorized ==
    gap \/ \A n \in DOMAIN events :
      LET e == events[n]
          role == Replay(Before(n)).org.members[e.actor]
      IN
        /\ e.kind \in {"org.member_added", "org.member_removed", "delegation.granted",
                       "delegation.revoked"} \cup Decided => role \in Managers
        /\ e.kind = "task.approval_requested" => role \in Managers \cup {"member"}

(***************************************************************************)
(* Nobody decides a request twice: between two decisions about the same    *)
(* approval the log has another request of that id.                        *)
(***************************************************************************)
DecidedOnce ==
    gap \/ \A m, n \in DOMAIN events :
      (/\ m < n /\ events[m].ref = events[n].ref
       /\ events[m].kind \in Decided /\ events[n].kind \in Decided)
        => \E k \in m..n : /\ events[k].kind = "task.approval_requested"
                           /\ events[k].ref = events[n].ref

(***************************************************************************)
(* revokeDelegation returns a revoked delegation, whenever it does not     *)
(* throw.                                                                  *)
(***************************************************************************)
RevokeRevokes ==
    [][\A a \in Identity, d \in Ids :
         RevokeDelegation(a, d) => org'.delegations[d].revoked]_vars
=============================================================================
