------------------------ MODULE OrgCoordinatorProofs ------------------------
(***************************************************************************)
(* Theorems about OrgCoordinator, for any number of identities, tasks and  *)
(* events.  The projection is a recursive function of the log, so what the *)
(* theorems say of it is proved by induction on the length of a log; an    *)
(* induction is stated as the set of the numbers for which a fact holds.   *)
(*                                                                         *)
(* The invariants speak of one log, and a new process has another one, a   *)
(* prefix of it.  So each of them is stated for a log of its own, shown to *)
(* pass to a log's prefixes, and to survive the appending of an event that *)
(* the projection of the log admits.                                       *)
(***************************************************************************)
EXTENDS OrgCoordinator, SequenceTheorems, WellFoundedInduction, TLAPS

-----------------------------------------------------------------------------
\* A set of naturals with 0 and the successor of each of its elements has
\* them all.
LEMMA SetInduction ==
    ASSUME NEW T, T \subseteq Nat, 0 \in T, \A n \in T : n + 1 \in T
    PROVE  T = Nat
<1> DEFINE R == {p \in Nat \X Nat : p[1] < p[2]}
           Bad == Nat \ T
<1>1. IsWellFoundedOn(R, Nat)
  BY NatLessThanWellFounded DEF OpToRel
<1>2. \A i, j \in Nat : i < j => <<i, j>> \in R
  OBVIOUS
<1> HIDE DEF R
<1>3. SUFFICES ASSUME Bad # {} PROVE FALSE
  OBVIOUS
<1>4. PICK m \in Bad : \A y \in Bad : <<y, m>> \notin R
  BY <1>1, <1>3, WFMin
<1>5. m # 0 /\ m \in Nat /\ m - 1 \in Nat /\ m - 1 < m
  BY <1>4
<1>6. m - 1 \in T
  BY <1>4, <1>5, <1>2
<1> QED BY <1>4, <1>5, <1>6

\* The projection of no event.
Nothing == [org |-> NewOrg, applied |-> {}]

\* The projections of the first k events of a log.
After(log, k) ==
    CHOOSE p : p = [n \in 0..k |-> IF n = 0 THEN Nothing ELSE Apply(p[n - 1], log[n])]

\* There are projections of every length.
LEMMA AfterExists ==
    ASSUME NEW log, NEW k \in Nat
    PROVE  After(log, k) = [n \in 0..k |-> IF n = 0 THEN Nothing
                                           ELSE Apply(After(log, k)[n - 1], log[n])]
<1> DEFINE Good(p, m) ==
             p = [n \in 0..m |-> IF n = 0 THEN Nothing ELSE Apply(p[n - 1], log[n])]
           T == {m \in Nat : \E p : Good(p, m)}
<1>1. 0 \in T
  <2> DEFINE p == [n \in 0..0 |-> Nothing]
  <2>1. Good(p, 0)
    OBVIOUS
  <2> QED BY <2>1
<1>2. ASSUME NEW m \in T PROVE m + 1 \in T
  <2>1. PICK p : Good(p, m)
    OBVIOUS
  <2> DEFINE q == [n \in 0..(m + 1) |-> IF n <= m THEN p[n] ELSE Apply(p[m], log[m + 1])]
  <2>2. \A n \in 0..m : p[n] = IF n = 0 THEN Nothing ELSE Apply(p[n - 1], log[n])
    BY <2>1, Zenon
  <2>3. \A n \in 0..m : q[n] = p[n]
    OBVIOUS
  <2>4. q[m + 1] = Apply(p[m], log[m + 1])
    OBVIOUS
  <2>5. DOMAIN q = 0..(m + 1) /\ q = [n \in 0..(m + 1) |-> q[n]]
    OBVIOUS
  <2> HIDE DEF q
  <2>6. \A n \in 0..(m + 1) : q[n] = IF n = 0 THEN Nothing ELSE Apply(q[n - 1], log[n])
    <3> TAKE n \in 0..(m + 1)
    <3>1. CASE n = m + 1
      <4>1. n # 0 /\ n - 1 = m /\ q[m] = p[m]
        BY <3>1, <2>3
      <4> QED BY <4>1, <2>4, <3>1
    <3>2. CASE n = 0
      <4>1. n \in 0..m
        BY <3>2
      <4> QED BY <4>1, <3>2, <2>2, <2>3
    <3>3. CASE n # 0 /\ n # m + 1
      <4>1. n \in 0..m /\ n - 1 \in 0..m
        BY <3>3
      <4> QED BY <4>1, <3>3, <2>2, <2>3
    <3> QED BY <3>1, <3>2, <3>3
  <2>7. Good(q, m + 1)
    BY <2>5, <2>6, Zenon
  <2> QED BY <2>7
<1>3. T = Nat
  <2> HIDE DEF T
  <2>1. T \subseteq Nat
    BY DEF T
  <2> QED BY <1>1, <1>2, <2>1, SetInduction
<1>4. \E p : Good(p, k)
  BY <1>3
<1> QED BY <1>4, Zenon DEF After

\* The constructor's projections: each from the one before it.
LEMMA ProjectionsStep ==
    ASSUME NEW log \in Seq(OrgEvent)
    PROVE  /\ Projections(log)[0] = Nothing
           /\ \A n \in 1..Len(log) :
                Projections(log)[n] = Apply(Projections(log)[n - 1], log[n])
<1>1. Projections(log) = After(log, Len(log))
  BY Zenon DEF Projections, After, Nothing
<1>2. Len(log) \in Nat
  OBVIOUS
<1> DEFINE p == After(log, Len(log))
<1>3. p = [n \in 0..Len(log) |-> IF n = 0 THEN Nothing ELSE Apply(p[n - 1], log[n])]
  BY <1>2, AfterExists
<1> HIDE DEF p
<1>4. \A n \in 0..Len(log) : p[n] = IF n = 0 THEN Nothing ELSE Apply(p[n - 1], log[n])
  BY <1>3, Zenon
<1>5. p[0] = Nothing
  BY <1>2, <1>4
<1>6. ASSUME NEW n \in 1..Len(log) PROVE p[n] = Apply(p[n - 1], log[n])
  <2>1. n # 0 /\ n \in 0..Len(log)
    BY <1>2
  <2> QED BY <2>1, <1>4
<1> QED BY <1>1, <1>5, <1>6 DEF p

\* Two logs that begin with the same events go through the same projections.
LEMMA SameBeginning ==
    ASSUME NEW s \in Seq(OrgEvent), NEW t \in Seq(OrgEvent),
           NEW k \in Nat, k <= Len(s), k <= Len(t),
           \A i \in 1..k : s[i] = t[i]
    PROVE  \A n \in 0..k : Projections(s)[n] = Projections(t)[n]
<1> DEFINE T == {n \in Nat : n <= k => Projections(s)[n] = Projections(t)[n]}
<1>1. 0 \in T
  BY ProjectionsStep
<1>2. ASSUME NEW n \in T PROVE n + 1 \in T
  <2>1. SUFFICES ASSUME n + 1 <= k
                 PROVE  Projections(s)[n + 1] = Projections(t)[n + 1]
    OBVIOUS
  <2>2. n \in Nat /\ Projections(s)[n] = Projections(t)[n]
    BY <2>1
  <2>3. n + 1 \in 1..k /\ n + 1 \in 1..Len(s) /\ n + 1 \in 1..Len(t) /\ (n + 1) - 1 = n
    BY <2>1, <2>2
  <2>4. Projections(s)[n + 1] = Apply(Projections(s)[n], s[n + 1])
    BY <2>3, ProjectionsStep
  <2>5. Projections(t)[n + 1] = Apply(Projections(t)[n], t[n + 1])
    BY <2>3, ProjectionsStep
  <2> QED BY <2>2, <2>3, <2>4, <2>5
<1>3. T = Nat
  <2> HIDE DEF T
  <2>1. T \subseteq Nat
    BY DEF T
  <2> QED BY <1>1, <1>2, <2>1, SetInduction
<1> QED BY <1>3

\* A prefix of a log replays to the projection at its end.
LEMMA PrefixReplay ==
    ASSUME NEW log \in Seq(OrgEvent), NEW k \in 0..Len(log)
    PROVE  /\ SubSeq(log, 1, k) \in Seq(OrgEvent)
           /\ Len(SubSeq(log, 1, k)) = k
           /\ \A i \in 1..k : SubSeq(log, 1, k)[i] = log[i]
           /\ Replay(SubSeq(log, 1, k)) = Projections(log)[k]
<1> DEFINE s == SubSeq(log, 1, k)
<1>1. s \in Seq(OrgEvent) /\ Len(s) = k /\ \A i \in 1..k : s[i] = log[i]
  BY SubSeqProperties
<1> HIDE DEF s
<1>2. \A n \in 0..k : Projections(s)[n] = Projections(log)[n]
  BY <1>1, SameBeginning
<1>3. k \in 0..k
  OBVIOUS
<1> QED BY <1>1, <1>2, <1>3 DEF Replay, s

\* What an appended event does to a log and its projections.
LEMMA AppendReplay ==
    ASSUME NEW log \in Seq(OrgEvent), NEW e \in OrgEvent
    PROVE  /\ log \o <<e>> \in Seq(OrgEvent)
           /\ Len(log \o <<e>>) = Len(log) + 1
           /\ \A i \in 1..Len(log) : (log \o <<e>>)[i] = log[i]
           /\ (log \o <<e>>)[Len(log) + 1] = e
           /\ \A n \in 0..Len(log) :
                Projections(log \o <<e>>)[n] = Projections(log)[n]
           /\ Replay(log \o <<e>>) = Apply(Replay(log), e)
<1> DEFINE s == log \o <<e>>
<1>0. Len(log) \in Nat /\ <<e>> \in Seq(OrgEvent) /\ Len(<<e>>) = 1 /\ <<e>>[1] = e
  OBVIOUS
<1>1. /\ s \in Seq(OrgEvent) /\ Len(s) = Len(log) + 1
      /\ \A i \in 1..(Len(log) + 1) :
           s[i] = IF i <= Len(log) THEN log[i] ELSE <<e>>[i - Len(log)]
  BY <1>0, ConcatProperties
<1>2. \A i \in 1..Len(log) : s[i] = log[i]
  BY <1>0, <1>1
<1>3. s[Len(log) + 1] = e
  BY <1>0, <1>1
<1> HIDE DEF s
<1>4. \A n \in 0..Len(log) : Projections(s)[n] = Projections(log)[n]
  <2>1. Len(log) <= Len(s) /\ Len(log) <= Len(log)
    BY <1>0, <1>1
  <2> QED BY <1>0, <1>1, <1>2, <2>1, SameBeginning
<1>5. Replay(s) = Apply(Replay(log), e)
  <2>1. /\ Len(s) \in 1..Len(s) /\ Len(s) - 1 = Len(log)
        /\ Len(log) \in 0..Len(log)
    BY <1>0, <1>1
  <2>2. Projections(s)[Len(s)] = Apply(Projections(s)[Len(log)], s[Len(s)])
    BY <1>1, <2>1, ProjectionsStep
  <2> QED BY <1>1, <1>3, <1>4, <2>1, <2>2 DEF Replay
<1> QED BY <1>1, <1>2, <1>3, <1>4, <1>5 DEF s

\* The actions somebody may use on a task, and the controls they set.
LEMMA ControlType ==
    /\ DOMAIN Control = {"pause", "resume", "revoke", "takeover", "revision"}
    /\ Actions \subseteq DOMAIN Control
<1>1. DOMAIN Control = {"pause", "resume", "revoke", "takeover", "revision"}
  BY DEF Control
<1> HIDE DEF Control
<1> QED BY <1>1, OrgAssumption, Zenon

\* The kinds of the events that apply acts on.
Kinds == EventKind \ {"delegation.revoke_duplicate", "network"}

\* What apply does, one kind of event at a time.
LEMMA EffectCases ==
    ASSUME NEW o, NEW e
    PROVE  /\ e.kind = "task.proposed" =>
                Effect(o, e) = [o EXCEPT !.owners[e.task] = e.actor]
           /\ e.kind = "org.member_added" =>
                Effect(o, e) = [o EXCEPT !.members[e.member] = e.role]
           /\ e.kind = "org.member_removed" =>
                Effect(o, e) \in {o, [o EXCEPT !.members[e.member] = "removed"]}
           /\ e.kind = "delegation.granted" =>
                Effect(o, e) = [o EXCEPT !.delegations[e.ref] =
                                 [grantee |-> e.member, revoked |-> FALSE]]
           /\ e.kind = "delegation.revoked" =>
                Effect(o, e) \in {o, [o EXCEPT !.delegations[e.ref].revoked = TRUE]}
           /\ e.kind = "task.approval_requested" =>
                Effect(o, e) = [o EXCEPT !.approvals[e.ref] =
                                 [task |-> e.task, status |-> "pending"]]
           /\ e.kind \in Decided /\ o.approvals[e.ref].status # "none" =>
                Effect(o, e) = [o EXCEPT !.approvals[e.ref].status = e.kind]
           /\ e.kind \in Decided /\ o.approvals[e.ref].status = "none" =>
                Effect(o, e) = o
           /\ e.kind \in DOMAIN Control =>
                Effect(o, e) = [o EXCEPT !.controls[e.task] = Control[e.kind]]
           /\ e.kind \notin Kinds => Effect(o, e) = o
BY ControlType, Zenon DEF Effect, Kinds, EventKind, Decided

\* ... keeps an organization well-formed.
LEMMA EffectType ==
    ASSUME NEW o \in Organization, NEW e \in OrgEvent
    PROVE  Effect(o, e) \in Organization
<1> DEFINE status == {"none", "pending"} \cup Decided
           role == {"none", "removed", "member", "admin", "owner"}
           set == {"none"} \cup {Control[a] : a \in DOMAIN Control}
           entry == [grantee : Identity \cup {NoOne}, revoked : BOOLEAN]
           approval == [task : Task \cup {NoOne}, status : status]
<1>1. /\ e.actor \in Identity /\ e.member \in Identity \cup {NoOne}
      /\ e.task \in Task \cup {NoOne}
      /\ e.kind = "org.member_added" => e.role \in role
  BY DEF OrgEvent
<1>2. Organization = [members : [Identity -> role], delegations : [Ids -> entry],
                      approvals : [Ids -> approval], controls : [Task -> set],
                      owners : [Task -> Identity \cup {NoOne}]]
  BY DEF Organization
<1> HIDE DEF set, entry, approval, role
<1>3. /\ \A f \in [Identity -> role] : [o EXCEPT !.members = f] \in Organization
      /\ \A f \in [Ids -> entry] : [o EXCEPT !.delegations = f] \in Organization
      /\ \A f \in [Ids -> approval] : [o EXCEPT !.approvals = f] \in Organization
      /\ \A f \in [Task -> set] : [o EXCEPT !.controls = f] \in Organization
      /\ \A f \in [Task -> Identity \cup {NoOne}] : [o EXCEPT !.owners = f] \in Organization
  BY <1>2
<1>4. /\ o.members \in [Identity -> role] /\ o.delegations \in [Ids -> entry]
      /\ o.approvals \in [Ids -> approval] /\ o.controls \in [Task -> set]
      /\ o.owners \in [Task -> Identity \cup {NoOne}]
  BY <1>2
<1>5. CASE e.kind = "task.proposed"
  <2>1. [o.owners EXCEPT ![e.task] = e.actor] \in [Task -> Identity \cup {NoOne}]
    BY <1>1, <1>4
  <2>2. Effect(o, e) = [o EXCEPT !.owners = [o.owners EXCEPT ![e.task] = e.actor]]
    <3>1. Effect(o, e) = [o EXCEPT !.owners[e.task] = e.actor]
      BY <1>5 DEF Effect, Decided, Control
    <3> QED BY <3>1
  <2> QED BY <2>1, <2>2, <1>3
<1>6. CASE e.kind = "org.member_added"
  <2>1. [o.members EXCEPT ![e.member] = e.role] \in [Identity -> role]
    BY <1>1, <1>4, <1>6
  <2>2. Effect(o, e) = [o EXCEPT !.members = [o.members EXCEPT ![e.member] = e.role]]
    <3>1. Effect(o, e) = [o EXCEPT !.members[e.member] = e.role]
      BY <1>6 DEF Effect, Decided, Control
    <3> QED BY <3>1
  <2> QED BY <2>1, <2>2, <1>3
<1>7. CASE e.kind = "org.member_removed"
  <2>1. [o.members EXCEPT ![e.member] = "removed"] \in [Identity -> role]
    BY <1>4 DEF role
  <2>2. Effect(o, e) \in {o, [o EXCEPT !.members = [o.members EXCEPT ![e.member] = "removed"]]}
    BY <1>7, EffectCases
  <2> QED BY <2>1, <2>2, <1>3
<1>8. CASE e.kind = "delegation.granted"
  <2> DEFINE d == [grantee |-> e.member, revoked |-> FALSE]
  <2>1. d \in entry
    BY <1>1 DEF entry
  <2>2. Effect(o, e) = [o EXCEPT !.delegations = [o.delegations EXCEPT ![e.ref] = d]]
    <3>1. Effect(o, e) = [o EXCEPT !.delegations[e.ref] = d]
      BY <1>8 DEF Effect, Decided, Control
    <3> QED BY <3>1
  <2> HIDE DEF d
  <2>3. [o.delegations EXCEPT ![e.ref] = d] \in [Ids -> entry]
    BY <2>1, <1>4
  <2> QED BY <2>2, <2>3, <1>3
<1>9. CASE e.kind = "delegation.revoked"
  <2>1. [o.delegations EXCEPT ![e.ref].revoked = TRUE] \in [Ids -> entry]
    BY <1>4 DEF entry
  <2>2. Effect(o, e) \in
          {o, [o EXCEPT !.delegations = [o.delegations EXCEPT ![e.ref].revoked = TRUE]]}
    BY <1>9, EffectCases
  <2> QED BY <2>1, <2>2, <1>3
<1>10. CASE e.kind = "task.approval_requested"
  <2> DEFINE d == [task |-> e.task, status |-> "pending"]
  <2>1. d \in approval
    BY <1>1 DEF approval
  <2>2. Effect(o, e) = [o EXCEPT !.approvals = [o.approvals EXCEPT ![e.ref] = d]]
    BY <1>10 DEF Effect, Decided, Control
  <2> HIDE DEF d
  <2>3. [o.approvals EXCEPT ![e.ref] = d] \in [Ids -> approval]
    BY <2>1, <1>4
  <2> QED BY <2>2, <2>3, <1>3
<1>11. CASE e.kind \in Decided
  <2>1. [o.approvals EXCEPT ![e.ref].status = e.kind] \in [Ids -> approval]
    BY <1>4, <1>11 DEF approval
  <2>2. Effect(o, e) \in
          {o, [o EXCEPT !.approvals = [o.approvals EXCEPT ![e.ref].status = e.kind]]}
    BY <1>11 DEF Effect, Decided, Control
  <2> QED BY <2>1, <2>2, <1>3
<1>12. CASE e.kind \in DOMAIN Control
  <2>1. Control[e.kind] \in set
    BY <1>12 DEF set
  <2>2. [o.controls EXCEPT ![e.task] = Control[e.kind]] \in [Task -> set]
    BY <2>1, <1>4
  <2>3. Effect(o, e) = [o EXCEPT !.controls = [o.controls EXCEPT ![e.task] = Control[e.kind]]]
    BY <1>12 DEF Effect, Decided, Control
  <2> QED BY <2>2, <2>3, <1>3
<1>13. CASE e.kind \notin Kinds
  BY <1>13, EffectCases
<1> QED
  BY <1>5, <1>6, <1>7, <1>8, <1>9, <1>10, <1>11, <1>12, <1>13
  DEF Kinds, EventKind

LEMMA NewOrgType == NewOrg \in Organization
BY OrgAssumption DEF NewOrg, Organization

\* What the coordinator derives from the log.
ProjectionType == [org : Organization, applied : SUBSET EventId]

LEMMA NothingType == Nothing \in ProjectionType
BY NewOrgType DEF Nothing, ProjectionType

LEMMA IdType == ASSUME NEW e \in OrgEvent PROVE Id(e) \in EventId
<1>1. e.by \in Identity \cup Task /\ e.n \in 0..MaxSequence
  BY DEF OrgEvent
<1>2. Source(e) \in {"event", "network-event", "org-event"}
  BY DEF Source
<1> QED BY <1>1, <1>2 DEF Id, EventId

\* apply, by what it finds: an event it drops, or one it takes.
LEMMA ApplyCases ==
    ASSUME NEW p \in ProjectionType, NEW e \in OrgEvent
    PROVE  /\ Id(e) \in p.applied \/ e.kind = "network" => Apply(p, e) = p
           /\ Id(e) \notin p.applied /\ e.kind # "network" =>
                /\ Apply(p, e).org = Effect(p.org, e)
                /\ Apply(p, e).applied = p.applied \cup {Id(e)}
           /\ Apply(p, e) \in ProjectionType
<1> DEFINE q == [org |-> Effect(p.org, e), applied |-> p.applied \cup {Id(e)}]
<1>0. p.org \in Organization /\ p.applied \subseteq EventId
  BY DEF ProjectionType
<1>1. Effect(p.org, e) \in Organization
  BY <1>0, EffectType
<1>2. p.applied \cup {Id(e)} \in SUBSET EventId
  BY <1>0, IdType
<1>3. q \in ProjectionType
  BY <1>1, <1>2 DEF ProjectionType
<1>4. Apply(p, e) = IF Id(e) \in p.applied \/ e.kind = "network" THEN p ELSE q
  BY Zenon DEF Apply
<1>5. q.org = Effect(p.org, e) /\ q.applied = p.applied \cup {Id(e)}
  OBVIOUS
<1> HIDE DEF q
<1> QED BY <1>3, <1>4, <1>5

\* Applying an event again changes nothing.
LEMMA ApplyAgain ==
    ASSUME NEW p \in ProjectionType, NEW e \in OrgEvent
    PROVE  Apply(Apply(p, e), e) = Apply(p, e)
<1>1. CASE Id(e) \in p.applied \/ e.kind = "network"
  BY <1>1, ApplyCases
<1>2. CASE Id(e) \notin p.applied /\ e.kind # "network"
  <2> DEFINE q == Apply(p, e)
  <2>1. q \in ProjectionType /\ q.applied = p.applied \cup {Id(e)}
    BY <1>2, ApplyCases
  <2> HIDE DEF q
  <2>2. Apply(q, e) = q
    BY <2>1, ApplyCases
  <2> QED BY <2>2 DEF q
<1> QED BY <1>1, <1>2

\* Every projection the constructor goes through is well-formed.
LEMMA ProjectionsType ==
    ASSUME NEW log \in Seq(OrgEvent)
    PROVE  \A n \in 0..Len(log) : Projections(log)[n] \in ProjectionType
<1> DEFINE T == {n \in Nat : n <= Len(log) => Projections(log)[n] \in ProjectionType}
<1>1. 0 \in T
  BY ProjectionsStep, NothingType
<1>2. ASSUME NEW n \in T PROVE n + 1 \in T
  <2>1. SUFFICES ASSUME n + 1 <= Len(log)
                 PROVE  Projections(log)[n + 1] \in ProjectionType
    OBVIOUS
  <2>2. n \in Nat /\ Len(log) \in Nat
    OBVIOUS
  <2>3. Projections(log)[n] \in ProjectionType
    BY <2>1, <2>2
  <2>4. n + 1 \in 1..Len(log) /\ (n + 1) - 1 = n
    BY <2>1, <2>2
  <2>5. log[n + 1] \in OrgEvent
    BY <2>4
  <2>6. Projections(log)[n + 1] = Apply(Projections(log)[n], log[n + 1])
    BY <2>4, ProjectionsStep
  <2> QED BY <2>3, <2>5, <2>6, ApplyCases
<1>3. T = Nat
  <2> HIDE DEF T
  <2>1. T \subseteq Nat
    BY DEF T
  <2> QED BY <1>1, <1>2, <2>1, SetInduction
<1> QED BY <1>3

LEMMA ReplayType ==
    ASSUME NEW log \in Seq(OrgEvent)
    PROVE  Replay(log) \in ProjectionType
<1>1. Len(log) \in 0..Len(log)
  OBVIOUS
<1> QED BY <1>1, ProjectionsType DEF Replay

-----------------------------------------------------------------------------
(***************************************************************************)
(* appliedEventIds after a replay: the ids of the events of the log that   *)
(* are the organization's, whatever else the log holds.                    *)
(***************************************************************************)
HasIds(log, n, ids) ==
    /\ \A id \in ids : \E i \in 1..n : Id(log[i]) = id
    /\ \A i \in 1..n : log[i].kind # "network" => Id(log[i]) \in ids

LEMMA AppliedIds ==
    ASSUME NEW log \in Seq(OrgEvent)
    PROVE  \A n \in 0..Len(log) : HasIds(log, n, Projections(log)[n].applied)
<1> DEFINE T == {n \in Nat : n <= Len(log) => HasIds(log, n, Projections(log)[n].applied)}
<1>1. 0 \in T
  <2>1. Projections(log)[0].applied = {}
    BY ProjectionsStep DEF Nothing
  <2> QED BY <2>1 DEF HasIds
<1>2. ASSUME NEW n \in T PROVE n + 1 \in T
  <2>1. SUFFICES ASSUME n + 1 <= Len(log)
                 PROVE  HasIds(log, n + 1, Projections(log)[n + 1].applied)
    OBVIOUS
  <2>2. /\ n \in Nat /\ Len(log) \in Nat /\ n \in 0..Len(log)
        /\ n + 1 \in 1..Len(log) /\ (n + 1) - 1 = n
    BY <2>1
  <2> DEFINE p == Projections(log)[n]
             e == log[n + 1]
  <2>3. HasIds(log, n, p.applied)
    BY <2>2
  <2>4. Projections(log)[n + 1] = Apply(p, e)
    BY <2>2, ProjectionsStep
  <2>5. p \in ProjectionType /\ e \in OrgEvent
    BY <2>2, ProjectionsType
  <2>6. 1..(n + 1) = 1..n \cup {n + 1}
    BY <2>2
  <2>7. log[n + 1] = e
    OBVIOUS
  <2> HIDE DEF p, e
  <2>8. CASE Id(e) \in p.applied \/ e.kind = "network"
    <3>1. Apply(p, e) = p
      BY <2>5, <2>8, ApplyCases
    <3> QED BY <2>3, <2>4, <2>6, <2>7, <2>8, <3>1 DEF HasIds
  <2>9. CASE Id(e) \notin p.applied /\ e.kind # "network"
    <3>1. Apply(p, e).applied = p.applied \cup {Id(e)}
      BY <2>5, <2>9, ApplyCases
    <3> QED BY <2>3, <2>4, <2>6, <2>7, <3>1 DEF HasIds
  <2> QED BY <2>8, <2>9
<1>3. T = Nat
  <2> HIDE DEF T
  <2>1. T \subseteq Nat
    BY DEF T
  <2> QED BY <1>1, <1>2, <2>1, SetInduction
<1> QED BY <1>3

\* A log without two events of one id.
DistinctIds(log) == \A i, j \in 1..Len(log) : Id(log[i]) = Id(log[j]) => i = j

\* In such a log no event is dropped as a duplicate.
LEMMA NotApplied ==
    ASSUME NEW log \in Seq(OrgEvent), DistinctIds(log), NEW n \in 1..Len(log)
    PROVE  Id(log[n]) \notin Projections(log)[n - 1].applied
<1>1. n - 1 \in 0..Len(log)
  OBVIOUS
<1>2. HasIds(log, n - 1, Projections(log)[n - 1].applied)
  BY <1>1, AppliedIds
<1>3. ASSUME NEW i \in 1..(n - 1) PROVE Id(log[i]) # Id(log[n])
  <2>1. i \in 1..Len(log) /\ i # n
    OBVIOUS
  <2> QED BY <2>1 DEF DistinctIds
<1> QED BY <1>2, <1>3 DEF HasIds

LEMMA DistinctPrefix ==
    ASSUME NEW log \in Seq(OrgEvent), NEW k \in 0..Len(log), DistinctIds(log)
    PROVE  DistinctIds(SubSeq(log, 1, k))
<1> DEFINE s == SubSeq(log, 1, k)
<1>1. Len(s) = k /\ \A i \in 1..k : s[i] = log[i]
  BY PrefixReplay
<1>2. \A i \in 1..k : i \in 1..Len(log)
  OBVIOUS
<1> HIDE DEF s
<1>3. DistinctIds(s)
  BY <1>1, <1>2 DEF DistinctIds
<1> QED BY <1>3 DEF s

LEMMA DistinctAppend ==
    ASSUME NEW log \in Seq(OrgEvent), NEW e \in OrgEvent, DistinctIds(log),
           \A i \in 1..Len(log) : Id(log[i]) # Id(e)
    PROVE  DistinctIds(log \o <<e>>)
<1> DEFINE s == log \o <<e>>
<1>1. /\ Len(s) = Len(log) + 1
      /\ \A i \in 1..Len(log) : s[i] = log[i]
      /\ s[Len(log) + 1] = e
  BY AppendReplay
<1>2. Len(log) \in Nat /\ 1..(Len(log) + 1) = 1..Len(log) \cup {Len(log) + 1}
  OBVIOUS
<1> HIDE DEF s
<1>3. DistinctIds(s)
  BY <1>1, <1>2 DEF DistinctIds
<1> QED BY <1>3 DEF s

-----------------------------------------------------------------------------
(***************************************************************************)
(* A log that authorizes itself.                                           *)
(***************************************************************************)
ManagersOnly ==
    {"org.member_added", "org.member_removed", "delegation.granted", "delegation.revoked"}
      \cup Decided

\* The organization o lets the actor of e do what e says.
Admits(o, e) ==
    /\ e.kind \in ManagersOnly => o.members[e.actor] \in Managers
    /\ e.kind = "task.approval_requested" =>
         o.members[e.actor] \in Managers \cup {"member"}

Authorized(log) == \A n \in 1..Len(log) : Admits(Projections(log)[n - 1].org, log[n])

\* This is what LogIsAuthorized says of the log in memory.
LEMMA AuthorizedLog ==
    ASSUME events \in Seq(OrgEvent)
    PROVE  LogIsAuthorized <=> gap \/ Authorized(events)
<1>1. ASSUME NEW n \in 1..Len(events)
      PROVE  Replay(Before(n)) = Projections(events)[n - 1]
  <2>1. n - 1 \in 0..Len(events)
    OBVIOUS
  <2> QED BY <2>1, PrefixReplay DEF Before
<1>2. DOMAIN events = 1..Len(events)
  OBVIOUS
<1> QED BY <1>1, <1>2 DEF LogIsAuthorized, Authorized, Admits, ManagersOnly

LEMMA AuthorizedPrefix ==
    ASSUME NEW log \in Seq(OrgEvent), NEW k \in 0..Len(log), Authorized(log)
    PROVE  Authorized(SubSeq(log, 1, k))
<1> DEFINE s == SubSeq(log, 1, k)
<1>1. s \in Seq(OrgEvent) /\ Len(s) = k /\ \A i \in 1..k : s[i] = log[i]
  BY PrefixReplay
<1> HIDE DEF s
<1>2. \A n \in 0..k : Projections(s)[n] = Projections(log)[n]
  BY <1>1, SameBeginning
<1>3. ASSUME NEW n \in 1..k PROVE Admits(Projections(s)[n - 1].org, s[n])
  <2>1. n - 1 \in 0..k /\ n \in 1..Len(log)
    OBVIOUS
  <2>2. Admits(Projections(log)[n - 1].org, log[n])
    BY <2>1 DEF Authorized
  <2> QED BY <1>1, <1>2, <2>1, <2>2
<1> QED BY <1>1, <1>3 DEF Authorized, s

LEMMA AuthorizedAppend ==
    ASSUME NEW log \in Seq(OrgEvent), NEW e \in OrgEvent,
           Authorized(log), Admits(Replay(log).org, e)
    PROVE  Authorized(log \o <<e>>)
<1> DEFINE s == log \o <<e>>
<1>1. /\ Len(s) = Len(log) + 1
      /\ \A i \in 1..Len(log) : s[i] = log[i]
      /\ s[Len(log) + 1] = e
      /\ \A n \in 0..Len(log) : Projections(s)[n] = Projections(log)[n]
  BY AppendReplay
<1> HIDE DEF s
<1>2. Len(log) \in Nat
  OBVIOUS
<1>3. ASSUME NEW n \in 1..Len(s) PROVE Admits(Projections(s)[n - 1].org, s[n])
  <2>1. CASE n = Len(log) + 1
    <3>1. n - 1 = Len(log) /\ Len(log) \in 0..Len(log)
      BY <1>2, <2>1
    <3>2. Projections(s)[n - 1] = Replay(log)
      BY <1>1, <3>1 DEF Replay
    <3> QED BY <1>1, <2>1, <3>2
  <2>2. CASE n # Len(log) + 1
    <3>1. n \in 1..Len(log) /\ n - 1 \in 0..Len(log)
      BY <1>1, <1>2, <2>2
    <3>2. Admits(Projections(log)[n - 1].org, log[n])
      BY <3>1 DEF Authorized
    <3> QED BY <1>1, <3>1, <3>2
  <2> QED BY <2>1, <2>2
<1> QED BY <1>3 DEF Authorized, s

-----------------------------------------------------------------------------
(***************************************************************************)
(* A log in which nobody decides a request twice.                          *)
(***************************************************************************)
Decides(e, r) == e.kind \in Decided /\ e.ref = r
Requests(e, r) == e.kind = "task.approval_requested" /\ e.ref = r

DecidesOnce(log) ==
    \A m, n \in 1..Len(log) :
      m < n /\ Decides(log[m], log[n].ref) /\ log[n].kind \in Decided
        => \E k \in m..n : Requests(log[k], log[n].ref)

LEMMA DecidesOnceLog ==
    ASSUME events \in Seq(OrgEvent)
    PROVE  DecidedOnce <=> gap \/ DecidesOnce(events)
<1>1. DOMAIN events = 1..Len(events)
  OBVIOUS
<1> QED BY <1>1 DEF DecidedOnce, DecidesOnce, Decides, Requests

\* What an event does to the status of an approval.
LEMMA EffectStatus ==
    ASSUME NEW o \in Organization, NEW e \in OrgEvent, NEW r \in Ids,
           Effect(o, e).approvals[r].status = "pending", ~Requests(e, r)
    PROVE  o.approvals[r].status = "pending" /\ ~Decides(e, r)
<1>0. o.approvals \in [Ids -> [task : Task \cup {NoOne}, status : {"none", "pending"} \cup Decided]]
  BY DEF Organization
<1>d. "approvals" \in DOMAIN o
  BY DEF Organization
<1>1. CASE e.kind = "task.approval_requested"
  <2>1. e.ref # r
    BY <1>1 DEF Requests
  <2>2. Effect(o, e).approvals = [o.approvals EXCEPT ![e.ref] =
                                   [task |-> e.task, status |-> "pending"]]
    BY <1>1, <1>d DEF Effect, Decided, Control
  <2>3. Effect(o, e).approvals[r] = o.approvals[r]
    BY <1>0, <2>1, <2>2
  <2>4. e.kind \notin Decided
    BY <1>1 DEF Decided
  <2> QED BY <2>3, <2>4 DEF Decides
<1>2. CASE e.kind \in Decided /\ e.ref = r /\ o.approvals[r].status # "none"
  <2>1. Effect(o, e).approvals = [o.approvals EXCEPT ![e.ref].status = e.kind]
    BY <1>2, <1>d DEF Effect, Decided, Control
  <2>2. Effect(o, e).approvals[r].status = e.kind
    BY <1>0, <1>2, <2>1
  <2> QED BY <1>2, <2>2 DEF Decided
<1>3. CASE e.kind \in Decided /\ e.ref = r /\ o.approvals[r].status = "none"
  BY <1>3, EffectCases
<1>4. CASE e.kind \in Decided /\ e.ref # r
  <2>1. Effect(o, e).approvals \in {o.approvals, [o.approvals EXCEPT ![e.ref].status = e.kind]}
    BY <1>4, <1>d DEF Effect, Decided, Control
  <2>2. Effect(o, e).approvals[r] = o.approvals[r]
    BY <1>0, <1>4, <2>1
  <2> QED BY <1>4, <2>2 DEF Decides
<1>5. CASE e.kind \notin Decided \cup {"task.approval_requested"}
  <2>1. Effect(o, e).approvals = o.approvals
    BY <1>5 DEF Effect, Decided
  <2> QED BY <1>5, <2>1 DEF Decides
<1> QED BY <1>1, <1>2, <1>3, <1>4, <1>5

LEMMA ApplyStatus ==
    ASSUME NEW p \in ProjectionType, NEW e \in OrgEvent, NEW r \in Ids,
           Id(e) \notin p.applied,
           Apply(p, e).org.approvals[r].status = "pending", ~Requests(e, r)
    PROVE  p.org.approvals[r].status = "pending" /\ ~Decides(e, r)
<1>1. CASE e.kind = "network"
  <2>1. Apply(p, e) = p
    BY <1>1, ApplyCases
  <2>2. e.kind \notin Decided
    BY <1>1 DEF Decided
  <2> QED BY <2>1, <2>2 DEF Decides
<1>2. CASE e.kind # "network"
  <2>1. Apply(p, e).org = Effect(p.org, e)
    BY <1>2, ApplyCases
  <2>2. p.org \in Organization
    BY DEF ProjectionType
  <2> QED BY <2>1, <2>2, EffectStatus
<1> QED BY <1>1, <1>2

\* As long as a request is pending, every decision about it in the log is
\* older than some request of that id.
LEMMA PendingSinceRequest ==
    ASSUME NEW log \in Seq(OrgEvent), NEW r \in Ids, DistinctIds(log),
           Replay(log).org.approvals[r].status = "pending",
           NEW m \in 1..Len(log), Decides(log[m], r)
    PROVE  \E k \in m..Len(log) : Requests(log[k], r)
<1> DEFINE Settled(n) == \A i \in 1..n : Decides(log[i], r) =>
                           \E k \in i..n : Requests(log[k], r)
           T == {n \in Nat : n <= Len(log)
                               /\ Projections(log)[n].org.approvals[r].status = "pending"
                             => Settled(n)}
<1>1. 0 \in T
  OBVIOUS
<1>2. ASSUME NEW n \in T PROVE n + 1 \in T
  <2>1. SUFFICES ASSUME n + 1 <= Len(log),
                        Projections(log)[n + 1].org.approvals[r].status = "pending"
                 PROVE  Settled(n + 1)
    OBVIOUS
  <2>2. /\ n \in Nat /\ Len(log) \in Nat /\ n \in 0..Len(log)
        /\ n + 1 \in 1..Len(log) /\ (n + 1) - 1 = n
    BY <2>1, SMTT(30)
  <2>3. CASE Requests(log[n + 1], r)
    <3>1. \A i \in 1..(n + 1) : n + 1 \in i..(n + 1)
      BY <2>2
    <3> QED BY <2>3, <3>1
  <2>4. CASE ~Requests(log[n + 1], r)
    <3>1. Projections(log)[n + 1] = Apply(Projections(log)[n], log[n + 1])
      BY <2>2, ProjectionsStep
    <3>2. Projections(log)[n] \in ProjectionType /\ log[n + 1] \in OrgEvent
      BY <2>2, ProjectionsType
    <3>a. Id(log[n + 1]) \notin Projections(log)[n].applied
      BY <2>2, NotApplied
    <3>3. /\ Projections(log)[n].org.approvals[r].status = "pending"
          /\ ~Decides(log[n + 1], r)
      BY <2>1, <2>4, <3>1, <3>2, <3>a, ApplyStatus
    <3>4. Settled(n)
      <4>1. n <= Len(log) /\ Projections(log)[n].org.approvals[r].status = "pending"
        BY <2>2, <3>3
      <4>2. n <= Len(log) /\ Projections(log)[n].org.approvals[r].status = "pending"
              => Settled(n)
        BY Zenon
      <4> QED BY <4>1, <4>2, Zenon
    <3>5. ASSUME NEW i \in 1..(n + 1), Decides(log[i], r)
          PROVE  \E k \in i..(n + 1) : Requests(log[k], r)
      <4>1. i \in 1..n
        BY <2>2, <3>3, <3>5
      <4>2. PICK k \in i..n : Requests(log[k], r)
        BY <3>4, <3>5, <4>1
      <4> QED BY <2>2, <4>2
    <3> QED BY <3>5
  <2> QED BY <2>3, <2>4
<1>3. T = Nat
  <2> HIDE DEF T
  <2>1. T \subseteq Nat
    BY DEF T
  <2> QED BY <1>1, <1>2, <2>1, SetInduction
<1>4. Len(log) \in T
  <2>1. Len(log) \in Nat
    OBVIOUS
  <2> QED BY <1>3, <2>1
<1>5. Settled(Len(log))
  BY <1>4 DEF Replay
<1> QED BY <1>5

LEMMA DecidesOncePrefix ==
    ASSUME NEW log \in Seq(OrgEvent), NEW k \in 0..Len(log), DecidesOnce(log)
    PROVE  DecidesOnce(SubSeq(log, 1, k))
<1> DEFINE s == SubSeq(log, 1, k)
<1>1. s \in Seq(OrgEvent) /\ Len(s) = k /\ \A i \in 1..k : s[i] = log[i]
  BY PrefixReplay
<1> HIDE DEF s
<1>2. ASSUME NEW m \in 1..k, NEW n \in 1..k,
             m < n, Decides(s[m], s[n].ref), s[n].kind \in Decided
      PROVE  \E i \in m..n : Requests(s[i], s[n].ref)
  <2>1. m \in 1..Len(log) /\ n \in 1..Len(log) /\ s[m] = log[m] /\ s[n] = log[n]
    BY <1>1
  <2>2. PICK i \in m..n : Requests(log[i], log[n].ref)
    BY <1>2, <2>1 DEF DecidesOnce
  <2>3. i \in 1..k
    OBVIOUS
  <2> QED BY <1>1, <2>1, <2>2, <2>3
<1> QED BY <1>1, <1>2 DEF DecidesOnce, s

LEMMA DecidesOnceAppend ==
    ASSUME NEW log \in Seq(OrgEvent), NEW e \in OrgEvent, DecidesOnce(log), DistinctIds(log),
           e.kind \in Decided =>
             e.ref \in Ids /\ Replay(log).org.approvals[e.ref].status = "pending"
    PROVE  DecidesOnce(log \o <<e>>)
<1> DEFINE s == log \o <<e>>
<1>1. /\ Len(s) = Len(log) + 1
      /\ \A i \in 1..Len(log) : s[i] = log[i]
      /\ s[Len(log) + 1] = e
  BY AppendReplay
<1> HIDE DEF s
<1>2. Len(log) \in Nat
  OBVIOUS
<1>3. ASSUME NEW m \in 1..Len(s), NEW n \in 1..Len(s),
             m < n, Decides(s[m], s[n].ref), s[n].kind \in Decided
      PROVE  \E i \in m..n : Requests(s[i], s[n].ref)
  <2>0. m \in 1..Len(log) /\ s[m] = log[m]
    BY <1>1, <1>2, <1>3
  <2>1. CASE n = Len(log) + 1
    <3>1. s[n] = e /\ e.kind \in Decided /\ Decides(log[m], e.ref)
      BY <1>1, <1>3, <2>0, <2>1
    <3>2. PICK i \in m..Len(log) : Requests(log[i], e.ref)
      BY <2>0, <3>1, PendingSinceRequest
    <3>3. i \in m..n /\ i \in 1..Len(log)
      BY <1>2, <2>0, <2>1
    <3> QED BY <1>1, <3>1, <3>2, <3>3
  <2>2. CASE n # Len(log) + 1
    <3>1. n \in 1..Len(log)
      BY <1>1, <1>2, <2>2
    <3>2. s[n] = log[n]
      BY <1>1, <3>1
    <3>3. PICK i \in m..n : Requests(log[i], log[n].ref)
      BY <1>3, <2>0, <3>1, <3>2 DEF DecidesOnce
    <3>4. i \in 1..Len(log)
      BY <1>2, <2>0, <3>1
    <3> QED BY <1>1, <3>2, <3>3, <3>4
  <2> QED BY <2>1, <2>2
<1> QED BY <1>3 DEF DecidesOnce, s

-----------------------------------------------------------------------------
\* Without a gap the disk and the lines to be written are what memory has.
NothingMissing == gap \/ events = disk \o unwritten

IndInv ==
    /\ TypeOK
    /\ NothingMissing
    /\ ProjectionIsReplay
    /\ gap \/ DistinctIds(events)
    /\ gap \/ Authorized(events)
    /\ gap \/ DecidesOnce(events)

LEMMA InitIndInv == Init => IndInv
<1> SUFFICES ASSUME Init PROVE IndInv
  OBVIOUS
<1>0. /\ org = NewOrg /\ applied = {} /\ sequence = 0 /\ gap = FALSE
      /\ events = <<>> /\ unwritten = <<>> /\ disk = <<>>
  BY Zenon DEF Init, Log!LogInit
<1>1. <<>> \in Seq(OrgEvent) /\ Len(<<>>) = 0
  OBVIOUS
<1>2. TypeOK
  <2>1. org \in Organization
    BY <1>0, NewOrgType
  <2>2. sequence \in 0..MaxSequence /\ applied \subseteq EventId
    BY <1>0, OrgAssumption
  <2>4. gap \in BOOLEAN
    BY <1>0, Zenon
  <2>3. Log!LogTypeOK
    BY <1>0, <1>1 DEF Log!LogTypeOK
  <2> QED BY <2>1, <2>2, <2>3, <2>4 DEF TypeOK
<1>3. NothingMissing
  BY <1>0, <1>1, ConcatEmptySeq DEF NothingMissing
<1>4. ProjectionIsReplay
  BY <1>0, <1>1, ProjectionsStep DEF ProjectionIsReplay, Projection, Replay, Nothing
<1>5. DistinctIds(events) /\ Authorized(events) /\ DecidesOnce(events)
  BY <1>0, <1>1 DEF DistinctIds, Authorized, DecidesOnce
<1> QED BY <1>2, <1>3, <1>4, <1>5 DEF IndInv

\* What the two duplicate checks have in common: an event the log drops is
\* one that apply drops, as its id is among the applied ones or its kind is
\* not the coordinator's.
LEMMA ChecksAgree ==
    ASSUME TypeOK, ProjectionIsReplay, NEW e \in OrgEvent, Dropped(e)
    PROVE  Apply(Projection, e) = Projection
<1>0. events \in Seq(OrgEvent) /\ Len(events) \in 0..Len(events)
        /\ DOMAIN events = 1..Len(events)
  BY DEF TypeOK, Log!LogTypeOK
<1>1. Projection = Replay(events) /\ Projection \in ProjectionType
  BY <1>0, ReplayType DEF ProjectionIsReplay
<1>2. HasIds(events, Len(events), Projection.applied)
  BY <1>0, <1>1, AppliedIds DEF Replay
<1>3. PICK n \in 1..Len(events) : Id(events[n]) = Id(e)
  <2>1. ASSUME NEW f \in OrgEvent, Nonce(f) = Nonce(e) PROVE Id(f) = Id(e)
    BY <2>1 DEF Nonce, Id, Source
  <2>2. \A n \in 1..Len(events) : events[n] \in OrgEvent
    BY <1>0
  <2> QED BY <1>0, <2>1, <2>2 DEF Dropped
<1>4. CASE e.kind = "network"
  BY <1>1, <1>4, ApplyCases
<1>5. CASE e.kind # "network"
  <2>1. Source(e) # "network-event"
    BY <1>5 DEF Source
  <2>2. events[n].kind # "network"
    BY <1>3, <2>1 DEF Id, Source
  <2>3. Id(e) \in Projection.applied
    BY <1>2, <1>3, <2>2 DEF HasIds
  <2> QED BY <1>1, <2>3, ApplyCases
<1> QED BY <1>4, <1>5

\* What an action must see to before it appends an event, applied or not.
LEMMA RecordStep ==
    ASSUME IndInv, NEW e \in OrgEvent, Record(e) \/ Emit(e), UNCHANGED gap,
           sequence' \in 0..MaxSequence,
           Admits(org, e),
           e.kind \in Decided => e.ref \in Ids /\ org.approvals[e.ref].status = "pending"
    PROVE  IndInv'
<1> USE DEF TypeOK, Log!LogTypeOK
<1>0. TypeOK /\ NothingMissing /\ ProjectionIsReplay
  BY DEF IndInv
<1>t. events \in Seq(OrgEvent) /\ unwritten \in Seq(OrgEvent)
        /\ disk \in Seq(OrgEvent) /\ <<e>> \in Seq(OrgEvent)
  BY <1>0
<1>p. Projection = Replay(events) /\ Projection \in ProjectionType
        /\ Projection.org = org
  BY <1>t, <1>0, ReplayType DEF ProjectionIsReplay, Projection
<1>q. PICK q \in {Projection, Apply(Projection, e)} : AppendEvent(q, e)
  BY DEF Record, Emit
<1>b. ASSUME NEW p \in ProjectionType, Becomes(p) PROVE Projection' = p
  BY <1>b DEF Becomes, Projection, ProjectionType
<1>1. CASE Dropped(e)
  <2>1. q = Projection
    BY <1>0, <1>1, <1>q, ChecksAgree
  <2>2. UNCHANGED <<org, applied, events, unwritten, disk>>
    BY <1>1, <1>q, <2>1 DEF AppendEvent, Becomes, logVars, Projection
  <2> QED BY <2>2
    DEF IndInv, NothingMissing, ProjectionIsReplay, Projection, Authorized,
        DecidesOnce, DistinctIds
<1>2. CASE ~Dropped(e)
  <2>0. Apply(q, e) = Apply(Projection, e) /\ Apply(Projection, e) \in ProjectionType
    BY <1>p, <1>q, ApplyAgain, ApplyCases
  <2>1. /\ Becomes(Apply(Projection, e)) /\ events' = events \o <<e>>
        /\ unwritten' = unwritten \o <<e>> /\ disk' = disk
    BY <1>2, <1>q, <2>0 DEF AppendEvent, Log!AppendEvents
  <2>2. Projection' = Apply(Projection, e)
    BY <1>b, <2>0, <2>1
  <2>3. TypeOK'
    <3>1. org' \in Organization /\ applied' \subseteq EventId
      BY <2>0, <2>1 DEF Becomes, ProjectionType
    <3>2. events' \in Seq(OrgEvent) /\ unwritten' \in Seq(OrgEvent)
      BY <1>t, <2>1, ConcatProperties
    <3> QED BY <1>0, <2>1, <3>1, <3>2
  <2>4. NothingMissing'
    <3>1. (disk \o unwritten) \o <<e>> = disk \o (unwritten \o <<e>>)
      BY ONLY <1>t, ConcatAssociative, SMTT(30)
    <3> QED BY <1>0, <2>1, <3>1 DEF NothingMissing
  <2>5. ProjectionIsReplay'
    <3>1. Replay(events') = Apply(Replay(events), e)
      BY <1>t, <2>1, AppendReplay
    <3> QED BY <1>p, <2>2, <3>1 DEF ProjectionIsReplay
  <2>6. \A i \in 1..Len(events) : Id(events[i]) # Id(e)
    BY <1>t, <1>2 DEF Dropped
  <2>7. gap' \/ DistinctIds(events')
    BY <1>t, <2>1, <2>6, DistinctAppend DEF IndInv
  <2>8. gap' \/ Authorized(events')
    BY <1>t, <1>p, <2>1, AuthorizedAppend DEF IndInv
  <2>9. gap' \/ DecidesOnce(events')
    BY <1>t, <1>p, <2>1, DecidesOnceAppend DEF IndInv
  <2> QED BY <2>3, <2>4, <2>5, <2>7, <2>8, <2>9 DEF IndInv
<1> QED BY <1>1, <1>2

\* An event as far as its fields go.
EventFields ==
    [by : Identity \cup Task, n : 0..MaxSequence, kind : EventKind, actor : Identity,
     member : Identity \cup {NoOne}, role : {"", "member", "admin"},
     ref : 0..MaxSequence, task : Task \cup {NoOne}]

\* A mutation starts from an event that names its actor and kind.
LEMMA BlankType ==
    ASSUME NEW a \in Identity, NEW n \in 0..MaxSequence, NEW kind \in EventKind
    PROVE  /\ Blank(a, n, kind) \in EventFields
           /\ Blank(a, n, kind).kind = kind
           /\ Blank(a, n, kind).actor = a
<1>1. 0 \in 0..MaxSequence
  BY OrgAssumption
<1> QED BY <1>1 DEF Blank, EventFields

LEMMA AddMemberStep ==
    ASSUME IndInv, NEW a \in Identity, NEW m \in Identity,
           NEW role \in {"admin", "member"}, AddMember(a, m, role)
    PROVE  IndInv'
<1> DEFINE b == Blank(a, Next1, "org.member_added")
           e == [b EXCEPT !.member = m, !.role = role]
<1>0. sequence \in Nat /\ MaxSequence \in Nat
  BY OrgAssumption DEF IndInv, TypeOK
<1>n. /\ Next1 \in Ids /\ Next1 \in 0..MaxSequence
      /\ sequence' \in 0..MaxSequence /\ Ids \subseteq 0..MaxSequence
  BY <1>0 DEF AddMember, Next1, Next2, Ids
<1>1. Record(e) /\ UNCHANGED gap /\ Manages(a)
  BY Zenon DEF AddMember
<1>s. "org.member_added" \in EventKind
  BY DEF EventKind
<1>2. b \in EventFields /\ b.kind = "org.member_added" /\ b.actor = a
  BY <1>n, <1>s, BlankType
<1>3. role # ""
  OBVIOUS
<1> HIDE DEF b
<1>4. e \in EventFields /\ e.kind = b.kind /\ e.actor = a /\ e.role = role
  BY <1>0, <1>n, <1>2 DEF EventFields
<1> HIDE DEF e
<1>5. e \in OrgEvent
  BY <1>3, <1>4 DEF EventFields, OrgEvent
<1>6. Admits(org, e) /\ e.kind \notin Decided
  BY <1>1, <1>2, <1>4 DEF Admits, Decided, Manages
<1> QED BY <1>n, <1>1, <1>2, <1>4, <1>5, <1>6, RecordStep

LEMMA RemoveMemberStep ==
    ASSUME IndInv, NEW a \in Identity, NEW m \in Identity,
           RemoveMember(a, m)
    PROVE  IndInv'
<1> DEFINE b == Blank(a, Next1, "org.member_removed")
           e == [b EXCEPT !.member = m]
<1>0. sequence \in Nat /\ MaxSequence \in Nat
  BY OrgAssumption DEF IndInv, TypeOK
<1>n. /\ Next1 \in Ids /\ Next1 \in 0..MaxSequence
      /\ sequence' \in 0..MaxSequence /\ Ids \subseteq 0..MaxSequence
  BY <1>0 DEF RemoveMember, Next1, Next2, Ids
<1>1. Record(e) /\ UNCHANGED gap /\ Manages(a)
  BY Zenon DEF RemoveMember
<1>s. "org.member_removed" \in EventKind
  BY DEF EventKind
<1>2. b \in EventFields /\ b.kind = "org.member_removed" /\ b.actor = a
  BY <1>n, <1>s, BlankType
<1>3. b.kind # "org.member_added"
  BY <1>2
<1> HIDE DEF b
<1>4. e \in EventFields /\ e.kind = b.kind /\ e.actor = a
  BY <1>0, <1>n, <1>2 DEF EventFields
<1> HIDE DEF e
<1>5. e \in OrgEvent
  BY <1>3, <1>4 DEF EventFields, OrgEvent
<1>6. Admits(org, e) /\ e.kind \notin Decided
  BY <1>1, <1>2, <1>4 DEF Admits, Decided, Manages
<1> QED BY <1>n, <1>1, <1>2, <1>4, <1>5, <1>6, RecordStep

LEMMA GrantDelegationStep ==
    ASSUME IndInv, NEW a \in Identity, NEW g \in Identity,
           GrantDelegation(a, g)
    PROVE  IndInv'
<1> DEFINE b == Blank(a, Next2, "delegation.granted")
           e == [b EXCEPT !.member = g, !.ref = Next1]
<1>0. sequence \in Nat /\ MaxSequence \in Nat
  BY OrgAssumption DEF IndInv, TypeOK
<1>n. /\ Next1 \in Ids /\ Next2 \in 0..MaxSequence
      /\ sequence' \in 0..MaxSequence /\ Ids \subseteq 0..MaxSequence
  BY <1>0 DEF GrantDelegation, Next1, Next2, Ids
<1>1. Record(e) /\ UNCHANGED gap /\ Manages(a)
  BY Zenon DEF GrantDelegation
<1>s. "delegation.granted" \in EventKind
  BY DEF EventKind
<1>2. b \in EventFields /\ b.kind = "delegation.granted" /\ b.actor = a
  BY <1>n, <1>s, BlankType
<1>3. b.kind # "org.member_added"
  BY <1>2
<1> HIDE DEF b
<1>4. e \in EventFields /\ e.kind = b.kind /\ e.actor = a
  BY <1>0, <1>n, <1>2 DEF EventFields
<1> HIDE DEF e
<1>5. e \in OrgEvent
  BY <1>3, <1>4 DEF EventFields, OrgEvent
<1>6. Admits(org, e) /\ e.kind \notin Decided
  BY <1>1, <1>2, <1>4 DEF Admits, Decided, Manages
<1> QED BY <1>n, <1>1, <1>2, <1>4, <1>5, <1>6, RecordStep

LEMMA RevokeDelegationStep ==
    ASSUME IndInv, NEW a \in Identity, NEW d \in Ids,
           RevokeDelegation(a, d)
    PROVE  IndInv'
<1> DEFINE kind == IF org.delegations[d].revoked THEN "delegation.revoke_duplicate"
                   ELSE "delegation.revoked"
           b == Blank(a, Next1, kind)
           e == [b EXCEPT !.ref = d]
<1>0. sequence \in Nat /\ MaxSequence \in Nat
  BY OrgAssumption DEF IndInv, TypeOK
<1>n. /\ Next1 \in Ids /\ Next1 \in 0..MaxSequence
      /\ sequence' \in 0..MaxSequence /\ Ids \subseteq 0..MaxSequence
  BY <1>0 DEF RevokeDelegation, Next1, Next2, Ids
<1>1. (Record(e) \/ Emit(e)) /\ UNCHANGED gap /\ Manages(a)
  BY Zenon DEF RevokeDelegation
<1>s. kind \in EventKind
  BY DEF EventKind
<1>2. b \in EventFields /\ b.kind = kind /\ b.actor = a
  BY <1>n, <1>s, BlankType
<1>3. b.kind # "org.member_added"
  BY <1>2
<1> HIDE DEF b
<1>4. e \in EventFields /\ e.kind = b.kind /\ e.actor = a
  BY <1>0, <1>n, <1>2 DEF EventFields
<1> HIDE DEF e
<1>5. e \in OrgEvent
  BY <1>3, <1>4 DEF EventFields, OrgEvent
<1>6. Admits(org, e) /\ e.kind \notin Decided
  BY <1>1, <1>2, <1>4 DEF Admits, Decided, Manages
<1> QED BY <1>n, <1>1, <1>2, <1>4, <1>5, <1>6, RecordStep

LEMMA RequestApprovalStep ==
    ASSUME IndInv, NEW a \in Identity, NEW t \in Task,
           RequestApproval(a, t)
    PROVE  IndInv'
<1> DEFINE b == Blank(a, Next2, "task.approval_requested")
           e == [b EXCEPT !.ref = Next1, !.task = t]
<1>0. sequence \in Nat /\ MaxSequence \in Nat
  BY OrgAssumption DEF IndInv, TypeOK
<1>n. /\ Next1 \in Ids /\ Next2 \in 0..MaxSequence
      /\ sequence' \in 0..MaxSequence /\ Ids \subseteq 0..MaxSequence
  BY <1>0 DEF RequestApproval, Next1, Next2, Ids
<1>1. Record(e) /\ UNCHANGED gap /\ Active(a)
  BY Zenon DEF RequestApproval
<1>s. "task.approval_requested" \in EventKind
  BY DEF EventKind
<1>2. b \in EventFields /\ b.kind = "task.approval_requested" /\ b.actor = a
  BY <1>n, <1>s, BlankType
<1>3. b.kind # "org.member_added"
  BY <1>2
<1> HIDE DEF b
<1>4. e \in EventFields /\ e.kind = b.kind /\ e.actor = a
  BY <1>0, <1>n, <1>2 DEF EventFields
<1> HIDE DEF e
<1>5. e \in OrgEvent
  BY <1>3, <1>4 DEF EventFields, OrgEvent
<1>6. Admits(org, e) /\ e.kind \notin Decided
  BY <1>1, <1>2, <1>4 DEF Admits, Decided, Active, ManagersOnly
<1> QED BY <1>n, <1>1, <1>2, <1>4, <1>5, <1>6, RecordStep

LEMMA DecideApprovalStep ==
    ASSUME IndInv, NEW a \in Identity, NEW n \in Ids, NEW verdict \in Decided,
           DecideApproval(a, n, verdict)
    PROVE  IndInv'
<1> DEFINE b == Blank(a, Next1, verdict)
           e == [b EXCEPT !.ref = n]
<1>0. sequence \in Nat /\ MaxSequence \in Nat
  BY OrgAssumption DEF IndInv, TypeOK
<1>n. /\ Next1 \in Ids /\ Next1 \in 0..MaxSequence
      /\ sequence' \in 0..MaxSequence /\ Ids \subseteq 0..MaxSequence
  BY <1>0 DEF DecideApproval, Next1, Next2, Ids
<1>1. Record(e) /\ UNCHANGED gap /\ Manages(a) /\ org.approvals[n].status = "pending"
  BY Zenon DEF DecideApproval
<1>s. verdict \in EventKind
  BY DEF EventKind
<1>2. b \in EventFields /\ b.kind = verdict /\ b.actor = a
  BY <1>n, <1>s, BlankType
<1>3. b.kind # "org.member_added"
  BY <1>2 DEF Decided
<1> HIDE DEF b
<1>4. e \in EventFields /\ e.kind = b.kind /\ e.actor = a /\ e.ref = n
  BY <1>0, <1>n, <1>2 DEF EventFields
<1> HIDE DEF e
<1>5. e \in OrgEvent
  BY <1>3, <1>4 DEF EventFields, OrgEvent
<1>6. Admits(org, e)
  BY <1>1, <1>2, <1>4 DEF Admits, Decided, Manages
<1> QED BY <1>n, <1>1, <1>2, <1>4, <1>5, <1>6, RecordStep

LEMMA ControlTaskStep ==
    ASSUME IndInv, NEW a \in Identity, NEW t \in Task, NEW action \in Actions,
           ControlTask(a, t, action)
    PROVE  IndInv'
<1> DEFINE b == Blank(a, Next1, action)
           e == [b EXCEPT !.task = t]
<1>0. sequence \in Nat /\ MaxSequence \in Nat
  BY OrgAssumption DEF IndInv, TypeOK
<1>n. /\ Next1 \in Ids /\ Next1 \in 0..MaxSequence
      /\ sequence' \in 0..MaxSequence /\ Ids \subseteq 0..MaxSequence
  BY <1>0 DEF ControlTask, Next1, Next2, Ids
<1>1. Record(e) /\ UNCHANGED gap
  BY Zenon DEF ControlTask
<1>k. action \in {"pause", "resume", "revoke", "takeover", "revision"}
  BY ControlType
<1>s. action \in EventKind
  BY <1>k, ControlType DEF EventKind
<1>2. b \in EventFields /\ b.kind = action /\ b.actor = a
  BY <1>n, <1>s, BlankType
<1>3. b.kind # "org.member_added"
  BY <1>2, <1>k
<1> HIDE DEF b
<1>4. e \in EventFields /\ e.kind = b.kind /\ e.actor = a
  BY <1>0, <1>n, <1>2 DEF EventFields
<1> HIDE DEF e
<1>5. e \in OrgEvent
  BY <1>3, <1>4 DEF EventFields, OrgEvent
<1>6. Admits(org, e) /\ e.kind \notin Decided
  BY <1>1, <1>2, <1>4, <1>k DEF Admits, Decided, ManagersOnly
<1> QED BY <1>n, <1>1, <1>2, <1>4, <1>5, <1>6, RecordStep

LEMMA ObserveProposalStep ==
    ASSUME IndInv, NEW a \in Identity, NEW t \in Task,
           ObserveProposal(a, t)
    PROVE  IndInv'
<1> DEFINE b == Blank(a, 0, "task.proposed")
           e == [b EXCEPT !.by = t, !.task = t]
<1>n. sequence' \in 0..MaxSequence /\ 0 \in 0..MaxSequence
  BY OrgAssumption DEF ObserveProposal, IndInv, TypeOK
<1>s. "task.proposed" \in EventKind
  BY DEF EventKind
<1>1. Emit(e) /\ UNCHANGED gap
  BY Zenon DEF ObserveProposal
<1>2. b \in EventFields /\ b.kind = "task.proposed" /\ b.actor = a
  BY <1>n, <1>s, BlankType
<1> HIDE DEF b
<1>3. e \in EventFields /\ e.kind = b.kind
  BY <1>2 DEF EventFields
<1> HIDE DEF e
<1>4. e \in OrgEvent
  BY <1>2, <1>3 DEF EventFields, OrgEvent
<1>5. Admits(org, e) /\ e.kind \notin Decided
  BY <1>2, <1>3 DEF Admits, Decided, ManagersOnly
<1> QED BY <1>n, <1>1, <1>4, <1>5, RecordStep

LEMMA ObserveNetworkStep ==
    ASSUME IndInv, NEW t \in Task, ObserveNetwork(t)
    PROVE  IndInv'
<1> DEFINE b == Blank(Owner, 0, "network")
           e == [b EXCEPT !.by = t, !.task = t]
<1>n. sequence' \in 0..MaxSequence /\ 0 \in 0..MaxSequence
  BY OrgAssumption DEF ObserveNetwork, IndInv, TypeOK
<1>s. "network" \in EventKind
  BY DEF EventKind
<1>1. Emit(e) /\ UNCHANGED gap
  BY Zenon DEF ObserveNetwork
<1>2. b \in EventFields /\ b.kind = "network" /\ b.actor = Owner
  BY <1>n, <1>s, OrgAssumption, BlankType
<1> HIDE DEF b
<1>3. e \in EventFields /\ e.kind = b.kind
  BY <1>2 DEF EventFields
<1> HIDE DEF e
<1>4. e \in OrgEvent
  BY <1>2, <1>3 DEF EventFields, OrgEvent
<1>5. Admits(org, e) /\ e.kind \notin Decided
  BY <1>2, <1>3 DEF Admits, Decided, ManagersOnly
<1> QED BY <1>n, <1>1, <1>4, <1>5, RecordStep

\* Lines taken from the front of what is to be written extend the disk to a
\* prefix of the log.
LEMMA WrittenIsPrefix ==
    ASSUME NEW d \in Seq(OrgEvent), NEW u \in Seq(OrgEvent), NEW hi \in 0..Len(u)
    PROVE  /\ Len(d) + hi \in 0..Len(d \o u)
           /\ d \o SubSeq(u, 1, hi) = SubSeq(d \o u, 1, Len(d) + hi)
<1> DEFINE p == SubSeq(u, 1, hi)
           s == d \o u
<1>0. Len(d) \in Nat /\ Len(u) \in Nat
  OBVIOUS
<1>1. p \in Seq(OrgEvent) /\ Len(p) = hi /\ \A i \in 1..hi : p[i] = u[i]
  BY PrefixReplay
<1>2. /\ s \in Seq(OrgEvent) /\ Len(s) = Len(d) + Len(u)
      /\ \A i \in 1..(Len(d) + Len(u)) : s[i] = IF i <= Len(d) THEN d[i] ELSE u[i - Len(d)]
  BY ConcatProperties
<1> HIDE DEF p, s
<1> DEFINE a == d \o p
           b == SubSeq(s, 1, Len(d) + hi)
<1>3. /\ a \in Seq(OrgEvent) /\ Len(a) = Len(d) + Len(p)
      /\ \A i \in 1..(Len(d) + Len(p)) : a[i] = IF i <= Len(d) THEN d[i] ELSE p[i - Len(d)]
  BY <1>1, ConcatProperties
<1>4. Len(d) + hi \in 0..Len(s)
  BY <1>0, <1>2
<1>5. /\ b \in Seq(OrgEvent) /\ Len(b) = Len(d) + hi
      /\ \A i \in 1..(Len(d) + hi) : b[i] = s[i]
  BY <1>2, <1>4, PrefixReplay
<1> HIDE DEF a, b
<1>6. ASSUME NEW i \in 1..Len(a) PROVE a[i] = b[i]
  <2>1. CASE i <= Len(d)
    BY <1>0, <1>1, <1>2, <1>3, <1>5, <2>1
  <2>2. CASE ~(i <= Len(d))
    <3>1. i - Len(d) \in 1..hi
      BY <1>0, <1>1, <1>3, <2>2
    <3>2. a[i] = u[i - Len(d)]
      BY <1>0, <1>1, <1>3, <2>2, <3>1
    <3>3. b[i] = u[i - Len(d)]
      BY <1>0, <1>1, <1>2, <1>3, <1>5, <2>2
    <3> QED BY <3>2, <3>3
  <2> QED BY <2>1, <2>2
<1>7. a = b
  BY <1>1, <1>3, <1>5, <1>6, SeqEqual
<1> QED BY <1>4, <1>7 DEF a, b, p, s

\* A beginning of what is on the disk is one of the log.
LEMMA PrefixOfFirst ==
    ASSUME NEW d \in Seq(OrgEvent), NEW u \in Seq(OrgEvent), NEW k \in 0..Len(d)
    PROVE  /\ k \in 0..Len(d \o u)
           /\ SubSeq(d \o u, 1, k) = SubSeq(d, 1, k)
<1> DEFINE s == d \o u
<1>0. Len(d) \in Nat /\ Len(u) \in Nat
  OBVIOUS
<1>1. /\ s \in Seq(OrgEvent) /\ Len(s) = Len(d) + Len(u)
      /\ \A i \in 1..(Len(d) + Len(u)) : s[i] = IF i <= Len(d) THEN d[i] ELSE u[i - Len(d)]
  BY ConcatProperties
<1> HIDE DEF s
<1>2. k \in 0..Len(s)
  BY <1>0, <1>1
<1>3. \A i \in 1..k : s[i] = d[i]
  BY <1>0, <1>1
<1>4. /\ SubSeq(s, 1, k) \in Seq(OrgEvent) /\ Len(SubSeq(s, 1, k)) = k
      /\ \A i \in 1..k : SubSeq(s, 1, k)[i] = s[i]
  BY <1>1, <1>2, PrefixReplay
<1>5. /\ SubSeq(d, 1, k) \in Seq(OrgEvent) /\ Len(SubSeq(d, 1, k)) = k
      /\ \A i \in 1..k : SubSeq(d, 1, k)[i] = d[i]
  BY PrefixReplay
<1>6. SubSeq(s, 1, k) = SubSeq(d, 1, k)
  BY <1>3, <1>4, <1>5, SeqEqual
<1> QED BY <1>2, <1>6 DEF s

LEMMA WriteLogStep ==
    ASSUME IndInv, WriteLog
    PROVE  IndInv'
<1>0. TypeOK /\ NothingMissing
  BY DEF IndInv
<1>w. PICK n \in 1..Len(unwritten), keep \in 0..Len(disk), lo \in 1..2 :
         \E hi \in 0..n : Log!Write(n, keep, lo, hi)
                            /\ gap' = (gap \/ lo = 2 \/ hi < n)
  BY Zenon DEF WriteLog
<1>1. PICK hi \in 0..n :
         Log!Write(n, keep, lo, hi) /\ gap' = (gap \/ lo = 2 \/ hi < n)
  BY <1>w, Zenon
<1>m. lo = 1 => keep = Len(disk)
  <2>1. Log!Meets(keep, lo)
    BY <1>1 DEF Log!Write
  <2> QED BY <2>1 DEF Log!Meets
<1>2. /\ disk' = SubSeq(disk, 1, keep) \o SubSeq(unwritten, lo, hi)
      /\ unwritten' = SubSeq(unwritten, n + 1, Len(unwritten))
      /\ UNCHANGED <<events, org, applied, sequence>>
  BY <1>1, Zenon DEF WriteLog, Log!Write, orgVars
<1>3. /\ events \in Seq(OrgEvent) /\ unwritten \in Seq(OrgEvent) /\ disk \in Seq(OrgEvent)
      /\ Len(unwritten) \in Nat /\ n \in 1..Len(unwritten) /\ hi <= Len(unwritten)
  BY <1>0 DEF TypeOK, Log!LogTypeOK
<1>4. SubSeq(unwritten, lo, hi) \in Seq(OrgEvent)
        /\ SubSeq(disk, 1, keep) \in Seq(OrgEvent)
  BY <1>3, SubSeqProperties
<1>5. unwritten' \in Seq(OrgEvent)
  BY <1>2, <1>3, SubSeqProperties
<1>6. disk' \in Seq(OrgEvent)
  BY <1>2, <1>3, <1>4, ConcatProperties
<1>7. gap' \in BOOLEAN
  BY <1>1, Zenon
<1>8. TypeOK'
  BY <1>0, <1>2, <1>5, <1>6, <1>7 DEF TypeOK, Log!LogTypeOK
<1>9. NothingMissing'
  <2>1. SUFFICES ASSUME ~gap' PROVE events' = disk' \o unwritten'
    BY DEF NothingMissing
  <2>2. ~gap /\ lo # 2 /\ ~(hi < n)
    BY <1>1, <2>1, Zenon
  <2>3. lo = 1 /\ hi = n
    BY <2>2
  <2> DEFINE p == SubSeq(unwritten, 1, n)
             q == SubSeq(unwritten, n + 1, Len(unwritten))
  <2>4. p \o q = SubSeq(unwritten, 1, Len(unwritten))
    BY <1>3, ConcatAdjacentSubSeq
  <2>5. p \o q = unwritten
    BY <1>3, <2>4, SubSeqFull
  <2>a. SubSeq(disk, 1, keep) = disk
    BY <1>m, <1>3, <2>3, SubSeqFull
  <2>6. disk \in Seq(OrgEvent) /\ p \in Seq(OrgEvent) /\ q \in Seq(OrgEvent)
    BY <1>2, <1>3, <1>4, <1>5, <2>3
  <2> HIDE DEF p, q
  <2>7. (disk \o p) \o q = disk \o (p \o q)
    BY ONLY <2>6, ConcatAssociative, SMTT(30)
  <2>8. events = disk \o unwritten
    BY <1>0, <2>2 DEF NothingMissing
  <2> QED BY <1>2, <2>3, <2>a, <2>5, <2>7, <2>8 DEF p, q
<1>10. ProjectionIsReplay'
  BY <1>2 DEF IndInv, ProjectionIsReplay, Projection
<1>11. ~gap' => ~gap
  BY <1>1, Zenon
<1>12. ~gap' => DistinctIds(events') /\ Authorized(events') /\ DecidesOnce(events')
  BY <1>2, <1>11 DEF IndInv
<1> QED BY <1>8, <1>9, <1>10, <1>12 DEF IndInv

LEMMA RestartStep ==
    ASSUME IndInv, Restart
    PROVE  IndInv'
<1>0. TypeOK /\ NothingMissing
  BY DEF IndInv
<1>1. PICK keep \in 0..Len(disk), lo \in 1..2, hi \in 0..Len(unwritten) :
         Log!Restart(keep, lo, hi) /\ gap' = (gap \/ (lo = 2 /\ hi >= lo))
  BY Zenon DEF Restart
<1>m. lo = 1 => keep = Len(disk)
  <2>1. Log!Meets(keep, lo)
    BY <1>1 DEF Log!Restart
  <2> QED BY <2>1 DEF Log!Meets
<1>2. /\ disk' = SubSeq(disk, 1, keep) \o SubSeq(unwritten, lo, hi)
      /\ events' = disk' /\ unwritten' = <<>>
      /\ Becomes(Replay(disk')) /\ sequence' = 0
  BY <1>1, Zenon DEF Restart, Log!Restart
<1>3. /\ events \in Seq(OrgEvent) /\ unwritten \in Seq(OrgEvent) /\ disk \in Seq(OrgEvent)
      /\ Len(unwritten) \in Nat /\ Len(disk) \in Nat
  BY <1>0 DEF TypeOK, Log!LogTypeOK
<1>4. SubSeq(unwritten, lo, hi) \in Seq(OrgEvent)
        /\ SubSeq(disk, 1, keep) \in Seq(OrgEvent)
  BY <1>3, SubSeqProperties
<1>5. disk' \in Seq(OrgEvent)
  BY <1>2, <1>3, <1>4, ConcatProperties
<1>6. TypeOK'
  <2>1. gap' \in BOOLEAN
    BY <1>1, Zenon
  <2>2. org' \in Organization /\ applied' \subseteq EventId
    BY <1>2, <1>5, ReplayType DEF Becomes, ProjectionType
  <2>3. sequence' \in 0..MaxSequence
    BY <1>2, OrgAssumption
  <2>4. <<>> \in Seq(OrgEvent)
    OBVIOUS
  <2> QED BY <1>2, <1>5, <2>1, <2>2, <2>3, <2>4 DEF TypeOK, Log!LogTypeOK
<1>7. NothingMissing'
  BY <1>2, <1>5, ConcatEmptySeq DEF NothingMissing
<1>8. ProjectionIsReplay'
  BY <1>2, <1>5, ReplayType DEF ProjectionIsReplay, Projection, Becomes, ProjectionType
<1>9. ASSUME ~gap'
      PROVE  DistinctIds(events') /\ Authorized(events') /\ DecidesOnce(events')
  <2>1. ~gap /\ ~(lo = 2 /\ hi >= lo)
    BY <1>1, <1>9, Zenon
  <2>3. events = disk \o unwritten
    BY <1>0, <2>1 DEF NothingMissing
  <2>4. \E k \in 0..Len(events) : events' = SubSeq(events, 1, k)
    <3>1. CASE lo = 1
      <4>1. SubSeq(disk, 1, keep) = disk
        BY <1>m, <1>3, <3>1, SubSeqFull
      <4>2. /\ Len(disk) + hi \in 0..Len(disk \o unwritten)
            /\ disk \o SubSeq(unwritten, 1, hi)
                 = SubSeq(disk \o unwritten, 1, Len(disk) + hi)
        BY <1>3, WrittenIsPrefix
      <4> DEFINE k == Len(disk) + hi
      <4> HIDE DEF k
      <4>3. k \in 0..Len(events) /\ events' = SubSeq(events, 1, k)
        BY <1>2, <2>3, <3>1, <4>1, <4>2 DEF k
      <4> QED BY <4>3
    <3>2. CASE lo = 2 /\ hi < lo
      <4>1. SubSeq(unwritten, lo, hi) = <<>>
        BY <3>2, SubSeqEmpty
      <4>2. SubSeq(disk, 1, keep) \o <<>> = SubSeq(disk, 1, keep)
        BY <1>4, ConcatEmptySeq
      <4>3. keep \in 0..Len(events) /\ SubSeq(events, 1, keep) = SubSeq(disk, 1, keep)
        BY <1>3, <2>3, PrefixOfFirst
      <4> QED BY <1>2, <4>1, <4>2, <4>3
    <3> QED BY <2>1, <3>1, <3>2
  <2>5. DistinctIds(events) /\ Authorized(events) /\ DecidesOnce(events)
    BY <2>1 DEF IndInv
  <2> QED BY <1>3, <2>4, <2>5, DistinctPrefix, AuthorizedPrefix, DecidesOncePrefix
<1> QED BY <1>6, <1>7, <1>8, <1>9 DEF IndInv

LEMMA NextIndInv == IndInv /\ [Next]_vars => IndInv'
<1> SUFFICES ASSUME IndInv, [Next]_vars PROVE IndInv'
  OBVIOUS
<1>1. CASE Mutation
  <2>1. ASSUME NEW a \in Identity, NEW m \in Identity,
               NEW role \in {"admin", "member"}, AddMember(a, m, role)
        PROVE  IndInv'
    BY <2>1, AddMemberStep
  <2>2. ASSUME NEW a \in Identity, NEW m \in Identity,
               RemoveMember(a, m) \/ GrantDelegation(a, m)
        PROVE  IndInv'
    BY <2>2, RemoveMemberStep, GrantDelegationStep
  <2>3. ASSUME NEW a \in Identity, NEW n \in Ids, RevokeDelegation(a, n)
        PROVE  IndInv'
    BY <2>3, RevokeDelegationStep
  <2>4. ASSUME NEW a \in Identity, NEW n \in Ids,
               NEW verdict \in Decided, DecideApproval(a, n, verdict)
        PROVE  IndInv'
    BY <2>4, DecideApprovalStep
  <2>5. ASSUME NEW a \in Identity, NEW t \in Task,
               RequestApproval(a, t) \/ ObserveProposal(a, t)
        PROVE  IndInv'
    BY <2>5, RequestApprovalStep, ObserveProposalStep
  <2>6. ASSUME NEW a \in Identity, NEW t \in Task,
               NEW action \in Actions, ControlTask(a, t, action)
        PROVE  IndInv'
    BY <2>6, ControlTaskStep
  <2>7. ASSUME NEW t \in Task, ObserveNetwork(t) PROVE IndInv'
    BY <2>7, ObserveNetworkStep
  <2> QED BY <1>1, <2>1, <2>2, <2>3, <2>4, <2>5, <2>6, <2>7, Zenon DEF Mutation
<1>2. CASE WriteLog
  BY <1>2, WriteLogStep
<1>3. CASE Restart
  BY <1>3, RestartStep
<1>4. CASE UNCHANGED vars
  BY <1>4 DEF vars, IndInv, TypeOK, Log!LogTypeOK, NothingMissing, ProjectionIsReplay,
              Projection, DistinctIds, Authorized, DecidesOnce
<1> QED BY <1>1, <1>2, <1>3, <1>4 DEF Next

\* The inductive invariant holds in every reachable state.
THEOREM IndInvHolds == Spec => []IndInv
BY InitIndInv, NextIndInv, PTL DEF Spec

\* What the members, delegations, approvals, controls and the log are made of.
THEOREM TypeCorrect == Spec => []TypeOK
<1>1. IndInv => TypeOK
  BY DEF IndInv
<1> QED BY <1>1, IndInvHolds, PTL

(***************************************************************************)
(* The organization a coordinator acts on, and the set of ids it takes for *)
(* applied, are at any time those of a replay of its log: the checks of    *)
(* apply and of appendEvent, which look at different things, drop the same *)
(* events (ChecksAgree), over any mutations, lost lines and restarts.      *)
(***************************************************************************)
THEOREM ProjectionCorrect == Spec => []ProjectionIsReplay
<1>1. IndInv => ProjectionIsReplay
  BY DEF IndInv
<1> QED BY <1>1, IndInvHolds, PTL

(***************************************************************************)
(* In a log without a gap every change was made by somebody whom the       *)
(* events before it allow to make it.                                      *)
(***************************************************************************)
THEOREM LogCorrect == Spec => []LogIsAuthorized
<1>1. IndInv => LogIsAuthorized
  BY AuthorizedLog DEF IndInv, TypeOK, Log!LogTypeOK
<1> QED BY <1>1, IndInvHolds, PTL

(***************************************************************************)
(* In a log without a gap no request for approval is decided twice.        *)
(***************************************************************************)
THEOREM DecisionsCorrect == Spec => []DecidedOnce
<1>1. IndInv => DecidedOnce
  BY DecidesOnceLog DEF IndInv, TypeOK, Log!LogTypeOK
<1> QED BY <1>1, IndInvHolds, PTL

=============================================================================
