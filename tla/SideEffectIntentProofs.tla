----------------------- MODULE SideEffectIntentProofs -----------------------
(***************************************************************************)
(* Theorems about SideEffectIntent and TaskExecution, for any intents,     *)
(* tasks, runs and bounds.  There are four invariants, one upon another.   *)
(*                                                                         *)
(* IndInv is about the order of the log.  What a new process restores      *)
(* depends on the order of the lines that have reached the disk, so it     *)
(* orders the events in memory and the lines the next process may read     *)
(* (Ordered), and ties the status of an intent to the events the log has   *)
(* about it (Agrees).                                                      *)
(*                                                                         *)
(* GrantInv is about what the user has said yes to, whose trace is an      *)
(* approval id that intents, approvals and events share.                   *)
(*                                                                         *)
(* RunInv is about the runs of the executor: what they hold, whom they     *)
(* share it with, and what they have reported.                             *)
(*                                                                         *)
(* EndInv is about what is left of a run that is over: the outcome of its  *)
(* intent.                                                                 *)
(***************************************************************************)
EXTENDS TaskExecution, SequenceTheorems, WellFoundedInduction, TLAPS

Lines == disk \o unwritten

Used == {"consumed", "completed", "failed"}
Outcome == {"completed", "failed"}

\* An event f may stand behind an event e in the log.
MayFollow(e, f) ==
    e.intent = f.intent /\ e.intent # NoOne =>
      /\ f.kind # "created"
      /\ e.kind # "cancelled"
      /\ e.kind \in Outcome => f.kind \notin Used

Ordered(log) == \A j, k \in DOMAIN log : j < k => MayFollow(log[j], log[k])

\* The log has an event of one of these kinds about intent i.
Tells(log, i, kinds) ==
    \E k \in DOMAIN log : log[k].intent = i /\ log[k].kind \in kinds

\* The last event of the log about intent i is of this kind.
Ends(log, i, kind) ==
    \E k \in DOMAIN log :
      /\ log[k].intent = i /\ log[k].kind = kind
      /\ \A j \in DOMAIN log : log[j].intent = i => j <= k

\* The standings of an intent that nobody has used or closed.
Open == {"pending"} \cup Verdicts

Agrees ==
    \A i \in Intent :
      /\ spent[i] = "consumed" => Tells(events, i, {"consumed"})
      /\ intents[i].status \in Open => ~Tells(events, i, Settlement)
      /\ Tells(events, i, {"cancelled"})
           => intents[i].status \in {"cancelled", "expired", "none"}
      /\ intents[i].status \in Settlement => Ends(events, i, intents[i].status)

LinesKnown == \A k \in DOMAIN Lines : In(Lines[k], events)

\* A request for approval a, and behind it a yes.
Requests(e, a) == e.kind = "requested" /\ e.ref = a
Approves(e, a) == e.kind = "approved" /\ e.ref = a
Grants(log, a) ==
    \E j, k \in DOMAIN log : j < k /\ Requests(log[j], a) /\ Approves(log[k], a)

IndInv ==
    /\ TypeOK
    /\ Agrees
    /\ Ordered(events)
    /\ Ordered(Lines)
    /\ LinesKnown

-----------------------------------------------------------------------------
\* A set of positions has a last one.
LEMMA LatestIsLast ==
    ASSUME NEW n \in Nat, NEW S \in SUBSET (1..n), S # {}
    PROVE  Latest(S) \in S /\ \A j \in S : j <= Latest(S)
<1> DEFINE T == {n - k : k \in S}
<1>1. T \subseteq Nat /\ T # {}
  <2>1. \A k \in S : n - k \in Nat
    OBVIOUS
  <2>2. PICK k \in S : TRUE
    OBVIOUS
  <2>3. n - k \in T
    OBVIOUS
  <2> QED BY <2>1, <2>3
<1>2. PICK x \in T : \A y \in T : ~(<<y, x>> \in OpToRel(<, Nat))
  BY <1>1, WFMin, NatLessThanWellFounded
<1>3. \A y \in T : ~(y < x)
  BY <1>1, <1>2 DEF OpToRel
<1>4. PICK k \in S : x = n - k
  OBVIOUS
<1>5. \A j \in S : j <= k
  <2> TAKE j \in S
  <2>1. n - j \in T
    OBVIOUS
  <2> QED BY <2>1, <1>3, <1>4
<1> QED BY <1>5 DEF Latest

\* The concatenation of two ordered logs whose events may follow each other.
LEMMA OrderedConcat ==
    ASSUME NEW S, NEW a \in Seq(S), NEW b \in Seq(S),
           Ordered(a), Ordered(b),
           \A j \in DOMAIN a, k \in DOMAIN b : MayFollow(a[j], b[k])
    PROVE  Ordered(a \o b)
<1> DEFINE c == a \o b
<1>1. /\ c \in Seq(S) /\ Len(c) = Len(a) + Len(b)
      /\ \A i \in 1..(Len(a) + Len(b)) :
           c[i] = IF i <= Len(a) THEN a[i] ELSE b[i - Len(a)]
  BY ConcatProperties
<1> HIDE DEF c
<1>2. DOMAIN c = 1..(Len(a) + Len(b)) /\ DOMAIN a = 1..Len(a) /\ DOMAIN b = 1..Len(b)
        /\ Len(a) \in Nat /\ Len(b) \in Nat
  BY <1>1
<1>3. ASSUME NEW j \in DOMAIN c, NEW k \in DOMAIN c, j < k
      PROVE  MayFollow(c[j], c[k])
  <2>1. CASE k <= Len(a)
    <3>1. j \in DOMAIN a /\ k \in DOMAIN a /\ c[j] = a[j] /\ c[k] = a[k]
      BY <1>1, <1>2, <1>3, <2>1
    <3> QED BY <3>1, <1>3 DEF Ordered
  <2>2. CASE j <= Len(a) /\ ~(k <= Len(a))
    <3>1. j \in DOMAIN a /\ k - Len(a) \in DOMAIN b /\ c[j] = a[j] /\ c[k] = b[k - Len(a)]
      BY <1>1, <1>2, <1>3, <2>2
    <3> QED BY <3>1
  <2>3. CASE ~(j <= Len(a)) /\ ~(k <= Len(a))
    <3>1. /\ j - Len(a) \in DOMAIN b /\ k - Len(a) \in DOMAIN b
          /\ j - Len(a) < k - Len(a)
          /\ c[j] = b[j - Len(a)] /\ c[k] = b[k - Len(a)]
      BY <1>1, <1>2, <1>3, <2>3
    <3> QED BY <3>1 DEF Ordered
  <2> QED BY <2>1, <2>2, <2>3, <1>2, <1>3
<1> QED BY <1>3 DEF Ordered, c

\* t has only elements of s, in an order that is in s.
Leaves(s, t) ==
    /\ \A i \in DOMAIN t : \E k \in DOMAIN s : t[i] = s[k]
    /\ Ordered(s) => Ordered(t)
    /\ \A a : Grants(t, a) => Grants(s, a)

\* What a crash or a failed write leaves is a part of the written lines and
\* behind it a part of the unwritten ones, all in the same order.
LEMMA Remembered ==
    ASSUME NEW S, NEW a \in Seq(S), NEW b \in Seq(S), NEW keep \in 0..Len(a),
           NEW lo \in 1..2, NEW hi \in (lo - 1)..Len(b)
    PROVE  Leaves(a \o b, SubSeq(a, 1, keep) \o SubSeq(b, lo, hi))
           /\ SubSeq(a, 1, keep) \o SubSeq(b, lo, hi) \in Seq(S)
<1> DEFINE p == SubSeq(b, lo, hi)
           q == SubSeq(a, 1, keep)
           s == a \o b
           t == q \o p
           from(i) == IF i <= keep THEN i ELSE i - keep + Len(a) + lo - 1
<1>1. p \in Seq(S) /\ Len(p) = hi - lo + 1 /\ \A i \in 1..(hi - lo + 1) : p[i] = b[lo + i - 1]
  BY SubSeqProperties
<1>q. q \in Seq(S) /\ Len(q) = keep /\ \A i \in 1..keep : q[i] = a[i]
  BY SubSeqProperties
<1> HIDE DEF p, q
<1>2. /\ s \in Seq(S) /\ Len(s) = Len(a) + Len(b)
      /\ \A i \in 1..(Len(a) + Len(b)) :
           s[i] = IF i <= Len(a) THEN a[i] ELSE b[i - Len(a)]
  BY ConcatProperties
<1>3. /\ t \in Seq(S) /\ Len(t) = keep + Len(p)
      /\ \A i \in 1..(keep + Len(p)) :
           t[i] = IF i <= keep THEN q[i] ELSE p[i - keep]
  <2>1. p \in Seq(S) /\ q \in Seq(S)
    BY <1>1, <1>q
  <2>2. /\ t \in Seq(S) /\ Len(t) = Len(q) + Len(p)
        /\ \A i \in 1..(Len(q) + Len(p)) :
             t[i] = IF i <= Len(q) THEN q[i] ELSE p[i - Len(q)]
    BY <2>1, ConcatProperties
  <2> QED BY <2>2, <1>q
<1> HIDE DEF s, t
<1>4. /\ DOMAIN s = 1..(Len(a) + Len(b)) /\ DOMAIN t = 1..(keep + Len(p))
      /\ Len(a) \in Nat /\ Len(b) \in Nat /\ Len(p) \in Nat
      /\ keep \in Nat /\ keep <= Len(a)
  BY <1>1, <1>2, <1>3
<1>5. ASSUME NEW i \in DOMAIN t
      PROVE  from(i) \in DOMAIN s /\ t[i] = s[from(i)]
  <2>1. CASE i <= keep
    <3>1. from(i) = i /\ i \in 1..(Len(a) + Len(b)) /\ i \in 1..(keep + Len(p))
            /\ i \in 1..keep /\ i <= Len(a)
      BY <2>1, <1>4
    <3> HIDE DEF from
    <3>2. s[i] = a[i] /\ t[i] = a[i]
      BY <2>1, <3>1, <1>2, <1>3, <1>q
    <3> QED BY <1>4, <3>1, <3>2
  <2>2. CASE ~(i <= keep)
    <3> DEFINE h == i - keep
               k == i - keep + Len(a) + lo - 1
    <3>1. h \in 1..(hi - lo + 1) /\ lo + h - 1 = k - Len(a)
      <4>1. Len(p) = hi - lo + 1
        BY <1>1
      <4> QED BY <2>2, <4>1, <1>4, SMTT(30)
    <3>2. from(i) = k
      BY <2>2
    <3>4. k \in 1..(Len(a) + Len(b)) /\ ~(k <= Len(a))
      <4>1. k = Len(a) + lo + h - 1 /\ hi <= Len(b) /\ lo \in 1..2 /\ h \in Nat
        <5>1. i \in Nat /\ i >= keep /\ keep \in Nat /\ Len(a) \in Nat
          BY <1>4, <2>2
        <5>2. hi <= Len(b) /\ lo \in 1..2
          BY <1>4
        <5> QED BY <5>1, <5>2
      <4> HIDE DEF h, k
      <4> QED BY <3>1, <4>1, <1>4
    <3> HIDE DEF k, from
    <3>5. k \in DOMAIN s /\ s[k] = b[k - Len(a)]
      <4>1. s[k] = IF k <= Len(a) THEN a[k] ELSE b[k - Len(a)]
        BY <1>2, <3>4
      <4> QED BY <1>4, <3>4, <4>1
    <3>6. t[i] = b[k - Len(a)]
      <4>1. t[i] = p[h]
        <5>1. i \in 1..(keep + Len(p)) /\ ~(i <= keep)
          BY <1>4, <2>2
        <5> QED BY <5>1, <1>3
      <4> HIDE DEF h
      <4>2. p[h] = b[lo + h - 1]
        BY <3>1, <1>1
      <4> QED BY <3>1, <4>1, <4>2
    <3> QED BY <3>2, <3>5, <3>6
  <2> QED BY <2>1, <2>2
<1>6. ASSUME NEW i \in DOMAIN t, NEW j \in DOMAIN t, i < j
      PROVE  from(i) < from(j)
  <2>1. i \in Int /\ j \in Int /\ Len(a) \in Nat /\ keep <= Len(a) /\ lo >= 1
    BY <1>4
  <2> QED BY <1>6, <2>1
<1>7. ASSUME Ordered(s) PROVE Ordered(t)
  <2> SUFFICES ASSUME NEW i \in DOMAIN t, NEW j \in DOMAIN t, i < j
               PROVE  MayFollow(t[i], t[j])
    BY DEF Ordered
  <2>1. MayFollow(s[from(i)], s[from(j)])
    BY <1>5, <1>6, <1>7 DEF Ordered
  <2> QED BY <2>1, <1>5
<1>8. \A i \in DOMAIN t : \E k \in DOMAIN s : t[i] = s[k]
  BY <1>5
<1>g. ASSUME NEW x, Grants(t, x) PROVE Grants(s, x)
  <2>1. PICK i \in DOMAIN t : \E j \in DOMAIN t :
          i < j /\ Requests(t[i], x) /\ Approves(t[j], x)
    BY <1>g DEF Grants
  <2>2. PICK j \in DOMAIN t : i < j /\ Requests(t[i], x) /\ Approves(t[j], x)
    BY <2>1
  <2>3. /\ from(i) \in DOMAIN s /\ from(j) \in DOMAIN s /\ from(i) < from(j)
        /\ Requests(s[from(i)], x) /\ Approves(s[from(j)], x)
    BY <2>2, <1>5, <1>6
  <2> HIDE DEF from
  <2> QED BY <2>3 DEF Grants
<1>9. Leaves(s, t) /\ t \in Seq(S)
  BY <1>3, <1>7, <1>8, <1>g DEF Leaves
<1> QED BY <1>9 DEF s, t, p, q

-----------------------------------------------------------------------------
\* Where the elements of a concatenation come from.
LEMMA ConcatParts ==
    ASSUME NEW S, NEW a \in Seq(S), NEW b \in Seq(S)
    PROVE  /\ a \o b \in Seq(S)
           /\ Len(a) \in Nat /\ \A k \in DOMAIN (a \o b) : k \in Nat
           /\ \A k \in DOMAIN a : k \in Nat /\ k <= Len(a)
           /\ \A k \in DOMAIN b : k \in Nat /\ 0 < k
           /\ \A k \in DOMAIN a : k \in DOMAIN (a \o b) /\ (a \o b)[k] = a[k]
           /\ \A k \in DOMAIN b :
                k + Len(a) \in DOMAIN (a \o b) /\ (a \o b)[k + Len(a)] = b[k]
           /\ \A k \in DOMAIN (a \o b) :
                \/ k \in DOMAIN a /\ (a \o b)[k] = a[k]
                \/ Len(a) < k /\ k - Len(a) \in DOMAIN b /\ (a \o b)[k] = b[k - Len(a)]
<1> DEFINE c == a \o b
<1>1. /\ c \in Seq(S) /\ Len(c) = Len(a) + Len(b)
      /\ \A i \in 1..(Len(a) + Len(b)) :
           c[i] = IF i <= Len(a) THEN a[i] ELSE b[i - Len(a)]
  BY ConcatProperties
<1> HIDE DEF c
<1>2. DOMAIN c = 1..(Len(a) + Len(b)) /\ DOMAIN a = 1..Len(a) /\ DOMAIN b = 1..Len(b)
        /\ Len(a) \in Nat /\ Len(b) \in Nat
  BY <1>1
<1>3. \A k \in DOMAIN a : k \in DOMAIN c /\ c[k] = a[k]
  BY <1>1, <1>2
<1>4. ASSUME NEW k \in DOMAIN b PROVE k + Len(a) \in DOMAIN c /\ c[k + Len(a)] = b[k]
  <2>1. k + Len(a) \in 1..(Len(a) + Len(b)) /\ ~(k + Len(a) <= Len(a))
          /\ k + Len(a) - Len(a) = k
    BY <1>2
  <2> QED BY <2>1, <1>1, <1>2
<1>5. ASSUME NEW k \in DOMAIN c
      PROVE  \/ k \in DOMAIN a /\ c[k] = a[k]
             \/ Len(a) < k /\ k - Len(a) \in DOMAIN b /\ c[k] = b[k - Len(a)]
  BY <1>1, <1>2
<1> QED BY <1>1, <1>2, <1>3, <1>4, <1>5 DEF c

\* The last event about an intent stays the last behind which no other is put.
LEMMA EndsConcat ==
    ASSUME NEW S, NEW a \in Seq(S), NEW b \in Seq(S), NEW i, NEW kind,
           \A k \in DOMAIN b : b[k].intent # i, Ends(a, i, kind)
    PROVE  Ends(a \o b, i, kind)
<1>1. PICK k \in DOMAIN a : /\ a[k].intent = i /\ a[k].kind = kind
                            /\ \A j \in DOMAIN a : a[j].intent = i => j <= k
  BY DEF Ends
<1>2. k \in DOMAIN (a \o b) /\ (a \o b)[k] = a[k]
  BY ConcatParts
<1>3. ASSUME NEW j \in DOMAIN (a \o b), (a \o b)[j].intent = i PROVE j <= k
  <2>1. j \in DOMAIN a /\ (a \o b)[j] = a[j]
    BY <1>3, ConcatParts
  <2> QED BY <1>1, <1>3, <2>1
<1> QED BY <1>1, <1>2, <1>3 DEF Ends

\* The event at the end of a log is the last about its intent.
LEMMA EndsAppended ==
    ASSUME NEW S, NEW a \in Seq(S), NEW e \in S
    PROVE  Ends(a \o <<e>>, e.intent, e.kind)
<1> DEFINE b == <<e>>
           c == a \o b
<1>1. b \in Seq(S) /\ DOMAIN b = {1} /\ b[1] = e
  OBVIOUS
<1> HIDE DEF b
<1>2. /\ Len(a) \in Nat /\ \A k \in DOMAIN c : k \in Nat
      /\ \A k \in DOMAIN a : k \in Nat /\ k <= Len(a)
      /\ 1 + Len(a) \in DOMAIN c /\ c[1 + Len(a)] = e
      /\ \A k \in DOMAIN c : k \in DOMAIN a \/ k - Len(a) = 1
  BY <1>1, ConcatParts
<1> HIDE DEF c
<1>3. \A k \in DOMAIN c : k <= 1 + Len(a)
  BY <1>2
<1>4. Ends(c, e.intent, e.kind)
  BY <1>2, <1>3 DEF Ends
<1> QED BY <1>4 DEF c, b

\* An event is in a concatenation when it is in one of its parts.
LEMMA InConcat ==
    ASSUME NEW S, NEW a \in Seq(S), NEW b \in Seq(S), NEW e
    PROVE  In(e, a \o b) <=> In(e, a) \/ In(e, b)
<1> DEFINE c == a \o b
<1>1. /\ \A k \in DOMAIN a : k \in DOMAIN c /\ c[k] = a[k]
      /\ \A k \in DOMAIN b : k + Len(a) \in DOMAIN c /\ c[k + Len(a)] = b[k]
      /\ \A k \in DOMAIN c : \/ k \in DOMAIN a /\ c[k] = a[k]
                             \/ k - Len(a) \in DOMAIN b /\ c[k] = b[k - Len(a)]
  BY ConcatParts
<1> HIDE DEF c
<1>2. In(e, c) <=> In(e, a) \/ In(e, b)
  BY <1>1 DEF In
<1> QED BY <1>2 DEF c

\* The log tells what either of its parts tells.
LEMMA TellsConcat ==
    ASSUME NEW S, NEW a \in Seq(S), NEW b \in Seq(S), NEW i, NEW kinds
    PROVE  Tells(a \o b, i, kinds) <=> Tells(a, i, kinds) \/ Tells(b, i, kinds)
<1> DEFINE about(e) == e.intent = i /\ e.kind \in kinds
<1>1. \A log : Tells(log, i, kinds) <=> \E e : In(e, log) /\ about(e)
  BY DEF Tells, In
<1> HIDE DEF about
<1> QED BY <1>1, InConcat

\* Every element of a concatenation comes from one of its parts.
LEMMA ConcatElements ==
    ASSUME NEW S, NEW a \in Seq(S), NEW b \in Seq(S), NEW k \in DOMAIN (a \o b)
    PROVE  \/ \E j \in DOMAIN a : (a \o b)[k] = a[j]
           \/ \E j \in DOMAIN b : (a \o b)[k] = b[j]
BY ConcatParts

\* What appendEvent adds is the event, or nothing when it is known.
LEMMA AddedIsEvent ==
    ASSUME NEW e \in IntentEvent
    PROVE  /\ Added(e) \in Seq(IntentEvent)
           /\ \A k \in DOMAIN Added(e) : Added(e)[k] = e
           /\ Ordered(Added(e))
           /\ \A i, kinds : Tells(Added(e), i, kinds) => e.intent = i /\ e.kind \in kinds
           /\ e.n = 0 => \/ Tells(events, e.intent, {e.kind})
                         \/ Tells(Added(e), e.intent, {e.kind})
<1>1. CASE Known(e)
  <2>1. Added(e) = <<>>
    BY <1>1 DEF Added
  <2>2. <<>> \in Seq(IntentEvent) /\ DOMAIN <<>> = {}
    OBVIOUS
  <2>3. e.n = 0 => Tells(events, e.intent, {e.kind})
    BY <1>1 DEF Known, SameId, Tells
  <2> QED BY <2>1, <2>2, <2>3 DEF Ordered, Tells
<1>2. CASE ~Known(e)
  <2>1. Added(e) = <<e>>
    BY <1>2 DEF Added
  <2>2. <<e>> \in Seq(IntentEvent) /\ DOMAIN <<e>> = {1} /\ <<e>>[1] = e
    OBVIOUS
  <2>3. Ordered(<<e>>)
    BY <2>2 DEF Ordered
  <2>4. Tells(<<e>>, e.intent, {e.kind})
    BY <2>2 DEF Tells
  <2> QED BY <2>1, <2>2, <2>3, <2>4 DEF Tells
<1> QED BY <1>1, <1>2

\* A sequence in which no event is about an intent is ordered.
LEMMA NobodyIsOrdered ==
    ASSUME NEW new, \A k \in DOMAIN new : new[k].intent = NoOne
    PROVE  Ordered(new)
BY DEF Ordered, MayFollow

\* An append to the log in memory is one to the lines of the next process.
LEMMA AppendedLines ==
    ASSUME Log!LogTypeOK, NEW new \in Seq(IntentEvent), Log!AppendEvents(new)
    PROVE  /\ events \in Seq(IntentEvent) /\ events' = events \o new
           /\ Lines \in Seq(IntentEvent) /\ Lines' = Lines \o new
           /\ Log!LogTypeOK'
<1>1. /\ events \in Seq(IntentEvent) /\ unwritten \in Seq(IntentEvent)
      /\ disk \in Seq(IntentEvent)
      /\ events' = events \o new /\ unwritten' = unwritten \o new /\ disk' = disk
  BY DEF Log!LogTypeOK, Log!AppendEvents
<1>2. /\ events \o new \in Seq(IntentEvent) /\ unwritten \o new \in Seq(IntentEvent)
      /\ disk \o unwritten \in Seq(IntentEvent)
  BY <1>1, ConcatProperties
<1>3. disk \o (unwritten \o new) = (disk \o unwritten) \o new
  BY ONLY <1>1, ConcatAssociative, SMTT(30)
<1> QED BY <1>1, <1>2, <1>3 DEF Lines, Log!LogTypeOK

(***************************************************************************)
(* An append of events that may stand behind all others keeps the order in *)
(* memory and of the lines, and tells what the new events tell.            *)
(***************************************************************************)
LEMMA AppendKeepsOrder ==
    ASSUME Log!LogTypeOK, Ordered(events), Ordered(Lines), LinesKnown,
           NEW new \in Seq(IntentEvent), Ordered(new),
           \A j \in DOMAIN events, k \in DOMAIN new : MayFollow(events[j], new[k]),
           Log!AppendEvents(new)
    PROVE  /\ Log!LogTypeOK'
           /\ Ordered(events)' /\ Ordered(Lines)' /\ LinesKnown'
           /\ \A i, kinds : Tells(events, i, kinds)' <=>
                              Tells(events, i, kinds) \/ Tells(new, i, kinds)
           /\ \A i, kind : Ends(events, i, kind) /\ (\A k \in DOMAIN new : new[k].intent # i)
                              => Ends(events, i, kind)'
<1>1. /\ events \in Seq(IntentEvent) /\ events' = events \o new
      /\ Lines \in Seq(IntentEvent) /\ Lines' = Lines \o new
      /\ Log!LogTypeOK'
  BY AppendedLines
<1>3. Ordered(events)'
  <2>1. Ordered(events \o new)
    BY <1>1, OrderedConcat
  <2> QED BY <1>1, <2>1
<1>5. Ordered(Lines)'
  <2>1. \A j \in DOMAIN Lines, k \in DOMAIN new : MayFollow(Lines[j], new[k])
    BY DEF LinesKnown, In
  <2>2. Ordered(Lines \o new)
    BY <1>1, <2>1, OrderedConcat
  <2> QED BY <1>1, <2>2
<1>6. LinesKnown'
  <2>1. ASSUME NEW k \in DOMAIN (Lines \o new) PROVE In((Lines \o new)[k], events \o new)
    <3>1. CASE \E j \in DOMAIN Lines : (Lines \o new)[k] = Lines[j]
      <4>1. In((Lines \o new)[k], events)
        BY <3>1 DEF LinesKnown
      <4> QED BY <4>1, <1>1, InConcat
    <3>2. CASE \E j \in DOMAIN new : (Lines \o new)[k] = new[j]
      <4>1. In((Lines \o new)[k], new)
        BY <3>2 DEF In
      <4> QED BY <4>1, <1>1, InConcat
    <3> QED BY <3>1, <3>2, <1>1, ConcatElements
  <2>2. \A k \in DOMAIN Lines' : In(Lines'[k], events')
    BY <1>1, <2>1
  <2> QED BY <2>2 DEF LinesKnown
<1>7. \A i, kinds : Tells(events, i, kinds)' <=>
                    Tells(events, i, kinds) \/ Tells(new, i, kinds)
  <2>1. \A i, kinds : Tells(events \o new, i, kinds) <=>
                      Tells(events, i, kinds) \/ Tells(new, i, kinds)
    BY <1>1, TellsConcat
  <2> QED BY <1>1, <2>1
<1>8. \A i, kind : Ends(events, i, kind) /\ (\A k \in DOMAIN new : new[k].intent # i)
                       => Ends(events, i, kind)'
  <2>1. \A i, kind : Ends(events, i, kind) /\ (\A k \in DOMAIN new : new[k].intent # i)
                        => Ends(events \o new, i, kind)
    BY <1>1, EndsConcat
  <2> QED BY <1>1, <2>1
<1> QED BY <1>1, <1>3, <1>5, <1>6, <1>7, <1>8

-----------------------------------------------------------------------------
ApprovalRecord == [task : Task \cup {NoOne}, status : {"none", "pending"} \cup Verdicts]
IntentRecord == [task : Task \cup {NoOne}, approval : 0..MaxSequence, status : Status]

\* An event about an intent is no event of the coordinator.
LEMMA OwnEvent ==
    ASSUME NEW e \in IntentEvent, NEW i \in Intent, e.intent = i
    PROVE  /\ e.kind \in {"created"} \cup Settlement
           /\ e.ref \in 0..MaxSequence /\ e.task \in Task \cup {NoOne}
           /\ e.kind = "created" => e.ref \in Ids /\ e.task \in Task
           /\ e.kind \in Settlement => e = Settled(i, e.kind)
<1>1. e.intent # NoOne
  BY IntentAssumption
<1>2. CASE e \in [n : {0}, kind : {"created"}, ref : Ids, task : Task, intent : Intent]
  BY <1>2 DEF Settlement, Ids
<1>3. CASE e \in [n : {0}, kind : Settlement, ref : {0}, task : {NoOne}, intent : Intent]
  BY <1>3, IntentAssumption DEF Settlement, Settled
<1> QED BY <1>1, <1>2, <1>3 DEF IntentEvent

\* What the coordinator reads from a log is an approval.
LEMMA ApprovalInType ==
    ASSUME NEW log \in Seq(IntentEvent), NEW a
    PROVE  ApprovalIn(log, a) \in ApprovalRecord
<1> DEFINE requests == {k \in DOMAIN log : log[k].kind = "requested" /\ log[k].ref = a}
           verdicts == {k \in DOMAIN log : log[k].kind \in Verdicts /\ log[k].ref = a}
           both == requests \cup verdicts
<1>1. /\ Len(log) \in Nat /\ requests \in SUBSET (1..Len(log))
      /\ both \in SUBSET (1..Len(log)) /\ \A k \in 1..Len(log) : log[k] \in IntentEvent
  OBVIOUS
<1>2. CASE requests = {}
  <2>1. ApprovalIn(log, a) = NoApproval
    BY <1>2 DEF ApprovalIn
  <2> QED BY <2>1 DEF NoApproval, ApprovalRecord
<1>3. CASE requests # {}
  <2>1. Latest(requests) \in requests /\ Latest(both) \in both
    <3>1. both # {}
      BY <1>3
    <3> HIDE DEF both, requests
    <3> QED BY <1>1, <1>3, <3>1, LatestIsLast
  <2>2. log[Latest(requests)].task \in Task \cup {NoOne}
    <3>1. Latest(requests) \in 1..Len(log)
      BY <2>1, <1>1
    <3>2. log[Latest(requests)] \in IntentEvent
      BY <1>1, <3>1
    <3> QED BY <3>2 DEF IntentEvent
  <2>3. log[Latest(both)].kind \in {"requested"} \cup Verdicts
    BY <2>1
  <2>4. ApprovalIn(log, a) =
          [task |-> log[Latest(requests)].task,
           status |-> ApprovalStatus(log[Latest(both)].kind)]
    BY <1>3 DEF ApprovalIn
  <2>5. ApprovalStatus(log[Latest(both)].kind) \in {"none", "pending"} \cup Verdicts
    BY <2>3 DEF ApprovalStatus
  <2> HIDE DEF both, requests
  <2> QED BY <2>2, <2>4, <2>5 DEF ApprovalRecord
<1> QED BY <1>2, <1>3

(***************************************************************************)
(* A restored intent is an intent, and its status agrees with an ordered   *)
(* log: what the last event of the intent says.                            *)
(***************************************************************************)
LEMMA RestoredAgrees ==
    ASSUME NEW log \in Seq(IntentEvent), NEW aps, NEW expired, NEW i \in Intent
    PROVE  LET r == RestoredIntent(log, aps, expired, i) IN
           /\ r \in IntentRecord
           /\ Ordered(log) =>
                /\ r.status \in Open => ~Tells(log, i, Settlement)
                /\ Tells(log, i, {"cancelled"}) => r.status \in {"cancelled", "none"}
                /\ r.status \in Settlement => Ends(log, i, r.status)
<1> DEFINE concerns == {k \in DOMAIN log : log[k].intent = i}
           creations == {k \in concerns : log[k].kind = "created"}
           r == RestoredIntent(log, aps, expired, i)
           m == Latest(concerns)
           created == log[Latest(creations)]
           verdict == aps[created.ref].status
<1> SUFFICES /\ r \in IntentRecord
             /\ Ordered(log) =>
                  /\ r.status \in Open => ~Tells(log, i, Settlement)
                  /\ Tells(log, i, {"cancelled"}) => r.status \in {"cancelled", "none"}
                  /\ r.status \in Settlement => Ends(log, i, r.status)
  OBVIOUS
<1>1. /\ Len(log) \in Nat /\ concerns \in SUBSET (1..Len(log))
      /\ creations \in SUBSET (1..Len(log)) /\ \A k \in 1..Len(log) : log[k] \in IntentEvent
  OBVIOUS
<1>2. CASE creations = {}
  <2>1. r = NoIntent
    BY <1>2 DEF RestoredIntent
  <2> HIDE DEF r
  <2> QED BY <2>1, IntentAssumption DEF NoIntent, IntentRecord, Status, Open, Verdicts, Settlement
<1>3. CASE creations # {}
  <2>1. /\ m \in concerns /\ \A k \in concerns : k <= m
        /\ Latest(creations) \in creations
    <3>1. concerns # {}
      BY <1>3
    <3> HIDE DEF concerns, creations
    <3> QED BY <1>1, <1>3, <3>1, LatestIsLast
  <2>2. log[m].kind \in {"created"} \cup Settlement
    BY <2>1, <1>1, OwnEvent
  <2>3. created.ref \in 0..MaxSequence /\ created.task \in Task \cup {NoOne}
    BY <2>1, <1>1, OwnEvent
  <2>4. r = [task |-> created.task, approval |-> created.ref,
             status |-> IntentStatus(log[m].kind, verdict, i \in expired)]
    BY <1>3 DEF RestoredIntent
  <2>5. r.status = IntentStatus(log[m].kind, verdict, i \in expired)
    <3> HIDE DEF r, created, m, verdict
    <3> QED BY <2>4
  <2>6. r.status \in Status
    <3> HIDE DEF r, created, m, verdict
    <3> QED BY <2>2, <2>5 DEF IntentStatus, Status
  <2>7. log[m].kind # "created" => r.status = log[m].kind
    <3> HIDE DEF r, created, m, verdict
    <3> QED BY <2>5 DEF IntentStatus
  <2>8. log[m].kind = "created" => r.status \notin Settlement
    <3> HIDE DEF r, created, m, verdict
    <3> QED BY <2>5 DEF IntentStatus, Verdicts, Settlement
  <2>9. r \in IntentRecord
    <3>1. r = [task |-> created.task, approval |-> created.ref, status |-> r.status]
      <4> HIDE DEF created, m, verdict
      <4> QED BY <2>4
    <3> HIDE DEF r, created, m, verdict
    <3> QED BY <2>3, <2>6, <3>1 DEF IntentRecord
  <2>10. ASSUME Ordered(log), NEW k \in DOMAIN log, log[k].intent = i, k # m
         PROVE  MayFollow(log[k], log[m])
    <3>1. k <= m /\ k \in 1..Len(log) /\ m \in 1..Len(log) /\ m \in DOMAIN log
      BY <2>1, <2>10
    <3>2. k < m
      BY <3>1, <2>10
    <3> QED BY <3>1, <3>2, <2>10 DEF Ordered
  <2>11. i # NoOne /\ log[m].intent = i
    BY <2>1, IntentAssumption
  <2>12. ASSUME Ordered(log), r.status \in Open, Tells(log, i, Settlement) PROVE FALSE
    <3>1. PICK k \in DOMAIN log : log[k].intent = i /\ log[k].kind \in Settlement
      BY <2>12 DEF Tells
    <3>2. log[m].kind = "created"
      <4> HIDE DEF r, m
      <4> QED BY <2>12, <2>2, <2>7 DEF Open, Verdicts, Settlement
    <3>3. k # m
      <4> HIDE DEF m
      <4> QED BY <3>1, <3>2 DEF Settlement
    <3> QED BY <2>10, <2>11, <2>12, <3>1, <3>2, <3>3 DEF MayFollow
  <2>13. ASSUME Ordered(log), Tells(log, i, {"cancelled"}) PROVE r.status = "cancelled"
    <3>1. PICK k \in DOMAIN log : log[k].intent = i /\ log[k].kind = "cancelled"
      BY <2>13 DEF Tells
    <3>2. k = m
      BY <2>10, <2>11, <2>13, <3>1 DEF MayFollow
    <3> HIDE DEF r, m
    <3> QED BY <3>1, <3>2, <2>7
  <2>14. ASSUME r.status \in Settlement PROVE Ends(log, i, r.status)
    <3>1. log[m].kind = r.status
      <4> HIDE DEF r, m
      <4> QED BY <2>14, <2>2, <2>7, <2>8
    <3>2. m \in DOMAIN log /\ \A j \in DOMAIN log : log[j].intent = i => j <= m
      BY <2>1
    <3> HIDE DEF r, m
    <3> QED BY <3>1, <3>2, <2>11 DEF Ends
  <2> HIDE DEF r
  <2> QED BY <2>9, <2>12, <2>13, <2>14
<1> QED BY <1>2, <1>3

-----------------------------------------------------------------------------
\* TypeOK without the log and without the flag.
DataOK ==
    /\ approvals \in [Ids -> ApprovalRecord]
    /\ sequence \in 0..MaxSequence
    /\ intents \in [Intent -> IntentRecord]
    /\ losses \in 0..MaxLosses
    /\ late \subseteq Intent /\ granted \subseteq Intent
    /\ spent \in [Intent -> {"none", "consumed", "forgotten"}]

LEMMA TypeParts == TypeOK <=> DataOK /\ reused \in BOOLEAN /\ Log!LogTypeOK
BY DEF TypeOK, DataOK, ApprovalRecord, IntentRecord

\* The events of the operations are events.
LEMMA EventTypes ==
    ASSUME NEW n \in Ids, NEW a \in Ids, NEW t \in Task, NEW i \in Intent
    PROVE  /\ RequestEvent(n, a, t) \in IntentEvent
           /\ \A verdict \in Verdicts : VerdictEvent(n, a, verdict) \in IntentEvent
           /\ CreatedEvent(i, t, a) \in IntentEvent
BY DEF RequestEvent, VerdictEvent, CreatedEvent, IntentEvent

LEMMA SettledType ==
    ASSUME NEW i \in Intent, NEW kind \in Settlement
    PROVE  Settled(i, kind) \in IntentEvent
BY IntentAssumption DEF Settled, IntentEvent

\* Requests and verdicts keep the approvals in their type.
LEMMA ApprovalTypes ==
    ASSUME approvals \in [Ids -> ApprovalRecord], NEW a \in Ids, NEW t \in Task
    PROVE  /\ Asked(a, t) \in [Ids -> ApprovalRecord]
           /\ \A n, aps, verdict :
                aps \in [Ids -> ApprovalRecord] /\ verdict \in Verdicts
                  => Judged(aps, n, a, verdict) \in [Ids -> ApprovalRecord]
<1>1. Asked(a, t) \in [Ids -> ApprovalRecord]
  BY DEF Asked, ApprovalRecord
<1>2. ASSUME NEW n, NEW aps \in [Ids -> ApprovalRecord], NEW verdict \in Verdicts
      PROVE  Judged(aps, n, a, verdict) \in [Ids -> ApprovalRecord]
  <2>1. [aps EXCEPT ![a].status = verdict] \in [Ids -> ApprovalRecord]
    BY DEF ApprovalRecord
  <2> QED BY <2>1 DEF Judged
<1> QED BY <1>1, <1>2

\* A verdict opens no intent and changes only pending ones.
LEMMA FollowTypes ==
    ASSUME intents \in [Intent -> IntentRecord], NEW a, NEW verdict \in Verdicts
    PROVE  /\ Follow(a, verdict) \in [Intent -> IntentRecord]
           /\ \A i \in Intent : \/ Follow(a, verdict)[i] = intents[i]
                               \/ /\ intents[i].status = "pending"
                                  /\ Follow(a, verdict)[i].status = verdict
BY DEF Follow, IntentRecord, Status

\* Events of the coordinator, and of intents the log does not know, may be
\* appended at any time and settle nothing.
LEMMA QuietAppend ==
    ASSUME IndInv, NEW new \in Seq(IntentEvent), Log!AppendEvents(new), Ordered(new),
           \A k \in DOMAIN new : new[k].kind \notin Settlement,
           \A k \in DOMAIN new, j \in DOMAIN events :
             new[k].intent # NoOne => events[j].intent # new[k].intent
    PROVE  /\ Log!LogTypeOK'
           /\ Ordered(events)' /\ Ordered(Lines)' /\ LinesKnown'
           /\ \A i : \A kinds \in SUBSET Settlement :
                Tells(events, i, kinds)' <=> Tells(events, i, kinds)
           /\ \A i \in Intent : \A kind : Ends(events, i, kind) => Ends(events, i, kind)'
<1>1. \A j \in DOMAIN events, k \in DOMAIN new : MayFollow(events[j], new[k])
  BY DEF MayFollow
<1>2. \A i : \A kinds \in SUBSET Settlement : ~Tells(new, i, kinds)
  BY DEF Tells
<1>3. ASSUME NEW i \in Intent, NEW kind, Ends(events, i, kind)
      PROVE  \A k \in DOMAIN new : new[k].intent # i
  BY <1>3, IntentAssumption DEF Ends
<1> QED BY <1>1, <1>2, <1>3, AppendKeepsOrder, TypeParts DEF IndInv

\* What the lines on the disk and the lost ones leave to a new process.
LEMMA LinesLeft ==
    ASSUME IndInv, NEW keep \in 0..Len(disk),
           NEW lo \in 1..2, NEW hi \in (lo - 1)..Len(unwritten),
           NEW rest, rest = SubSeq(disk, 1, keep) \o SubSeq(unwritten, lo, hi)
    PROVE  /\ rest \in Seq(IntentEvent)
           /\ Ordered(rest)
           /\ \A k \in DOMAIN rest : In(rest[k], events)
           /\ \A a : Grants(rest, a) => Grants(Lines, a)
<1>1. disk \in Seq(IntentEvent) /\ unwritten \in Seq(IntentEvent)
  BY TypeParts DEF IndInv, Log!LogTypeOK
<1>2. Leaves(Lines, rest) /\ rest \in Seq(IntentEvent)
  BY <1>1, Remembered DEF Lines
<1>3. ASSUME NEW k \in DOMAIN rest PROVE In(rest[k], events)
  <2>1. PICK l \in DOMAIN Lines : rest[k] = Lines[l]
    BY <1>2 DEF Leaves
  <2> QED BY <2>1 DEF IndInv, LinesKnown
<1> QED BY <1>2, <1>3 DEF IndInv, Leaves

-----------------------------------------------------------------------------
\* A step that settles nothing keeps Agrees if it opens no intent the log
\* tells a settlement of.
LEMMA QuietAgrees ==
    ASSUME IndInv,
           \A i : \A kinds \in SUBSET Settlement :
             Tells(events, i, kinds)' <=> Tells(events, i, kinds),
           \A i \in Intent : \A kind : Ends(events, i, kind) => Ends(events, i, kind)',
           \A i \in Intent : spent'[i] = "consumed" => spent[i] = "consumed",
           \A i \in Intent :
             \/ intents'[i].status = intents[i].status
             \/ intents'[i].status = "expired"
             \/ intents'[i].status \in Open /\ ~Tells(events, i, Settlement)
    PROVE  Agrees'
<1>1. Settlement \in SUBSET Settlement /\ {"cancelled"} \in SUBSET Settlement
        /\ {"consumed"} \in SUBSET Settlement
  BY DEF Settlement
<1>2. \A i : /\ Tells(events, i, Settlement)' <=> Tells(events, i, Settlement)
             /\ Tells(events, i, {"cancelled"})' <=> Tells(events, i, {"cancelled"})
             /\ Tells(events, i, {"consumed"})' <=> Tells(events, i, {"consumed"})
             /\ Tells(events, i, {"cancelled"}) => Tells(events, i, Settlement)
  <2> TAKE i
  <2>1. Tells(events, i, {"cancelled"}) => Tells(events, i, Settlement)
    BY DEF Tells, Settlement
  <2> QED BY <1>1, <2>1
<1>3. ASSUME NEW i \in Intent
      PROVE  /\ spent'[i] = "consumed" => Tells(events, i, {"consumed"})'
             /\ intents'[i].status \in Open => ~Tells(events, i, Settlement)'
             /\ Tells(events, i, {"cancelled"})'
                  => intents'[i].status \in {"cancelled", "expired", "none"}
             /\ intents'[i].status \in Settlement => Ends(events, i, intents[i].status)'
                                                     /\ intents'[i].status = intents[i].status
  <2>1. /\ spent[i] = "consumed" => Tells(events, i, {"consumed"})
        /\ intents[i].status \in Open => ~Tells(events, i, Settlement)
        /\ Tells(events, i, {"cancelled"})
             => intents[i].status \in {"cancelled", "expired", "none"}
        /\ intents[i].status \in Settlement => Ends(events, i, intents[i].status)
    BY DEF IndInv, Agrees
  <2>2. /\ intents'[i].status = "expired" => intents'[i].status \notin Open \cup Settlement
        /\ intents'[i].status \in Open => intents'[i].status \notin Settlement
    BY DEF Open, Verdicts, Settlement
  <2>3. intents'[i].status \in Settlement
          => Ends(events, i, intents[i].status)' /\ intents'[i].status = intents[i].status
    BY <2>1, <2>2
  <2> QED BY <1>2, <2>1, <2>2, <2>3
<1> QED BY <1>3 DEF Agrees

\* A pending or approved intent has not been settled, by the log.
LEMMA OpenIsUnused ==
    ASSUME IndInv, NEW i \in Intent, intents[i].status \in {"pending", "approved"}
    PROVE  ~Tells(events, i, Settlement)
BY DEF IndInv, Agrees, Open, Verdicts

\* The log tells nothing of a fresh intent.
LEMMA FreshIsUntold ==
    ASSUME NEW i, Fresh(i) PROVE \A kinds : ~Tells(events, i, kinds)
BY DEF Fresh, Tells

\* The flag stays a flag.
LEMMA FlagStep ==
    ASSUME reused \in BOOLEAN, NEW p, reused' = (reused \/ p)
    PROVE  reused' \in BOOLEAN
BY Zenon

\* Events of the coordinator followed by one of an intent.
LEMMA LastEvent ==
    ASSUME NEW s \in Seq(IntentEvent), NEW S, \A k \in DOMAIN s : s[k] \in S,
           \A k \in DOMAIN s : s[k].intent = NoOne, NEW e \in IntentEvent
    PROVE  /\ s \o <<e>> \in Seq(IntentEvent) /\ Ordered(s \o <<e>>)
           /\ \A k \in DOMAIN (s \o <<e>>) : (s \o <<e>>)[k] \in S \cup {e}
<1>1. <<e>> \in Seq(IntentEvent) /\ DOMAIN <<e>> = {1} /\ <<e>>[1] = e
  OBVIOUS
<1>2. s \o <<e>> \in Seq(IntentEvent)
  BY <1>1, ConcatProperties
<1>3. ASSUME NEW k \in DOMAIN (s \o <<e>>) PROVE (s \o <<e>>)[k] \in S \cup {e}
  <2>1. \/ \E j \in DOMAIN s : (s \o <<e>>)[k] = s[j]
        \/ \E j \in DOMAIN <<e>> : (s \o <<e>>)[k] = <<e>>[j]
    BY <1>1, ConcatElements
  <2> QED BY <2>1, <1>1
<1>4. Ordered(s \o <<e>>)
  <2> DEFINE b == <<e>>
  <2>1. Ordered(s) /\ Ordered(b)
    BY <1>1, NobodyIsOrdered DEF Ordered
  <2>2. b \in Seq(IntentEvent) /\ \A j \in DOMAIN s, k \in DOMAIN b : MayFollow(s[j], b[k])
    BY <1>1 DEF MayFollow
  <2> HIDE DEF b
  <2>3. Ordered(s \o b)
    BY <2>1, <2>2, OrderedConcat
  <2> QED BY <2>3 DEF b
<1> QED BY <1>2, <1>3, <1>4

LEMMA CreateStep ==
    ASSUME IndInv, NEW i \in Intent, NEW t \in Task, Create(i, t), UNCHANGED losses
    PROVE  IndInv'
<1> DEFINE a == sequence + 1
           request == RequestEvent(a + 1, a, t)
           creation == CreatedEvent(i, t, a)
           new == Added(request) \o <<creation>>
<1>1. DataOK /\ reused \in BOOLEAN /\ sequence \in 0..MaxSequence
  BY TypeParts DEF IndInv, DataOK
<1>2. a \in Ids /\ a + 1 \in Ids
  BY <1>1, IntentAssumption DEF Create, Ids
<1>3. request \in IntentEvent /\ creation \in IntentEvent
  BY <1>2, EventTypes
<1>4. /\ request.kind = "requested" /\ request.intent = NoOne
      /\ creation.kind = "created" /\ creation.intent = i
  BY DEF RequestEvent, CreatedEvent
<1>5. /\ Log!AppendEvents(new) /\ Fresh(i)
      /\ intents' = [intents EXCEPT ![i] = [task |-> t, approval |-> a, status |-> "pending"]]
      /\ approvals' = Asked(a, t) /\ sequence' = a + 1
      /\ late' = late \ {i} /\ granted' = granted \ {i}
      /\ spent' = [spent EXCEPT ![i] = "none"]
      /\ reused' = (reused \/ InUse(a, t))
  BY DEF Create
<1>6. /\ new \in Seq(IntentEvent) /\ Ordered(new)
      /\ \A k \in DOMAIN new : new[k] \in {request, creation}
  <2> HIDE DEF request, creation
  <2>1. Added(request) \in Seq(IntentEvent)
          /\ \A k \in DOMAIN Added(request) : Added(request)[k] \in {request}
    BY <1>3, AddedIsEvent
  <2>3. \A k \in DOMAIN Added(request) : Added(request)[k].intent = NoOne
    BY <1>4, <2>1
  <2>2. /\ new \in Seq(IntentEvent) /\ Ordered(new)
        /\ \A k \in DOMAIN new : new[k] \in {request} \cup {creation}
    BY <1>3, <2>1, <2>3, LastEvent
  <2> QED BY <2>2
<1> HIDE DEF new, request, creation
<1>7. \A k \in DOMAIN new : new[k].kind \notin Settlement
  BY <1>4, <1>6 DEF Settlement
<1>8. \A k \in DOMAIN new, j \in DOMAIN events :
        new[k].intent # NoOne => events[j].intent # new[k].intent
  BY <1>4, <1>5, <1>6 DEF Fresh
<1>9. /\ Log!LogTypeOK'
      /\ Ordered(events)' /\ Ordered(Lines)' /\ LinesKnown'
      /\ \A j : \A kinds \in SUBSET Settlement :
           Tells(events, j, kinds)' <=> Tells(events, j, kinds)
      /\ \A j \in Intent : \A kind : Ends(events, j, kind) => Ends(events, j, kind)'
  BY <1>5, <1>6, <1>7, <1>8, QuietAppend
<1>10. DataOK'
  <2>1. approvals' \in [Ids -> ApprovalRecord]
    BY <1>1, <1>2, <1>5, ApprovalTypes DEF DataOK
  <2>2. intents' \in [Intent -> IntentRecord]
    <3>1. [task |-> t, approval |-> a, status |-> "pending"] \in IntentRecord
      BY <1>2 DEF IntentRecord, Status, Ids
    <3> HIDE DEF a
    <3> QED BY <3>1, <1>1, <1>5 DEF DataOK
  <2>3. sequence' \in 0..MaxSequence
    BY <1>2, <1>5 DEF Ids
  <2>4. spent' \in [Intent -> {"none", "consumed", "forgotten"}]
    BY <1>1, <1>5 DEF DataOK
  <2> QED BY <2>1, <2>2, <2>3, <2>4, <1>1, <1>5 DEF DataOK
<1>11. Agrees'
  <2>1. ASSUME NEW j \in Intent
        PROVE  /\ spent'[j] = "consumed" => spent[j] = "consumed"
               /\ \/ intents'[j].status = intents[j].status
                  \/ intents'[j].status \in Open /\ ~Tells(events, j, Settlement)
    <3> HIDE DEF a
    <3>1. CASE j = i
      <4>1. intents'[j].status = "pending" /\ spent'[j] = "none"
        BY <3>1, <1>1, <1>5 DEF DataOK
      <4> QED BY <4>1, <3>1, <1>5, FreshIsUntold DEF Open, Verdicts
    <3>2. CASE j # i
      BY <3>2, <1>1, <1>5 DEF DataOK
    <3> QED BY <3>1, <3>2
  <2> QED BY <2>1, <1>9, QuietAgrees
<1>12. reused' \in BOOLEAN
  BY <1>1, <1>5, FlagStep
<1>13. TypeOK'
  BY <1>9, <1>10, <1>12, TypeParts DEF TypeOK, DataOK, ApprovalRecord, IntentRecord
<1> QED BY <1>9, <1>11, <1>13 DEF IndInv

LEMMA CreateApprovedStep ==
    ASSUME IndInv, NEW i \in Intent, NEW t \in Task, CreateApproved(i, t), UNCHANGED losses
    PROVE  IndInv'
<1> DEFINE a == sequence + 1
           request == RequestEvent(a + 1, a, t)
           yes == VerdictEvent(a + 2, a, "approved")
           creation == CreatedEvent(i, t, a)
           asked == Added(request) \o Added(yes)
           new == asked \o <<creation>>
           intent == [task |-> t, approval |-> a, status |-> "approved"]
<1>1. DataOK /\ reused \in BOOLEAN /\ sequence \in 0..MaxSequence
  BY TypeParts DEF IndInv, DataOK
<1>2. a \in Ids /\ a + 1 \in Ids /\ a + 2 \in Ids
  BY <1>1, IntentAssumption DEF CreateApproved, Ids
<1>3. request \in IntentEvent /\ yes \in IntentEvent /\ creation \in IntentEvent
  BY <1>2, EventTypes DEF Verdicts
<1>4. /\ request.kind = "requested" /\ yes.kind = "approved"
      /\ request.intent = NoOne /\ yes.intent = NoOne
      /\ creation.kind = "created" /\ creation.intent = i
  BY DEF RequestEvent, VerdictEvent, CreatedEvent
<1>5. /\ Log!AppendEvents(new) /\ Fresh(i)
      /\ intents' = [Follow(a, "approved") EXCEPT ![i] = intent]
      /\ approvals' = Judged(Asked(a, t), a + 2, a, "approved") /\ sequence' = a + 2
      /\ late' = late \ {i} /\ granted' = granted \cup {i}
      /\ spent' = [spent EXCEPT ![i] = "none"]
      /\ reused' = (reused \/ InUse(a, t) \/ Known(yes))
  BY DEF CreateApproved
<1>6. /\ new \in Seq(IntentEvent) /\ Ordered(new)
      /\ \A k \in DOMAIN new : new[k] \in {request, yes, creation}
  <2> HIDE DEF request, yes, creation
  <2>1. /\ Added(request) \in Seq(IntentEvent) /\ Added(yes) \in Seq(IntentEvent)
        /\ \A k \in DOMAIN Added(request) : Added(request)[k] = request
        /\ \A k \in DOMAIN Added(yes) : Added(yes)[k] = yes
    BY <1>3, AddedIsEvent
  <2>2. asked \in Seq(IntentEvent)
    BY <2>1, ConcatProperties
  <2>3. ASSUME NEW k \in DOMAIN asked
        PROVE  asked[k] \in {request, yes} /\ asked[k].intent = NoOne
    <3>1. \/ \E j \in DOMAIN Added(request) : asked[k] = Added(request)[j]
          \/ \E j \in DOMAIN Added(yes) : asked[k] = Added(yes)[j]
      BY <2>1, ConcatElements
    <3> QED BY <3>1, <2>1, <1>4
  <2> HIDE DEF asked
  <2>4. /\ new \in Seq(IntentEvent) /\ Ordered(new)
        /\ \A k \in DOMAIN new : new[k] \in {request, yes} \cup {creation}
    BY <1>3, <2>2, <2>3, LastEvent
  <2> QED BY <2>4
<1> HIDE DEF new, request, yes, creation
<1>7. \A k \in DOMAIN new : new[k].kind \notin Settlement
  BY <1>4, <1>6 DEF Settlement
<1>8. \A k \in DOMAIN new, j \in DOMAIN events :
        new[k].intent # NoOne => events[j].intent # new[k].intent
  BY <1>4, <1>5, <1>6 DEF Fresh
<1>9. /\ Log!LogTypeOK'
      /\ Ordered(events)' /\ Ordered(Lines)' /\ LinesKnown'
      /\ \A j : \A kinds \in SUBSET Settlement :
           Tells(events, j, kinds)' <=> Tells(events, j, kinds)
      /\ \A j \in Intent : \A kind : Ends(events, j, kind) => Ends(events, j, kind)'
  BY <1>5, <1>6, <1>7, <1>8, QuietAppend
<1>f. /\ Follow(a, "approved") \in [Intent -> IntentRecord]
      /\ \A j \in Intent : \/ Follow(a, "approved")[j] = intents[j]
                          \/ /\ intents[j].status = "pending"
                             /\ Follow(a, "approved")[j].status = "approved"
  BY <1>1, FollowTypes DEF DataOK, Verdicts
<1>10. DataOK'
  <2>1. approvals' \in [Ids -> ApprovalRecord]
    <3>1. Asked(a, t) \in [Ids -> ApprovalRecord]
      BY <1>1, <1>2, ApprovalTypes DEF DataOK
    <3> QED BY <3>1, <1>1, <1>2, <1>5, ApprovalTypes DEF DataOK, Verdicts
  <2>2. intents' \in [Intent -> IntentRecord]
    <3>1. intent \in IntentRecord
      BY <1>2 DEF IntentRecord, Status, Ids, Verdicts
    <3> HIDE DEF a, intent
    <3> QED BY <3>1, <1>f, <1>5
  <2>3. sequence' \in 0..MaxSequence
    BY <1>2, <1>5 DEF Ids
  <2>4. spent' \in [Intent -> {"none", "consumed", "forgotten"}]
    BY <1>1, <1>5 DEF DataOK
  <2> QED BY <2>1, <2>2, <2>3, <2>4, <1>1, <1>5 DEF DataOK
<1>11. Agrees'
  <2>1. ASSUME NEW j \in Intent
        PROVE  /\ spent'[j] = "consumed" => spent[j] = "consumed"
               /\ \/ intents'[j].status = intents[j].status
                  \/ intents'[j].status \in Open /\ ~Tells(events, j, Settlement)
    <3> HIDE DEF a
    <3>1. CASE j = i
      <4>1. intents'[j].status = "approved" /\ spent'[j] = "none"
        BY <3>1, <1>f, <1>1, <1>5 DEF DataOK
      <4> QED BY <4>1, <3>1, <1>5, FreshIsUntold DEF Open, Verdicts
    <3>2. CASE j # i
      <4>1. intents'[j] = Follow(a, "approved")[j] /\ spent'[j] = spent[j]
        BY <3>2, <1>f, <1>1, <1>5 DEF DataOK
      <4> QED BY <4>1, <1>f, OpenIsUnused DEF Open, Verdicts
    <3> QED BY <3>1, <3>2
  <2> QED BY <2>1, <1>9, QuietAgrees
<1>12. reused' \in BOOLEAN
  BY <1>1, <1>5, FlagStep
<1>13. TypeOK'
  BY <1>9, <1>10, <1>12, TypeParts DEF TypeOK, DataOK, ApprovalRecord, IntentRecord
<1> QED BY <1>9, <1>11, <1>13 DEF IndInv

LEMMA CreateThrowsStep ==
    ASSUME IndInv, NEW t \in Task, CreateThrows(t), UNCHANGED losses
    PROVE  IndInv'
<1> DEFINE a == sequence + 1
           request == RequestEvent(a + 1, a, t)
           new == Added(request)
<1>1. DataOK /\ reused \in BOOLEAN /\ sequence \in 0..MaxSequence
  BY TypeParts DEF IndInv, DataOK
<1>2. a \in Ids /\ a + 1 \in Ids
  BY <1>1, IntentAssumption DEF CreateThrows, Ids
<1>3. request \in IntentEvent /\ request.kind = "requested" /\ request.intent = NoOne
  <2>1. request.kind = "requested" /\ request.intent = NoOne
    BY DEF RequestEvent
  <2>2. request \in IntentEvent
    BY <1>2 DEF RequestEvent, IntentEvent, Ids
  <2> QED BY <2>1, <2>2
<1>4. /\ Log!AppendEvents(new)
      /\ approvals' = Asked(a, t) /\ sequence' = a + 1
      /\ reused' = (reused \/ InUse(a, t))
      /\ UNCHANGED <<intents, late, spent, granted>>
  BY DEF CreateThrows
<1> HIDE DEF request
<1>5. /\ new \in Seq(IntentEvent)
      /\ Ordered(new)
      /\ \A k \in DOMAIN new : new[k].kind \notin Settlement /\ new[k].intent = NoOne
  BY <1>3, AddedIsEvent DEF Settlement
<1> HIDE DEF new
<1>6. /\ Log!LogTypeOK'
      /\ Ordered(events)' /\ Ordered(Lines)' /\ LinesKnown'
      /\ \A j : \A kinds \in SUBSET Settlement :
           Tells(events, j, kinds)' <=> Tells(events, j, kinds)
      /\ \A j \in Intent : \A kind : Ends(events, j, kind) => Ends(events, j, kind)'
  BY <1>4, <1>5, QuietAppend
<1>7. DataOK'
  <2>1. approvals' \in [Ids -> ApprovalRecord]
    BY <1>1, <1>2, <1>4, ApprovalTypes DEF DataOK
  <2>2. sequence' \in 0..MaxSequence
    BY <1>2, <1>4 DEF Ids
  <2> QED BY <2>1, <2>2, <1>1, <1>4 DEF DataOK
<1>8. Agrees'
  BY <1>4, <1>6, QuietAgrees
<1>9. reused' \in BOOLEAN
  BY <1>1, <1>4, FlagStep
<1>10. TypeOK'
  BY <1>6, <1>7, <1>9, TypeParts DEF TypeOK, DataOK, ApprovalRecord, IntentRecord
<1> QED BY <1>6, <1>8, <1>10 DEF IndInv

LEMMA DecideStep ==
    ASSUME IndInv, NEW a \in Ids, NEW verdict \in Verdicts, Decide(a, verdict),
           UNCHANGED losses
    PROVE  IndInv'
<1> DEFINE judgement == VerdictEvent(sequence + 1, a, verdict)
           new == Added(judgement)
<1>1. DataOK /\ reused \in BOOLEAN /\ sequence \in 0..MaxSequence
  BY TypeParts DEF IndInv, DataOK
<1>2. sequence + 1 \in Ids
  BY DEF Decide
<1>3. judgement \in IntentEvent /\ judgement.kind \in Verdicts /\ judgement.intent = NoOne
  BY <1>2 DEF VerdictEvent, IntentEvent
<1>4. /\ Log!AppendEvents(new)
      /\ approvals' = Judged(approvals, sequence + 1, a, verdict)
      /\ sequence' = sequence + 1
      /\ intents' = Follow(a, verdict)
      /\ granted' = IF verdict = "approved" THEN granted \cup Meant(a) ELSE granted
      /\ reused' = (reused \/ Known(judgement))
      /\ UNCHANGED <<late, spent>>
  BY DEF Decide
<1> HIDE DEF judgement
<1>5. /\ new \in Seq(IntentEvent)
      /\ Ordered(new)
      /\ \A k \in DOMAIN new : new[k].kind \notin Settlement /\ new[k].intent = NoOne
  BY <1>3, AddedIsEvent DEF Settlement, Verdicts
<1> HIDE DEF new
<1>6. /\ Log!LogTypeOK'
      /\ Ordered(events)' /\ Ordered(Lines)' /\ LinesKnown'
      /\ \A j : \A kinds \in SUBSET Settlement :
           Tells(events, j, kinds)' <=> Tells(events, j, kinds)
      /\ \A j \in Intent : \A kind : Ends(events, j, kind) => Ends(events, j, kind)'
  BY <1>4, <1>5, QuietAppend
<1>f. /\ Follow(a, verdict) \in [Intent -> IntentRecord]
      /\ \A j \in Intent : \/ Follow(a, verdict)[j] = intents[j]
                          \/ /\ intents[j].status = "pending"
                             /\ Follow(a, verdict)[j].status = verdict
  BY <1>1, FollowTypes DEF DataOK
<1>7. DataOK'
  <2>1. approvals' \in [Ids -> ApprovalRecord]
    <3>1. [approvals EXCEPT ![a].status = verdict] \in [Ids -> ApprovalRecord]
      BY <1>1 DEF DataOK, ApprovalRecord
    <3> QED BY <3>1, <1>1, <1>4 DEF DataOK, Judged
  <2>2. sequence' \in 0..MaxSequence
    BY <1>2, <1>4 DEF Ids
  <2>3. granted' \subseteq Intent
    BY <1>1, <1>4 DEF DataOK, Meant
  <2> QED BY <2>1, <2>2, <2>3, <1>1, <1>4, <1>f DEF DataOK
<1>8. Agrees'
  <2>1. ASSUME NEW j \in Intent
        PROVE  /\ spent'[j] = "consumed" => spent[j] = "consumed"
               /\ \/ intents'[j].status = intents[j].status
                  \/ intents'[j].status \in Open /\ ~Tells(events, j, Settlement)
    BY <1>4, <1>f, OpenIsUnused DEF Open
  <2> QED BY <2>1, <1>6, QuietAgrees
<1>9. reused' \in BOOLEAN
  BY <1>1, <1>4, FlagStep
<1>10. TypeOK'
  BY <1>6, <1>7, <1>9, TypeParts DEF TypeOK, DataOK, ApprovalRecord, IntentRecord
<1> QED BY <1>6, <1>8, <1>10 DEF IndInv

\* A change of one status keeps the type.
LEMMA StatusType ==
    ASSUME DataOK, NEW i \in Intent, NEW status \in Status
    PROVE  /\ [intents EXCEPT ![i].status = status] \in [Intent -> IntentRecord]
           /\ [intents EXCEPT ![i].status = status][i].status = status
           /\ \A j \in Intent : j # i => [intents EXCEPT ![i].status = status][j] = intents[j]
BY DEF DataOK, IntentRecord

(***************************************************************************)
(* Steps that leave the log alone and touch the status of one intent, to a *)
(* closed one or from an open one.                                         *)
(***************************************************************************)
LEMMA SilentStep ==
    ASSUME IndInv, UNCHANGED <<approvals, sequence, spent, granted, reused, losses, logVars>>,
           late' \subseteq Intent, intents' \in [Intent -> IntentRecord],
           \A j \in Intent :
             \/ intents'[j].status = intents[j].status
             \/ intents'[j].status = "expired"
             \/ intents'[j].status \in Open /\ ~Tells(events, j, Settlement)
    PROVE  IndInv'
<1>1. DataOK /\ reused \in BOOLEAN /\ Log!LogTypeOK
  BY TypeParts DEF IndInv
<1>2. events' = events /\ unwritten' = unwritten /\ disk' = disk
  BY DEF logVars
<1>3. /\ Log!LogTypeOK' /\ Ordered(events)' /\ Ordered(Lines)' /\ LinesKnown'
      /\ \A j : \A kinds \in SUBSET Settlement :
           Tells(events, j, kinds)' <=> Tells(events, j, kinds)
      /\ \A j \in Intent : \A kind : Ends(events, j, kind) => Ends(events, j, kind)'
  BY <1>1, <1>2 DEF IndInv, Log!LogTypeOK, Lines, LinesKnown
<1>4. DataOK' /\ (reused \in BOOLEAN)'
  BY <1>1 DEF DataOK
<1>5. TypeOK'
  BY <1>3, <1>4 DEF TypeOK, DataOK, ApprovalRecord, IntentRecord
<1>6. Agrees'
  BY <1>3, QuietAgrees
<1> QED BY <1>3, <1>5, <1>6 DEF IndInv

LEMMA ApproveStep ==
    ASSUME IndInv, NEW i \in Intent, Approve(i), UNCHANGED losses
    PROVE  IndInv'
<1>1. DataOK
  BY TypeParts DEF IndInv
<1>2. /\ intents' = [intents EXCEPT ![i].status = "approved"] /\ intents[i].status = "pending"
      /\ UNCHANGED <<approvals, sequence, late, spent, granted, reused, logVars>>
  BY DEF Approve, MayApprove
<1>3. /\ intents' \in [Intent -> IntentRecord]
      /\ intents'[i].status = "approved" /\ \A j \in Intent : j # i => intents'[j] = intents[j]
  BY <1>1, <1>2, StatusType DEF Status, Verdicts
<1>4. ~Tells(events, i, Settlement)
  BY <1>2, OpenIsUnused
<1>5. late' \subseteq Intent
  BY <1>1, <1>2 DEF DataOK
<1> QED BY <1>2, <1>3, <1>4, <1>5, SilentStep DEF Open, Verdicts

LEMMA ConsumeLateStep ==
    ASSUME IndInv, NEW i \in Intent, ConsumeLate(i), UNCHANGED losses
    PROVE  IndInv'
<1>1. DataOK
  BY TypeParts DEF IndInv
<1>2. /\ intents' = [intents EXCEPT ![i].status = "expired"]
      /\ UNCHANGED <<approvals, sequence, late, spent, granted, reused, logVars>>
  BY DEF ConsumeLate, Rest
<1>3. /\ intents' \in [Intent -> IntentRecord]
      /\ intents'[i].status = "expired" /\ \A j \in Intent : j # i => intents'[j] = intents[j]
  BY <1>1, <1>2, StatusType DEF Status
<1>4. late' \subseteq Intent
  BY <1>1, <1>2 DEF DataOK
<1> QED BY <1>2, <1>3, <1>4, SilentStep

LEMMA ExpireStep ==
    ASSUME IndInv, NEW i \in Intent, Expire(i), UNCHANGED losses
    PROVE  IndInv'
<1>1. DataOK
  BY TypeParts DEF IndInv
<1>2. late' = late \cup {i}
        /\ UNCHANGED <<approvals, sequence, intents, spent, granted, reused, logVars>>
  BY DEF Expire
<1>3. late' \subseteq Intent /\ intents' \in [Intent -> IntentRecord]
  BY <1>1, <1>2 DEF DataOK
<1> QED BY <1>2, <1>3, SilentStep

\* A settlement the log tells of is known.
LEMMA KnownIsTold ==
    ASSUME Log!LogTypeOK, NEW e \in IntentEvent, e.n = 0, e.kind \in Settlement,
           ~Known(e), e.intent \in Intent
    PROVE  ~Tells(events, e.intent, {e.kind})
<1>1. SUFFICES ASSUME NEW k \in DOMAIN events, events[k].intent = e.intent,
                      events[k].kind = e.kind
               PROVE  FALSE
  BY DEF Tells
<1>2. events[k] \in IntentEvent
  BY DEF Log!LogTypeOK
<1>3. events[k] = Settled(e.intent, e.kind)
  BY <1>1, <1>2, OwnEvent
<1>4. events[k].n = 0
  BY <1>3 DEF Settled
<1>5. SameId(events[k], e)
  BY <1>1, <1>4 DEF SameId
<1> QED BY <1>5 DEF Known

(***************************************************************************)
(* A settlement may be recorded when no outcome stands in the log, if it   *)
(* is a use, and no other settlement stands behind a cancellation.         *)
(***************************************************************************)
LEMMA RecordedSettlement ==
    ASSUME IndInv, NEW i \in Intent, NEW kind \in Settlement,
           kind \in Used => ~Tells(events, i, Outcome),
           kind # "cancelled" => ~Tells(events, i, {"cancelled", kind}),
           Log!AppendEvents(Added(Settled(i, kind)))
    PROVE  /\ Log!LogTypeOK'
           /\ Ordered(events)' /\ Ordered(Lines)' /\ LinesKnown'
           /\ \A j, kinds : Tells(events, j, kinds) => Tells(events, j, kinds)'
           /\ \A j, kinds : Tells(events, j, kinds)'
                              => Tells(events, j, kinds) \/ (j = i /\ kind \in kinds)
           /\ Tells(events, i, {kind})' /\ Ends(events, i, kind)'
           /\ \A j \in Intent : \A k : j # i /\ Ends(events, j, k) => Ends(events, j, k)'
<1> DEFINE e == Settled(i, kind)
           new == Added(e)
<1>1. e \in IntentEvent /\ e.intent = i /\ e.kind = kind /\ e.n = 0
  BY SettledType DEF Settled
<1>2. Log!LogTypeOK /\ Ordered(events) /\ Ordered(Lines) /\ LinesKnown
  BY TypeParts DEF IndInv
<1>3. Log!AppendEvents(new)
  OBVIOUS
<1> HIDE DEF e
<1>4. /\ new \in Seq(IntentEvent) /\ Ordered(new)
      /\ \A k \in DOMAIN new : new[k] = e
      /\ \A j, kinds : Tells(new, j, kinds) => j = i /\ kind \in kinds
      /\ Tells(events, i, {kind}) \/ Tells(new, i, {kind})
  BY <1>1, AddedIsEvent
<1>d. CASE Known(e)
  <2>1. PICK k \in DOMAIN events : SameId(events[k], e)
    BY <1>d DEF Known
  <2>2. events[k].intent = i /\ events[k].kind = kind
    BY <2>1, <1>1 DEF SameId
  <2>3. kind = "cancelled"
    BY <2>2 DEF Tells
  <2>4. events \in Seq(IntentEvent) /\ i # NoOne
    BY <1>2, IntentAssumption DEF Log!LogTypeOK
  <2>5. ASSUME NEW j \in DOMAIN events, events[j].intent = i, ~(j <= k) PROVE FALSE
    <3>1. k < j
      BY <2>4, <2>5
    <3> QED BY <3>1, <2>2, <2>3, <2>4, <2>5, <1>2 DEF Ordered, MayFollow
  <2>6. Ends(events, i, kind)
    BY <2>2, <2>5 DEF Ends
  <2>7. new = <<>>
    BY <1>d DEF Added
  <2>8. events' = events /\ unwritten' = unwritten /\ disk' = disk
    <3>1. events' = events \o <<>> /\ unwritten' = unwritten \o <<>> /\ disk' = disk
      BY <1>3, <2>7 DEF Log!AppendEvents
    <3>2. unwritten \in Seq(IntentEvent)
      BY <1>2 DEF Log!LogTypeOK
    <3> QED BY <3>1, <3>2, <2>4, ConcatEmptySeq
  <2>9. Tells(events, i, {kind})
    BY <2>2 DEF Tells
  <2>10. Log!LogTypeOK' /\ Ordered(events)' /\ Ordered(Lines)' /\ LinesKnown'
    BY <2>8, <1>2 DEF Log!LogTypeOK, Lines, LinesKnown
  <2> QED BY <2>6, <2>8, <2>9, <2>10
<1>n. CASE ~Known(e)
  <2>1. new = <<e>>
    BY <1>n DEF Added
  <2>2. events \in Seq(IntentEvent) /\ events' = events \o new
    BY <1>2, <1>3 DEF Log!LogTypeOK, Log!AppendEvents
  <2>3. Ends(events, i, kind)'
    <3>1. Ends(events \o <<e>>, e.intent, e.kind)
      BY <1>1, <2>2, EndsAppended
    <3> QED BY <3>1, <1>1, <2>1, <2>2
  <2> HIDE DEF new
  <2>c. kind = "cancelled" => ~Tells(events, i, {"cancelled"})
    BY <1>n, <1>1, <1>2, KnownIsTold
  <2>4. \A j \in DOMAIN events, k \in DOMAIN new : MayFollow(events[j], new[k])
    BY <1>1, <1>4, <2>c DEF MayFollow, Tells, Settlement
  <2>5. /\ Log!LogTypeOK'
        /\ Ordered(events)' /\ Ordered(Lines)' /\ LinesKnown'
        /\ \A j, kinds : Tells(events, j, kinds)' <=>
                            Tells(events, j, kinds) \/ Tells(new, j, kinds)
        /\ \A j, k : Ends(events, j, k) /\ (\A l \in DOMAIN new : new[l].intent # j)
                        => Ends(events, j, k)'
    BY <1>2, <1>3, <1>4, <2>4, AppendKeepsOrder
  <2>6. \A j \in Intent : \A k : j # i /\ Ends(events, j, k) => Ends(events, j, k)'
    BY <2>5, <1>1, <1>4
  <2> QED BY <1>4, <2>3, <2>5, <2>6
<1> QED BY <1>d, <1>n

\* The clauses of Agrees about one intent whose settlement is recorded.
LEMMA SettledAgrees ==
    ASSUME IndInv, NEW i \in Intent, NEW kind \in Settlement,
           intents'[i].status = kind,
           \A j \in Intent : j # i => intents'[j] = intents[j],
           \A j \in Intent : spent'[j] = "consumed" /\ spent[j] # "consumed"
                               => j = i /\ kind = "consumed",
           kind # "cancelled" => ~Tells(events, i, {"cancelled", kind}),
           \A j, kinds : Tells(events, j, kinds) => Tells(events, j, kinds)',
           \A j, kinds : Tells(events, j, kinds)'
                            => Tells(events, j, kinds) \/ (j = i /\ kind \in kinds),
           Tells(events, i, {kind})', Ends(events, i, kind)',
           \A j \in Intent : \A k : j # i /\ Ends(events, j, k) => Ends(events, j, k)'
    PROVE  Agrees'
<1>1. ASSUME NEW j \in Intent
      PROVE  /\ spent'[j] = "consumed" => Tells(events, j, {"consumed"})'
             /\ intents'[j].status \in Open => ~Tells(events, j, Settlement)'
             /\ Tells(events, j, {"cancelled"})'
                  => intents'[j].status \in {"cancelled", "expired", "none"}
             /\ intents'[j].status \in Settlement => Ends(events, j, intents[j].status)'
  <2>1. spent'[j] = "consumed" => Tells(events, j, {"consumed"})'
    BY DEF IndInv, Agrees
  <2>2. CASE j = i
    <3>1. intents'[j].status \notin Open
      BY <2>2 DEF Open, Verdicts, Settlement
    <3>2. kind # "cancelled" => ~Tells(events, i, {"cancelled"})
      BY DEF Tells
    <3>3. kind # "cancelled" => ~Tells(events, i, {"cancelled"})'
      BY <3>2
    <3>4. Tells(events, j, {"cancelled"})' => kind = "cancelled"
      BY <2>2, <3>3
    <3>5. Ends(events, j, intents[j].status)'
      BY <2>2
    <3> QED BY <2>1, <2>2, <3>1, <3>4, <3>5
  <2>3. CASE j # i
    <3>1. intents'[j] = intents[j]
      BY <2>3
    <3>2. /\ intents[j].status \in Open => ~Tells(events, j, Settlement)
          /\ Tells(events, j, {"cancelled"})
               => intents[j].status \in {"cancelled", "expired", "none"}
          /\ intents[j].status \in Settlement => Ends(events, j, intents[j].status)
      BY DEF IndInv, Agrees
    <3>3. /\ Tells(events, j, Settlement)' => Tells(events, j, Settlement)
          /\ Tells(events, j, {"cancelled"})' => Tells(events, j, {"cancelled"})
      BY <2>3
    <3>4. intents[j].status \in Settlement => Ends(events, j, intents[j].status)'
      BY <2>3, <3>2
    <3> QED BY <2>1, <3>1, <3>2, <3>3, <3>4
  <2> QED BY <2>2, <2>3
<1> QED BY <1>1 DEF Agrees

LEMMA ConsumeStep ==
    ASSUME IndInv, NEW i \in Intent, Consume(i), UNCHANGED losses
    PROVE  IndInv'
<1>1. DataOK /\ reused \in BOOLEAN
  BY TypeParts DEF IndInv
<1>2. /\ intents[i].status \in {"pending", "approved"}
      /\ intents' = [intents EXCEPT ![i].status = "consumed"]
      /\ spent' = [spent EXCEPT ![i] = "consumed"]
      /\ Log!AppendEvents(Added(Settled(i, "consumed")))
      /\ UNCHANGED <<approvals, sequence, late, granted, reused>>
  BY DEF Consume, Executable, MayApprove, Rest
<1>3. /\ intents' \in [Intent -> IntentRecord]
      /\ intents'[i].status = "consumed" /\ \A j \in Intent : j # i => intents'[j] = intents[j]
  BY <1>1, <1>2, StatusType DEF Status, Settlement
<1>4. ~Tells(events, i, Settlement)
  BY <1>2, OpenIsUnused
<1>5. ~Tells(events, i, Outcome) /\ ~Tells(events, i, {"cancelled", "consumed"})
  BY <1>4 DEF Tells, Settlement, Outcome
<1>6. /\ Log!LogTypeOK'
      /\ Ordered(events)' /\ Ordered(Lines)' /\ LinesKnown'
      /\ \A j, kinds : Tells(events, j, kinds) => Tells(events, j, kinds)'
      /\ \A j, kinds : Tells(events, j, kinds)'
                         => Tells(events, j, kinds) \/ (j = i /\ "consumed" \in kinds)
      /\ Tells(events, i, {"consumed"})' /\ Ends(events, i, "consumed")'
      /\ \A j \in Intent : \A k : j # i /\ Ends(events, j, k) => Ends(events, j, k)'
  BY <1>2, <1>5, RecordedSettlement DEF Settlement
<1>7. DataOK' /\ (reused \in BOOLEAN)'
  BY <1>1, <1>2, <1>3 DEF DataOK
<1>8. TypeOK'
  BY <1>6, <1>7 DEF TypeOK, DataOK, ApprovalRecord, IntentRecord
<1>9. \A j \in Intent : j # i => spent'[j] = spent[j]
  BY <1>1, <1>2 DEF DataOK
<1>10. Agrees'
  BY <1>3, <1>5, <1>6, <1>9, SettledAgrees DEF Settlement
<1> QED BY <1>6, <1>8, <1>10 DEF IndInv

\* The log tells of no outcome of an intent in use.
LEMMA InUseIsOpen ==
    ASSUME IndInv, NEW i \in Intent, intents[i].status = "consumed"
    PROVE  ~Tells(events, i, Outcome) /\ ~Tells(events, i, {"cancelled"})
<1>1. events \in Seq(IntentEvent) /\ Ordered(events) /\ i # NoOne
  BY TypeParts, IntentAssumption DEF IndInv, Log!LogTypeOK
<1>2. Ends(events, i, "consumed") /\ ~Tells(events, i, {"cancelled"})
  BY DEF IndInv, Agrees, Settlement
<1>3. PICK k \in DOMAIN events : /\ events[k].intent = i /\ events[k].kind = "consumed"
                                 /\ \A j \in DOMAIN events : events[j].intent = i => j <= k
  BY <1>2 DEF Ends
<1>4. ASSUME NEW j \in DOMAIN events, events[j].intent = i, events[j].kind \in Outcome
      PROVE  FALSE
  <2>1. j <= k /\ j # k
    BY <1>3, <1>4 DEF Outcome
  <2>2. j < k
    BY <1>1, <2>1
  <2> QED BY <1>1, <1>3, <1>4, <2>2 DEF Ordered, MayFollow, Used
<1> QED BY <1>2, <1>4 DEF Tells

\* Complete, Fail and Cancel: no use recorded after an outcome.
LEMMA SettleStep ==
    ASSUME IndInv, NEW i \in Intent, NEW kind \in Settlement \ {"consumed"}, Settle(i, kind),
           kind \in Used => intents[i].status = "consumed", UNCHANGED losses
    PROVE  IndInv'
<1>1. DataOK /\ reused \in BOOLEAN
  BY TypeParts DEF IndInv
<1>2. /\ intents' = [intents EXCEPT ![i].status = kind]
      /\ Log!AppendEvents(Added(Settled(i, kind)))
      /\ UNCHANGED <<approvals, sequence, late, spent, granted, reused>>
  BY DEF Settle, Rest
<1>3. /\ intents' \in [Intent -> IntentRecord]
      /\ intents'[i].status = kind /\ \A j \in Intent : j # i => intents'[j] = intents[j]
  BY <1>1, <1>2, StatusType DEF Status
<1>4. /\ kind \in Used => ~Tells(events, i, Outcome)
      /\ kind # "cancelled" => ~Tells(events, i, {"cancelled", kind})
  <2>1. kind # "cancelled" => kind \in Used /\ kind \in Outcome
    BY DEF Settlement, Used, Outcome
  <2> QED BY <2>1, InUseIsOpen DEF Tells
<1>5. /\ Log!LogTypeOK'
      /\ Ordered(events)' /\ Ordered(Lines)' /\ LinesKnown'
      /\ \A j, kinds : Tells(events, j, kinds) => Tells(events, j, kinds)'
      /\ \A j, kinds : Tells(events, j, kinds)'
                         => Tells(events, j, kinds) \/ (j = i /\ kind \in kinds)
      /\ Tells(events, i, {kind})' /\ Ends(events, i, kind)'
      /\ \A j \in Intent : \A k : j # i /\ Ends(events, j, k) => Ends(events, j, k)'
  BY <1>2, <1>4, RecordedSettlement
<1>6. DataOK' /\ (reused \in BOOLEAN)'
  BY <1>1, <1>2, <1>3 DEF DataOK
<1>7. TypeOK'
  BY <1>5, <1>6 DEF TypeOK, DataOK, ApprovalRecord, IntentRecord
<1>8. \A j \in Intent : spent'[j] = "consumed" => spent[j] = "consumed"
  BY <1>2
<1>9. Agrees'
  BY <1>3, <1>4, <1>5, <1>8, SettledAgrees
<1> QED BY <1>5, <1>7, <1>9 DEF IndInv

-----------------------------------------------------------------------------
\* Losing lines is counted up to the bound.
LEMMA LossType ==
    ASSUME IndInv, NEW keep, NEW lo, NEW hi, Lose(keep, lo, hi)
    PROVE  losses' \in 0..MaxLosses
BY IntentAssumption DEF IndInv, TypeOK, Lose

LEMMA WriteLogStep ==
    ASSUME IndInv, WriteLog
    PROVE  IndInv'
<1>1. DataOK /\ reused \in BOOLEAN /\ Log!LogTypeOK
  BY TypeParts DEF IndInv
<1>2. PICK keep \in 0..Len(disk), lo \in 1..2 :
        \E hi \in (lo - 1)..Len(unwritten) :
        Log!Write(Len(unwritten), keep, lo, hi) /\ Lose(keep, lo, hi)
  BY DEF WriteLog
<1>3. PICK hi \in (lo - 1)..Len(unwritten) :
        Log!Write(Len(unwritten), keep, lo, hi) /\ Lose(keep, lo, hi)
  BY <1>2
<1>4. /\ disk' = SubSeq(disk, 1, keep) \o SubSeq(unwritten, lo, hi)
      /\ unwritten' = SubSeq(unwritten, Len(unwritten) + 1, Len(unwritten))
      /\ events' = events
      /\ UNCHANGED <<approvals, sequence, intents, late, spent, granted, reused>>
  BY <1>3 DEF Log!Write, WriteLog
<1>5. losses' \in 0..MaxLosses
  BY <1>3, LossType
<1>6. /\ disk' \in Seq(IntentEvent) /\ Ordered(disk')
      /\ \A k \in DOMAIN disk' : In(disk'[k], events)
  BY <1>4, LinesLeft
<1>7. unwritten' = <<>>
  BY <1>1, <1>4 DEF Log!LogTypeOK
<1>8. Lines' = disk'
  <2>1. disk' \o unwritten' = disk'
    BY <1>6, <1>7, ConcatEmptySeq
  <2> QED BY <2>1 DEF Lines
<1>9. /\ Log!LogTypeOK'
      /\ Ordered(events)' /\ Ordered(Lines)' /\ LinesKnown'
      /\ \A i : \A kinds \in SUBSET Settlement :
           Tells(events, i, kinds)' <=> Tells(events, i, kinds)
      /\ \A i \in Intent : \A kind : Ends(events, i, kind) => Ends(events, i, kind)'
  <2>1. Log!LogTypeOK'
    <3>1. <<>> \in Seq(IntentEvent)
      OBVIOUS
    <3> QED BY <3>1, <1>1, <1>4, <1>6, <1>7 DEF Log!LogTypeOK
  <2>2. LinesKnown'
    BY <1>4, <1>6, <1>8 DEF LinesKnown
  <2> QED BY <2>1, <2>2, <1>4, <1>6, <1>8 DEF IndInv
<1>10. DataOK' /\ (reused \in BOOLEAN)'
  BY <1>1, <1>4, <1>5 DEF DataOK
<1>11. TypeOK'
  BY <1>9, <1>10 DEF TypeOK, DataOK, ApprovalRecord, IntentRecord
<1>12. Agrees'
  BY <1>4, <1>9, QuietAgrees
<1> QED BY <1>9, <1>11, <1>12 DEF IndInv

\* The order of the disk is what the restored intents need.
LEMMA RestartStep ==
    ASSUME IndInv, Restart
    PROVE  IndInv'
<1>1. DataOK /\ reused \in BOOLEAN /\ Log!LogTypeOK
  BY TypeParts DEF IndInv
<1>2. PICK keep \in 0..Len(disk), lo \in 1..2 :
        \E hi \in (lo - 1)..Len(unwritten) :
        Log!Restart(keep, lo, hi) /\ Lose(keep, lo, hi)
  BY DEF Restart
<1>3. PICK hi \in (lo - 1)..Len(unwritten) : Log!Restart(keep, lo, hi) /\ Lose(keep, lo, hi)
  BY <1>2
<1>4. /\ disk' = SubSeq(disk, 1, keep) \o SubSeq(unwritten, lo, hi)
      /\ events' = disk' /\ unwritten' = <<>>
  BY <1>3 DEF Log!Restart
<1>r. /\ approvals' = [a \in Ids |-> ApprovalIn(disk', a)]
      /\ intents' = Restored(disk', approvals', late)
      /\ sequence' = 0
      /\ spent' = [i \in Intent |->
           IF spent[i] = "consumed" /\ ~In(Settled(i, "consumed"), disk')
             THEN "forgotten" ELSE spent[i]]
      /\ UNCHANGED <<late, granted, reused>>
  BY DEF Restart
<1>5. losses' \in 0..MaxLosses
  BY <1>3, LossType
<1>6. disk' \in Seq(IntentEvent) /\ Ordered(disk')
  BY <1>4, LinesLeft
<1>7. Lines' = disk'
  <2>1. disk' \o unwritten' = disk'
    BY <1>4, <1>6, ConcatEmptySeq
  <2> QED BY <2>1 DEF Lines
<1>8. Log!LogTypeOK' /\ Ordered(events)' /\ Ordered(Lines)' /\ LinesKnown'
  <2>1. Log!LogTypeOK'
    <3>1. <<>> \in Seq(IntentEvent)
      OBVIOUS
    <3> QED BY <3>1, <1>4, <1>6 DEF Log!LogTypeOK
  <2>2. \A k \in DOMAIN Lines' : In(Lines'[k], events')
    BY <1>4, <1>7 DEF In
  <2>3. LinesKnown'
    BY <2>2 DEF LinesKnown
  <2> QED BY <2>1, <2>3, <1>4, <1>6, <1>7
<1>9. ASSUME NEW i \in Intent
      PROVE  /\ intents'[i] \in IntentRecord
             /\ intents'[i].status \in Open => ~Tells(disk', i, Settlement)
             /\ Tells(disk', i, {"cancelled"}) => intents'[i].status \in {"cancelled", "none"}
             /\ intents'[i].status \in Settlement => Ends(disk', i, intents'[i].status)
  <2>1. intents'[i] = RestoredIntent(disk', approvals', late, i)
    BY <1>r DEF Restored
  <2> QED BY <2>1, <1>6, RestoredAgrees
<1>10. ASSUME NEW i \in Intent
       PROVE  /\ spent'[i] \in {"none", "consumed", "forgotten"}
              /\ spent'[i] = "consumed" => Tells(disk', i, {"consumed"})
  <2>1. spent'[i] = IF spent[i] = "consumed" /\ ~In(Settled(i, "consumed"), disk')
                      THEN "forgotten" ELSE spent[i]
    BY <1>r
  <2>2. In(Settled(i, "consumed"), disk') => Tells(disk', i, {"consumed"})
    BY DEF In, Settled, Tells
  <2> QED BY <2>1, <2>2, <1>1 DEF DataOK
<1>11. DataOK' /\ (reused \in BOOLEAN)'
  <2>1. approvals' \in [Ids -> ApprovalRecord]
    BY <1>r, <1>6, ApprovalInType
  <2>2. intents' \in [Intent -> IntentRecord]
    BY <1>r, <1>9 DEF Restored
  <2>3. spent' \in [Intent -> {"none", "consumed", "forgotten"}]
    BY <1>r, <1>10
  <2>4. sequence' \in 0..MaxSequence
    BY <1>r, IntentAssumption
  <2> QED BY <2>1, <2>2, <2>3, <2>4, <1>1, <1>5, <1>r DEF DataOK
<1>12. TypeOK'
  BY <1>8, <1>11 DEF TypeOK, DataOK, ApprovalRecord, IntentRecord
<1>13. Agrees'
  BY <1>4, <1>9, <1>10 DEF Agrees
<1> QED BY <1>8, <1>12, <1>13 DEF IndInv

LEMMA InitIndInv == Init => IndInv
<1> SUFFICES ASSUME Init PROVE IndInv
  OBVIOUS
<1>1. /\ approvals = [a \in Ids |-> NoApproval] /\ sequence = 0
      /\ intents = [i \in Intent |-> NoIntent] /\ losses = 0
      /\ late = {} /\ granted = {} /\ reused = FALSE
      /\ spent = [i \in Intent |-> "none"]
      /\ events = <<>> /\ unwritten = <<>> /\ disk = <<>>
  BY DEF Init, Log!LogInit
<1>2. <<>> \in Seq(IntentEvent) /\ DOMAIN <<>> = {} /\ <<>> \o <<>> = <<>>
  BY ConcatEmptySeq
<1>3. NoApproval \in ApprovalRecord /\ NoIntent \in IntentRecord
  BY IntentAssumption DEF NoApproval, ApprovalRecord, NoIntent, IntentRecord, Status
<1>4. DataOK
  BY <1>1, <1>3, IntentAssumption DEF DataOK
<1>r. reused \in BOOLEAN
  BY <1>1
<1>5. Log!LogTypeOK
  BY <1>1, <1>2 DEF Log!LogTypeOK
<1>6. Lines = <<>>
  BY <1>1, <1>2 DEF Lines
<1>7. Ordered(events) /\ Ordered(Lines) /\ LinesKnown
  BY <1>1, <1>2, <1>6 DEF Ordered, LinesKnown
<1>8. Agrees
  BY <1>1, <1>2 DEF Agrees, Tells, NoIntent, Open, Verdicts, Settlement
<1> QED BY <1>4, <1>r, <1>5, <1>7, <1>8, TypeParts DEF IndInv

LEMMA OperationStep ==
    ASSUME IndInv, Operation, UNCHANGED losses
    PROVE  IndInv'
<1>1. ASSUME NEW i \in Intent, NEW t \in Task, Creation(i, t) PROVE IndInv'
  BY <1>1, CreateStep, CreateApprovedStep DEF Creation
<1>2. ASSUME NEW i \in Intent, Approve(i) \/ Consume(i) \/ ConsumeLate(i) \/ Expire(i)
      PROVE  IndInv'
  BY <1>2, ApproveStep, ConsumeStep, ConsumeLateStep, ExpireStep
<1>3. ASSUME NEW i \in Intent, Complete(i) PROVE IndInv'
  <2>1. intents[i].status = "consumed" /\ Settle(i, "completed")
    BY <1>3 DEF Complete
  <2> QED BY <2>1, SettleStep DEF Settlement
<1>4. ASSUME NEW i \in Intent, Fail(i) PROVE IndInv'
  <2>1. intents[i].status = "consumed" /\ Settle(i, "failed")
    BY <1>4 DEF Fail
  <2> QED BY <2>1, SettleStep DEF Settlement
<1>5. ASSUME NEW i \in Intent, Cancel(i) PROVE IndInv'
  <2>1. Settle(i, "cancelled")
    BY <1>5 DEF Cancel
  <2> QED BY <2>1, SettleStep DEF Settlement, Used
<1>6. ASSUME NEW t \in Task, CreateThrows(t) PROVE IndInv'
  BY <1>6, CreateThrowsStep
<1>7. ASSUME NEW a \in Ids, NEW verdict \in Verdicts, Decide(a, verdict) PROVE IndInv'
  BY <1>7, DecideStep
<1> QED BY <1>1, <1>2, <1>3, <1>4, <1>5, <1>6, <1>7 DEF Operation, OtherOperation

LEMMA StutterStep ==
    ASSUME IndInv, UNCHANGED vars
    PROVE  IndInv'
<1>1. DataOK
  BY TypeParts DEF IndInv
<1>2. /\ UNCHANGED <<approvals, sequence, spent, granted, reused, losses, logVars>>
      /\ late' = late /\ intents' = intents
  BY DEF vars, logVars
<1> QED BY <1>1, <1>2, SilentStep DEF DataOK

LEMMA IndInvStep == ASSUME IndInv, [Next]_vars PROVE IndInv'
BY OperationStep, WriteLogStep, RestartStep, StutterStep DEF Next

LEMMA Inductive == Spec => []IndInv
BY InitIndInv, IndInvStep, PTL DEF Spec

-----------------------------------------------------------------------------
(***************************************************************************)
(* What the user has said yes to.  GrantInv ties the intents and the       *)
(* approvals to the events that made them (whatever has been lost), and,   *)
(* unless an id was drawn twice, the verdict on an approval to the intents *)
(* that wait for it: a pending one waits for an open approval, and a yes   *)
(* behind its request, in memory or among the lines the next process may   *)
(* read, is a yes to every intent with this approval.                      *)
(***************************************************************************)
Recorded(log) == {log[k] : k \in DOMAIN log}
Creates(e, i) == e.kind = "created" /\ e.intent = i

CreatedAsLogged ==
    \A i \in Intent :
      /\ intents[i].status = "none" => intents[i] = NoIntent
      /\ intents[i].status # "none" => \E e \in Recorded(events) : Creates(e, i)
      /\ \A e \in Recorded(events) : Creates(e, i) =>
           /\ intents[i].status # "none"
           /\ e.task = intents[i].task /\ e.ref = intents[i].approval

AskedAsLogged ==
    \A a \in Ids :
      /\ approvals[a].status # "none" =>
           \E e \in Recorded(events) : Requests(e, a) /\ e.task = approvals[a].task
      /\ \A e \in Recorded(events) : Requests(e, a) => approvals[a].status # "none"

Standing ==
    \A i \in Intent :
      LET verdict == approvals[intents[i].approval].status IN
      /\ intents[i].status = "pending" => verdict \notin Verdicts
      /\ intents[i].status \in Verdicts => verdict = intents[i].status
      /\ intents[i].status = "approved" => i \in granted

SameTask ==
    \A i \in Intent : \A e \in Recorded(events) :
      Requests(e, intents[i].approval) => e.task = intents[i].task

OnlyGranted(log) == \A i \in Intent : Grants(log, intents[i].approval) => i \in granted

Granted == Standing /\ SameTask /\ OnlyGranted(events) /\ OnlyGranted(Lines)

GrantInv == CreatedAsLogged /\ AskedAsLogged /\ (reused \/ Granted)

\* What kind of event carries what.
LEMMA EventShape ==
    ASSUME NEW e \in IntentEvent
    PROVE  /\ e.kind \in {"requested"} \cup Verdicts => e.ref \in Ids /\ e.intent = NoOne
           /\ e.kind = "created" => /\ e.intent \in Intent /\ e.intent # NoOne
                                    /\ e.ref \in Ids /\ e.task \in Task
<1>1. CASE e \in [n : Ids, kind : {"requested"} \cup Verdicts, ref : Ids,
                  task : Task \cup {NoOne}, intent : {NoOne}]
  BY <1>1 DEF Verdicts
<1>2. CASE e \in [n : {0}, kind : {"created"}, ref : Ids, task : Task, intent : Intent]
  BY <1>2, IntentAssumption DEF Verdicts
<1>3. CASE e \in [n : {0}, kind : Settlement, ref : {0}, task : {NoOne}, intent : Intent]
  BY <1>3 DEF Settlement, Verdicts
<1> QED BY <1>1, <1>2, <1>3 DEF IntentEvent

LEMMA RecordedAreEvents ==
    ASSUME IndInv
    PROVE  /\ Recorded(events) \subseteq IntentEvent
           /\ Recorded(Lines) \subseteq Recorded(events)
<1>1. events \in Seq(IntentEvent)
  BY TypeParts DEF IndInv, Log!LogTypeOK
<1> QED BY <1>1 DEF IndInv, LinesKnown, In, Recorded

\* A created intent has a task, and the id of an approval.
LEMMA CreatedHasParts ==
    ASSUME IndInv, CreatedAsLogged, NEW i \in Intent, intents[i].status # "none"
    PROVE  intents[i].task \in Task /\ intents[i].approval \in Ids
<1>1. PICK e \in Recorded(events) : Creates(e, i)
  BY DEF CreatedAsLogged
<1>2. e \in IntentEvent /\ e.kind = "created"
  BY <1>1, RecordedAreEvents DEF Creates
<1>3. e.task = intents[i].task /\ e.ref = intents[i].approval
  BY <1>1 DEF CreatedAsLogged
<1> QED BY <1>2, <1>3, EventShape

\* Nothing is asked with the id an intent has before it is created.
LEMMA NothingAsked ==
    ASSUME NEW log, Recorded(log) \subseteq IntentEvent, NEW a, a \notin Ids
    PROVE  ~Grants(log, a) /\ \A e \in Recorded(log) : ~Requests(e, a)
<1>1. \A e \in Recorded(log) : ~Requests(e, a)
  BY EventShape DEF Requests
<1> QED BY <1>1 DEF Grants, Recorded

\* A yes to a request is recorded with the request.
LEMMA GrantsRequest ==
    ASSUME NEW log, NEW a, Grants(log, a)
    PROVE  \E e \in Recorded(log) : Requests(e, a)
BY DEF Grants, Recorded

\* What an append adds to what is recorded and granted.
LEMMA GrantsConcat ==
    ASSUME NEW S, NEW s \in Seq(S), NEW new \in Seq(S), NEW a
    PROVE  /\ Recorded(s \o new) = Recorded(s) \cup Recorded(new)
           /\ Grants(s \o new, a) => Grants(s, a) \/ \E e \in Recorded(new) : Approves(e, a)
<1> DEFINE c == s \o new
<1>1. /\ \A k \in DOMAIN s : k \in DOMAIN c /\ c[k] = s[k] /\ k \in Nat /\ k <= Len(s)
      /\ \A k \in DOMAIN new : k + Len(s) \in DOMAIN c /\ c[k + Len(s)] = new[k]
      /\ \A k \in DOMAIN c :
           /\ k \in Nat
           /\ \/ k \in DOMAIN s /\ c[k] = s[k]
              \/ Len(s) < k /\ k - Len(s) \in DOMAIN new /\ c[k] = new[k - Len(s)]
      /\ Len(s) \in Nat
  BY ConcatParts
<1> HIDE DEF c
<1>2. Recorded(c) = Recorded(s) \cup Recorded(new)
  <2>1. \A k \in DOMAIN c : c[k] \in Recorded(s) \cup Recorded(new)
    BY <1>1 DEF Recorded
  <2>2. \A k \in DOMAIN s : s[k] \in Recorded(c)
    BY <1>1 DEF Recorded
  <2>3. \A k \in DOMAIN new : new[k] \in Recorded(c)
    BY <1>1 DEF Recorded
  <2> QED BY <2>1, <2>2, <2>3 DEF Recorded
<1>3. ASSUME Grants(c, a), ~\E e \in Recorded(new) : Approves(e, a) PROVE Grants(s, a)
  <2>1. PICK j \in DOMAIN c : \E k \in DOMAIN c :
          j < k /\ Requests(c[j], a) /\ Approves(c[k], a)
    BY <1>3 DEF Grants
  <2>2. PICK k \in DOMAIN c : j < k /\ Requests(c[j], a) /\ Approves(c[k], a)
    BY <2>1
  <2>3. k \in DOMAIN s /\ c[k] = s[k]
    BY <1>1, <1>3, <2>2 DEF Recorded
  <2>4. j \in DOMAIN s /\ c[j] = s[j]
    BY <1>1, <2>2, <2>3
  <2> QED BY <2>2, <2>3, <2>4 DEF Grants
<1> QED BY <1>2, <1>3 DEF c

LEMMA RecordedConcat ==
    ASSUME NEW S, NEW s \in Seq(S), NEW new \in Seq(S)
    PROVE  Recorded(s \o new) = Recorded(s) \cup Recorded(new)
<1>1. ASSUME NEW a PROVE Recorded(s \o new) = Recorded(s) \cup Recorded(new)
  BY GrantsConcat
<1> QED BY <1>1

\* The same for an appendEvent.
LEMMA AppendRecords ==
    ASSUME IndInv, NEW new \in Seq(IntentEvent), Log!AppendEvents(new)
    PROVE  /\ Recorded(events)' = Recorded(events) \cup Recorded(new)
           /\ \A a : Grants(events, a)'
                       => Grants(events, a) \/ \E e \in Recorded(new) : Approves(e, a)
           /\ \A a : Grants(Lines, a)'
                       => Grants(Lines, a) \/ \E e \in Recorded(new) : Approves(e, a)
<1>1. /\ events \in Seq(IntentEvent) /\ events' = events \o new
      /\ Lines \in Seq(IntentEvent) /\ Lines' = Lines \o new
  BY AppendedLines, TypeParts DEF IndInv
<1>2. ASSUME NEW log \in Seq(IntentEvent), NEW a
      PROVE  Grants(log \o new, a)
               => Grants(log, a) \/ \E e \in Recorded(new) : Approves(e, a)
  BY GrantsConcat
<1>3. /\ Recorded(events \o new) = Recorded(events) \cup Recorded(new)
      /\ \A a : Grants(events \o new, a)
                  => Grants(events, a) \/ \E e \in Recorded(new) : Approves(e, a)
  BY <1>1, <1>2, RecordedConcat
<1>4. \A a : Grants(Lines \o new, a)
              => Grants(Lines, a) \/ \E e \in Recorded(new) : Approves(e, a)
  BY <1>1, <1>2
<1> QED BY <1>1, <1>3, <1>4

\* What appendEvent adds for an event.
LEMMA AddedRecords ==
    ASSUME NEW e
    PROVE  Recorded(Added(e)) = IF Known(e) THEN {} ELSE {e}
<1>1. Recorded(<<>>) = {} /\ Recorded(<<e>>) = {e}
  <2>1. DOMAIN <<>> = {} /\ DOMAIN <<e>> = {1} /\ <<e>>[1] = e
    OBVIOUS
  <2> QED BY <2>1 DEF Recorded
<1> QED BY <1>1 DEF Added

\* A step that creates no intent and keeps what the intents name.
LEMMA KeepsCreated ==
    ASSUME CreatedAsLogged,
           \A i \in Intent :
             /\ intents'[i].task = intents[i].task
             /\ intents'[i].approval = intents[i].approval
             /\ intents'[i].status = "none" => intents'[i] = intents[i]
             /\ intents[i].status = "none" => intents'[i] = intents[i],
           NEW more, Recorded(events)' = Recorded(events) \cup more,
           \A e \in more : e.kind # "created"
    PROVE  CreatedAsLogged'
<1>1. ASSUME NEW i \in Intent
      PROVE  /\ intents'[i].status = "none" => intents'[i] = NoIntent
             /\ intents'[i].status # "none" => \E e \in Recorded(events)' : Creates(e, i)
             /\ \A e \in Recorded(events)' : Creates(e, i) =>
                  /\ intents'[i].status # "none"
                  /\ e.task = intents'[i].task /\ e.ref = intents'[i].approval
  <2>1. \A e \in Recorded(events)' : Creates(e, i) => e \in Recorded(events)
    BY DEF Creates
  <2> QED BY <2>1 DEF CreatedAsLogged
<1> QED BY <1>1 DEF CreatedAsLogged

\* A step that makes no request and keeps what the approvals are for.
LEMMA KeepsAsked ==
    ASSUME AskedAsLogged,
           \A a \in Ids :
             /\ approvals'[a].task = approvals[a].task
             /\ approvals'[a].status = "none" <=> approvals[a].status = "none",
           NEW more, Recorded(events)' = Recorded(events) \cup more,
           \A e \in more : e.kind # "requested"
    PROVE  AskedAsLogged'
<1>1. ASSUME NEW a \in Ids
      PROVE  /\ approvals'[a].status # "none" =>
                  \E e \in Recorded(events)' : Requests(e, a) /\ e.task = approvals'[a].task
             /\ \A e \in Recorded(events)' : Requests(e, a) => approvals'[a].status # "none"
  <2>1. \A e \in Recorded(events)' : Requests(e, a) => e \in Recorded(events)
    BY DEF Requests
  <2> QED BY <2>1 DEF AskedAsLogged
<1> QED BY <1>1 DEF AskedAsLogged

\* What an intent created with a new approval is recorded to be.
LEMMA NewCreated ==
    ASSUME IndInv, CreatedAsLogged, NEW i \in Intent, NEW t \in Task, NEW a, Fresh(i),
           intents'[i].task = t, intents'[i].approval = a, intents'[i].status # "none",
           \A j \in Intent : j # i =>
             /\ intents'[j].task = intents[j].task
             /\ intents'[j].approval = intents[j].approval
             /\ intents'[j].status = "none" => intents'[j] = intents[j]
             /\ intents[j].status = "none" => intents'[j] = intents[j],
           NEW more, \A e \in more : e.kind # "created",
           Recorded(events)' = Recorded(events) \cup more \cup {CreatedEvent(i, t, a)}
    PROVE  CreatedAsLogged'
<1> DEFINE c == CreatedEvent(i, t, a)
<1>c. c.kind = "created" /\ c.intent = i /\ c.task = t /\ c.ref = a
  BY DEF CreatedEvent
<1>r. Recorded(events)' = Recorded(events) \cup more \cup {c}
  OBVIOUS
<1> HIDE DEF c
<1>1. ASSUME NEW j \in Intent
      PROVE  /\ intents'[j].status = "none" => intents'[j] = NoIntent
             /\ intents'[j].status # "none" => \E e \in Recorded(events)' : Creates(e, j)
             /\ \A e \in Recorded(events)' : Creates(e, j) =>
                  /\ intents'[j].status # "none"
                  /\ e.task = intents'[j].task /\ e.ref = intents'[j].approval
  <2>1. CASE j = i
    <3>1. \A e \in Recorded(events) : e.intent # i
      BY DEF Fresh, Recorded
    <3>2. \A e \in Recorded(events)' : Creates(e, j) => e = c
      BY <2>1, <3>1, <1>r DEF Creates
    <3>3. c \in Recorded(events)' /\ Creates(c, j)
      BY <2>1, <1>c, <1>r DEF Creates
    <3> QED BY <2>1, <3>2, <3>3, <1>c
  <2>2. CASE j # i
    <3>1. \A e \in Recorded(events)' : Creates(e, j) => e \in Recorded(events)
      BY <2>2, <1>c, <1>r DEF Creates
    <3>2. Recorded(events) \subseteq Recorded(events)'
      BY <1>r
    <3> QED BY <2>2, <3>1, <3>2 DEF CreatedAsLogged
  <2> QED BY <2>1, <2>2
<1> QED BY <1>1 DEF CreatedAsLogged

\* What a request for a new approval is recorded to be.
LEMMA NewAsked ==
    ASSUME IndInv, AskedAsLogged, NEW a \in Ids, NEW t \in Task, NEW more, \A e \in more : e.kind # "requested",
           \A b \in Ids :
             /\ approvals'[b].task = Asked(a, t)[b].task
             /\ approvals'[b].status = "none" <=> Asked(a, t)[b].status = "none",
           Recorded(events)' =
             Recorded(events) \cup Recorded(Added(RequestEvent(a + 1, a, t))) \cup more
    PROVE  AskedAsLogged'
<1> DEFINE q == RequestEvent(a + 1, a, t)
<1>q. q.kind = "requested" /\ q.ref = a /\ q.task = t
  BY DEF RequestEvent
<1>a. /\ Recorded(events)' = Recorded(events) \cup Recorded(Added(q)) \cup more
      /\ Asked(a, t) = IF Known(q) THEN approvals
                       ELSE [approvals EXCEPT ![a] = [task |-> t, status |-> "pending"]]
      /\ approvals \in [Ids -> ApprovalRecord]
  BY TypeParts DEF Asked, IndInv, DataOK
<1>b. Recorded(Added(q)) = IF Known(q) THEN {} ELSE {q}
  BY AddedRecords
<1> HIDE DEF q
<1>1. ASSUME NEW b \in Ids
      PROVE  /\ approvals'[b].status # "none" =>
                  \E e \in Recorded(events)' : Requests(e, b) /\ e.task = approvals'[b].task
             /\ \A e \in Recorded(events)' : Requests(e, b) => approvals'[b].status # "none"
  <2>1. CASE Known(q) \/ b # a
    <3>1. Asked(a, t)[b] = approvals[b]
      BY <2>1, <1>a
    <3>2. \A e \in Recorded(events)' : Requests(e, b) => e \in Recorded(events)
      BY <2>1, <1>a, <1>b, <1>q DEF Requests
    <3>3. Recorded(events) \subseteq Recorded(events)'
      BY <1>a
    <3> QED BY <3>1, <3>2, <3>3 DEF AskedAsLogged
  <2>2. CASE ~Known(q) /\ b = a
    <3>1. Asked(a, t)[b] = [task |-> t, status |-> "pending"]
      BY <2>2, <1>a
    <3>2. q \in Recorded(events)' /\ Requests(q, b)
      BY <2>2, <1>a, <1>b, <1>q DEF Requests
    <3> QED BY <3>1, <3>2, <1>q
  <2> QED BY <2>1, <2>2
<1> QED BY <1>1 DEF AskedAsLogged

(***************************************************************************)
(* A new approval and its intent join the others: nothing has referred to  *)
(* the id before, so what is said of the other intents does not change.    *)
(***************************************************************************)
LEMMA NewGranted ==
    ASSUME IndInv, CreatedAsLogged, AskedAsLogged, Granted,
           NEW i \in Intent, NEW t \in Task, NEW a \in Ids, ~InUse(a, t), Fresh(i),
           NEW status \in {"pending", "approved"},
           intents'[i].task = t, intents'[i].approval = a, intents'[i].status = status,
           approvals'[a].status = status,
           status = "approved" => i \in granted',
           \A j \in Intent : j # i => /\ intents'[j] = intents[j]
                                      /\ j \in granted => j \in granted',
           \A b \in Ids : b # a => approvals'[b] = approvals[b],
           NEW more, Recorded(events)' = Recorded(events) \cup more,
           \A e \in more : e.kind = "requested" => e.ref = a /\ e.task = t,
           \A x : (Grants(events, x)' => Grants(events, x) \/ (x = a /\ status = "approved")),
           \A x : (Grants(Lines, x)' => Grants(Lines, x) \/ (x = a /\ status = "approved"))
    PROVE  Granted'
<1>1. /\ approvals[a].status = "none"
      /\ \A j \in Intent : intents[j].approval # a
  BY DEF InUse
<1>2. \A e \in Recorded(events) : ~Requests(e, a)
  BY <1>1 DEF AskedAsLogged
<1>3. ~Grants(events, a) /\ ~Grants(Lines, a)
  BY <1>2, GrantsRequest, RecordedAreEvents
<1>4. ASSUME NEW j \in Intent, j # i
      PROVE  /\ intents'[j] = intents[j]
             /\ intents[j].status # "none" =>
                  approvals'[intents[j].approval] = approvals[intents[j].approval]
             /\ j \in granted => j \in granted'
             /\ intents[j].approval # a
  BY <1>1, <1>4, CreatedHasParts
<1>5. Standing'
  <2>1. ASSUME NEW j \in Intent
        PROVE  LET verdict == approvals'[intents'[j].approval].status IN
               /\ intents'[j].status = "pending" => verdict \notin Verdicts
               /\ intents'[j].status \in Verdicts => verdict = intents'[j].status
               /\ intents'[j].status = "approved" => j \in granted'
    <3>1. CASE j = i
      BY <3>1 DEF Verdicts
    <3>2. CASE j # i
      <4>1. "none" \notin Verdicts
        BY DEF Verdicts
      <4> QED BY <3>2, <4>1, <1>4 DEF Granted, Standing
    <3> QED BY <3>1, <3>2
  <2> QED BY <2>1 DEF Standing
<1>6. SameTask'
  <2>1. ASSUME NEW j \in Intent, NEW e \in Recorded(events)', Requests(e, intents'[j].approval)
        PROVE  e.task = intents'[j].task
    <3>1. CASE j = i
      BY <3>1, <2>1, <1>2 DEF Requests
    <3>2. CASE j # i
      <4>1. e \in Recorded(events)
        BY <3>2, <2>1, <1>4 DEF Requests
      <4> QED BY <3>2, <4>1, <2>1, <1>4 DEF Granted, SameTask
    <3> QED BY <3>1, <3>2
  <2> QED BY <2>1 DEF SameTask
<1>7. OnlyGranted(events)' /\ OnlyGranted(Lines)'
  <2>1. ASSUME NEW j \in Intent, \/ Grants(events, intents[j].approval)'
                                 \/ Grants(Lines, intents[j].approval)'
        PROVE  j \in granted'
    <3>1. CASE j = i
      BY <3>1, <2>1, <1>3
    <3>2. CASE j # i
      <4>1. Grants(events, intents[j].approval) \/ Grants(Lines, intents[j].approval)
        BY <3>2, <2>1, <1>4
      <4> QED BY <3>2, <4>1, <1>4 DEF Granted, OnlyGranted
    <3> QED BY <3>1, <3>2
  <2> QED BY <2>1 DEF OnlyGranted
<1> QED BY <1>5, <1>6, <1>7 DEF Granted

LEMMA CreateGrants ==
    ASSUME IndInv, CreatedAsLogged, AskedAsLogged,
           NEW i \in Intent, NEW t \in Task, Create(i, t)
    PROVE  /\ CreatedAsLogged' /\ AskedAsLogged'
           /\ Granted /\ ~InUse(sequence + 1, t) => Granted'
<1> DEFINE a == sequence + 1
           request == RequestEvent(a + 1, a, t)
           creation == CreatedEvent(i, t, a)
           intent == [task |-> t, approval |-> a, status |-> "pending"]
           added == Recorded(Added(request))
<1>1. DataOK /\ sequence \in 0..MaxSequence
  BY TypeParts DEF IndInv, DataOK
<1>2. a \in Ids /\ a + 1 \in Ids
  BY <1>1, IntentAssumption DEF Create, Ids
<1>3. request \in IntentEvent /\ creation \in IntentEvent
  BY <1>2, EventTypes
<1>4. /\ request.kind = "requested" /\ request.ref = a /\ request.task = t
      /\ creation.kind = "created" /\ creation.ref = a
  BY DEF RequestEvent, CreatedEvent
<1>5. /\ Log!AppendEvents(Added(request) \o <<creation>>) /\ Fresh(i)
      /\ intents' = [intents EXCEPT ![i] = intent]
      /\ approvals' = Asked(a, t) /\ granted' = granted \ {i}
  BY DEF Create
<1>6. added \subseteq {request} /\ (Known(request) => added = {})
  BY AddedRecords
<1> HIDE DEF a
<1>7. /\ Added(request) \o <<creation>> \in Seq(IntentEvent)
      /\ Recorded(Added(request) \o <<creation>>) = added \cup {creation}
  <2> HIDE DEF request, creation
  <2>1. Added(request) \in Seq(IntentEvent)
    BY <1>3, AddedIsEvent
  <2>2. DOMAIN <<creation>> = {1} /\ <<creation>>[1] = creation
          /\ <<creation>> \in Seq(IntentEvent)
    BY <1>3
  <2>3. Recorded(<<creation>>) = {creation}
    BY <2>2 DEF Recorded
  <2> DEFINE one == <<creation>>
  <2> HIDE DEF one
  <2>4. /\ Added(request) \o one \in Seq(IntentEvent)
        /\ Recorded(Added(request) \o one) = added \cup Recorded(one)
    <3> DEFINE rest == Added(request)
    <3>1. one \in Seq(IntentEvent) /\ rest \in Seq(IntentEvent)
      BY <2>1, <2>2 DEF one
    <3> HIDE DEF rest
    <3>2. rest \o one \in Seq(IntentEvent)
      BY <3>1, ConcatProperties
    <3>3. Recorded(rest \o one) = Recorded(rest) \cup Recorded(one)
      BY <3>1, RecordedConcat
    <3> QED BY <3>2, <3>3 DEF rest
  <2> QED BY <2>3, <2>4 DEF one
<1> DEFINE new == Added(request) \o <<creation>>
<1> HIDE DEF new
<1>8. /\ Recorded(events)' = Recorded(events) \cup added \cup {creation}
      /\ \A x : Grants(events, x)' => Grants(events, x) \/ \E e \in added \cup {creation} : Approves(e, x)
      /\ \A x : Grants(Lines, x)' => Grants(Lines, x) \/ \E e \in added \cup {creation} : Approves(e, x)
  <2>1. /\ new \in Seq(IntentEvent) /\ Log!AppendEvents(new)
        /\ Recorded(new) = added \cup {creation}
    BY <1>5, <1>7 DEF new
  <2>2. /\ Recorded(events)' = Recorded(events) \cup Recorded(new)
        /\ \A x : Grants(events, x)' => Grants(events, x) \/ \E e \in Recorded(new) : Approves(e, x)
        /\ \A x : Grants(Lines, x)' => Grants(Lines, x) \/ \E e \in Recorded(new) : Approves(e, x)
    BY <2>1, AppendRecords
  <2> QED BY <2>1, <2>2
<1>9. /\ intents'[i] = intent /\ \A j \in Intent : j # i => intents'[j] = intents[j]
      /\ intent.task = t /\ intent.approval = a /\ intent.status = "pending"
  BY <1>1, <1>5 DEF DataOK
<1> HIDE DEF intent, added
<1>10. CreatedAsLogged'
  <2>1. \A e \in added : e.kind # "created"
    BY <1>4, <1>6
  <2>2. Recorded(events)' = Recorded(events) \cup added \cup {CreatedEvent(i, t, a)}
    BY <1>8
  <2>3. /\ intents'[i].task = t /\ intents'[i].approval = a /\ intents'[i].status # "none"
        /\ \A j \in Intent : j # i => intents'[j] = intents[j]
    BY <1>9
  <2> HIDE DEF creation, request
  <2> QED BY <1>5, <2>1, <2>2, <2>3, NewCreated
<1>11. AskedAsLogged'
  <2> DEFINE more == {creation}
  <2>1. /\ Recorded(events)' = Recorded(events) \cup Recorded(Added(RequestEvent(a + 1, a, t)))
                                 \cup more
        /\ \A e \in more : e.kind # "requested"
    BY <1>4, <1>8 DEF added
  <2>2. \A b \in Ids :
          /\ approvals'[b].task = Asked(a, t)[b].task
          /\ approvals'[b].status = "none" <=> Asked(a, t)[b].status = "none"
    BY <1>5
  <2> HIDE DEF creation, request, more
  <2> QED BY <2>1, <2>2, <1>2, NewAsked
<1>12. ASSUME Granted, ~InUse(a, t) PROVE Granted'
  <2>1. approvals' = [approvals EXCEPT ![a] = [task |-> t, status |-> "pending"]]
    BY <1>5, <1>12 DEF InUse, Asked
  <2>2. approvals'[a].status = "pending" /\ \A b \in Ids : b # a => approvals'[b] = approvals[b]
    BY <2>1, <1>1, <1>2 DEF DataOK
  <2>3. \A j \in Intent : j # i /\ j \in granted => j \in granted'
    BY <1>5
  <2> DEFINE more == added \cup {creation}
  <2>4. \A e \in more : e.kind = "requested" => e.ref = a /\ e.task = t
    BY <1>4, <1>6
  <2>5. \A x : \A e \in added \cup {creation} : ~Approves(e, x)
    BY <1>4, <1>6 DEF Approves
  <2> DEFINE status == "pending"
  <2>6. /\ \A x : Grants(events, x)' => Grants(events, x) \/ (x = a /\ status = "approved")
        /\ \A x : Grants(Lines, x)' => Grants(Lines, x) \/ (x = a /\ status = "approved")
    BY <1>8, <2>5
  <2>7. Recorded(events)' = Recorded(events) \cup more
    BY <1>8
  <2>8. /\ status \in {"pending", "approved"} /\ status = "approved" => i \in granted'
        /\ intents'[i].task = t /\ intents'[i].approval = a /\ intents'[i].status = status
        /\ approvals'[a].status = status
    BY <1>9, <2>2
  <2>9. \A j \in Intent : j # i => /\ intents'[j] = intents[j]
                                    /\ j \in granted => j \in granted'
    BY <1>9, <2>3
  <2> HIDE DEF creation, request, status, more
  <2> QED BY <2>2, <2>4, <2>6, <2>7, <2>8, <2>9, <1>2, <1>5, <1>12, NewGranted
<1> QED BY <1>10, <1>11, <1>12 DEF a

\* A verdict keeps what the intents name, and touches only pending ones.
LEMMA FollowKeeps ==
    ASSUME IndInv, NEW a, NEW verdict \in Verdicts, NEW i \in Intent
    PROVE  LET f == Follow(a, verdict)[i] IN
           /\ f.task = intents[i].task /\ f.approval = intents[i].approval
           /\ f.status = "none" <=> intents[i].status = "none"
           /\ intents[i].status = "none" => f = intents[i]
           /\ IF intents[i].approval = a /\ intents[i].status = "pending"
                THEN f.status = verdict ELSE f = intents[i]
<1>1. intents[i] \in IntentRecord
  BY TypeParts DEF IndInv, DataOK
<1>2. [intents[i] EXCEPT !.status = verdict].task = intents[i].task
        /\ [intents[i] EXCEPT !.status = verdict].approval = intents[i].approval
        /\ [intents[i] EXCEPT !.status = verdict].status = verdict
  BY <1>1 DEF IntentRecord
<1>3. verdict # "none"
  BY DEF Verdicts
<1> QED BY <1>2, <1>3 DEF Follow

LEMMA CreateApprovedGrants ==
    ASSUME IndInv, CreatedAsLogged, AskedAsLogged,
           NEW i \in Intent, NEW t \in Task, CreateApproved(i, t)
    PROVE  LET a == sequence + 1 IN
           /\ CreatedAsLogged' /\ AskedAsLogged'
           /\ Granted /\ ~InUse(a, t) /\ ~Known(VerdictEvent(a + 2, a, "approved")) => Granted'
<1> DEFINE a == sequence + 1
           request == RequestEvent(a + 1, a, t)
           yes == VerdictEvent(a + 2, a, "approved")
           creation == CreatedEvent(i, t, a)
           intent == [task |-> t, approval |-> a, status |-> "approved"]
           asked == Recorded(Added(request))
           judged == Recorded(Added(yes))
<1>1. DataOK /\ sequence \in 0..MaxSequence
  BY TypeParts DEF IndInv, DataOK
<1>2. a \in Ids /\ a + 1 \in Ids /\ a + 2 \in Ids
  BY <1>1, IntentAssumption DEF CreateApproved, Ids
<1>3. request \in IntentEvent /\ yes \in IntentEvent /\ creation \in IntentEvent
  BY <1>2, EventTypes DEF Verdicts
<1>4. /\ request.kind = "requested" /\ request.ref = a /\ request.task = t
      /\ yes.kind = "approved" /\ yes.ref = a
      /\ creation.kind = "created" /\ creation.ref = a
  BY DEF RequestEvent, VerdictEvent, CreatedEvent
<1>5. /\ Log!AppendEvents(Added(request) \o Added(yes) \o <<creation>>) /\ Fresh(i)
      /\ intents' = [Follow(a, "approved") EXCEPT ![i] = intent]
      /\ approvals' = Judged(Asked(a, t), a + 2, a, "approved")
      /\ Asked(a, t)[a].status = "pending"
      /\ granted' = granted \cup {i}
  BY DEF CreateApproved
<1>6. asked \subseteq {request} /\ judged \subseteq {yes}
  BY AddedRecords
<1>j. Judged(Asked(a, t), a + 2, a, "approved") =
        IF Known(yes) THEN Asked(a, t) ELSE [Asked(a, t) EXCEPT ![a].status = "approved"]
  BY DEF Judged
<1> HIDE DEF a
<1>7. /\ Added(request) \o Added(yes) \o <<creation>> \in Seq(IntentEvent)
      /\ Recorded(Added(request) \o Added(yes) \o <<creation>>)
           = asked \cup judged \cup {creation}
  <2> HIDE DEF request, yes, creation
  <2>1. Added(request) \in Seq(IntentEvent) /\ Added(yes) \in Seq(IntentEvent)
    BY <1>3, AddedIsEvent
  <2>2. DOMAIN <<creation>> = {1} /\ <<creation>>[1] = creation
          /\ <<creation>> \in Seq(IntentEvent)
    BY <1>3
  <2>3. Recorded(<<creation>>) = {creation}
    BY <2>2 DEF Recorded
  <2> DEFINE one == <<creation>>
             both == Added(request) \o Added(yes)
  <2>4. both \in Seq(IntentEvent) /\ Recorded(both) = asked \cup judged
    <3> DEFINE first == Added(request)
               second == Added(yes)
    <3>1. first \in Seq(IntentEvent) /\ second \in Seq(IntentEvent)
      BY <2>1
    <3> HIDE DEF first, second
    <3>2. first \o second \in Seq(IntentEvent)
      BY <3>1, ConcatProperties
    <3>3. Recorded(first \o second) = Recorded(first) \cup Recorded(second)
      BY <3>1, RecordedConcat
    <3> QED BY <3>2, <3>3 DEF first, second
  <2>5. one \in Seq(IntentEvent) /\ Recorded(one) = {creation}
    BY <2>2, <2>3
  <2> HIDE DEF one, both
  <2>6. both \o one \in Seq(IntentEvent) /\ Recorded(both \o one) = Recorded(both) \cup Recorded(one)
    <3>1. both \o one \in Seq(IntentEvent)
      BY <2>4, <2>5, ConcatProperties
    <3>2. Recorded(both \o one) = Recorded(both) \cup Recorded(one)
      BY <2>4, <2>5, RecordedConcat
    <3> QED BY <3>1, <3>2
  <2> QED BY <2>4, <2>5, <2>6 DEF one, both
<1> DEFINE new == Added(request) \o Added(yes) \o <<creation>>
           more == asked \cup judged \cup {creation}
<1> HIDE DEF new
<1>8. /\ Recorded(events)' = Recorded(events) \cup more
      /\ \A x : Grants(events, x)' => Grants(events, x) \/ \E e \in more : Approves(e, x)
      /\ \A x : Grants(Lines, x)' => Grants(Lines, x) \/ \E e \in more : Approves(e, x)
  <2>1. new \in Seq(IntentEvent) /\ Log!AppendEvents(new) /\ Recorded(new) = more
    BY <1>5, <1>7 DEF new
  <2> HIDE DEF more
  <2> QED BY <2>1, AppendRecords
<1>f. \A j \in Intent :
        /\ Follow(a, "approved")[j].task = intents[j].task
        /\ Follow(a, "approved")[j].approval = intents[j].approval
        /\ Follow(a, "approved")[j].status = "none" <=> intents[j].status = "none"
        /\ intents[j].status = "none" => Follow(a, "approved")[j] = intents[j]
        /\ intents[j].approval # a => Follow(a, "approved")[j] = intents[j]
  BY FollowKeeps DEF Verdicts
<1>9. /\ intents'[i] = intent
      /\ \A j \in Intent : j # i => intents'[j] = Follow(a, "approved")[j]
      /\ intent.task = t /\ intent.approval = a /\ intent.status = "approved"
  BY <1>5 DEF Follow
<1> HIDE DEF intent, asked, judged
<1>10. CreatedAsLogged'
  <2> DEFINE both == asked \cup judged
  <2>1. \A e \in both : e.kind # "created"
    BY <1>4, <1>6
  <2>2. Recorded(events)' = Recorded(events) \cup both \cup {CreatedEvent(i, t, a)}
    BY <1>8
  <2>3. /\ intents'[i].task = t /\ intents'[i].approval = a /\ intents'[i].status # "none"
        /\ \A j \in Intent : j # i =>
             /\ intents'[j].task = intents[j].task
             /\ intents'[j].approval = intents[j].approval
             /\ intents'[j].status = "none" => intents'[j] = intents[j]
             /\ intents[j].status = "none" => intents'[j] = intents[j]
    BY <1>9, <1>f
  <2> HIDE DEF creation, request, yes, both
  <2> QED BY <1>5, <2>1, <2>2, <2>3, NewCreated
<1>a. Asked(a, t) \in [Ids -> ApprovalRecord]
  BY <1>1, <1>2, ApprovalTypes DEF DataOK
<1>11. AskedAsLogged'
  <2>1. /\ Recorded(events)' = Recorded(events) \cup Recorded(Added(RequestEvent(a + 1, a, t)))
                                 \cup (judged \cup {creation})
        /\ \A e \in judged \cup {creation} : e.kind # "requested"
    BY <1>4, <1>6, <1>8 DEF asked
  <2>2. \A b \in Ids :
          /\ approvals'[b].task = Asked(a, t)[b].task
          /\ approvals'[b].status = "none" <=> Asked(a, t)[b].status = "none"
    <3>1. CASE Known(yes)
      BY <3>1, <1>5, <1>j
    <3>2. CASE ~Known(yes)
      <4>1. approvals' = [Asked(a, t) EXCEPT ![a].status = "approved"]
        BY <3>2, <1>5, <1>j
      <4> QED BY <4>1, <1>2, <1>5, <1>a DEF ApprovalRecord
    <3> QED BY <3>1, <3>2
  <2> HIDE DEF creation, request, yes
  <2> QED BY <2>1, <2>2, <1>2, NewAsked
<1>12. ASSUME Granted, ~InUse(a, t), ~Known(yes) PROVE Granted'
  <2>1. /\ Asked(a, t) = [approvals EXCEPT ![a] = [task |-> t, status |-> "pending"]]
        /\ \A j \in Intent : intents[j].approval # a
    BY <1>12 DEF InUse, Asked
  <2>2. approvals'[a].status = "approved" /\ \A b \in Ids : b # a => approvals'[b] = approvals[b]
    <3>1. approvals' = [Asked(a, t) EXCEPT ![a].status = "approved"]
      BY <1>5, <1>j, <1>12
    <3>2. \A b \in Ids : b # a => Asked(a, t)[b] = approvals[b]
      BY <2>1, <1>1 DEF DataOK
    <3> QED BY <3>1, <3>2, <1>2, <1>a DEF ApprovalRecord
  <2>3. /\ i \in granted' /\ \A j \in Intent : j \in granted => j \in granted'
        /\ \A j \in Intent : j # i => intents'[j] = intents[j]
    BY <2>1, <1>5, <1>9, <1>f
  <2>4. \A e \in more : e.kind = "requested" => e.ref = a /\ e.task = t
    BY <1>4, <1>6
  <2>5. \A x : \A e \in more : Approves(e, x) => x = a
    BY <1>4, <1>6 DEF Approves
  <2>6. /\ \A x : Grants(events, x)' => Grants(events, x) \/ x = a
        /\ \A x : Grants(Lines, x)' => Grants(Lines, x) \/ x = a
    BY <1>8, <2>5
  <2> HIDE DEF creation, request, yes, more
  <2> QED BY <2>2, <2>3, <2>4, <2>6, <1>2, <1>5, <1>8, <1>9, <1>12, NewGranted
<1> QED BY <1>10, <1>11, <1>12 DEF a

\* A request that is not followed by an intent is for an id in use.
LEMMA CreateThrowsGrants ==
    ASSUME IndInv, CreatedAsLogged, AskedAsLogged, NEW t \in Task, CreateThrows(t)
    PROVE  CreatedAsLogged' /\ AskedAsLogged' /\ InUse(sequence + 1, t)
<1> DEFINE a == sequence + 1
           request == RequestEvent(a + 1, a, t)
           added == Recorded(Added(request))
<1>1. DataOK /\ sequence \in 0..MaxSequence
  BY TypeParts DEF IndInv, DataOK
<1>2. a \in Ids /\ a + 1 \in Ids
  BY <1>1, IntentAssumption DEF CreateThrows, Ids
<1>3. request \in IntentEvent /\ request.kind = "requested"
  <2>1. request.kind = "requested"
    BY DEF RequestEvent
  <2>2. request \in IntentEvent
    BY <1>2 DEF RequestEvent, IntentEvent
  <2> QED BY <2>1, <2>2
<1>4. /\ Log!AppendEvents(Added(request)) /\ approvals' = Asked(a, t)
      /\ Asked(a, t)[a].status # "pending" /\ intents' = intents
  BY DEF CreateThrows
<1>5. Added(request) \in Seq(IntentEvent) /\ added \subseteq {request}
  BY <1>3, AddedIsEvent, AddedRecords
<1>6. Recorded(events)' = Recorded(events) \cup added
  BY <1>4, <1>5, AppendRecords
<1> HIDE DEF a
<1>7. Known(request)
  BY <1>1, <1>2, <1>4 DEF Asked, DataOK
<1> HIDE DEF added
<1>8. CreatedAsLogged'
  <2>1. \A e \in added : e.kind # "created"
    BY <1>3, <1>5
  <2> QED BY <2>1, <1>4, <1>6, KeepsCreated
<1>9. AskedAsLogged'
  <2> DEFINE more == {}
  <2>1. Recorded(events)' = Recorded(events) \cup Recorded(Added(RequestEvent(a + 1, a, t)))
                              \cup more
    BY <1>6 DEF added
  <2>2. \A e \in more : e.kind # "requested"
    OBVIOUS
  <2>3. \A b \in Ids :
          /\ approvals'[b].task = Asked(a, t)[b].task
          /\ approvals'[b].status = "none" <=> Asked(a, t)[b].status = "none"
    BY <1>4
  <2> HIDE DEF request, more
  <2> QED BY <2>1, <2>2, <2>3, <1>2, NewAsked
<1>10. InUse(a, t)
  BY <1>7 DEF InUse
<1> QED BY <1>8, <1>9, <1>10 DEF a

\* The user decides what the request lists: the intents with this approval.
LEMMA DecideGrants ==
    ASSUME IndInv, CreatedAsLogged, AskedAsLogged,
           NEW a \in Ids, NEW verdict \in Verdicts, Decide(a, verdict)
    PROVE  /\ CreatedAsLogged' /\ AskedAsLogged'
           /\ Granted /\ ~Known(VerdictEvent(sequence + 1, a, verdict)) => Granted'
<1> DEFINE judgement == VerdictEvent(sequence + 1, a, verdict)
           added == Recorded(Added(judgement))
<1>1. approvals \in [Ids -> ApprovalRecord]
  BY TypeParts DEF IndInv, DataOK
<1>2. judgement \in IntentEvent
  <2>1. sequence + 1 \in Ids
    BY DEF Decide
  <2> QED BY <2>1 DEF VerdictEvent, IntentEvent
<1>3. judgement.kind = verdict /\ judgement.ref = a
  BY DEF VerdictEvent
<1>4. /\ approvals[a].status = "pending"
      /\ approvals' = Judged(approvals, sequence + 1, a, verdict)
      /\ intents' = Follow(a, verdict)
      /\ Log!AppendEvents(Added(judgement))
      /\ granted' = IF verdict = "approved" THEN granted \cup Meant(a) ELSE granted
  BY DEF Decide
<1>5. Added(judgement) \in Seq(IntentEvent) /\ added \subseteq {judgement}
  BY <1>2, AddedIsEvent, AddedRecords
<1>6. /\ Recorded(events)' = Recorded(events) \cup added
      /\ \A x : Grants(events, x)' => Grants(events, x) \/ \E e \in added : Approves(e, x)
      /\ \A x : Grants(Lines, x)' => Grants(Lines, x) \/ \E e \in added : Approves(e, x)
  BY <1>4, <1>5, AppendRecords
<1>j. /\ approvals' = IF Known(judgement) THEN approvals
                      ELSE [approvals EXCEPT ![a].status = verdict]
      /\ \A b \in Ids :
           /\ approvals'[b].task = approvals[b].task
           /\ approvals'[b].status = "none" <=> approvals[b].status = "none"
           /\ b # a => approvals'[b] = approvals[b]
      /\ ~Known(judgement) => approvals'[a].status = verdict
  <2>1. approvals' = IF Known(judgement) THEN approvals
                     ELSE [approvals EXCEPT ![a].status = verdict]
    BY <1>4 DEF Judged
  <2> HIDE DEF judgement
  <2>2. verdict # "none"
    BY DEF Verdicts
  <2> QED BY <2>1, <2>2, <1>1, <1>4 DEF ApprovalRecord
<1>f. \A j \in Intent :
        /\ intents'[j].task = intents[j].task
        /\ intents'[j].approval = intents[j].approval
        /\ intents'[j].status = "none" <=> intents[j].status = "none"
        /\ intents[j].status = "none" => intents'[j] = intents[j]
        /\ IF intents[j].approval = a /\ intents[j].status = "pending"
             THEN intents'[j].status = verdict ELSE intents'[j] = intents[j]
  BY <1>4, FollowKeeps
<1> HIDE DEF judgement, added
<1>7. CreatedAsLogged'
  <2>1. \A e \in added : e.kind # "created"
    BY <1>3, <1>5 DEF Verdicts
  <2> QED BY <2>1, <1>6, <1>f, KeepsCreated
<1>8. AskedAsLogged'
  <2>1. \A e \in added : e.kind # "requested"
    BY <1>3, <1>5 DEF Verdicts
  <2> QED BY <2>1, <1>6, <1>j, KeepsAsked
<1>9. ASSUME Granted, ~Known(judgement) PROVE Granted'
  <2>g. \A j \in Intent : j \in granted => j \in granted'
    BY <1>4
  <2>1. ASSUME NEW j \in Intent, intents[j].approval = a, verdict = "approved"
        PROVE  j \in granted'
    <3>1. PICK e \in Recorded(events) : Requests(e, a) /\ e.task = approvals[a].task
      BY <1>4 DEF AskedAsLogged
    <3>2. e.task = intents[j].task
      BY <3>1, <2>1, <1>9 DEF Granted, SameTask
    <3> QED BY <3>1, <3>2, <2>1, <1>4 DEF Meant
  <2>2. Standing'
    <3>1. ASSUME NEW j \in Intent
          PROVE  LET given == approvals'[intents'[j].approval].status IN
                 /\ intents'[j].status = "pending" => given \notin Verdicts
                 /\ intents'[j].status \in Verdicts => given = intents'[j].status
                 /\ intents'[j].status = "approved" => j \in granted'
      <4>1. CASE intents[j].approval = a
        <5>1. approvals'[intents'[j].approval].status = verdict
          BY <4>1, <1>9, <1>f, <1>j
        <5>2. intents[j].status \notin Verdicts
          BY <4>1, <1>4, <1>9 DEF Granted, Standing, Verdicts
        <5>3. intents'[j].status = "approved" => verdict = "approved"
          BY <4>1, <5>2, <1>f DEF Verdicts
        <5> QED BY <4>1, <5>1, <5>2, <5>3, <2>1, <1>f DEF Verdicts
      <4>2. CASE intents[j].approval # a
        <5>1. intents'[j] = intents[j]
          BY <4>2, <1>f
        <5>2. intents[j].status # "none" => intents[j].approval \in Ids
          BY CreatedHasParts
        <5>3. intents[j].status # "none"
                => approvals'[intents[j].approval] = approvals[intents[j].approval]
          BY <4>2, <5>2, <1>j
        <5>4. "none" \notin Verdicts
          BY DEF Verdicts
        <5> QED BY <5>1, <5>3, <5>4, <2>g, <1>9 DEF Granted, Standing
      <4> QED BY <4>1, <4>2
    <3> QED BY <3>1 DEF Standing
  <2>3. SameTask'
    <3>1. \A e \in added : \A x : ~Requests(e, x)
      BY <1>3, <1>5 DEF Requests, Verdicts
    <3> QED BY <3>1, <1>6, <1>9, <1>f DEF Granted, SameTask
  <2>4. OnlyGranted(events)' /\ OnlyGranted(Lines)'
    <3>1. \A x : \A e \in added : Approves(e, x) => x = a /\ verdict = "approved"
      BY <1>3, <1>5 DEF Approves
    <3>2. ASSUME NEW j \in Intent, \/ Grants(events, intents[j].approval)'
                                   \/ Grants(Lines, intents[j].approval)'
          PROVE  j \in granted'
      <4>1. \/ Grants(events, intents[j].approval) \/ Grants(Lines, intents[j].approval)
            \/ intents[j].approval = a /\ verdict = "approved"
        BY <3>1, <3>2, <1>6, <1>f
      <4> QED BY <4>1, <2>1, <2>g, <1>9 DEF Granted, OnlyGranted
    <3> QED BY <3>2 DEF OnlyGranted
  <2> QED BY <2>2, <2>3, <2>4 DEF Granted
<1> QED BY <1>7, <1>8, <1>9 DEF judgement

(***************************************************************************)
(* Steps that touch the status of one intent, to one that needs no yes,    *)
(* and record no more than its settlement.                                 *)
(***************************************************************************)
LEMMA StatusGrants ==
    ASSUME IndInv, CreatedAsLogged, AskedAsLogged, NEW i \in Intent, NEW status \in Status,
           intents[i].status # "none", status # "none",
           intents' = [intents EXCEPT ![i].status = status] \/ intents' = intents,
           approvals' = approvals, granted' = granted,
           NEW new \in Seq(IntentEvent), Log!AppendEvents(new) \/ UNCHANGED logVars,
           \A e \in Recorded(new) : e.kind \in Settlement
    PROVE  /\ CreatedAsLogged' /\ AskedAsLogged'
           /\ Granted /\ status \notin Open => Granted'
<1>1. DataOK
  BY TypeParts DEF IndInv
<1>2. \A j \in Intent :
        /\ intents'[j].task = intents[j].task
        /\ intents'[j].approval = intents[j].approval
        /\ intents'[j].status = "none" <=> intents[j].status = "none"
        /\ intents[j].status = "none" => intents'[j] = intents[j]
        /\ intents'[j].status = intents[j].status \/ intents'[j].status = status
  BY <1>1 DEF DataOK, IntentRecord
<1>3. /\ Recorded(events)' \subseteq Recorded(events) \cup Recorded(new)
      /\ Recorded(events) \subseteq Recorded(events)'
      /\ \A x : Grants(events, x)' => Grants(events, x) \/ \E e \in Recorded(new) : Approves(e, x)
      /\ \A x : Grants(Lines, x)' => Grants(Lines, x) \/ \E e \in Recorded(new) : Approves(e, x)
  <2>1. CASE Log!AppendEvents(new)
    BY <2>1, AppendRecords
  <2>2. CASE UNCHANGED logVars
    BY <2>2 DEF logVars, Lines
  <2> QED BY <2>1, <2>2
<1>4. \A e \in Recorded(new) : /\ e.kind # "created" /\ e.kind # "requested"
                               /\ \A x : ~Approves(e, x) /\ ~Requests(e, x)
  BY DEF Settlement, Approves, Requests
<1> DEFINE more == Recorded(events)' \cap Recorded(new)
<1>5. /\ Recorded(events)' = Recorded(events) \cup more
      /\ \A e \in more : e \in Recorded(new)
  BY <1>3
<1> HIDE DEF more
<1>6. CreatedAsLogged'
  BY <1>2, <1>4, <1>5, KeepsCreated
<1>7. AskedAsLogged'
  BY <1>4, <1>5, KeepsAsked
<1>8. ASSUME Granted, status \notin Open PROVE Granted'
  <2>1. Standing'
    <3>1. ASSUME NEW j \in Intent
          PROVE  LET given == approvals'[intents'[j].approval].status IN
                 /\ intents'[j].status = "pending" => given \notin Verdicts
                 /\ intents'[j].status \in Verdicts => given = intents'[j].status
                 /\ intents'[j].status = "approved" => j \in granted'
      <4>1. approvals'[intents'[j].approval] = approvals[intents[j].approval]
        BY <1>2
      <4>2. \/ intents'[j].status = intents[j].status
            \/ intents'[j].status \notin Open
        BY <1>2, <1>8
      <4>3. intents'[j].status \in Verdicts \/ intents'[j].status = "pending"
              \/ intents'[j].status = "approved" => intents'[j].status \in Open
        BY DEF Open, Verdicts
      <4> QED BY <4>1, <4>2, <4>3, <1>8 DEF Granted, Standing
    <3> QED BY <3>1 DEF Standing
  <2>2. SameTask'
    BY <1>2, <1>4, <1>5, <1>8 DEF Granted, SameTask
  <2>3. OnlyGranted(events)' /\ OnlyGranted(Lines)'
    BY <1>2, <1>3, <1>4, <1>8 DEF Granted, OnlyGranted
  <2> QED BY <2>1, <2>2, <2>3 DEF Granted
<1> QED BY <1>6, <1>7, <1>8

\* What a process restores of an approval.
LEMMA ApprovalInAsked ==
    ASSUME NEW log \in Seq(IntentEvent), NEW a
    PROVE  LET ap == ApprovalIn(log, a) IN
           /\ ap.status # "none" => \E e \in Recorded(log) : Requests(e, a) /\ e.task = ap.task
           /\ \A e \in Recorded(log) : Requests(e, a) => ap.status # "none"
           /\ ap.status = "approved" => Grants(log, a)
<1> DEFINE requests == {k \in DOMAIN log : log[k].kind = "requested" /\ log[k].ref = a}
           verdicts == {k \in DOMAIN log : log[k].kind \in Verdicts /\ log[k].ref = a}
           both == requests \cup verdicts
           ap == ApprovalIn(log, a)
<1>1. Len(log) \in Nat /\ requests \in SUBSET (1..Len(log)) /\ both \in SUBSET (1..Len(log))
  OBVIOUS
<1>2. CASE requests = {}
  <2>1. ap = NoApproval
    BY <1>2 DEF ApprovalIn
  <2>2. ap.status = "none"
    BY <2>1 DEF NoApproval
  <2>3. \A e \in Recorded(log) : ~Requests(e, a)
    BY <1>2 DEF Recorded, Requests
  <2> HIDE DEF ap
  <2> QED BY <2>2, <2>3 DEF ap
<1>3. CASE requests # {}
  <2> DEFINE first == Latest(requests)
             last == Latest(both)
  <2>1. first \in requests /\ last \in both /\ \A j \in both : j <= last
    <3>1. both # {}
      BY <1>3
    <3> HIDE DEF both, requests
    <3> QED BY <1>1, <1>3, <3>1, LatestIsLast
  <2>2. ap = [task |-> log[first].task, status |-> ApprovalStatus(log[last].kind)]
    BY <1>3 DEF ApprovalIn
  <2>3. first \in DOMAIN log /\ Requests(log[first], a) /\ first \in both
    <3>1. first \in requests
      <4> HIDE DEF first, last, both, requests
      <4> QED BY <2>1, Zenon
    <3> HIDE DEF first
    <3> QED BY <3>1 DEF Requests
  <2>4. last \in DOMAIN log /\ log[last].ref = a /\ log[last].kind \in {"requested"} \cup Verdicts
    BY <2>1
  <2> HIDE DEF first, last, both, requests, ap
  <2>5. ap.task = log[first].task /\ ap.status = ApprovalStatus(log[last].kind)
    BY <2>2
  <2>6. ap.status # "none"
    BY <2>4, <2>5 DEF ApprovalStatus, Verdicts
  <2>7. log[first] \in Recorded(log)
    BY <2>3 DEF Recorded
  <2>8. ASSUME ap.status = "approved" PROVE Grants(log, a)
    <3>1. log[last].kind = "approved"
      BY <2>8, <2>4, <2>5 DEF ApprovalStatus, Verdicts
    <3>2. first <= last /\ first # last
      BY <3>1, <2>1, <2>3 DEF Requests
    <3>3. first < last
      BY <3>2, <2>3, <2>4
    <3> QED BY <3>1, <3>3, <2>3, <2>4 DEF Grants, Approves
  <2> QED BY <2>3, <2>5, <2>6, <2>7, <2>8 DEF ap
<1> QED BY <1>2, <1>3

\* What a process restores of an intent.
LEMMA RestoredCreated ==
    ASSUME NEW log \in Seq(IntentEvent), NEW aps, NEW expired, NEW i \in Intent
    PROVE  LET r == RestoredIntent(log, aps, expired, i) IN
           /\ (\A e \in Recorded(log) : ~Creates(e, i)) => r = NoIntent
           /\ (\E e \in Recorded(log) : Creates(e, i)) =>
                /\ r.status # "none"
                /\ i \notin expired => r.status # "expired"
                /\ \E e \in Recorded(log) :
                     Creates(e, i) /\ r.task = e.task /\ r.approval = e.ref
                /\ r.status = "pending" => aps[r.approval].status \notin Verdicts
                /\ r.status \in Verdicts => aps[r.approval].status = r.status
<1> DEFINE concerns == {k \in DOMAIN log : log[k].intent = i}
           creations == {k \in concerns : log[k].kind = "created"}
           r == RestoredIntent(log, aps, expired, i)
           m == Latest(concerns)
           created == log[Latest(creations)]
           verdict == aps[created.ref].status
<1>1. /\ Len(log) \in Nat /\ concerns \in SUBSET (1..Len(log))
      /\ creations \in SUBSET (1..Len(log)) /\ \A k \in 1..Len(log) : log[k] \in IntentEvent
  OBVIOUS
<1>2. creations = {} <=> \A e \in Recorded(log) : ~Creates(e, i)
  BY DEF Recorded, Creates
<1>3. CASE creations = {}
  <2>1. r = NoIntent
    BY <1>3 DEF RestoredIntent
  <2> HIDE DEF r, creations
  <2> QED BY <2>1, <1>2, <1>3 DEF r
<1>4. CASE creations # {}
  <2>1. m \in concerns /\ Latest(creations) \in creations
    <3>1. concerns # {}
      BY <1>4
    <3> HIDE DEF concerns, creations
    <3> QED BY <1>1, <1>4, <3>1, LatestIsLast
  <2>2. log[m].kind \in {"created"} \cup Settlement
    BY <2>1, <1>1, OwnEvent
  <2>3. created \in Recorded(log) /\ Creates(created, i)
    BY <2>1 DEF Recorded, Creates
  <2>4. r = [task |-> created.task, approval |-> created.ref,
             status |-> IntentStatus(log[m].kind, verdict, i \in expired)]
    BY <1>4 DEF RestoredIntent
  <2> HIDE DEF created, m, r, creations
  <2>5. /\ r.task = created.task /\ r.approval = created.ref
        /\ r.status = IntentStatus(log[m].kind, verdict, i \in expired)
    BY <2>4
  <2>6. /\ r.status # "none"
        /\ i \notin expired => r.status # "expired"
        /\ r.status = "pending" => verdict \notin Verdicts
        /\ r.status \in Verdicts => verdict = r.status
    <3> HIDE DEF verdict
    <3> QED BY <2>2, <2>5 DEF IntentStatus, Settlement, Verdicts
  <2>7. verdict = aps[r.approval].status
    BY <2>5
  <2> QED BY <2>3, <2>5, <2>6, <2>7, <1>2, <1>4 DEF r
<1> QED BY <1>3, <1>4

\* A write changes nothing in memory; what it loses, nobody reads again.
LEMMA WriteLogGrants ==
    ASSUME IndInv, CreatedAsLogged, AskedAsLogged, WriteLog
    PROVE  CreatedAsLogged' /\ AskedAsLogged' /\ (Granted => Granted')
<1>1. PICK keep \in 0..Len(disk), lo \in 1..2 :
        \E hi \in (lo - 1)..Len(unwritten) :
        Log!Write(Len(unwritten), keep, lo, hi)
  BY DEF WriteLog
<1>2. PICK hi \in (lo - 1)..Len(unwritten) : Log!Write(Len(unwritten), keep, lo, hi)
  BY <1>1
<1>3. /\ disk' = SubSeq(disk, 1, keep) \o SubSeq(unwritten, lo, hi)
      /\ unwritten' = SubSeq(unwritten, Len(unwritten) + 1, Len(unwritten))
      /\ events' = events
      /\ UNCHANGED <<approvals, intents, granted>>
  BY <1>2 DEF Log!Write, WriteLog
<1>4. /\ disk' \in Seq(IntentEvent)
      /\ \A a : Grants(disk', a) => Grants(Lines, a)
  BY <1>3, LinesLeft
<1>5. Lines' = disk'
  <2>1. unwritten' = <<>>
    BY <1>3, TypeParts DEF IndInv, Log!LogTypeOK
  <2>2. disk' \o unwritten' = disk'
    BY <1>4, <2>1, ConcatEmptySeq
  <2> QED BY <2>2 DEF Lines
<1>6. /\ Recorded(events)' = Recorded(events)
      /\ \A a : Grants(events, a)' <=> Grants(events, a)
      /\ \A a : Grants(Lines, a)' => Grants(Lines, a)
  BY <1>3, <1>4, <1>5
<1>7. CreatedAsLogged'
  BY <1>3, <1>6 DEF CreatedAsLogged
<1>8. AskedAsLogged'
  BY <1>3, <1>6 DEF AskedAsLogged
<1>9. ASSUME Granted PROVE Granted'
  <2>1. Standing'
    BY <1>3, <1>9 DEF Granted, Standing
  <2>2. SameTask'
    BY <1>3, <1>6, <1>9 DEF Granted, SameTask
  <2>3. OnlyGranted(events)' /\ OnlyGranted(Lines)'
    BY <1>3, <1>6, <1>9 DEF Granted, OnlyGranted
  <2> QED BY <2>1, <2>2, <2>3 DEF Granted
<1> QED BY <1>7, <1>8, <1>9

\* A new process knows what the lines tell, and no more is granted by them.
LEMMA RestartGrants ==
    ASSUME IndInv, CreatedAsLogged, AskedAsLogged, Restart
    PROVE  CreatedAsLogged' /\ AskedAsLogged' /\ (Granted => Granted')
<1>1. PICK keep \in 0..Len(disk), lo \in 1..2 :
        \E hi \in (lo - 1)..Len(unwritten) : Log!Restart(keep, lo, hi)
  BY DEF Restart
<1>2. PICK hi \in (lo - 1)..Len(unwritten) : Log!Restart(keep, lo, hi)
  BY <1>1
<1>3. /\ disk' = SubSeq(disk, 1, keep) \o SubSeq(unwritten, lo, hi)
      /\ events' = disk' /\ unwritten' = <<>>
      /\ approvals' = [a \in Ids |-> ApprovalIn(disk', a)]
      /\ intents' = Restored(disk', approvals', late)
      /\ granted' = granted
  BY <1>2 DEF Log!Restart, Restart
<1>4. /\ disk' \in Seq(IntentEvent)
      /\ \A k \in DOMAIN disk' : In(disk'[k], events)
      /\ \A a : Grants(disk', a) => Grants(Lines, a)
  BY <1>3, LinesLeft
<1>5. Lines' = disk'
  <2>1. disk' \o unwritten' = disk'
    BY <1>3, <1>4, ConcatEmptySeq
  <2> QED BY <2>1 DEF Lines
<1>6. Recorded(disk') \subseteq Recorded(events)
  BY <1>4 DEF Recorded, In
<1>7. ASSUME NEW a \in Ids
      PROVE  /\ approvals'[a].status # "none" =>
                  \E e \in Recorded(disk') : Requests(e, a) /\ e.task = approvals'[a].task
             /\ \A e \in Recorded(disk') : Requests(e, a) => approvals'[a].status # "none"
             /\ approvals'[a].status = "approved" => Grants(disk', a)
  <2>1. approvals'[a] = ApprovalIn(disk', a)
    BY <1>3
  <2> QED BY <2>1, <1>4, ApprovalInAsked
<1>8. ASSUME NEW i \in Intent
      PROVE  /\ (\A e \in Recorded(disk') : ~Creates(e, i)) => intents'[i] = NoIntent
             /\ (\E e \in Recorded(disk') : Creates(e, i)) =>
                  /\ intents'[i].status # "none"
                  /\ intents'[i].task = intents[i].task
                  /\ intents'[i].approval = intents[i].approval
                  /\ intents'[i].approval \in Ids
                  /\ intents'[i].status = "pending"
                       => approvals'[intents'[i].approval].status \notin Verdicts
                  /\ intents'[i].status \in Verdicts
                       => approvals'[intents'[i].approval].status = intents'[i].status
  <2>1. intents'[i] = RestoredIntent(disk', approvals', late, i)
    BY <1>3 DEF Restored
  <2>2. /\ (\A e \in Recorded(disk') : ~Creates(e, i)) => intents'[i] = NoIntent
        /\ (\E e \in Recorded(disk') : Creates(e, i)) =>
             /\ intents'[i].status # "none"
             /\ \E e \in Recorded(disk') :
                  Creates(e, i) /\ intents'[i].task = e.task /\ intents'[i].approval = e.ref
             /\ intents'[i].status = "pending"
                  => approvals'[intents'[i].approval].status \notin Verdicts
             /\ intents'[i].status \in Verdicts
                  => approvals'[intents'[i].approval].status = intents'[i].status
    BY <2>1, <1>4, RestoredCreated
  <2>3. ASSUME NEW e \in Recorded(disk'), Creates(e, i)
        PROVE  e.task = intents[i].task /\ e.ref = intents[i].approval /\ e.ref \in Ids
    <3>1. e \in Recorded(events) /\ e \in IntentEvent
      BY <2>3, <1>6, RecordedAreEvents
    <3> QED BY <3>1, <2>3, EventShape DEF CreatedAsLogged, Creates
  <2> QED BY <2>2, <2>3
<1>n. NoIntent.status = "none" /\ NoIntent.approval = 0 /\ 0 \notin Ids
  BY DEF NoIntent, Ids
<1>9. CreatedAsLogged'
  <2>1. ASSUME NEW i \in Intent
        PROVE  /\ intents'[i].status = "none" => intents'[i] = NoIntent
               /\ intents'[i].status # "none" => \E e \in Recorded(disk') : Creates(e, i)
               /\ \A e \in Recorded(disk') : Creates(e, i) =>
                    /\ intents'[i].status # "none"
                    /\ e.task = intents'[i].task /\ e.ref = intents'[i].approval
    <3>1. ASSUME NEW e \in Recorded(disk'), Creates(e, i)
          PROVE  e.task = intents[i].task /\ e.ref = intents[i].approval
      BY <3>1, <1>6 DEF CreatedAsLogged
    <3> QED BY <3>1, <1>8, <1>n
  <2> QED BY <2>1, <1>3 DEF CreatedAsLogged
<1>10. AskedAsLogged'
  BY <1>3, <1>7 DEF AskedAsLogged
<1>11. ASSUME Granted PROVE Granted'
  <2>e. Recorded(disk') \subseteq IntentEvent
    BY <1>6, RecordedAreEvents
  <2>1. ASSUME NEW i \in Intent
        PROVE  /\ Grants(disk', intents'[i].approval) => i \in granted
               /\ \A e \in Recorded(disk') :
                    Requests(e, intents'[i].approval) => e.task = intents'[i].task
    <3>1. CASE \E e \in Recorded(disk') : Creates(e, i)
      BY <3>1, <1>4, <1>6, <1>8, <1>11 DEF Granted, OnlyGranted, SameTask
    <3>2. CASE \A e \in Recorded(disk') : ~Creates(e, i)
      <4>1. intents'[i].approval \notin Ids
        BY <3>2, <1>8, <1>n
      <4> QED BY <4>1, <2>e, NothingAsked
    <3> QED BY <3>1, <3>2
  <2>2. Standing'
    <3>1. ASSUME NEW i \in Intent
          PROVE  LET given == approvals'[intents'[i].approval].status IN
                 /\ intents'[i].status = "pending" => given \notin Verdicts
                 /\ intents'[i].status \in Verdicts => given = intents'[i].status
                 /\ intents'[i].status = "approved" => i \in granted'
      <4>1. CASE \E e \in Recorded(disk') : Creates(e, i)
        <5>1. intents'[i].status = "approved"
                => approvals'[intents'[i].approval].status = "approved"
          BY <4>1, <1>8 DEF Verdicts
        <5>2. intents'[i].status = "approved" => Grants(disk', intents'[i].approval)
          BY <4>1, <5>1, <1>7, <1>8
        <5> QED BY <4>1, <5>2, <2>1, <1>3, <1>8
      <4>2. CASE \A e \in Recorded(disk') : ~Creates(e, i)
        BY <4>2, <1>8, <1>n DEF Verdicts
      <4> QED BY <4>1, <4>2
    <3> QED BY <3>1 DEF Standing
  <2>3. SameTask'
    BY <2>1, <1>3 DEF SameTask
  <2>4. OnlyGranted(events)' /\ OnlyGranted(Lines)'
    BY <2>1, <1>3, <1>5 DEF OnlyGranted
  <2> QED BY <2>2, <2>3, <2>4 DEF Granted
<1> QED BY <1>9, <1>10, <1>11

\* An id drawn twice excuses all that follows.
LEMMA FlagGrants ==
    ASSUME NEW p, reused' = (reused \/ p), reused \/ Granted, Granted /\ ~p => Granted'
    PROVE  reused' \/ Granted'
BY Zenon

\* Steps of one intent that leave the flag alone.
LEMMA IntentGrants ==
    ASSUME IndInv, GrantInv, NEW i \in Intent,
           \/ Approve(i) \/ Consume(i) \/ ConsumeLate(i)
           \/ Complete(i) \/ Fail(i) \/ Cancel(i) \/ Expire(i)
    PROVE  GrantInv'
<1>1. /\ CreatedAsLogged /\ AskedAsLogged /\ (reused \/ Granted)
      /\ UNCHANGED <<approvals, granted, reused>>
  BY DEF GrantInv, Approve, Consume, ConsumeLate, Complete, Fail, Cancel, Expire, Settle, Rest
<1>2. <<>> \in Seq(IntentEvent) /\ Recorded(<<>>) = {}
  BY DEF Recorded
<1>3. ASSUME NEW kind \in Settlement
      PROVE  /\ Added(Settled(i, kind)) \in Seq(IntentEvent)
             /\ \A e \in Recorded(Added(Settled(i, kind))) : e.kind \in Settlement
  <2>1. Settled(i, kind).kind = kind
    BY DEF Settled
  <2>2. Added(Settled(i, kind)) \in Seq(IntentEvent)
    BY SettledType, AddedIsEvent
  <2>3. Recorded(Added(Settled(i, kind))) \subseteq {Settled(i, kind)}
    BY AddedRecords
  <2> QED BY <2>1, <2>2, <2>3
<1>4. Settlement \subseteq Status /\ "expired" \in Status /\ Verdicts \subseteq Status
        /\ "none" \notin Settlement
        /\ \A kind \in Settlement : kind \notin Open
        /\ "expired" \notin Open
  BY DEF Status, Settlement, Open, Verdicts
<1>5. ASSUME NEW kind \in Settlement, intents[i].status # "none",
             intents' = [intents EXCEPT ![i].status = kind],
             Log!AppendEvents(Added(Settled(i, kind)))
      PROVE  CreatedAsLogged' /\ AskedAsLogged' /\ (Granted => Granted')
  BY <1>1, <1>3, <1>4, <1>5, StatusGrants
<1>6. CASE Approve(i)
  <2>1. /\ intents[i].status = "pending" /\ approvals[intents[i].approval].status = "approved"
        /\ intents' = [intents EXCEPT ![i].status = "approved"] /\ UNCHANGED logVars
    BY <1>6 DEF Approve, MayApprove
  <2>2. ~Granted
    BY <2>1 DEF Granted, Standing, Verdicts
  <2>3. CreatedAsLogged' /\ AskedAsLogged'
    BY <1>1, <1>2, <1>4, <2>1, StatusGrants DEF Verdicts
  <2> QED BY <1>1, <2>2, <2>3, Zenon DEF GrantInv
<1>7. CASE Consume(i)
  <2>1. /\ intents[i].status # "none" /\ intents' = [intents EXCEPT ![i].status = "consumed"]
        /\ Log!AppendEvents(Added(Settled(i, "consumed")))
    BY <1>7 DEF Consume, Executable, MayApprove
  <2>2. CreatedAsLogged' /\ AskedAsLogged' /\ (Granted => Granted')
    BY <1>5, <2>1 DEF Settlement
  <2> QED BY <1>1, <2>2, Zenon DEF GrantInv
<1>8. CASE Complete(i) \/ Fail(i) \/ Cancel(i)
  <2>1. /\ intents[i].status # "none"
        /\ Settle(i, "completed") \/ Settle(i, "failed") \/ Settle(i, "cancelled")
    BY <1>8 DEF Complete, Fail, Cancel
  <2>2. PICK kind \in Settlement : Settle(i, kind)
    BY <2>1 DEF Settlement
  <2>3. CreatedAsLogged' /\ AskedAsLogged' /\ (Granted => Granted')
    BY <1>5, <2>1, <2>2 DEF Settle
  <2> QED BY <1>1, <2>3, Zenon DEF GrantInv
<1>9. CASE ConsumeLate(i) \/ Expire(i)
  <2>1. /\ intents[i].status # "none" /\ UNCHANGED logVars
        /\ intents' = [intents EXCEPT ![i].status = "expired"] \/ intents' = intents
    BY <1>9 DEF ConsumeLate, Expire
  <2> DEFINE new == <<>>
             status == "expired"
  <2>2. new \in Seq(IntentEvent) /\ \A e \in Recorded(new) : e.kind \in Settlement
    BY <1>2
  <2>s. status \in Status /\ status # "none" /\ status \notin Open
    BY DEF Status, Open, Verdicts
  <2>i. intents' = [intents EXCEPT ![i].status = status] \/ intents' = intents
    BY <2>1
  <2> HIDE DEF new, status
  <2>3. CreatedAsLogged' /\ AskedAsLogged' /\ (Granted => Granted')
    BY <1>1, <2>1, <2>2, <2>s, <2>i, StatusGrants
  <2> QED BY <1>1, <2>3, Zenon DEF GrantInv
<1> QED BY <1>6, <1>7, <1>8, <1>9

\* Creations, whether or not they throw, and decisions.
LEMMA CreationGrants ==
    ASSUME IndInv, GrantInv, NEW i \in Intent, NEW t \in Task, Creation(i, t)
    PROVE  GrantInv'
<1>1. CreatedAsLogged /\ AskedAsLogged /\ (reused \/ Granted)
  BY DEF GrantInv
<1>2. CASE Create(i, t)
  <2>1. reused' = (reused \/ InUse(sequence + 1, t))
    BY <1>2 DEF Create
  <2>2. /\ CreatedAsLogged' /\ AskedAsLogged'
        /\ Granted /\ ~InUse(sequence + 1, t) => Granted'
    BY <1>1, <1>2, CreateGrants
  <2>3. reused' \/ Granted'
    BY <1>1, <2>1, <2>2, FlagGrants
  <2> QED BY <2>2, <2>3, Zenon DEF GrantInv
<1>3. CASE CreateApproved(i, t)
  <2> DEFINE a == sequence + 1
             p == InUse(a, t) \/ Known(VerdictEvent(a + 2, a, "approved"))
  <2>1. reused' = (reused \/ p)
    <3>1. reused' = (reused \/ InUse(a, t) \/ Known(VerdictEvent(a + 2, a, "approved")))
      BY <1>3 DEF CreateApproved
    <3> QED BY <3>1, Zenon
  <2>2. CreatedAsLogged' /\ AskedAsLogged' /\ (Granted /\ ~p => Granted')
    BY <1>1, <1>3, CreateApprovedGrants
  <2> HIDE DEF p
  <2>3. reused' \/ Granted'
    BY <1>1, <2>1, <2>2, FlagGrants
  <2> QED BY <2>2, <2>3, Zenon DEF GrantInv
<1> QED BY <1>2, <1>3 DEF Creation

LEMMA OtherGrants ==
    ASSUME IndInv, GrantInv, OtherOperation
    PROVE  GrantInv'
<1>1. CreatedAsLogged /\ AskedAsLogged /\ (reused \/ Granted)
  BY DEF GrantInv
<1>2. ASSUME NEW t \in Task, CreateThrows(t) PROVE GrantInv'
  <2>1. reused' = (reused \/ InUse(sequence + 1, t))
    BY <1>2 DEF CreateThrows
  <2>2. CreatedAsLogged' /\ AskedAsLogged' /\ InUse(sequence + 1, t)
    BY <1>1, <1>2, CreateThrowsGrants
  <2> QED BY <2>1, <2>2, Zenon DEF GrantInv
<1>3. ASSUME NEW a \in Ids, NEW verdict \in Verdicts, Decide(a, verdict) PROVE GrantInv'
  <2> DEFINE p == Known(VerdictEvent(sequence + 1, a, verdict))
  <2>1. reused' = (reused \/ p)
    BY <1>3 DEF Decide
  <2>2. CreatedAsLogged' /\ AskedAsLogged' /\ (Granted /\ ~p => Granted')
    BY <1>1, <1>3, DecideGrants
  <2> HIDE DEF p
  <2>3. reused' \/ Granted'
    BY <1>1, <2>1, <2>2, FlagGrants
  <2> QED BY <2>2, <2>3, Zenon DEF GrantInv
<1> QED BY <1>2, <1>3, IntentGrants DEF OtherOperation

LEMMA LogGrants ==
    ASSUME IndInv, GrantInv, WriteLog \/ Restart
    PROVE  GrantInv'
<1>1. CreatedAsLogged /\ AskedAsLogged /\ (reused \/ Granted) /\ reused' = reused
  BY DEF GrantInv, WriteLog, Restart
<1>2. CreatedAsLogged' /\ AskedAsLogged' /\ (Granted => Granted')
  BY <1>1, WriteLogGrants, RestartGrants
<1> QED BY <1>1, <1>2, Zenon DEF GrantInv

LEMMA StutterGrants ==
    ASSUME GrantInv, UNCHANGED vars
    PROVE  GrantInv'
<1>1. /\ UNCHANGED <<approvals, intents, granted, reused, events>> /\ Lines' = Lines
      /\ CreatedAsLogged /\ AskedAsLogged /\ (reused \/ Granted)
  BY DEF vars, Lines, GrantInv
<1>2. CreatedAsLogged' /\ AskedAsLogged'
  BY <1>1 DEF CreatedAsLogged, AskedAsLogged
<1>3. ASSUME Granted PROVE Granted'
  BY <1>1, <1>3 DEF Granted, Standing, SameTask, OnlyGranted
<1> QED BY <1>1, <1>2, <1>3, Zenon DEF GrantInv

LEMMA InitGrants == Init => GrantInv
<1> SUFFICES ASSUME Init PROVE GrantInv
  OBVIOUS
<1>1. /\ approvals = [a \in Ids |-> NoApproval] /\ intents = [i \in Intent |-> NoIntent]
      /\ events = <<>> /\ Lines = <<>>
  <2>1. <<>> \o <<>> = <<>>
    BY ConcatEmptySeq
  <2> QED BY <2>1 DEF Init, Log!LogInit, Lines
<1>2. Recorded(events) = {} /\ \A a : ~Grants(events, a) /\ ~Grants(Lines, a)
  BY <1>1 DEF Recorded, Grants
<1>3. CreatedAsLogged /\ AskedAsLogged
  BY <1>1, <1>2 DEF CreatedAsLogged, AskedAsLogged, NoIntent, NoApproval
<1>4. Granted
  BY <1>1, <1>2 DEF Granted, Standing, SameTask, OnlyGranted, NoIntent, Verdicts
<1> QED BY <1>3, <1>4 DEF GrantInv

\* What a consumption finds.
LEMMA ConsumeIsGranted ==
    ASSUME GrantInv, NEW i \in Intent, Consume(i), ~reused
    PROVE  i \in granted
<1>1. Standing
  BY Zenon DEF GrantInv, Granted
<1>2. \/ intents[i].status = "approved"
      \/ intents[i].status = "pending" /\ approvals[intents[i].approval].status = "approved"
  BY DEF Consume, Executable, MayApprove
<1> QED BY <1>1, <1>2 DEF Standing, Verdicts

LEMMA GrantsInductive == Spec => [](IndInv /\ GrantInv)
<1>1. Init => IndInv /\ GrantInv
  BY InitIndInv, InitGrants
<1>2. ASSUME IndInv, GrantInv, [Next]_vars PROVE IndInv' /\ GrantInv'
  <2>1. GrantInv'
    BY <1>2, CreationGrants, OtherGrants, LogGrants, StutterGrants DEF Next, Operation
  <2> QED BY <2>1, <1>2, IndInvStep
<1> QED BY <1>1, <1>2, PTL DEF Spec

(***************************************************************************)
(* Intents, approvals and the log of createSideEffectIntent and the other  *)
(* operations are well typed, through any crash and restart.               *)
(***************************************************************************)
THEOREM SideEffectTypeCorrect == Spec => []TypeOK
<1>1. IndInv => TypeOK
  BY DEF IndInv
<1> QED BY <1>1, Inductive, PTL

(***************************************************************************)
(* consumeSideEffectIntent succeeds at most once for an intent, over any   *)
(* number of restarts, if the event of its consumption is not lost.        *)
(***************************************************************************)
THEOREM ConsumedOnceAlways == Spec => ConsumedOnce
<1>1. ASSUME IndInv, [Next]_vars
      PROVE  [\A i \in Intent : Consume(i) => spent[i] # "consumed"]_vars
  <2>1. ASSUME NEW i \in Intent, Consume(i), spent[i] = "consumed" PROVE FALSE
    <3>1. Tells(events, i, Settlement)
      BY <2>1, <1>1 DEF IndInv, Agrees, Tells, Settlement
    <3>2. intents[i].status \in {"pending", "approved"}
      BY <2>1 DEF Consume, Executable, MayApprove
    <3> QED BY <3>1, <3>2, <1>1, OpenIsUnused
  <2> QED BY <2>1
<1> QED BY <1>1, Inductive, PTL DEF Spec, ConsumedOnce

(***************************************************************************)
(* Whatever decisions, restarts and losses interleave, an intent that      *)
(* consumeSideEffectIntent consumes is one the user has said yes to, as    *)
(* long as the coordinator has drawn no id a second time.                  *)
(***************************************************************************)
THEOREM ConsumedWhenGrantedAlways == Spec => ConsumedWhenGranted
<1>1. ASSUME IndInv, GrantInv, [Next]_vars
      PROVE  [\A i \in Intent : Consume(i) /\ ~reused => i \in granted]_vars
  <2>1. ASSUME NEW i \in Intent, Consume(i), ~reused PROVE i \in granted
    BY <1>1, <2>1, ConsumeIsGranted
  <2> QED BY <2>1, Zenon
<1> QED BY <1>1, GrantsInductive, PTL DEF Spec, ConsumedWhenGranted

\* The last event about an intent is of one kind.
LEMMA EndsOnce ==
    ASSUME NEW log \in Seq(IntentEvent), NEW i, NEW x, NEW y, Ends(log, i, x), Ends(log, i, y)
    PROVE  x = y
<1>1. PICK j \in DOMAIN log : /\ log[j].intent = i /\ log[j].kind = x
                              /\ \A k \in DOMAIN log : log[k].intent = i => k <= j
  BY DEF Ends
<1>2. PICK k \in DOMAIN log : /\ log[k].intent = i /\ log[k].kind = y
                              /\ \A l \in DOMAIN log : log[l].intent = i => l <= k
  BY DEF Ends
<1>3. j = k
  BY <1>1, <1>2
<1> QED BY <1>1, <1>2, <1>3

(***************************************************************************)
(* restoreSideEffectIntents with a fully written log gives every intent    *)
(* the standing it had, but for expiries and, once an id was drawn twice,  *)
(* verdicts that have not been acted on.                                   *)
(***************************************************************************)
THEOREM RestoreIsExactAlways == Spec => []RestoreIsExact
<1>1. ASSUME IndInv, GrantInv, NEW i \in Intent, intents[i].status # "expired",
             reused => intents[i].status \in Settlement
      PROVE  Restored(events, approvals, {})[i] = intents[i]
  <2> DEFINE r == RestoredIntent(events, approvals, {}, i)
  <2>1. Restored(events, approvals, {})[i] = r
    BY DEF Restored
  <2>2. /\ events \in Seq(IntentEvent) /\ Ordered(events) /\ intents[i] \in IntentRecord
        /\ Recorded(events) \subseteq IntentEvent
    BY <1>1, TypeParts, RecordedAreEvents DEF IndInv, DataOK, Log!LogTypeOK
  <2>3. /\ r \in IntentRecord
        /\ r.status \in Open => ~Tells(events, i, Settlement)
        /\ r.status \in Settlement => Ends(events, i, r.status)
    BY <2>2, RestoredAgrees
  <2>4. /\ (\A e \in Recorded(events) : ~Creates(e, i)) => r = NoIntent
        /\ (\E e \in Recorded(events) : Creates(e, i)) =>
             /\ r.status \notin {"none", "expired"}
             /\ \E e \in Recorded(events) :
                  Creates(e, i) /\ r.task = e.task /\ r.approval = e.ref
             /\ r.status = "pending" => approvals[r.approval].status \notin Verdicts
             /\ r.status \in Verdicts => approvals[r.approval].status = r.status
    BY <2>2, RestoredCreated
  <2> HIDE DEF r
  <2>c. CreatedAsLogged
    BY <1>1 DEF GrantInv
  <2>5. CASE intents[i].status = "none"
    <3>1. \A e \in Recorded(events) : ~Creates(e, i)
      BY <2>c, <2>5 DEF CreatedAsLogged
    <3>2. intents[i] = NoIntent
      BY <2>c, <2>5 DEF CreatedAsLogged
    <3> QED BY <3>1, <3>2, <2>1, <2>4
  <2>6. CASE intents[i].status # "none"
    <3>1. \E e \in Recorded(events) : Creates(e, i)
      BY <2>c, <2>6 DEF CreatedAsLogged
    <3>2. r.task = intents[i].task /\ r.approval = intents[i].approval
      BY <2>4, <2>c, <3>1 DEF CreatedAsLogged
    <3>3. r.status \in Open \cup Settlement /\ intents[i].status \in Open \cup Settlement
      BY <1>1, <2>2, <2>3, <2>4, <2>6, <3>1 DEF IntentRecord, Status, Open
    <3>4. CASE intents[i].status \in Settlement
      <4>1. Ends(events, i, intents[i].status)
        BY <1>1, <3>4 DEF IndInv, Agrees
      <4>2. Tells(events, i, Settlement)
        BY <4>1, <3>4 DEF Ends, Tells
      <4>3. Ends(events, i, r.status)
        BY <4>2, <3>3, <2>3
      <4>4. r.status = intents[i].status
        BY <4>1, <4>3, <2>2, EndsOnce
      <4> QED BY <4>4, <3>2, <2>1, <2>2, <2>3 DEF IntentRecord
    <3>5. CASE intents[i].status \notin Settlement
      <4>1. Granted
        BY <1>1, <3>5, Zenon DEF GrantInv
      <4>2. Standing
        BY <4>1 DEF Granted
      <4>3. ~Tells(events, i, Settlement)
        BY <1>1, <3>3, <3>5 DEF IndInv, Agrees
      <4>4. r.status \in Open
        BY <4>3, <3>3, <2>3 DEF Ends, Tells
      <4>5. r.status = intents[i].status
        BY <4>2, <4>4, <3>1, <3>2, <3>3, <3>5, <2>4 DEF Standing, Open
      <4> QED BY <4>5, <3>2, <2>1, <2>2, <2>3 DEF IntentRecord
    <3> QED BY <3>4, <3>5
  <2> QED BY <2>5, <2>6
<1>2. IndInv /\ GrantInv => RestoreIsExact
  BY <1>1, Zenon DEF RestoreIsExact
<1> QED BY <1>2, GrantsInductive, PTL

(***************************************************************************)
(* completeSideEffectIntent and failSideEffectIntent never both record an  *)
(* outcome of the same effect, whatever a restart has restored.            *)
(***************************************************************************)
THEOREM OneOutcomeAlways == Spec => []OneOutcome
<1>1. ASSUME IndInv PROVE OneOutcome
  <2>1. events \in Seq(IntentEvent) /\ Ordered(events)
    BY <1>1, TypeParts DEF IndInv, Log!LogTypeOK
  <2>2. ASSUME NEW k \in DOMAIN events, events[k].kind \in Outcome,
               NEW j \in DOMAIN events, events[j].intent = events[k].intent,
               events[j].kind \in Used
        PROVE  IF events[j].kind = "consumed" THEN j < k ELSE j = k
    <3>1. events[k] \in IntentEvent /\ k \in Nat /\ j \in Nat
      BY <2>1
    <3>2. events[k].intent # NoOne
      BY <3>1, <2>2, IntentAssumption DEF IntentEvent, Outcome, Verdicts
    <3>3. ~(k < j)
      BY <2>1, <2>2, <3>2 DEF Ordered, MayFollow, Used
    <3>4. events[j].kind # "consumed" => ~(j < k)
      BY <2>1, <2>2, <3>2 DEF Ordered, MayFollow, Used, Outcome
    <3>5. events[j].kind = "consumed" => j # k
      BY <2>2 DEF Outcome
    <3> QED BY <3>1, <3>3, <3>4, <3>5
  <2> QED BY <2>2 DEF OneOutcome, Outcome, Used, Settlement
<1> QED BY <1>1, Inductive, PTL

-----------------------------------------------------------------------------
(***************************************************************************)
(* The executor, TaskExecution.  Types first: what one run says and where  *)
(* it stands.                                                              *)
(***************************************************************************)
RunRecord ==
    [at : {"new", "over", "dead"} \cup Active,
     task : Task \cup {NoOne}, intent : Intent \cup {NoOne},
     state : P!TaskState, said : Seq(P!Message),
     effect : BOOLEAN, result : {"none"} \cup Result]

RunTypeOK ==
    /\ contract \in [Task -> Intent \cup {NoOne}]
    /\ runs \in [Run -> RunRecord]
    /\ overdue \subseteq Run
    /\ told \in [Task -> Seq(P!Message)]
    /\ evidence \in [Task -> {"none", "accepted", "rejected"}]

\* The messages of the executor, and the status every message asks for.
LEMMA MessageTypes ==
    /\ {"bid", "award", "authorize", "progress", "deliver", "verify", "accept",
        "fail", "dispute"} \subseteq P!Message
    /\ \A msg \in P!Message : P!StatusFor[msg] \in P!Status
<1>1. P!Message = {"propose", "bid", "award", "authorize", "progress", "deliver",
                   "verify", "accept", "revoke", "fail", "revision_requested", "dispute"}
  BY DEF P!Message, P!StatusFor
<1>2. \A msg \in P!Message : P!StatusFor[msg] \in P!Status
  BY <1>1 DEF P!StatusFor, P!Status
<1> QED BY <1>1, <1>2

\* What a run has said changes nothing else of it.
LEMMA SaysType ==
    ASSUME NEW q \in RunRecord, NEW msg \in P!Message
    PROVE  /\ Says(q, msg) \in RunRecord
           /\ Says(q, msg).at = q.at /\ Says(q, msg).task = q.task
           /\ Says(q, msg).intent = q.intent /\ Says(q, msg).effect = q.effect
           /\ Says(q, msg).result = q.result
<1> DEFINE next == P!AfterTransition(q.state, ContextOf(msg), msg)
<1>1. next \in P!TaskState
  <2>1. /\ ContextOf(msg).providerId \in {"requester", "provider", "verifier", NoOne}
        /\ ContextOf(msg).verifierId \in {"requester", "provider", "verifier", NoOne}
        /\ ContextOf(msg).actor \in {"requester", "provider", "verifier", NoOne}
    BY DEF ContextOf, P!Context
  <2>2. /\ q.state.providerId \in {"requester", "provider", "verifier", NoOne}
        /\ q.state.verifierId \in {"requester", "provider", "verifier", NoOne}
    BY DEF RunRecord, P!TaskState
  <2> QED BY <2>1, <2>2, MessageTypes DEF P!AfterTransition, P!OrElse, P!TaskState
<1>2. Append(q.said, msg) \in Seq(P!Message)
  BY AppendProperties DEF RunRecord
<1> HIDE DEF next
<1>3. Says(q, msg) = [q EXCEPT !.state = next, !.said = Append(q.said, msg)]
  BY DEF Says, next
<1> QED BY <1>1, <1>2, <1>3 DEF RunRecord

LEMMA NewRunType ==
    ASSUME NEW t \in Task \cup {NoOne}, NEW i \in Intent \cup {NoOne}
    PROVE  /\ NewRun(t, i) \in RunRecord
           /\ NewRun(t, i).task = t /\ NewRun(t, i).intent = i
           /\ ~NewRun(t, i).effect /\ NewRun(t, i).result = "none"
           /\ NewRun(t, i).at = "new"
<1>1. P!InitialTask \in P!TaskState
  BY DEF P!InitialTask, P!TaskState, P!Status
<1>2. <<>> \in Seq(P!Message)
  OBVIOUS
<1> QED BY <1>1, <1>2 DEF NewRun, RunRecord

\* Run r goes on as q.
LEMMA ContinueType ==
    ASSUME runs \in [Run -> RunRecord], told \in [Task -> Seq(P!Message)],
           NEW r \in Run, NEW q \in RunRecord,
           NEW at \in {"new", "over", "dead"} \cup Active, Continue(r, q, at)
    PROVE  /\ runs' \in [Run -> RunRecord] /\ told' \in [Task -> Seq(P!Message)]
           /\ \A s \in Run : s # r => runs'[s] = runs[s]
           /\ runs'[r].at = at /\ runs'[r].task = q.task /\ runs'[r].intent = q.intent
           /\ runs'[r].effect = q.effect /\ runs'[r].result = q.result
<1> DEFINE p == [q EXCEPT !.at = at]
<1>1. /\ p \in RunRecord /\ p.at = at /\ p.task = q.task /\ p.intent = q.intent
      /\ p.effect = q.effect /\ p.result = q.result
  BY DEF RunRecord
<1>2. runs' = [runs EXCEPT ![r] = p]
  BY DEF Continue
<1> HIDE DEF p
<1>3. told' \in [Task -> Seq(P!Message)]
  <2> DEFINE more(s) == s \o SubSeq(q.said, Len(s) + 1, Len(q.said))
  <2>1. ASSUME NEW s \in Seq(P!Message) PROVE more(s) \in Seq(P!Message)
    <3>1. q.said \in Seq(P!Message)
      BY DEF RunRecord
    <3>2. \A k \in (Len(s) + 1)..Len(q.said) : q.said[k] \in P!Message
      BY <3>1
    <3>3. SubSeq(q.said, Len(s) + 1, Len(q.said)) \in Seq(P!Message)
      BY <3>1, <3>2, SubSeqProperties
    <3> QED BY <3>3, ConcatProperties
  <2>2. told' = [told EXCEPT ![q.task] = more(told[q.task])]
    BY DEF Continue, Logged
  <2> HIDE DEF more
  <2>3. CASE q.task \in Task
    BY <2>1, <2>2, <2>3
  <2>4. CASE q.task \notin Task
    BY <2>2, <2>4
  <2> QED BY <2>3, <2>4
<1> QED BY <1>1, <1>2, <1>3

-----------------------------------------------------------------------------
(***************************************************************************)
(* What a step does to the runs.  Run r goes on from q, which is about the *)
(* same task and intent as before; its intent may be settled.              *)
(***************************************************************************)
Goes(r, q) ==
    /\ \A s \in Run : s # r => runs'[s] = runs[s]
    /\ runs'[r].task = q.task /\ runs'[r].intent = q.intent
    /\ runs'[r].effect = q.effect

Settling ==
    \/ \E i \in Intent : Complete(i) \/ Fail(i)
    \/ UNCHANGED vars

\* What a reported result has recorded.
Reported(r, result) ==
    \/ result \in {"none", "failed", "thrown"}
    \/ result = "accepted" /\ (runs[r].intent = NoOne \/ Complete(runs[r].intent))
    \/ result = "rejected" /\ (runs[r].intent = NoOne \/ Fail(runs[r].intent))

LEMMA GoesOn ==
    ASSUME RunTypeOK, NEW r \in Run, NEW q \in RunRecord,
           NEW at \in {"new", "over", "dead"} \cup Active, Continue(r, q, at),
           UNCHANGED <<contract, overdue>>, evidence' = evidence
    PROVE  RunTypeOK' /\ Goes(r, q) /\ runs'[r].at = at /\ runs'[r].result = q.result
BY ContinueType DEF RunTypeOK, Goes

LEMMA EndsWith ==
    ASSUME RunTypeOK, NEW r \in Run, NEW q \in RunRecord, NEW result \in Result,
           End(r, q, result), UNCHANGED <<contract, overdue>>,
           evidence' \in [Task -> {"none", "accepted", "rejected"}]
    PROVE  RunTypeOK' /\ Goes(r, q) /\ runs'[r].at = "over" /\ runs'[r].result = result
<1> DEFINE p == [q EXCEPT !.result = result]
<1>1. /\ p \in RunRecord /\ p.task = q.task /\ p.intent = q.intent
      /\ p.effect = q.effect /\ p.result = result
  BY DEF RunRecord
<1>2. Continue(r, p, "over")
  BY DEF End
<1> HIDE DEF p
<1> QED BY <1>1, <1>2, ContinueType DEF RunTypeOK, Goes

\* The catch clause fails the intent, or leaves it.
LEMMA CaughtStep ==
    ASSUME RunTypeOK, NEW r \in Run, NEW q \in RunRecord, Caught(r, q)
    PROVE  /\ RunTypeOK' /\ Goes(r, q) /\ Settling /\ UNCHANGED contract
           /\ runs'[r].at = "over" /\ runs'[r].result \in {"failed", "thrown"}
<1>1. /\ UNCHANGED <<contract, overdue>> /\ evidence' = evidence
      /\ evidence' \in [Task -> {"none", "accepted", "rejected"}]
  BY DEF Caught, RunTypeOK
<1>2. {"failed", "thrown"} \subseteq Result
  BY DEF Result
<1>3. ASSUME TryFail(q.intent) PROVE Settling
  BY <1>3 DEF TryFail, Settling, intentVars, RunRecord
<1>4. CASE End(r, Says(q, "fail"), "failed") /\ TryFail(q.intent)
  <2>1. /\ Says(q, "fail") \in RunRecord /\ Says(q, "fail").task = q.task
        /\ Says(q, "fail").intent = q.intent /\ Says(q, "fail").effect = q.effect
    BY MessageTypes, SaysType
  <2>2. RunTypeOK' /\ Goes(r, Says(q, "fail")) /\ runs'[r].at = "over" /\ runs'[r].result = "failed"
    BY <1>1, <1>2, <1>4, <2>1, EndsWith
  <2> QED BY <1>1, <1>3, <1>4, <2>1, <2>2 DEF Goes
<1>5. CASE End(r, q, "thrown") /\ UNCHANGED intentVars
  BY <1>1, <1>2, <1>5, EndsWith DEF Settling, intentVars
<1>6. CASE End(r, q, "failed") /\ TryFail(q.intent)
  BY <1>1, <1>2, <1>3, <1>6, EndsWith
<1> QED BY <1>4, <1>5, <1>6 DEF Caught

\* An answer of the provider or the verifier.
LEMMA AnswerStep ==
    ASSUME RunTypeOK, NEW r \in Run, Answer(r)
    PROVE  /\ RunTypeOK' /\ runs[r].at \in Active
           /\ \A s \in Run : s # r => runs'[s] = runs[s]
           /\ runs'[r].task = runs[r].task /\ runs'[r].intent = runs[r].intent
           /\ UNCHANGED contract /\ Settling
           /\ \/ runs'[r].result = runs[r].result
              \/ Reported(r, runs'[r].result)
<1> DEFINE q == runs[r]
           kept == /\ \A s \in Run : s # r => runs'[s] = runs[s]
                   /\ runs'[r].task = q.task /\ runs'[r].intent = q.intent
<1>0. /\ q \in RunRecord
      /\ {"listing", "invoking", "performed", "verifying"} = Active
  BY DEF RunTypeOK, Active
<1>1. ASSUME q.at \in Active, NEW p \in RunRecord, p.task = q.task, p.intent = q.intent,
             Caught(r, p)
      PROVE  /\ RunTypeOK' /\ kept /\ Settling /\ UNCHANGED contract
             /\ Reported(r, runs'[r].result)
  BY <1>1, CaughtStep DEF Reported, Goes
<1>c. ASSUME q.at \in Active, NEW p \in RunRecord, p.task = q.task, p.intent = q.intent,
             p.result = q.result, NEW at \in Active, Continue(r, p, at), Same
      PROVE  /\ RunTypeOK' /\ kept /\ Settling /\ UNCHANGED contract
             /\ runs'[r].result = q.result
  BY <1>c, GoesOn DEF Same, Settling, intentVars, Goes
<1>s. /\ Says(q, "verify") \in RunRecord /\ Says(q, "verify").task = q.task
      /\ Says(q, "verify").intent = q.intent
      /\ Says(q, "deliver") \in RunRecord /\ Says(q, "deliver").task = q.task
      /\ Says(q, "deliver").intent = q.intent /\ Says(q, "deliver").result = q.result
  BY <1>0, MessageTypes, SaysType
<1>v. /\ Says(Says(q, "verify"), "accept") \in RunRecord
      /\ Says(Says(q, "verify"), "accept").task = q.task
      /\ Says(Says(q, "verify"), "accept").intent = q.intent
      /\ Says(Says(q, "verify"), "dispute") \in RunRecord
      /\ Says(Says(q, "verify"), "dispute").task = q.task
      /\ Says(Says(q, "verify"), "dispute").intent = q.intent
  BY <1>s, MessageTypes, SaysType
<1>e. ASSUME NEW p \in RunRecord, p.task = q.task, p.intent = q.intent,
             NEW result \in {"accepted", "rejected"}, End(r, p, result),
             Verified(p.task, result), UNCHANGED <<contract, overdue>>
      PROVE  RunTypeOK' /\ kept /\ runs'[r].result = result
  <2>1. evidence' \in [Task -> {"none", "accepted", "rejected"}]
    BY <1>e DEF Verified, RunTypeOK
  <2> QED BY <1>e, <2>1, EndsWith DEF Result, Goes
<1>2. CASE List(r)
  BY <1>0, <1>1, <1>c, <1>2 DEF List
<1>3. CASE Perform(r)
  <2> DEFINE p == [q EXCEPT !.effect = TRUE]
  <2>1. p \in RunRecord /\ p.task = q.task /\ p.intent = q.intent /\ p.result = q.result
    BY <1>0 DEF RunRecord
  <2>2. q.at \in Active /\ Continue(r, p, "performed") /\ Same
    BY <1>0, <1>3 DEF Perform
  <2> HIDE DEF p
  <2> QED BY <1>0, <1>c, <2>1, <2>2
<1>4. CASE InvokeFails(r)
  BY <1>0, <1>1, <1>4 DEF InvokeFails
<1>5. CASE Deliver(r)
  BY <1>0, <1>1, <1>c, <1>s, <1>5 DEF Deliver
<1>6. CASE VerifyFails(r)
  <2>1. q.at \in Active
    BY <1>0, <1>6 DEF VerifyFails
  <2>2. CASE Caught(r, q)
    BY <1>0, <1>1, <2>1, <2>2
  <2>3. CASE Caught(r, Says(q, "verify"))
    BY <1>1, <1>s, <2>1, <2>3
  <2> QED BY <1>6, <2>2, <2>3 DEF VerifyFails
<1>7. CASE Accept(r)
  <2> DEFINE p == Says(q, "verify")
  <2>1. q.at \in Active
    BY <1>0, <1>7 DEF Accept
  <2>2. CASE Caught(r, p)
    BY <1>1, <1>s, <2>1, <2>2
  <2>3. CASE ~Caught(r, p)
    <3>1. /\ IF p.intent = NoOne THEN UNCHANGED intentVars ELSE Complete(p.intent)
          /\ End(r, Says(p, "accept"), "accepted") /\ Verified(p.task, "accepted")
          /\ UNCHANGED <<contract, overdue>>
      BY <1>7, <2>3 DEF Accept
    <3>2. RunTypeOK' /\ kept /\ runs'[r].result = "accepted"
      BY <1>e, <1>s, <1>v, <3>1
    <3>3. Settling /\ Reported(r, "accepted")
      BY <1>0, <1>s, <3>1 DEF Settling, Reported, intentVars, RunRecord
    <3> QED BY <1>v, <2>1, <3>1, <3>2, <3>3
  <2> QED BY <2>2, <2>3
<1>8. CASE Reject(r)
  <2> DEFINE p == Says(Says(q, "verify"), "dispute")
  <2>1. q.at \in Active
    BY <1>0, <1>8 DEF Reject
  <2>2. CASE Caught(r, p)
    BY <1>1, <1>v, <2>1, <2>2
  <2>3. CASE ~Caught(r, p)
    <3>1. /\ IF p.intent = NoOne THEN UNCHANGED intentVars ELSE Fail(p.intent)
          /\ End(r, p, "rejected") /\ Verified(p.task, "rejected")
          /\ UNCHANGED <<contract, overdue>>
      BY <1>8, <2>3 DEF Reject
    <3>2. RunTypeOK' /\ kept /\ runs'[r].result = "rejected"
      BY <1>e, <1>v, <3>1
    <3>3. Settling /\ Reported(r, "rejected")
      BY <1>0, <1>v, <3>1 DEF Settling, Reported, intentVars, RunRecord
    <3> QED BY <1>v, <2>1, <3>1, <3>2, <3>3
  <2> QED BY <2>2, <2>3
<1> QED BY <1>2, <1>3, <1>4, <1>5, <1>6, <1>7, <1>8 DEF Answer

-----------------------------------------------------------------------------
(***************************************************************************)
(* What a step does to an intent a run holds: as long as no line is lost,  *)
(* the log is what the next process reads and never forgets, and an intent *)
(* that exists keeps its task, and its consumption.  What the user has     *)
(* said yes to stays so anyway.                                            *)
(***************************************************************************)
LogKept ==
    /\ events' = Lines'
    /\ Recorded(events) \subseteq Recorded(events)'

Unforgotten == losses' = 0 => losses = 0 /\ LogKept

Kept(j) ==
    /\ reused => reused'
    /\ j \in granted => j \in granted'
    /\ losses' = 0 =>
         /\ spent[j] = "consumed" => spent'[j] = "consumed"
         /\ intents[j].status # "none" =>
              intents'[j].status # "none" /\ intents'[j].task = intents[j].task

\* Every operation appends events, if it changes the log.
LEMMA OperationAppends ==
    ASSUME IndInv, Operation
    PROVE  \/ UNCHANGED logVars
           \/ \E new \in Seq(IntentEvent) : Log!AppendEvents(new)
<1>s. sequence \in 0..MaxSequence
  BY DEF IndInv, TypeOK
<1>a. ASSUME NEW e \in IntentEvent
      PROVE  Added(e) \in Seq(IntentEvent) /\ <<e>> \in Seq(IntentEvent)
  <2>1. <<e>> \in Seq(IntentEvent)
    OBVIOUS
  <2>2. Added(e) \in Seq(IntentEvent)
    BY AddedIsEvent
  <2> QED BY <2>1, <2>2
<1>1. /\ sequence \in 0..MaxSequence
      /\ \A e \in IntentEvent : Added(e) \in Seq(IntentEvent) /\ <<e>> \in Seq(IntentEvent)
  BY <1>s, <1>a
<1>c. ASSUME NEW s \in Seq(IntentEvent), NEW u \in Seq(IntentEvent)
      PROVE  s \o u \in Seq(IntentEvent)
  BY ConcatProperties
<1>2. ASSUME NEW i \in Intent, NEW t \in Task, Create(i, t)
      PROVE  \E new \in Seq(IntentEvent) : Log!AppendEvents(new)
  <2>1. sequence + 1 \in Ids /\ sequence + 1 + 1 \in Ids
    BY <1>1, <1>2, IntentAssumption DEF Create, Ids
  <2>2. /\ RequestEvent(sequence + 1 + 1, sequence + 1, t) \in IntentEvent
        /\ CreatedEvent(i, t, sequence + 1) \in IntentEvent
    BY <2>1, EventTypes
  <2>3. Log!AppendEvents(Added(RequestEvent(sequence + 1 + 1, sequence + 1, t))
                           \o <<CreatedEvent(i, t, sequence + 1)>>)
    BY <1>2 DEF Create
  <2> QED BY <1>1, <1>c, <2>2, <2>3
<1>3. ASSUME NEW i \in Intent, NEW t \in Task, CreateApproved(i, t)
      PROVE  \E new \in Seq(IntentEvent) : Log!AppendEvents(new)
  <2> DEFINE request == RequestEvent(sequence + 1 + 1, sequence + 1, t)
             yes == VerdictEvent(sequence + 1 + 2, sequence + 1, "approved")
             creation == CreatedEvent(i, t, sequence + 1)
  <2>1. sequence + 1 \in Ids /\ sequence + 1 + 1 \in Ids /\ sequence + 1 + 2 \in Ids
    BY <1>1, <1>3, IntentAssumption DEF CreateApproved, Ids
  <2>2. request \in IntentEvent /\ creation \in IntentEvent /\ yes \in IntentEvent
    BY <2>1, EventTypes DEF Verdicts
  <2>3. Log!AppendEvents(Added(request) \o Added(yes) \o <<creation>>)
    BY <1>3 DEF CreateApproved
  <2> HIDE DEF request, yes, creation
  <2> QED BY <1>1, <1>c, <2>2, <2>3
<1>4. ASSUME NEW t \in Task, CreateThrows(t)
      PROVE  \E new \in Seq(IntentEvent) : Log!AppendEvents(new)
  <2>1. sequence + 1 \in Ids /\ sequence + 1 + 1 \in Ids
    BY <1>1, <1>4, IntentAssumption DEF CreateThrows, Ids
  <2>2. RequestEvent(sequence + 1 + 1, sequence + 1, t) \in IntentEvent
    <3>1. \A n, b \in Ids : RequestEvent(n, b, t) \in IntentEvent
      BY DEF RequestEvent, IntentEvent
    <3> QED BY <2>1, <3>1
  <2>3. Log!AppendEvents(Added(RequestEvent(sequence + 1 + 1, sequence + 1, t)))
    BY <1>4 DEF CreateThrows
  <2> QED BY <1>1, <2>2, <2>3
<1>5. ASSUME NEW a \in Ids, NEW verdict \in Verdicts, Decide(a, verdict)
      PROVE  \E new \in Seq(IntentEvent) : Log!AppendEvents(new)
  <2>1. VerdictEvent(sequence + 1, a, verdict) \in IntentEvent
    <3>1. sequence + 1 \in Ids
      BY <1>5 DEF Decide
    <3>2. \A n, b \in Ids : VerdictEvent(n, b, verdict) \in IntentEvent
      BY DEF VerdictEvent, IntentEvent
    <3> QED BY <3>1, <3>2
  <2>2. Log!AppendEvents(Added(VerdictEvent(sequence + 1, a, verdict)))
    BY <1>5 DEF Decide
  <2> QED BY <1>1, <2>1, <2>2
<1>6. ASSUME NEW i \in Intent, NEW kind \in Settlement, Log!AppendEvents(Added(Settled(i, kind)))
      PROVE  \E new \in Seq(IntentEvent) : Log!AppendEvents(new)
  BY <1>1, <1>6, SettledType
<1>7. ASSUME NEW i \in Intent, Approve(i) \/ ConsumeLate(i) \/ Expire(i)
      PROVE  UNCHANGED logVars
  BY <1>7 DEF Approve, ConsumeLate, Expire
<1>8. ASSUME NEW i \in Intent, Consume(i) \/ Complete(i) \/ Fail(i) \/ Cancel(i)
      PROVE  \E new \in Seq(IntentEvent) : Log!AppendEvents(new)
  <2>1. \E kind \in Settlement : Log!AppendEvents(Added(Settled(i, kind)))
    BY <1>8 DEF Consume, Complete, Fail, Cancel, Settle, Settlement
  <2> QED BY <2>1, <1>6
<1> QED BY <1>2, <1>3, <1>4, <1>5, <1>7, <1>8 DEF Operation, OtherOperation, Creation

LEMMA OperationKeepsLog ==
    ASSUME IndInv, Operation
    PROVE  /\ Recorded(events) \subseteq Recorded(events)'
           /\ events = Lines => LogKept
<1>1. CASE UNCHANGED logVars
  BY <1>1 DEF LogKept, logVars, Lines
<1>2. ASSUME NEW new \in Seq(IntentEvent), Log!AppendEvents(new)
      PROVE  /\ Recorded(events) \subseteq Recorded(events)'
             /\ events = Lines => LogKept
  <2>1. events' = events \o new /\ Lines' = Lines \o new
    BY <1>2, AppendedLines, TypeParts DEF IndInv
  <2>2. Recorded(events)' = Recorded(events) \cup Recorded(new)
    BY <1>2, AppendRecords
  <2> QED BY <2>1, <2>2 DEF LogKept
<1> QED BY <1>1, <1>2, OperationAppends

\* A write or a restart that loses nothing.
LEMMA LogIsKept ==
    ASSUME IndInv, WriteLog \/ Restart, losses' = 0
    PROVE  losses = 0 /\ (events = Lines => LogKept /\ events' = events)
<1>1. /\ losses \in Nat /\ disk \in Seq(IntentEvent) /\ unwritten \in Seq(IntentEvent)
  BY IntentAssumption DEF IndInv, TypeOK, Log!LogTypeOK
<1>2. ASSUME NEW keep \in 0..Len(disk), NEW lo \in 1..2,
             NEW hi \in (lo - 1)..Len(unwritten), Lose(keep, lo, hi)
      PROVE  /\ losses = 0
             /\ SubSeq(disk, 1, keep) = disk
             /\ SubSeq(unwritten, lo, hi) = unwritten
  <2>1. losses = 0 /\ keep = Len(disk) /\ lo = 1 /\ hi = Len(unwritten)
    BY <1>1, <1>2 DEF Lose
  <2> QED BY <2>1, <1>1, SubSeqFull
<1>3. CASE WriteLog
  <2>1. PICK keep \in 0..Len(disk), lo \in 1..2 :
        \E hi \in (lo - 1)..Len(unwritten) :
          Log!Write(Len(unwritten), keep, lo, hi) /\ Lose(keep, lo, hi)
    BY <1>3 DEF WriteLog
  <2>2. PICK hi \in (lo - 1)..Len(unwritten) :
          Log!Write(Len(unwritten), keep, lo, hi) /\ Lose(keep, lo, hi)
    BY <2>1
  <2>3. losses = 0 /\ SubSeq(disk, 1, keep) = disk /\ SubSeq(unwritten, lo, hi) = unwritten
    BY <1>2, <2>2
  <2>4. /\ disk' = Lines /\ events' = events
        /\ unwritten' = SubSeq(unwritten, Len(unwritten) + 1, Len(unwritten))
    BY <2>2, <2>3 DEF Log!Write, Lines
  <2>5. unwritten' = <<>>
    BY <1>1, <2>4
  <2>6. Lines' = Lines
    <3>1. disk \o unwritten \in Seq(IntentEvent)
      BY <1>1, ConcatProperties
    <3>2. (disk \o unwritten) \o <<>> = disk \o unwritten
      BY <3>1, ConcatEmptySeq
    <3> QED BY <3>2, <2>4, <2>5 DEF Lines
  <2> QED BY <2>3, <2>4, <2>6 DEF LogKept
<1>4. CASE Restart
  <2>1. PICK keep \in 0..Len(disk), lo \in 1..2 :
        \E hi \in (lo - 1)..Len(unwritten) :
          Log!Restart(keep, lo, hi) /\ Lose(keep, lo, hi)
    BY <1>4 DEF Restart
  <2>2. PICK hi \in (lo - 1)..Len(unwritten) : Log!Restart(keep, lo, hi) /\ Lose(keep, lo, hi)
    BY <2>1
  <2>3. losses = 0 /\ SubSeq(disk, 1, keep) = disk /\ SubSeq(unwritten, lo, hi) = unwritten
    BY <1>2, <2>2
  <2>4. disk' = Lines /\ events' = disk' /\ unwritten' = <<>>
    BY <2>2, <2>3 DEF Log!Restart, Lines
  <2>6. Lines' = Lines
    <3>1. disk \o unwritten \in Seq(IntentEvent)
      BY <1>1, ConcatProperties
    <3>2. (disk \o unwritten) \o <<>> = disk \o unwritten
      BY <3>1, ConcatEmptySeq
    <3> QED BY <3>2, <2>4 DEF Lines
  <2> QED BY <2>3, <2>4, <2>6 DEF LogKept
<1> QED BY <1>3, <1>4

\* A log has the one event that settles intent i like this.
LEMMA SettledIsRecorded ==
    ASSUME NEW log \in Seq(IntentEvent), NEW i \in Intent, NEW kind \in Settlement,
           Tells(log, i, {kind})
    PROVE  In(Settled(i, kind), log)
<1>1. PICK k \in DOMAIN log : log[k].intent = i /\ log[k].kind = kind
  BY DEF Tells
<1>2. log[k] \in IntentEvent
  OBVIOUS
<1>3. log[k] = Settled(i, kind)
  BY <1>1, <1>2, OwnEvent
<1> QED BY <1>1, <1>3 DEF In

\* The task of an intent is in the log.
LEMMA TaskKept ==
    ASSUME CreatedAsLogged, CreatedAsLogged', Recorded(events) \subseteq Recorded(events)',
           NEW j \in Intent, intents[j].status # "none"
    PROVE  intents'[j].status # "none" /\ intents'[j].task = intents[j].task
<1>1. PICK e \in Recorded(events) : Creates(e, j)
  BY DEF CreatedAsLogged
<1>2. e.task = intents[j].task
  BY <1>1 DEF CreatedAsLogged
<1>3. e \in Recorded(events)' /\ Creates(e, j)'
  BY <1>1 DEF Creates
<1>4. intents'[j].status # "none" /\ e.task = intents'[j].task
  BY <1>3 DEF CreatedAsLogged, Creates
<1> QED BY <1>2, <1>4

Moves ==
    \/ OtherOperation /\ UNCHANGED losses
    \/ WriteLog \/ Restart
    \/ UNCHANGED vars

LEMMA MovesKeep ==
    ASSUME IndInv, GrantInv, Moves, losses = 0 => events = Lines
    PROVE  IndInv' /\ GrantInv' /\ Unforgotten /\ \A j \in Intent : Kept(j)
<1>1. IndInv' /\ GrantInv'
  BY OperationStep, WriteLogStep, RestartStep, StutterStep, OtherGrants, LogGrants,
     StutterGrants DEF Moves, Operation
<1>t. ASSUME LogKept, NEW j \in Intent, intents[j].status # "none"
      PROVE  intents'[j].status # "none" /\ intents'[j].task = intents[j].task
  BY <1>1, <1>t, TaskKept DEF GrantInv, LogKept
<1>2. CASE OtherOperation /\ UNCHANGED losses
  <2>1. losses' = losses /\ (events = Lines => LogKept)
    BY <1>2, OperationKeepsLog DEF Operation
  <2>2. reused => reused'
    <3>1. ASSUME NEW a \in Ids, NEW verdict \in Verdicts, Decide(a, verdict)
          PROVE  reused => reused'
      <4>1. reused' = (reused \/ Known(VerdictEvent(sequence + 1, a, verdict)))
        BY <3>1 DEF Decide
      <4> QED BY <4>1, Zenon
    <3>2. ASSUME NEW t \in Task, CreateThrows(t) PROVE reused => reused'
      <4>1. reused' = (reused \/ InUse(sequence + 1, t))
        BY <3>2 DEF CreateThrows
      <4> QED BY <4>1, Zenon
    <3>3. ASSUME NEW i \in Intent,
                 \/ Approve(i) \/ Consume(i) \/ ConsumeLate(i)
                 \/ Complete(i) \/ Fail(i) \/ Cancel(i) \/ Expire(i)
          PROVE  reused' = reused
      BY <3>3 DEF Approve, Consume, ConsumeLate, Complete, Fail, Cancel, Expire, Settle, Rest
    <3> QED BY <1>2, <3>1, <3>2, <3>3, Zenon DEF OtherOperation
  <2>3. /\ granted \subseteq granted'
        /\ spent' = spent \/ \E i \in Intent : spent' = [spent EXCEPT ![i] = "consumed"]
    BY <1>2 DEF OtherOperation, Decide, CreateThrows, Approve, Consume, ConsumeLate,
                Complete, Fail, Cancel, Expire, Settle, Rest
  <2>4. \A j \in Intent : spent[j] = "consumed" => spent'[j] = "consumed"
    BY <2>3 DEF IndInv, TypeOK
  <2> QED BY <1>1, <1>t, <2>1, <2>2, <2>3, <2>4 DEF Kept, Unforgotten
<1>3. CASE WriteLog \/ Restart
  <2>1. losses' = 0 => losses = 0 /\ LogKept /\ events' = events
    BY <1>3, LogIsKept
  <2>2. reused' = reused /\ granted' = granted
    BY <1>3 DEF WriteLog, Restart
  <2>3. ASSUME losses' = 0, NEW j \in Intent, spent[j] = "consumed"
        PROVE  spent'[j] = "consumed"
    <3>1. In(Settled(j, "consumed"), events)
      <4>1. Tells(events, j, {"consumed"}) /\ events \in Seq(IntentEvent)
        BY <2>3, TypeParts DEF IndInv, Agrees, Log!LogTypeOK
      <4> QED BY <4>1, SettledIsRecorded DEF Settlement
    <3>2. CASE WriteLog
      BY <2>3, <3>2 DEF WriteLog
    <3>3. CASE Restart
      <4>1. disk' = events'
        BY <3>3 DEF Restart, Log!Restart
      <4>2. In(Settled(j, "consumed"), disk')
        BY <2>1, <2>3, <3>1, <4>1
      <4> QED BY <2>3, <3>3, <4>2 DEF Restart
    <3> QED BY <1>3, <3>2, <3>3
  <2> QED BY <1>1, <1>t, <2>1, <2>2, <2>3 DEF Kept, Unforgotten
<1>4. CASE UNCHANGED vars
  <2>1. /\ UNCHANGED <<granted, losses, spent, events>> /\ reused' = reused
        /\ Lines' = Lines
    BY <1>4 DEF vars, Lines
  <2> QED BY <1>1, <1>t, <2>1 DEF Kept, LogKept, Unforgotten
<1> QED BY <1>2, <1>3, <1>4 DEF Moves

\* A creation changes only the new intent.
LEMMA CreationKeeps ==
    ASSUME IndInv, GrantInv, NEW i \in Intent, NEW t \in Task, Creation(i, t),
           UNCHANGED losses, losses = 0 => events = Lines
    PROVE  /\ IndInv' /\ GrantInv' /\ Unforgotten /\ \A j \in Intent : j # i => Kept(j)
           /\ intents[i].status = "none"
           /\ intents'[i].status # "none" /\ intents'[i].task = t
<1>1. IndInv' /\ GrantInv'
  BY CreationGrants, OperationStep DEF Operation
<1>2. events = Lines => LogKept
  BY OperationKeepsLog DEF Operation
<1>3. reused => reused'
  <2>1. CASE Create(i, t)
    <3>1. reused' = (reused \/ InUse(sequence + 1, t))
      BY <2>1 DEF Create
    <3> QED BY <3>1, Zenon
  <2>2. CASE CreateApproved(i, t)
    <3>1. reused' = (reused \/ InUse(sequence + 1, t)
                            \/ Known(VerdictEvent(sequence + 1 + 2, sequence + 1, "approved")))
      BY <2>2 DEF CreateApproved
    <3> QED BY <3>1, Zenon
  <2> QED BY <2>1, <2>2 DEF Creation
<1>4. /\ spent' = [spent EXCEPT ![i] = "none"]
      /\ granted' = granted \ {i} \/ granted' = granted \cup {i}
  BY DEF Creation, Create, CreateApproved
<1>5. \A j \in Intent : j # i => spent'[j] = spent[j]
  BY <1>4 DEF IndInv, TypeOK
<1>6. ASSUME LogKept, NEW j \in Intent, intents[j].status # "none"
      PROVE  intents'[j].status # "none" /\ intents'[j].task = intents[j].task
  BY <1>1, <1>6, TaskKept DEF GrantInv, LogKept
<1>7. /\ intents[i].status = "none"
      /\ intents'[i].status # "none" /\ intents'[i].task = t
  <2>1. intents[i].status = "none"
    BY DEF Creation, Create, CreateApproved, Fresh
  <2>d. DOMAIN intents = Intent
    BY DEF IndInv, TypeOK
  <2>2. CASE Create(i, t)
    <3>1. intents' = [intents EXCEPT ![i] =
                        [task |-> t, approval |-> sequence + 1, status |-> "pending"]]
      BY <2>2 DEF Create
    <3> QED BY <2>1, <2>d, <3>1
  <2>3. CASE CreateApproved(i, t)
    <3>1. intents' = [Follow(sequence + 1, "approved") EXCEPT ![i] =
                        [task |-> t, approval |-> sequence + 1, status |-> "approved"]]
      BY <2>3 DEF CreateApproved
    <3>2. DOMAIN Follow(sequence + 1, "approved") = Intent
      BY DEF Follow
    <3> HIDE DEF Follow
    <3> QED BY <2>1, <3>1, <3>2
  <2> QED BY <2>1, <2>2, <2>3 DEF Creation
<1> QED BY <1>1, <1>2, <1>3, <1>4, <1>5, <1>6, <1>7 DEF Kept, Unforgotten

-----------------------------------------------------------------------------
(***************************************************************************)
(* The invariant of the executor.  A run of a calendar task that may have  *)
(* its effect holds an intent that is consumed, that the user has said yes *)
(* to, and that no other run holds; contracts and runs name intents of     *)
(* their task; and what a run has reported is in the log.  Unless lines    *)
(* are lost, or an id was drawn twice.                                     *)
(***************************************************************************)
Holds(r) == runs[r].task \in Calendar /\ (runs[r].at \in Active \/ runs[r].effect)

Backed(r) ==
    /\ runs[r].intent \in Intent
    /\ losses = 0 => spent[runs[r].intent] = "consumed"
    /\ reused \/ runs[r].intent \in granted

Vouched(r) ==
    runs[r].intent # NoOne /\ losses = 0 =>
      /\ runs[r].result = "accepted" => In(Settled(runs[r].intent, "completed"), events)
      /\ runs[r].result = "rejected" => In(Settled(runs[r].intent, "failed"), events)

RunOK(r) == (Holds(r) => Backed(r)) /\ Vouched(r)

Alone ==
    \A r, s \in Run : Holds(r) /\ Holds(s) /\ runs[r].intent = runs[s].intent => r = s

Names(i, t) == i # NoOne => intents[i].status # "none" /\ intents[i].task = t
Named ==
    /\ \A t \in Task : Names(contract[t], t)
    /\ \A r \in Run : Names(runs[r].intent, runs[r].task)

RunInv ==
    /\ RunTypeOK
    /\ \A r \in Run : RunOK(r)
    /\ losses = 0 => events = Lines /\ Alone /\ Named

LEMMA InRecorded ==
    ASSUME LogKept, NEW e, In(e, events)
    PROVE  In(e, events)'
<1>1. e \in Recorded(events)
  BY DEF In, Recorded
<1>2. e \in Recorded(events')
  BY <1>1 DEF LogKept, Recorded
<1> QED BY <1>2 DEF In, Recorded

\* A run stays with an intent that is kept.
LEMMA BackedStays ==
    ASSUME NEW s \in Run, Backed(s), runs'[s].intent = runs[s].intent, Unforgotten,
           Kept(runs[s].intent)
    PROVE  Backed(s)'
<1>1. reused' \/ runs[s].intent \in granted'
  BY Zenon DEF Backed, Kept
<1>2. losses' = 0 => spent'[runs[s].intent] = "consumed"
  BY DEF Backed, Kept, Unforgotten
<1>3. runs[s].intent \in Intent
  BY DEF Backed
<1> QED BY <1>1, <1>2, <1>3, Zenon DEF Backed

\* A run that stays with its intent, which is kept, stays right.
LEMMA RunStays ==
    ASSUME NEW s \in Run, RunOK(s), runs'[s].intent = runs[s].intent,
           Holds(s)' => Holds(s),
           runs[s].intent \in Intent => Kept(runs[s].intent), Unforgotten,
           \/ runs'[s].result = runs[s].result
           \/ runs'[s].result \notin {"accepted", "rejected"}
    PROVE  RunOK(s)'
<1>1. Holds(s)' => Backed(s)'
  BY BackedStays DEF RunOK, Backed
<1>2. Vouched(s)'
  <2>1. ASSUME runs'[s].intent # NoOne, losses' = 0, NEW kind,
               In(Settled(runs[s].intent, kind), events)
        PROVE  In(Settled(runs'[s].intent, kind), events')
    <3>1. In(Settled(runs[s].intent, kind), events)'
      BY <2>1, InRecorded DEF Settled, Unforgotten
    <3> QED BY <3>1
  <2> QED BY <2>1 DEF RunOK, Vouched, Unforgotten
<1> QED BY <1>1, <1>2 DEF RunOK

\* Contracts and runs keep naming their intents.
LEMMA NamedStays ==
    ASSUME RunInv, RunTypeOK', Unforgotten, \A j \in Intent : Kept(j), UNCHANGED contract,
           \A s \in Run :
             \/ runs'[s].intent = runs[s].intent /\ runs'[s].task = runs[s].task
             \/ runs'[s].task \in Task /\ runs'[s].intent = contract[runs'[s].task]
    PROVE  losses' = 0 => Named'
<1> SUFFICES ASSUME losses' = 0 PROVE Named'
  OBVIOUS
<1>1. Named
  BY DEF RunInv, Unforgotten
<1>2. ASSUME NEW i \in Intent \cup {NoOne}, NEW t, Names(i, t)
      PROVE  i # NoOne => intents'[i].status # "none" /\ intents'[i].task = t
  BY <1>2 DEF Names, Kept
<1>3. ASSUME NEW t \in Task PROVE Names(contract[t], t)'
  <2>1. Names(contract[t], t) /\ contract[t] \in Intent \cup {NoOne}
    BY <1>1 DEF Named, RunInv, RunTypeOK
  <2> QED BY <1>2, <2>1 DEF Names
<1>4. ASSUME NEW s \in Run PROVE Names(runs[s].intent, runs[s].task)'
  <2>1. CASE runs'[s].intent = runs[s].intent /\ runs'[s].task = runs[s].task
    <3>1. Names(runs[s].intent, runs[s].task) /\ runs[s].intent \in Intent \cup {NoOne}
      BY <1>1 DEF Named, RunInv, RunTypeOK, RunRecord
    <3> QED BY <1>2, <2>1, <3>1 DEF Names
  <2>2. CASE runs'[s].task \in Task /\ runs'[s].intent = contract[runs'[s].task]
    BY <1>3, <2>2 DEF Names
  <2> QED BY <2>1, <2>2
<1> QED BY <1>3, <1>4 DEF Named

\* A step in which all runs stay with their intents.
LEMMA AllStay ==
    ASSUME RunInv, RunTypeOK', Unforgotten, losses' = 0 => Named',
           \A s \in Run : /\ runs'[s].intent = runs[s].intent
                          /\ runs'[s].result = runs[s].result
                          /\ Holds(s)' => Holds(s)
                          /\ runs[s].intent \in Intent => Kept(runs[s].intent)
    PROVE  RunInv'
<1>1. \A s \in Run : RunOK(s)'
  BY RunStays DEF RunInv
<1>2. losses' = 0 => events' = Lines' /\ Alone' /\ Named'
  BY DEF RunInv, Alone, Unforgotten, LogKept
<1> QED BY <1>1, <1>2 DEF RunInv

\* A step in which only one run moves.
LEMMA OneMoves ==
    ASSUME IndInv, GrantInv, RunInv, Moves, NEW r \in Run, RunTypeOK',
           \A s \in Run : s # r => runs'[s] = runs[s],
           RunOK(r)', UNCHANGED contract,
           \/ runs'[r].intent = runs[r].intent /\ runs'[r].task = runs[r].task
           \/ runs'[r].task \in Task /\ runs'[r].intent = contract[runs'[r].task],
           \A s \in Run : losses' = 0 /\ s # r /\ Holds(r)' /\ Holds(s)
                            => runs[s].intent # runs'[r].intent
    PROVE  RunInv'
<1>1. Unforgotten /\ \A j \in Intent : Kept(j)
  BY MovesKeep DEF RunInv
<1>2. ASSUME NEW s \in Run, s # r PROVE Holds(s)' <=> Holds(s)
  BY <1>2 DEF Holds
<1>3. ASSUME NEW s \in Run, s # r PROVE RunOK(s)'
  <2>1. runs'[s] = runs[s] /\ RunOK(s)
    BY <1>3 DEF RunInv
  <2> QED BY <1>1, <1>2, <1>3, <2>1, RunStays
<1>4. ASSUME losses' = 0, NEW p \in Run, NEW q \in Run, Holds(p)', Holds(q)',
             runs'[p].intent = runs'[q].intent
      PROVE  p = q
  <2>1. Alone
    BY <1>1, <1>4 DEF RunInv, Unforgotten
  <2> QED BY <1>2, <1>4, <2>1 DEF Alone
<1>n. losses' = 0 => Named'
  BY <1>1, NamedStays
<1>5. losses' = 0 => events' = Lines' /\ Alone' /\ Named'
  BY <1>1, <1>4, <1>n DEF Alone, Unforgotten, LogKept
<1> QED BY <1>3, <1>5 DEF RunInv

\* A calendar run that begins consumes an intent nobody holds.
LEMMA BeginStep ==
    ASSUME IndInv, GrantInv, RunInv, NEW r \in Run, NEW t \in Task, Begin(r, t),
           UNCHANGED losses
    PROVE  Moves /\ RunInv'
<1> DEFINE i == contract[t]
           opened == Says(Says(Says(Says(NewRun(t, i), "bid"), "award"), "authorize"), "progress")
<1>1. RunTypeOK /\ i \in Intent \cup {NoOne}
  BY DEF RunInv, RunTypeOK
<1>2. /\ opened \in RunRecord /\ opened.task = t /\ opened.intent = i
      /\ ~opened.effect /\ opened.result = "none"
  <2> DEFINE q0 == NewRun(t, i)
             q1 == Says(q0, "bid")
             q2 == Says(q1, "award")
             q3 == Says(q2, "authorize")
             q4 == Says(q3, "progress")
  <2>0. /\ q0 \in RunRecord /\ q0.task = t /\ q0.intent = i
        /\ ~q0.effect /\ q0.result = "none"
    <3>1. t \in Task \cup {NoOne}
      OBVIOUS
    <3> QED BY <1>1, <3>1, NewRunType
  <2> HIDE DEF q0
  <2>1. /\ q1 \in RunRecord /\ q1.task = t /\ q1.intent = i
        /\ ~q1.effect /\ q1.result = "none"
    BY <2>0, SaysType, MessageTypes
  <2> HIDE DEF q1
  <2>2. /\ q2 \in RunRecord /\ q2.task = t /\ q2.intent = i
        /\ ~q2.effect /\ q2.result = "none"
    BY <2>1, SaysType, MessageTypes
  <2> HIDE DEF q2
  <2>3. /\ q3 \in RunRecord /\ q3.task = t /\ q3.intent = i
        /\ ~q3.effect /\ q3.result = "none"
    BY <2>2, SaysType, MessageTypes
  <2> HIDE DEF q3
  <2>4. /\ q4 \in RunRecord /\ q4.task = t /\ q4.intent = i
        /\ ~q4.effect /\ q4.result = "none"
    BY <2>3, SaysType, MessageTypes
  <2> QED BY <2>4 DEF q0, q1, q2, q3
<1>3. /\ Continue(r, opened, "listing") /\ UNCHANGED <<contract, overdue>>
      /\ evidence' = evidence
      /\ IF t \in Calendar THEN i # NoOne /\ Consume(i) ELSE UNCHANGED vars
  BY DEF Begin, intentVars
<1> HIDE DEF opened
<1>4. RunTypeOK' /\ Goes(r, opened) /\ runs'[r].at = "listing" /\ runs'[r].result = "none"
  BY <1>1, <1>2, <1>3, GoesOn DEF Active
<1>5. /\ Vouched(r)' /\ UNCHANGED contract
      /\ runs'[r].task \in Task /\ runs'[r].intent = contract[runs'[r].task]
  BY <1>2, <1>3, <1>4 DEF Vouched, Goes
<1>6. CASE t \notin Calendar
  <2>1. Moves
    BY <1>3, <1>6 DEF Moves
  <2>2. ~Holds(r)'
    BY <1>2, <1>4, <1>6 DEF Holds, Goes
  <2> QED BY <1>4, <1>5, <2>1, <2>2, OneMoves DEF Goes, RunOK
<1>7. CASE t \in Calendar
  <2>1. i \in Intent /\ Consume(i)
    BY <1>1, <1>3, <1>7
  <2>2. Moves
    BY <2>1 DEF Moves, OtherOperation
  <2>3. runs'[r].intent = i
    BY <1>2, <1>4 DEF Goes
  <2>4. spent[i] # "consumed"
    <3>1. ~Tells(events, i, Settlement)
      BY <2>1, OpenIsUnused DEF Consume, Executable, MayApprove
    <3> QED BY <2>1, <3>1 DEF IndInv, Agrees, Tells, Settlement
  <2>5. spent'[i] = "consumed"
    BY <2>1 DEF Consume, IndInv, TypeOK
  <2>6. reused' \/ i \in granted'
    <3>1. reused' = reused /\ granted' = granted
      BY <2>1 DEF Consume, Rest
    <3>2. reused \/ i \in granted
      BY <2>1, ConsumeIsGranted, Zenon
    <3> QED BY <3>1, <3>2, Zenon
  <2>7. Backed(r)'
    BY <2>1, <2>3, <2>5, <2>6, Zenon DEF Backed
  <2>8. ASSUME NEW s \in Run, losses' = 0, Holds(s) PROVE runs[s].intent # i
    BY <2>4, <2>8 DEF RunInv, RunOK, Backed
  <2> QED BY <1>4, <1>5, <2>2, <2>3, <2>7, <2>8, OneMoves DEF Goes, RunOK
<1> QED BY <1>6, <1>7

LEMMA RefusedStep ==
    ASSUME IndInv, GrantInv, RunInv, NEW r \in Run, NEW t \in Task, Refused(r, t),
           UNCHANGED losses
    PROVE  Moves /\ RunInv'
<1> DEFINE i == contract[t]
           q == NewRun(t, i)
<1>1. RunTypeOK /\ i \in Intent \cup {NoOne} /\ t \in Task \cup {NoOne}
  BY DEF RunInv, RunTypeOK
<1>2. q \in RunRecord /\ ~q.effect /\ q.task = t /\ q.intent = i
  BY <1>1, NewRunType
<1>3. /\ End(r, q, "thrown") /\ UNCHANGED <<contract, overdue>> /\ evidence' = evidence
      /\ \/ UNCHANGED vars
         \/ i # NoOne /\ (ConsumeLate(i) \/ Approve(i))
  BY DEF Refused, intentVars
<1> HIDE DEF q
<1>4. /\ RunTypeOK' /\ Goes(r, q) /\ runs'[r].at = "over" /\ runs'[r].result = "thrown"
  <2>1. evidence' \in [Task -> {"none", "accepted", "rejected"}]
    BY <1>1, <1>3 DEF RunTypeOK
  <2> QED BY <1>1, <1>2, <1>3, <2>1, EndsWith DEF Result
<1>5. Moves
  BY <1>1, <1>3 DEF Moves, OtherOperation
<1>6. ~Holds(r)'
  BY <1>2, <1>4 DEF Holds, Goes, Active
<1>7. /\ RunOK(r)' /\ UNCHANGED contract
      /\ runs'[r].task \in Task /\ runs'[r].intent = contract[runs'[r].task]
  BY <1>2, <1>3, <1>4, <1>6 DEF RunOK, Vouched, Goes
<1> QED BY <1>4, <1>5, <1>6, <1>7, OneMoves DEF Goes

\* What completes or fails an intent is in the log.
LEMMA ReportedIsLogged ==
    ASSUME IndInv, IndInv', NEW i \in Intent
    PROVE  /\ Complete(i) => In(Settled(i, "completed"), events)'
           /\ Fail(i) => In(Settled(i, "failed"), events)'
<1>1. ASSUME NEW kind \in Settlement, Settle(i, kind)
      PROVE  In(Settled(i, kind), events')
  <2>1. intents'[i].status = kind
    BY <1>1, TypeParts DEF Settle, IndInv, DataOK, IntentRecord
  <2>2. Ends(events', i, kind)
    BY <2>1 DEF IndInv, Agrees
  <2>3. Tells(events', i, {kind})
    BY <2>2 DEF Ends, Tells
  <2>4. events' \in Seq(IntentEvent)
    BY DEF IndInv, TypeOK, Log!LogTypeOK
  <2> QED BY <2>3, <2>4, SettledIsRecorded
<1>2. ASSUME Complete(i) PROVE In(Settled(i, "completed"), events)'
  BY <1>1, <1>2 DEF Complete, Settlement, Settled
<1>3. ASSUME Fail(i) PROVE In(Settled(i, "failed"), events)'
  BY <1>1, <1>3 DEF Fail, Settlement, Settled
<1> QED BY <1>2, <1>3

\* An answer leaves the run with its intent, and reports what is logged.
LEMMA AnswerKeeps ==
    ASSUME IndInv, GrantInv, RunInv, NEW r \in Run, Answer(r), UNCHANGED losses
    PROVE  Moves /\ RunInv'
<1>1. /\ RunTypeOK' /\ runs[r].at \in Active /\ RunTypeOK
      /\ \A s \in Run : s # r => runs'[s] = runs[s]
      /\ runs'[r].task = runs[r].task /\ runs'[r].intent = runs[r].intent
      /\ Settling /\ UNCHANGED contract
      /\ runs'[r].result = runs[r].result \/ Reported(r, runs'[r].result)
  BY AnswerStep DEF RunInv
<1>2. Moves
  BY <1>1 DEF Settling, Moves, OtherOperation
<1>3. IndInv' /\ GrantInv' /\ Unforgotten /\ \A j \in Intent : Kept(j)
  BY <1>2, MovesKeep DEF RunInv
<1>4. Holds(r)' => Holds(r)
  BY <1>1 DEF Holds
<1>5. RunOK(r)'
  <2>0. RunOK(r) /\ runs[r].intent \in Intent \cup {NoOne}
    BY <1>1 DEF RunInv, RunTypeOK, RunRecord
  <2>1. CASE \/ runs'[r].result = runs[r].result
             \/ runs'[r].result \notin {"accepted", "rejected"}
    BY <1>1, <1>3, <1>4, <2>0, <2>1, RunStays
  <2>2. CASE Reported(r, runs'[r].result) /\ runs'[r].result \in {"accepted", "rejected"}
    <3>1. Holds(r)' => Backed(r)'
      BY <1>1, <1>3, <1>4, <2>0, BackedStays DEF RunOK, Backed
    <3>2. Vouched(r)'
      BY <1>1, <1>3, <2>0, <2>2, ReportedIsLogged DEF Vouched, Reported, Settled
    <3> QED BY <3>1, <3>2 DEF RunOK
  <2> QED BY <1>1, <2>1, <2>2
<1>6. ASSUME NEW s \in Run, losses' = 0, s # r, Holds(r)', Holds(s)
      PROVE  runs[s].intent # runs'[r].intent
  <2>1. Alone
    BY <1>3, <1>6 DEF RunInv, Unforgotten
  <2> QED BY <1>1, <1>4, <1>6, <2>1 DEF Alone
<1> QED BY <1>1, <1>2, <1>5, <1>6, OneMoves

\* A contract names a new intent; no run holds it.
LEMMA ContractStep ==
    ASSUME IndInv, GrantInv, RunInv, NEW i \in Intent, NEW t \in Task, Contract(i, t),
           UNCHANGED losses
    PROVE  IndInv' /\ GrantInv' /\ RunInv'
<1>1. /\ Creation(i, t) /\ runs' = runs /\ UNCHANGED <<overdue, told, evidence>>
      /\ contract' = [contract EXCEPT ![t] = i]
      /\ \A r \in Run : runs[r].intent # i
      /\ RunTypeOK
  BY DEF Contract, RunInv
<1>2. /\ IndInv' /\ GrantInv' /\ Unforgotten /\ \A j \in Intent : j # i => Kept(j)
      /\ intents[i].status = "none"
      /\ intents'[i].status # "none" /\ intents'[i].task = t
  BY <1>1, CreationKeeps DEF RunInv
<1>3. RunTypeOK'
  BY <1>1 DEF RunTypeOK
<1>4. ASSUME losses' = 0 PROVE Named'
  <2>1. Named
    BY <1>2, <1>4 DEF RunInv, Unforgotten
  <2>2. ASSUME NEW j \in Intent \cup {NoOne}, j # i, NEW u, Names(j, u)
        PROVE  j # NoOne => intents'[j].status # "none" /\ intents'[j].task = u
    BY <1>2, <1>4, <2>2 DEF Names, Kept
  <2>3. ASSUME NEW u \in Task PROVE Names(contract[u], u)'
    <3>1. CASE u = t
      BY <1>1, <1>2, <3>1 DEF Names, RunTypeOK
    <3>2. CASE u # t
      <4>1. contract'[u] = contract[u] /\ contract[u] \in Intent \cup {NoOne}
        BY <1>1, <3>2 DEF RunTypeOK
      <4>2. Names(contract[u], u)
        BY <2>1 DEF Named
      <4>3. contract[u] = i => FALSE
        BY <1>2, <4>2, IntentAssumption DEF Names
      <4> QED BY <2>2, <4>1, <4>2, <4>3 DEF Names
    <3> QED BY <3>1, <3>2
  <2>4. ASSUME NEW s \in Run PROVE Names(runs[s].intent, runs[s].task)'
    <3>1. Names(runs[s].intent, runs[s].task) /\ runs[s].intent \in Intent \cup {NoOne}
      BY <1>1, <2>1 DEF Named, RunTypeOK, RunRecord
    <3> QED BY <1>1, <2>2, <3>1 DEF Names
  <2> QED BY <2>3, <2>4 DEF Named
<1>5. \A s \in Run : /\ runs'[s].intent = runs[s].intent
                     /\ runs'[s].result = runs[s].result
                     /\ Holds(s)' => Holds(s)
                     /\ runs[s].intent \in Intent => Kept(runs[s].intent)
  BY <1>1, <1>2 DEF Holds
<1> QED BY <1>2, <1>3, <1>4, <1>5, AllStay

\* A step of others, or of the log.
LEMMA QuietStep ==
    ASSUME IndInv, GrantInv, RunInv, Moves, RunTypeOK', UNCHANGED contract,
           \A s \in Run : /\ runs'[s].intent = runs[s].intent
                          /\ runs'[s].task = runs[s].task
                          /\ runs'[s].result = runs[s].result
                          /\ Holds(s)' => Holds(s)
    PROVE  RunInv'
<1>1. Unforgotten /\ \A j \in Intent : Kept(j)
  BY MovesKeep DEF RunInv
<1>2. losses' = 0 => Named'
  BY <1>1, NamedStays
<1> QED BY <1>1, <1>2, AllStay

\* The runs die with the process, and hold no more than before.
LEMMA StopStep ==
    ASSUME IndInv, GrantInv, RunInv, Stop
    PROVE  Moves /\ RunInv'
<1>1. /\ Restart /\ UNCHANGED <<contract, overdue, told, evidence>> /\ RunTypeOK
      /\ runs' = [r \in Run |->
                    IF runs[r].at \in Active THEN [runs[r] EXCEPT !.at = "dead"] ELSE runs[r]]
  BY DEF Stop, RunInv
<1>2. ASSUME NEW s \in Run
      PROVE  /\ runs'[s] \in RunRecord
             /\ runs'[s].intent = runs[s].intent /\ runs'[s].task = runs[s].task
             /\ runs'[s].result = runs[s].result /\ runs'[s].effect = runs[s].effect
             /\ runs'[s].at \in {"dead", runs[s].at}
  <2>1. runs[s] \in RunRecord
    BY <1>1 DEF RunTypeOK
  <2>2. /\ [runs[s] EXCEPT !.at = "dead"] \in RunRecord
        /\ [runs[s] EXCEPT !.at = "dead"].intent = runs[s].intent
        /\ [runs[s] EXCEPT !.at = "dead"].task = runs[s].task
        /\ [runs[s] EXCEPT !.at = "dead"].result = runs[s].result
        /\ [runs[s] EXCEPT !.at = "dead"].effect = runs[s].effect
        /\ [runs[s] EXCEPT !.at = "dead"].at = "dead"
    BY <2>1 DEF RunRecord
  <2>3. runs'[s] \in {runs[s], [runs[s] EXCEPT !.at = "dead"]}
    BY <1>1
  <2> QED BY <2>1, <2>2, <2>3
<1>3. RunTypeOK'
  <2>1. runs' \in [Run -> RunRecord]
    BY <1>1, <1>2
  <2> QED BY <1>1, <2>1 DEF RunTypeOK
<1>4. Moves
  BY <1>1 DEF Moves
<1>5. \A s \in Run : Holds(s)' => Holds(s)
  BY <1>2 DEF Holds, Active
<1> QED BY <1>1, <1>2, <1>3, <1>4, <1>5, QuietStep

LEMMA ExecutionStep ==
    ASSUME IndInv, GrantInv, RunInv, [ExecutionNext]_allVars
    PROVE  IndInv' /\ GrantInv' /\ RunInv'
<1>1. ASSUME Moves, RunInv' PROVE IndInv' /\ GrantInv' /\ RunInv'
  BY <1>1, MovesKeep DEF RunInv
<1>2. ASSUME Moves, UNCHANGED <<contract, runs, told, evidence>>, overdue' \subseteq Run
      PROVE  IndInv' /\ GrantInv' /\ RunInv'
  <2>1. RunTypeOK' /\ \A s \in Run : Holds(s)' => Holds(s)
    BY <1>2 DEF RunInv, RunTypeOK, Holds
  <2> QED BY <1>1, <1>2, <2>1, QuietStep
<1>3. ASSUME NEW i \in Intent, NEW t \in Task, Contract(i, t), UNCHANGED losses
      PROVE  IndInv' /\ GrantInv' /\ RunInv'
  BY <1>3, ContractStep
<1>o. overdue \subseteq Run
  BY DEF RunInv, RunTypeOK
<1>4. CASE OtherOperation /\ UNCHANGED runVars /\ UNCHANGED losses
  BY <1>2, <1>4, <1>o DEF Moves, runVars
<1>5. ASSUME NEW r \in Run, NEW t \in Task, Begin(r, t) \/ Refused(r, t), UNCHANGED losses
      PROVE  IndInv' /\ GrantInv' /\ RunInv'
  BY <1>1, <1>5, BeginStep, RefusedStep
<1>6. ASSUME NEW r \in Run, Answer(r), UNCHANGED losses
      PROVE  IndInv' /\ GrantInv' /\ RunInv'
  BY <1>1, <1>6, AnswerKeeps
<1>7. ASSUME NEW r \in Run, Overdue(r), UNCHANGED losses
      PROVE  IndInv' /\ GrantInv' /\ RunInv'
  BY <1>2, <1>7, <1>o DEF Overdue, Moves, intentVars
<1>8. CASE WriteLog /\ UNCHANGED runVars
  BY <1>2, <1>8, <1>o DEF Moves, runVars
<1>9. CASE Stop
  BY <1>1, <1>9, StopStep
<1>10. CASE UNCHANGED allVars
  BY <1>2, <1>10, <1>o DEF Moves, allVars, intentVars, runVars
<1> QED BY <1>3, <1>4, <1>5, <1>6, <1>7, <1>8, <1>9, <1>10 DEF ExecutionNext

LEMMA ExecutionInitInv == ExecutionInit => IndInv /\ GrantInv /\ RunInv
<1> SUFFICES ASSUME ExecutionInit PROVE IndInv /\ GrantInv /\ RunInv
  OBVIOUS
<1>1. IndInv /\ GrantInv
  BY InitIndInv, InitGrants DEF ExecutionInit
<1>2. /\ contract = [t \in Task |-> NoOne] /\ runs = [r \in Run |-> NewRun(NoOne, NoOne)]
      /\ overdue = {} /\ told = [t \in Task |-> <<>>] /\ evidence = [t \in Task |-> "none"]
  BY DEF ExecutionInit
<1>3. /\ NewRun(NoOne, NoOne) \in RunRecord /\ NewRun(NoOne, NoOne).intent = NoOne
      /\ ~NewRun(NoOne, NoOne).effect /\ NewRun(NoOne, NoOne).result = "none"
      /\ NewRun(NoOne, NoOne).at = "new"
  BY NewRunType
<1>4. RunTypeOK
  <2>1. <<>> \in Seq(P!Message)
    OBVIOUS
  <2> QED BY <1>2, <1>3, <2>1 DEF RunTypeOK
<1>5. \A r \in Run : /\ runs[r].intent = NoOne /\ ~runs[r].effect /\ runs[r].at = "new"
  BY <1>2, <1>3
<1>6. \A r \in Run : ~Holds(r) /\ RunOK(r)
  BY <1>5 DEF Holds, Active, RunOK, Vouched
<1>7. Alone /\ Named
  BY <1>2, <1>5, <1>6 DEF Alone, Named, Names
<1>8. events = Lines
  <2>1. events = <<>> /\ disk = <<>> /\ unwritten = <<>>
    BY DEF ExecutionInit, Init, Log!LogInit
  <2>2. <<>> \o <<>> = <<>>
    BY ConcatEmptySeq
  <2> QED BY <2>1, <2>2 DEF Lines
<1> QED BY <1>1, <1>4, <1>6, <1>7, <1>8 DEF RunInv

LEMMA ExecutionInductive == ExecutionSpec => [](IndInv /\ GrantInv /\ RunInv)
BY ExecutionInitInv, ExecutionStep, PTL DEF ExecutionSpec

(***************************************************************************)
(* The runs of executeCollaborationTask, their contracts and what they log *)
(* are well typed, and so are the intents below them.                      *)
(***************************************************************************)
THEOREM ExecutionTypeCorrect == ExecutionSpec => []ExecutionTypeOK
<1>1. IndInv /\ RunInv => ExecutionTypeOK
  BY DEF IndInv, RunInv, RunTypeOK, RunRecord, ExecutionTypeOK
<1> QED BY <1>1, ExecutionInductive, PTL

(***************************************************************************)
(* However many calls of executeCollaborationTask overlap, and wherever    *)
(* the process stops, no two of them invoke the provider of a calendar     *)
(* task on the strength of one intent, unless lines of the log were lost.  *)
(***************************************************************************)
THEOREM OneEffectAlways == ExecutionSpec => []OneEffect
<1>1. ASSUME RunInv, IndInv PROVE OneEffect
  <2> SUFFICES ASSUME NEW r \in Run, NEW s \in Run, r # s, runs[r].intent = runs[s].intent,
                      runs[r].effect, runs[s].effect, runs[r].task \in Calendar,
                      ~(losses > 0)
               PROVE  FALSE
    BY DEF OneEffect
  <2>1. losses = 0
    BY <1>1, IntentAssumption DEF IndInv, TypeOK
  <2>2. Holds(r) /\ Alone /\ Named
    BY <1>1, <2>1 DEF Holds, RunInv
  <2>3. runs[r].intent \in Intent
    BY <1>1, <2>2 DEF RunInv, RunOK, Backed
  <2>4. runs[r].task = runs[s].task
    BY <2>2, <2>3, IntentAssumption DEF Named, Names
  <2>5. Holds(s)
    BY <2>4 DEF Holds
  <2> QED BY <2>2, <2>5 DEF Alone
<1> QED BY <1>1, ExecutionInductive, PTL

(***************************************************************************)
(* What executeCollaborationTask has a provider do for a calendar task,    *)
(* the user has said yes to, as long as no id was drawn a second time.     *)
(***************************************************************************)
THEOREM EffectWasGrantedAlways == ExecutionSpec => []EffectWasGranted
<1>1. ASSUME RunInv, NEW r \in Run, runs[r].effect, runs[r].task \in Calendar, ~reused
      PROVE  runs[r].intent \in granted
  <2>1. Backed(r)
    BY <1>1 DEF RunInv, RunOK, Holds
  <2> QED BY <1>1, <2>1, Zenon DEF Backed
<1>2. RunInv => EffectWasGranted
  BY <1>1, Zenon DEF EffectWasGranted
<1> QED BY <1>2, ExecutionInductive, PTL

(***************************************************************************)
(* The result executeCollaborationTask returns is the one the log has for  *)
(* the intent of its task, unless lines of the log were lost.              *)
(***************************************************************************)
THEOREM ResultIsLoggedAlways == ExecutionSpec => []ResultIsLogged
<1>1. ASSUME RunInv PROVE ResultIsLogged
  <2> DEFINE outcome == [accepted |-> "completed", rejected |-> "failed"]
  <2>1. /\ DOMAIN outcome = {"accepted", "rejected"}
        /\ outcome["accepted"] = "completed" /\ outcome["rejected"] = "failed"
    OBVIOUS
  <2> HIDE DEF outcome
  <2>2. ASSUME NEW r \in Run, runs[r].result \in DOMAIN outcome, runs[r].intent # NoOne,
               losses = 0
        PROVE  In(Settled(runs[r].intent, outcome[runs[r].result]), events)
    BY <1>1, <2>1, <2>2 DEF RunInv, RunOK, Vouched
  <2> QED BY <2>2 DEF ResultIsLogged, outcome
<1> QED BY <1>1, ExecutionInductive, PTL

-----------------------------------------------------------------------------
(***************************************************************************)
(* The safety half of IntentIsSettled.  A run that has ended in time has   *)
(* left an outcome in the log: either it completed or failed the intent    *)
(* itself, or it found it settled, for only an expired intent that was     *)
(* consumed can be cancelled or stay without an outcome.                   *)
(***************************************************************************)
Stands(i) ==
    i \notin late =>
      /\ intents[i].status # "expired"
      /\ intents[i].status = "cancelled" => ~Tells(events, i, Used)

\* The task of a run under way knows its provider.
Led(r) == runs[r].at \in Active => runs[r].state.providerId = "provider"

\* A run of a calendar task is over, has begun its task, and was in time.
Reports(r) ==
    /\ runs[r].at = "over" /\ runs[r].said # <<>> /\ runs[r].task \in Calendar
    /\ runs[r].intent \notin late /\ r \notin overdue

Ended(r) ==
    Reports(r) => runs[r].intent \in Intent /\ Tells(events, runs[r].intent, Outcome)

EndInv ==
    /\ \A r \in Run : Led(r)
    /\ losses = 0 => (\A i \in Intent : Stands(i)) /\ (\A r \in Run : Ended(r))

\* The log tells of a use, and of no cancellation in time: the intent is in
\* use or has its outcome.
LEMMA UsedStands ==
    ASSUME IndInv, NEW i \in Intent, Stands(i), i \notin late, Tells(events, i, Used),
           intents[i].status # "none"
    PROVE  /\ intents[i].status = "consumed" \/ Tells(events, i, Outcome)
           /\ Tells(events, i, Outcome) => intents[i].status \in Outcome
<1>1. intents[i].status \in Status
  BY TypeParts DEF IndInv, DataOK, IntentRecord
<1>2. intents[i].status \notin Open
  BY DEF IndInv, Agrees, Tells, Used, Settlement
<1>3. intents[i].status \notin {"expired", "cancelled"}
  BY DEF Stands
<1>4. intents[i].status \in Used
  BY <1>1, <1>2, <1>3 DEF Status, Open, Settlement, Used
<1>5. intents[i].status \in Outcome => Tells(events, i, Outcome)
  BY DEF IndInv, Agrees, Ends, Tells, Outcome, Settlement
<1>6. intents[i].status = "consumed" => ~Tells(events, i, Outcome)
  BY InUseIsOpen
<1> QED BY <1>4, <1>5, <1>6 DEF Used, Outcome

\* An operation after which the log tells of a use leaves the intent so.
LEMMA NewUse ==
    ASSUME IndInv, Operation, NEW j \in Intent, Tells(events, j, Used)'
    PROVE  Tells(events, j, Used) \/ intents'[j].status \in Used
<1>s. sequence \in 0..MaxSequence /\ DataOK /\ Log!LogTypeOK /\ j # NoOne
  BY TypeParts, IntentAssumption DEF IndInv, DataOK
<1>q. ASSUME UNCHANGED logVars PROVE Tells(events, j, Used)
  BY <1>q DEF logVars
<1>a. ASSUME NEW new \in Seq(IntentEvent), Log!AppendEvents(new)
      PROVE  Tells(events, j, Used) \/ Tells(new, j, Used)
  <2>1. events \in Seq(IntentEvent) /\ events' = events \o new
    BY <1>s, <1>a, AppendedLines
  <2>2. Tells(events \o new, j, Used)
    BY <2>1
  <2> QED BY <2>1, <2>2, TellsConcat
<1>e. ASSUME NEW e \in IntentEvent, e.kind \notin Used \/ e.intent # j
      PROVE  /\ Added(e) \in Seq(IntentEvent) /\ ~Tells(Added(e), j, Used)
             /\ <<e>> \in Seq(IntentEvent) /\ ~Tells(<<e>>, j, Used)
  <2>1. DOMAIN <<e>> = {1} /\ <<e>>[1] = e /\ <<e>> \in Seq(IntentEvent)
    OBVIOUS
  <2> QED BY <1>e, <2>1, AddedIsEvent DEF Tells
<1>c. ASSUME NEW s \in Seq(IntentEvent), NEW u \in Seq(IntentEvent),
             ~Tells(s, j, Used), ~Tells(u, j, Used)
      PROVE  s \o u \in Seq(IntentEvent) /\ ~Tells(s \o u, j, Used)
  BY <1>c, TellsConcat, ConcatProperties
<1>k. ASSUME NEW n, NEW a, NEW t, NEW i, NEW verdict \in Verdicts
      PROVE  /\ RequestEvent(n, a, t).intent # j
             /\ VerdictEvent(n, a, verdict).intent # j
             /\ CreatedEvent(i, t, a).kind \notin Used
  BY <1>s DEF RequestEvent, VerdictEvent, CreatedEvent, Used
<1>2. ASSUME NEW i \in Intent, NEW t \in Task, Create(i, t) PROVE Tells(events, j, Used)
  <2> DEFINE request == RequestEvent(sequence + 1 + 1, sequence + 1, t)
             creation == CreatedEvent(i, t, sequence + 1)
  <2>1. sequence + 1 \in Ids /\ sequence + 1 + 1 \in Ids
    BY <1>s, <1>2, IntentAssumption DEF Create, Ids
  <2>2. /\ request \in IntentEvent /\ creation \in IntentEvent
        /\ request.intent # j /\ creation.kind \notin Used
    BY <1>k, <2>1, EventTypes DEF Verdicts
  <2>3. Log!AppendEvents(Added(request) \o <<creation>>)
    BY <1>2 DEF Create
  <2> HIDE DEF request, creation
  <2>4. /\ Added(request) \o <<creation>> \in Seq(IntentEvent)
        /\ ~Tells(Added(request) \o <<creation>>, j, Used)
    BY <1>c, <1>e, <2>2
  <2> QED BY <1>a, <2>3, <2>4
<1>3. ASSUME NEW i \in Intent, NEW t \in Task, CreateApproved(i, t)
      PROVE  Tells(events, j, Used)
  <2> DEFINE request == RequestEvent(sequence + 1 + 1, sequence + 1, t)
             yes == VerdictEvent(sequence + 1 + 2, sequence + 1, "approved")
             creation == CreatedEvent(i, t, sequence + 1)
             both == Added(request) \o Added(yes)
  <2>1. sequence + 1 \in Ids /\ sequence + 1 + 1 \in Ids /\ sequence + 1 + 2 \in Ids
    BY <1>s, <1>3, IntentAssumption DEF CreateApproved, Ids
  <2>2. /\ request \in IntentEvent /\ creation \in IntentEvent /\ yes \in IntentEvent
        /\ request.intent # j /\ creation.kind \notin Used /\ yes.intent # j
    BY <1>k, <2>1, EventTypes DEF Verdicts
  <2>3. Log!AppendEvents(Added(request) \o Added(yes) \o <<creation>>)
    BY <1>3 DEF CreateApproved
  <2> HIDE DEF request, yes, creation
  <2>4. both \in Seq(IntentEvent) /\ ~Tells(both, j, Used)
    BY <1>c, <1>e, <2>2
  <2> HIDE DEF both
  <2>5. both \o <<creation>> \in Seq(IntentEvent) /\ ~Tells(both \o <<creation>>, j, Used)
    BY <1>c, <1>e, <2>2, <2>4
  <2>6. Log!AppendEvents(both \o <<creation>>)
    BY <2>3 DEF both
  <2> QED BY <1>a, <2>5, <2>6
<1>4. ASSUME NEW t \in Task, CreateThrows(t) PROVE Tells(events, j, Used)
  <2> DEFINE request == RequestEvent(sequence + 1 + 1, sequence + 1, t)
  <2>1. sequence + 1 \in Ids /\ sequence + 1 + 1 \in Ids
    BY <1>s, <1>4, IntentAssumption DEF CreateThrows, Ids
  <2>2. request \in IntentEvent
    <3>1. \A n, b \in Ids : RequestEvent(n, b, t) \in IntentEvent
      BY DEF RequestEvent, IntentEvent
    <3> QED BY <2>1, <3>1
  <2>3. Log!AppendEvents(Added(request)) /\ request.intent # j
    BY <1>k, <1>4 DEF CreateThrows, Verdicts
  <2> HIDE DEF request
  <2> QED BY <1>a, <1>e, <2>2, <2>3
<1>5. ASSUME NEW a \in Ids, NEW verdict \in Verdicts, Decide(a, verdict)
      PROVE  Tells(events, j, Used)
  <2> DEFINE judgement == VerdictEvent(sequence + 1, a, verdict)
  <2>1. judgement \in IntentEvent
    <3>1. sequence + 1 \in Ids
      BY <1>5 DEF Decide
    <3> QED BY <3>1 DEF VerdictEvent, IntentEvent
  <2>2. Log!AppendEvents(Added(judgement)) /\ judgement.intent # j
    BY <1>k, <1>5 DEF Decide
  <2> HIDE DEF judgement
  <2> QED BY <1>a, <1>e, <2>1, <2>2
<1>6. ASSUME NEW i \in Intent, NEW kind \in Settlement,
             intents' = [intents EXCEPT ![i].status = kind],
             Log!AppendEvents(Added(Settled(i, kind)))
      PROVE  Tells(events, j, Used) \/ intents'[j].status \in Used
  <2>1. Settled(i, kind) \in IntentEvent /\ kind \in Status
    BY SettledType DEF Status
  <2>2. /\ Settled(i, kind).kind = kind /\ Settled(i, kind).intent = i
        /\ intents'[i].status = kind
    BY <1>s, <1>6, <2>1, StatusType DEF Settled
  <2>3. Added(Settled(i, kind)) \in Seq(IntentEvent)
    BY <2>1, AddedIsEvent
  <2>4. CASE kind \notin Used \/ i # j
    <3>1. ~Tells(Added(Settled(i, kind)), j, Used)
      BY <1>e, <2>1, <2>2, <2>4
    <3> QED BY <1>a, <1>6, <2>3, <3>1
  <2> QED BY <2>2, <2>4
<1>7. ASSUME NEW i \in Intent, Approve(i) \/ ConsumeLate(i) \/ Expire(i)
      PROVE  Tells(events, j, Used)
  BY <1>q, <1>7 DEF Approve, ConsumeLate, Expire
<1>8. ASSUME NEW i \in Intent, Consume(i) \/ Complete(i) \/ Fail(i) \/ Cancel(i)
      PROVE  Tells(events, j, Used) \/ intents'[j].status \in Used
  <2>1. \E kind \in Settlement : /\ intents' = [intents EXCEPT ![i].status = kind]
                                 /\ Log!AppendEvents(Added(Settled(i, kind)))
    BY <1>8 DEF Consume, Complete, Fail, Cancel, Settle, Settlement
  <2> QED BY <1>6, <2>1
<1> QED BY <1>2, <1>3, <1>4, <1>5, <1>7, <1>8 DEF Operation, OtherOperation, Creation

\* What an operation does to the standing of an intent in time.
LEMMA OperationMoves ==
    ASSUME IndInv, Operation, NEW j \in Intent, j \notin late'
    PROVE  \/ j \notin late /\ intents'[j].status = intents[j].status
           \/ intents'[j].status \in Open \cup Used
           \/ /\ j \notin late /\ intents'[j].status = "cancelled"
              /\ intents[j].status \notin {"none"} \cup Used
<1>1. DataOK
  BY TypeParts DEF IndInv
<1>2. ASSUME NEW i \in Intent, NEW status \in Status,
             intents' = [intents EXCEPT ![i].status = status]
      PROVE  /\ intents'[i].status = status
             /\ j # i => intents'[j].status = intents[j].status
  BY <1>1, <1>2, StatusType
<1>3. ASSUME NEW a, NEW verdict \in Verdicts
      PROVE  \/ Follow(a, verdict)[j].status = intents[j].status
             \/ Follow(a, verdict)[j].status \in Open
  BY <1>1, <1>3, FollowTypes DEF DataOK, Open
<1>4. ASSUME NEW i \in Intent, NEW t \in Task, Create(i, t)
      PROVE  \/ j \notin late /\ intents'[j].status = intents[j].status
             \/ intents'[j].status \in Open
  <2>1. /\ intents' = [intents EXCEPT ![i] = [task |-> t, approval |-> sequence + 1,
                                              status |-> "pending"]]
        /\ late' = late \ {i}
    BY <1>4 DEF Create
  <2> QED BY <1>1, <2>1 DEF DataOK, Open
<1>5. ASSUME NEW i \in Intent, NEW t \in Task, CreateApproved(i, t)
      PROVE  \/ j \notin late /\ intents'[j].status = intents[j].status
             \/ intents'[j].status \in Open
  <2>1. /\ intents' = [Follow(sequence + 1, "approved") EXCEPT ![i] =
                         [task |-> t, approval |-> sequence + 1, status |-> "approved"]]
        /\ late' = late \ {i}
    BY <1>5 DEF CreateApproved
  <2>2. /\ DOMAIN Follow(sequence + 1, "approved") = Intent
        /\ \/ Follow(sequence + 1, "approved")[j].status = intents[j].status
           \/ Follow(sequence + 1, "approved")[j].status \in Open
    BY <1>3 DEF Follow, Verdicts
  <2> HIDE DEF Follow
  <2>3. CASE j = i
    BY <2>1, <2>2, <2>3 DEF Open, Verdicts
  <2>4. CASE j # i
    <3>1. intents'[j] = Follow(sequence + 1, "approved")[j]
      BY <2>1, <2>4
    <3> QED BY <2>1, <2>2, <2>4, <3>1
  <2> QED BY <2>3, <2>4
<1>6. ASSUME NEW a \in Ids, NEW verdict \in Verdicts, Decide(a, verdict)
      PROVE  \/ j \notin late /\ intents'[j].status = intents[j].status
             \/ intents'[j].status \in Open
  BY <1>3, <1>6 DEF Decide
<1>7. ASSUME NEW t \in Task, CreateThrows(t)
      PROVE  j \notin late /\ intents'[j].status = intents[j].status
  BY <1>7 DEF CreateThrows
<1>8. ASSUME NEW i \in Intent, Approve(i) \/ Consume(i) \/ Complete(i) \/ Fail(i)
      PROVE  \/ j \notin late /\ intents'[j].status = intents[j].status
             \/ intents'[j].status \in Open \cup Used
  <2>1. /\ late' = late
        /\ \E status \in {"approved"} \cup Used :
             intents' = [intents EXCEPT ![i].status = status]
    BY <1>8 DEF Approve, Consume, Complete, Fail, Settle, Rest, Used
  <2> QED BY <1>2, <2>1 DEF Open, Verdicts, Used, Status, Settlement
<1>9. ASSUME NEW i \in Intent, ConsumeLate(i)
      PROVE  j \notin late /\ intents'[j].status = intents[j].status
  <2>1. late' = late /\ i \in late /\ intents' = [intents EXCEPT ![i].status = "expired"]
    BY <1>9 DEF ConsumeLate, Rest
  <2> QED BY <1>2, <2>1 DEF Status
<1>10. ASSUME NEW i \in Intent, Expire(i)
       PROVE  j \notin late /\ intents'[j].status = intents[j].status
  BY <1>10 DEF Expire
<1>11. ASSUME NEW i \in Intent, Cancel(i)
       PROVE  /\ j \notin late
              /\ \/ intents'[j].status = intents[j].status
                 \/ /\ intents'[j].status = "cancelled"
                    /\ intents[j].status \notin {"none"} \cup Used
  <2>1. /\ late' = late /\ intents' = [intents EXCEPT ![i].status = "cancelled"]
        /\ intents[i].status \notin {"none"} \cup Used
    BY <1>11 DEF Cancel, Settle, Rest, Used
  <2> QED BY <1>2, <2>1 DEF Status, Settlement
<1> QED BY <1>4, <1>5, <1>6, <1>7, <1>8, <1>9, <1>10, <1>11
        DEF Operation, OtherOperation, Creation

\* No operation lets an intent expire or be cancelled after its use in time.
LEMMA OperationStands ==
    ASSUME IndInv, IndInv', Operation, NEW j \in Intent, Stands(j)
    PROVE  Stands(j)'
<1> SUFFICES ASSUME j \notin late'
             PROVE  /\ intents'[j].status # "expired"
                    /\ intents'[j].status = "cancelled" => ~Tells(events, j, Used)'
  BY DEF Stands
<1>1. "expired" \notin Open \cup Used /\ "cancelled" \notin Open \cup Used
  BY DEF Open, Used, Verdicts
<1>2. CASE j \notin late /\ intents'[j].status = intents[j].status
  <2>1. /\ intents'[j].status # "expired"
        /\ intents'[j].status = "cancelled" => ~Tells(events, j, Used)
    BY <1>2 DEF Stands
  <2> QED BY <1>1, <2>1, NewUse
<1>3. CASE intents'[j].status \in Open \cup Used
  BY <1>1, <1>3
<1>4. CASE /\ j \notin late /\ intents'[j].status = "cancelled"
           /\ intents[j].status \notin {"none"} \cup Used
  <2>1. intents[j].status \in Open \cup {"cancelled"}
    <3>1. intents[j].status \in Status /\ intents[j].status # "expired"
      BY <1>4, TypeParts DEF IndInv, DataOK, IntentRecord, Stands
    <3> QED BY <1>4, <3>1 DEF Status, Open, Settlement, Used
  <2>2. ~Tells(events, j, Used)
    <3>1. CASE intents[j].status \in Open
      BY <3>1 DEF IndInv, Agrees, Tells, Settlement, Used
    <3>2. CASE intents[j].status = "cancelled"
      BY <1>4, <3>2 DEF Stands
    <3> QED BY <2>1, <3>1, <3>2
  <2> QED BY <1>1, <1>4, <2>2, NewUse
<1> QED BY <1>2, <1>3, <1>4, OperationMoves

\* Nor does a new process that has read the whole log.
LEMMA RestartStands ==
    ASSUME IndInv, GrantInv, IndInv', GrantInv', Restart, losses' = 0, events = Lines,
           NEW j \in Intent, Stands(j)
    PROVE  Stands(j)'
<1>1. /\ events' = events /\ events' = disk' /\ late' = late
      /\ intents' = Restored(disk', approvals', late)
  <2>1. events' = events
    BY LogIsKept
  <2>2. events' = disk'
    BY DEF Restart, Log!Restart
  <2> QED BY <2>1, <2>2 DEF Restart
<1>2. intents'[j] = RestoredIntent(events', approvals', late, j)
  BY <1>1 DEF Restored
<1>3. events' \in Seq(IntentEvent)
  BY DEF IndInv, TypeOK, Log!LogTypeOK
<1> SUFFICES ASSUME j \notin late
             PROVE  /\ intents'[j].status # "expired"
                    /\ intents'[j].status = "cancelled" => ~Tells(events, j, Used)
  BY <1>1 DEF Stands
<1>4. intents'[j].status # "expired"
  <2>1. CASE \A e \in Recorded(events') : ~Creates(e, j)
    BY <1>2, <1>3, <2>1, RestoredCreated DEF NoIntent
  <2>2. CASE \E e \in Recorded(events') : Creates(e, j)
    BY <1>2, <1>3, <2>2, RestoredCreated
  <2> QED BY <2>1, <2>2
<1>5. ASSUME intents'[j].status = "cancelled" PROVE ~Tells(events, j, Used)
  <2>1. Tells(events, j, {"cancelled"})
    <3>1. Ends(events, j, "cancelled")'
      BY <1>5 DEF IndInv, Agrees, Settlement
    <3>2. Ends(events', j, "cancelled")
      BY <3>1
    <3> QED BY <1>1, <3>2 DEF Ends, Tells
  <2>2. intents[j].status \in {"cancelled", "expired", "none"}
    BY <2>1 DEF IndInv, Agrees
  <2>3. intents[j].status # "none"
    <3>1. \E e \in Recorded(events') : Creates(e, j)
      <4>1. (\E e \in Recorded(events) : Creates(e, j))'
        BY <1>5 DEF GrantInv, CreatedAsLogged
      <4> QED BY <4>1 DEF Creates
    <3> QED BY <1>1, <3>1 DEF GrantInv, CreatedAsLogged
  <2> QED BY <2>2, <2>3 DEF Stands
<1> QED BY <1>4, <1>5

-----------------------------------------------------------------------------
\* What a run says names its provider.
LEMMA SaysLeads ==
    ASSUME NEW q \in RunRecord, NEW msg \in P!Message,
           q.state.providerId \in {"provider", NoOne}
    PROVE  /\ Says(q, msg).state.providerId = "provider"
           /\ Says(q, msg) \in RunRecord
<1> DEFINE next == P!AfterTransition(q.state, ContextOf(msg), msg)
<1>1. Says(q, msg).state = next
  <2>1. Says(q, msg) = [q EXCEPT !.state = next, !.said = Append(q.said, msg)]
    BY DEF Says
  <2> HIDE DEF next
  <2> QED BY <2>1 DEF RunRecord
<1>2. P!StatusFor[msg] = "negotiating" => msg = "bid"
  <2>1. msg \in {"propose", "bid", "award", "authorize", "progress", "deliver",
                 "verify", "accept", "revoke", "fail", "revision_requested", "dispute"}
    BY DEF P!Message, P!StatusFor
  <2> QED BY <2>1 DEF P!StatusFor
<1>3. /\ ContextOf(msg).providerId = "provider"
      /\ msg = "bid" => ContextOf(msg).actor = "provider"
  BY DEF ContextOf, P!Context
<1>4. next.providerId = "provider"
  <2> DEFINE bidder == IF P!StatusFor[msg] = "negotiating" /\ ContextOf(msg).actor # "requester"
                         THEN ContextOf(msg).actor ELSE NoOne
  <2>1. bidder \in {"provider", NoOne}
    BY <1>2, <1>3
  <2>2. next.providerId = P!OrElse("provider", P!OrElse(q.state.providerId, bidder))
    BY <1>3 DEF P!AfterTransition
  <2> HIDE DEF bidder, next
  <2> QED BY <2>1, <2>2 DEF P!OrElse
<1> QED BY <1>1, <1>4, SaysType

\* Run r goes on with the state and the messages of q.
LEMMA ContinuesAs ==
    ASSUME runs \in [Run -> RunRecord], NEW r \in Run, NEW q \in RunRecord, NEW at,
           Continue(r, q, at)
    PROVE  runs'[r].state = q.state /\ runs'[r].said = q.said
<1>1. runs' = [runs EXCEPT ![r] = [q EXCEPT !.at = at]]
  BY DEF Continue
<1> QED BY <1>1 DEF RunRecord

\* The catch clause throws in turn only after the envelope has expired.
LEMMA CaughtLeaves ==
    ASSUME NEW r \in Run, NEW q \in RunRecord, q.state.providerId = "provider",
           q.intent \in Intent, Caught(r, q), r \notin overdue
    PROVE  \/ Fail(q.intent)
           \/ intents[q.intent].status # "consumed" /\ UNCHANGED vars
<1>1. q.intent # NoOne
  BY IntentAssumption
<1>2. ASSUME q.state.status = "running" PROVE MaySay(r, q, "fail")
  <2> DEFINE ctx == ContextOf("fail")
  <2>1. ctx.actor = "provider"
    BY DEF ContextOf, P!Context
  <2> HIDE DEF ctx
  <2>2. /\ P!StatusFor["fail"] = "failed" /\ "failed" \in P!Transitions["running"]
        /\ "failed" \in P!ProvidersAllowed
    BY DEF P!StatusFor, P!Transitions, P!ProvidersAllowed
  <2>3. P!ActorAllowed(q.state, ctx, "failed")
    BY <2>1, <2>2 DEF P!ActorAllowed
  <2>4. P!MayTransition(q.state, ctx, "fail", r \in overdue)
    BY <1>2, <2>2, <2>3 DEF P!MayTransition
  <2> QED BY <2>4 DEF MaySay, ctx
<1>3. TryFail(q.intent)
  BY <1>2 DEF Caught
<1> QED BY <1>1, <1>3 DEF TryFail, intentVars

\* An answer leaves a run whose task knows its provider, and an intent that is
\* settled or was not in use any more.
Left(r) ==
    /\ overdue' = overdue /\ Led(r)'
    /\ runs'[r].at = "over" /\ r \notin overdue /\ runs[r].intent \in Intent =>
         \/ Complete(runs[r].intent) \/ Fail(runs[r].intent)
         \/ intents[runs[r].intent].status # "consumed" /\ UNCHANGED vars

LEMMA AnswerLeaves ==
    ASSUME RunTypeOK, NEW r \in Run, Answer(r), Led(r)
    PROVE  Left(r)
<1> DEFINE q == runs[r]
<1>0. /\ q \in RunRecord /\ (q.intent \in Intent => q.intent # NoOne) /\ runs \in [Run -> RunRecord]
      /\ {"listing", "invoking", "performed", "verifying"} = Active
      /\ "over" \notin Active
  BY IntentAssumption DEF RunTypeOK, Active
<1>1. q.at \in Active /\ q.state.providerId = "provider"
  BY AnswerStep DEF Led
<1>c. ASSUME NEW p \in RunRecord, p.state.providerId = "provider", NEW at \in Active,
             Continue(r, p, at), Same
      PROVE  Left(r)
  <2>1. at \in {"new", "over", "dead"} \cup Active /\ told \in [Task -> Seq(P!Message)]
    BY DEF RunTypeOK
  <2>2. runs'[r].at = at
    BY <1>0, <1>c, <2>1, ContinueType
  <2>3. runs'[r].state = p.state
    BY <1>0, <1>c, ContinuesAs
  <2> QED BY <1>0, <1>c, <2>2, <2>3 DEF Same, Left, Led
<1>o. ASSUME NEW p \in RunRecord, NEW result \in Result, End(r, p, result),
             UNCHANGED overdue,
             r \notin overdue /\ q.intent \in Intent =>
               \/ Complete(q.intent) \/ Fail(q.intent)
               \/ intents[q.intent].status # "consumed" /\ UNCHANGED vars
      PROVE  Left(r)
  <2> DEFINE ended == [p EXCEPT !.result = result]
  <2>1. ended \in RunRecord /\ Continue(r, ended, "over")
    BY <1>o DEF End, RunRecord
  <2> HIDE DEF ended
  <2>2. runs'[r].at = "over"
    BY <1>0, <2>1, ContinueType DEF RunTypeOK
  <2> QED BY <1>0, <1>o, <2>2 DEF Left, Led
<1>s. /\ Says(q, "verify") \in RunRecord /\ Says(q, "verify").intent = q.intent
      /\ Says(q, "verify").state.providerId = "provider"
      /\ Says(q, "deliver") \in RunRecord
      /\ Says(q, "deliver").state.providerId = "provider"
  <2>1. q.state.providerId \in {"provider", NoOne}
    BY <1>1
  <2>2. Says(q, "verify").intent = q.intent
    BY <1>0, MessageTypes, SaysType
  <2> QED BY <1>0, <2>1, <2>2, MessageTypes, SaysLeads
<1>v. /\ Says(Says(q, "verify"), "accept") \in RunRecord
      /\ Says(Says(q, "verify"), "dispute") \in RunRecord
      /\ Says(Says(q, "verify"), "dispute").intent = q.intent
      /\ Says(Says(q, "verify"), "dispute").state.providerId = "provider"
  <2> DEFINE p == Says(q, "verify")
  <2>1. p \in RunRecord /\ p.intent = q.intent /\ p.state.providerId \in {"provider", NoOne}
    BY <1>s
  <2> HIDE DEF p
  <2>2. Says(p, "dispute").intent = q.intent
    BY <2>1, MessageTypes, SaysType
  <2>3. /\ Says(p, "accept") \in RunRecord /\ Says(p, "dispute") \in RunRecord
        /\ Says(p, "dispute").state.providerId = "provider"
    BY <2>1, MessageTypes, SaysLeads
  <2> QED BY <2>2, <2>3 DEF p
<1>k. ASSUME NEW p \in RunRecord, p.state.providerId = "provider", p.intent = q.intent,
             Caught(r, p)
      PROVE  Left(r)
  <2>1. UNCHANGED overdue
    BY <1>k DEF Caught
  <2>2. r \notin overdue /\ q.intent \in Intent =>
          \/ Fail(q.intent)
          \/ intents[q.intent].status # "consumed" /\ UNCHANGED vars
    <3>1. ASSUME r \notin overdue, p.intent \in Intent
          PROVE  \/ Fail(p.intent)
                 \/ intents[p.intent].status # "consumed" /\ UNCHANGED vars
      BY <1>k, <3>1, CaughtLeaves
    <3> QED BY <1>k, <3>1
  <2>3. Says(p, "fail") \in RunRecord /\ {"failed", "thrown"} \subseteq Result
    BY MessageTypes, SaysType DEF Result
  <2>4. \E o \in RunRecord, result \in Result : End(r, o, result)
    BY <1>k, <2>3 DEF Caught
  <2> QED BY <1>o, <2>1, <2>2, <2>4
<1>2. CASE List(r)
  BY <1>0, <1>1, <1>c, <1>k, <1>2 DEF List
<1>3. CASE Perform(r)
  <2> DEFINE p == [q EXCEPT !.effect = TRUE]
  <2>1. p \in RunRecord /\ p.state = q.state
    BY <1>0 DEF RunRecord
  <2>2. Continue(r, p, "performed") /\ Same
    BY <1>3 DEF Perform
  <2> HIDE DEF p
  <2> QED BY <1>0, <1>1, <1>c, <2>1, <2>2
<1>4. CASE InvokeFails(r)
  BY <1>0, <1>1, <1>k, <1>4 DEF InvokeFails
<1>5. CASE Deliver(r)
  BY <1>0, <1>1, <1>c, <1>k, <1>s, <1>5 DEF Deliver
<1>6. CASE VerifyFails(r)
  <2>1. CASE Caught(r, q)
    BY <1>0, <1>1, <1>k, <2>1
  <2>2. CASE Caught(r, Says(q, "verify"))
    BY <1>k, <1>s, <2>2
  <2> QED BY <1>6, <2>1, <2>2 DEF VerifyFails
<1>7. CASE Accept(r)
  <2> DEFINE p == Says(q, "verify")
  <2>1. CASE Caught(r, p)
    BY <1>k, <1>s, <2>1
  <2>2. CASE ~Caught(r, p)
    <3>1. /\ IF p.intent = NoOne THEN UNCHANGED intentVars ELSE Complete(p.intent)
          /\ End(r, Says(p, "accept"), "accepted") /\ UNCHANGED overdue
      BY <1>7, <2>2 DEF Accept
    <3> QED BY <1>0, <1>o, <1>s, <1>v, <3>1 DEF Result
  <2> QED BY <2>1, <2>2
<1>8. CASE Reject(r)
  <2> DEFINE p == Says(Says(q, "verify"), "dispute")
  <2>1. CASE Caught(r, p)
    BY <1>k, <1>v, <2>1
  <2>2. CASE ~Caught(r, p)
    <3>1. /\ IF p.intent = NoOne THEN UNCHANGED intentVars ELSE Fail(p.intent)
          /\ End(r, p, "rejected") /\ UNCHANGED overdue
      BY <1>8, <2>2 DEF Reject
    <3> QED BY <1>0, <1>o, <1>v, <3>1 DEF Result
  <2> QED BY <2>1, <2>2
<1> QED BY <1>2, <1>3, <1>4, <1>5, <1>6, <1>7, <1>8 DEF Answer

-----------------------------------------------------------------------------
\* Everything that happens to intents and log leaves every intent standing.
LEMMA StandingStays ==
    ASSUME IndInv, GrantInv, IndInv', GrantInv', events = Lines, losses' = 0,
           Moves \/ \E i \in Intent, t \in Task : Creation(i, t),
           \A i \in Intent : Stands(i)
    PROVE  \A i \in Intent : Stands(i)'
<1> SUFFICES ASSUME NEW j \in Intent PROVE Stands(j)'
  OBVIOUS
<1>0. Stands(j)
  OBVIOUS
<1>1. CASE Operation
  BY <1>0, <1>1, OperationStands
<1>2. CASE WriteLog
  <2>1. events' = events
    BY <1>2, LogIsKept
  <2>2. intents' = intents /\ late' = late
    BY <1>2 DEF WriteLog
  <2> QED BY <1>0, <2>1, <2>2 DEF Stands, Tells
<1>3. CASE Restart
  BY <1>0, <1>3, RestartStands
<1>4. CASE UNCHANGED vars
  <2>1. events' = events /\ intents' = intents /\ late' = late
    BY <1>4 DEF vars
  <2> QED BY <1>0, <2>1 DEF Stands, Tells
<1> QED BY <1>1, <1>2, <1>3, <1>4 DEF Moves, Operation

\* Time is set back for no intent but a new one.
LEMMA LateStays ==
    ASSUME IndInv
    PROVE  /\ Moves => late \subseteq late'
           /\ \A i \in Intent, t \in Task : Creation(i, t) => late \subseteq late' \cup {i}
<1>1. Moves => late \subseteq late'
  BY DEF Moves, OtherOperation, Decide, CreateThrows, Approve, Consume, ConsumeLate,
         Complete, Fail, Cancel, Expire, Settle, Rest, WriteLog, Restart, vars
<1>2. \A i \in Intent, t \in Task : Creation(i, t) => late' = late \ {i}
  BY DEF Creation, Create, CreateApproved
<1> QED BY <1>1, <1>2

\* A run that has reported stays settled.
LEMMA EndedStays ==
    ASSUME NEW s \in Run, Ended(s), LogKept, runs'[s].intent = runs[s].intent,
           Reports(s)' => Reports(s)
    PROVE  Ended(s)'
<1> SUFFICES ASSUME Reports(s)'
             PROVE  runs[s].intent \in Intent /\ Tells(events', runs[s].intent, Outcome)
  BY DEF Ended
<1>1. runs[s].intent \in Intent /\ Tells(events, runs[s].intent, Outcome)
  BY DEF Ended
<1>2. PICK k \in DOMAIN events :
        events[k].intent = runs[s].intent /\ events[k].kind \in Outcome
  BY <1>1 DEF Tells
<1>3. In(events[k], events')
  <2>1. In(events[k], events)
    BY DEF In
  <2> QED BY <2>1, InRecorded DEF In
<1>4. PICK j \in DOMAIN events' : events'[j] = events[k]
  BY <1>3 DEF In
<1> QED BY <1>1, <1>2, <1>4 DEF Tells

\* A step that only the run r makes.
LEMMA OneEnds ==
    ASSUME IndInv, GrantInv, RunInv, EndInv, IndInv', GrantInv', Moves, NEW r \in Run,
           \A s \in Run : s # r => runs'[s] = runs[s],
           overdue' = overdue, Led(r)', losses' = 0 => Ended(r)'
    PROVE  EndInv'
<1>1. Unforgotten
  BY MovesKeep DEF RunInv
<1>2. ASSUME NEW s \in Run PROVE Led(s)'
  BY DEF EndInv, Led
<1>3. ASSUME losses' = 0 PROVE \A i \in Intent : Stands(i)'
  <2>1. events = Lines /\ \A i \in Intent : Stands(i)
    BY <1>1, <1>3 DEF Unforgotten, RunInv, EndInv
  <2> QED BY <1>3, <2>1, StandingStays
<1>4. ASSUME losses' = 0, NEW s \in Run, s # r PROVE Ended(s)'
  <2>1. Ended(s) /\ LogKept
    BY <1>1, <1>4 DEF Unforgotten, EndInv
  <2>2. runs'[s] = runs[s] /\ late \subseteq late'
    BY <1>4, LateStays
  <2>3. Reports(s)' => Reports(s)
    BY <2>2 DEF Reports
  <2> QED BY <2>1, <2>2, <2>3, EndedStays
<1> QED BY <1>2, <1>3, <1>4 DEF EndInv

\* A step that starts and ends no run.
LEMMA NoneEnds ==
    ASSUME IndInv, GrantInv, RunInv, EndInv, IndInv', GrantInv', Unforgotten,
           Moves \/ \E i \in Intent, t \in Task : Creation(i, t),
           \A s \in Run : /\ runs'[s].intent = runs[s].intent
                          /\ Reports(s)' => Reports(s)
                          /\ Led(s)'
    PROVE  EndInv'
<1>1. ASSUME losses' = 0 PROVE \A i \in Intent : Stands(i)'
  <2>1. events = Lines /\ \A i \in Intent : Stands(i)
    BY <1>1 DEF Unforgotten, RunInv, EndInv
  <2> QED BY <1>1, <2>1, StandingStays
<1>2. ASSUME losses' = 0, NEW s \in Run PROVE Ended(s)'
  <2>1. Ended(s) /\ LogKept
    BY <1>2 DEF Unforgotten, EndInv
  <2> QED BY <2>1, EndedStays
<1> QED BY <1>1, <1>2 DEF EndInv

\* An answer ends a run only when the log has the outcome of its intent.
LEMMA AnswerEnds ==
    ASSUME IndInv, GrantInv, RunInv, EndInv, IndInv', GrantInv', NEW r \in Run, Answer(r),
           UNCHANGED losses
    PROVE  EndInv'
<1> DEFINE i == runs[r].intent
<1>1. /\ runs[r].at \in Active /\ RunTypeOK
      /\ \A s \in Run : s # r => runs'[s] = runs[s]
      /\ runs'[r].task = runs[r].task /\ runs'[r].intent = i
  BY AnswerStep DEF RunInv
<1>2. Moves
  BY AnswerKeeps
<1>3. Left(r)
  BY <1>1, AnswerLeaves DEF EndInv
<1>4. ASSUME losses' = 0, Reports(r)' PROVE i \in Intent /\ Tells(events', i, Outcome)
  <2>1. losses = 0 /\ Stands(i) /\ Names(i, runs[r].task) /\ Backed(r)
    <3>1. losses = 0 /\ Holds(r) /\ RunOK(r) /\ Named
      BY <1>1, <1>4 DEF Holds, Reports, RunInv
    <3>2. Backed(r)
      BY <3>1 DEF RunOK
    <3> QED BY <3>1, <3>2 DEF Backed, Named, EndInv
  <2>2. i \in Intent /\ spent[i] = "consumed"
    BY <2>1 DEF Backed
  <2>3. \/ Complete(i) \/ Fail(i)
        \/ intents[i].status # "consumed" /\ UNCHANGED vars
    BY <1>3, <1>4, <2>2 DEF Left, Reports
  <2>4. CASE Complete(i) \/ Fail(i)
    <3>1. ASSUME NEW j \in Intent, Complete(j) \/ Fail(j)
          PROVE  \E kind \in Outcome : In(Settled(j, kind), events')
      <4>1. CASE Complete(j)
        <5>1. In(Settled(j, "completed"), events)'
          BY <4>1, ReportedIsLogged
        <5> QED BY <5>1 DEF Outcome, Settled
      <4>2. CASE Fail(j)
        <5>1. In(Settled(j, "failed"), events)'
          BY <4>2, ReportedIsLogged
        <5> QED BY <5>1 DEF Outcome, Settled
      <4> QED BY <3>1, <4>1, <4>2
    <3>2. PICK kind \in Outcome : In(Settled(i, kind), events')
      BY <2>2, <2>4, <3>1
    <3>3. Settled(i, kind).intent = i /\ Settled(i, kind).kind = kind
      BY DEF Settled
    <3> QED BY <2>2, <3>2, <3>3 DEF In, Tells
  <2>5. CASE intents[i].status # "consumed" /\ UNCHANGED vars
    <3>1. late' = late /\ events' = events
      BY <2>5 DEF vars
    <3>2. i \notin late
      BY <1>1, <1>4, <3>1 DEF Reports
    <3>3. Tells(events, i, {"consumed"})
      BY <2>2 DEF IndInv, Agrees
    <3>4. Tells(events, i, Used)
      BY <3>3 DEF Tells, Used
    <3>5. intents[i].status # "none"
      BY <2>1, <2>2, IntentAssumption DEF Names
    <3>6. Tells(events, i, Outcome)
      BY <2>1, <2>2, <2>5, <3>2, <3>4, <3>5, UsedStands
    <3> QED BY <2>2, <3>1, <3>6
  <2> QED BY <2>3, <2>4, <2>5
<1>5. losses' = 0 => Ended(r)'
  BY <1>1, <1>4 DEF Ended
<1> QED BY <1>1, <1>2, <1>3, <1>5, OneEnds DEF Left

\* A run begins with a bid, an award, an authorization and progress, and so
\* knows its provider.
LEMMA BeginEnds ==
    ASSUME IndInv, GrantInv, RunInv, EndInv, IndInv', GrantInv', NEW r \in Run,
           NEW t \in Task, Begin(r, t), UNCHANGED losses
    PROVE  EndInv'
<1> DEFINE i == contract[t]
           q0 == NewRun(t, i)
           q1 == Says(q0, "bid")
           q2 == Says(q1, "award")
           q3 == Says(q2, "authorize")
           opened == Says(q3, "progress")
<1>1. RunTypeOK /\ i \in Intent \cup {NoOne} /\ t \in Task \cup {NoOne}
  BY DEF RunInv, RunTypeOK
<1>2. opened \in RunRecord /\ opened.state.providerId = "provider"
  <2>0. q0 \in RunRecord /\ q0.state.providerId = NoOne
    <3>1. NewRun(t, i).state = P!InitialTask /\ P!InitialTask.providerId = NoOne
      BY DEF NewRun, P!InitialTask
    <3> QED BY <1>1, <3>1, NewRunType
  <2> HIDE DEF q0
  <2>1. q1 \in RunRecord /\ q1.state.providerId = "provider"
    BY <2>0, SaysLeads, MessageTypes
  <2> HIDE DEF q1
  <2>2. q2 \in RunRecord /\ q2.state.providerId = "provider"
    BY <2>1, SaysLeads, MessageTypes
  <2> HIDE DEF q2
  <2>3. q3 \in RunRecord /\ q3.state.providerId = "provider"
    BY <2>2, SaysLeads, MessageTypes
  <2> HIDE DEF q3
  <2> QED BY <2>3, SaysLeads, MessageTypes
<1>3. Continue(r, opened, "listing") /\ UNCHANGED overdue
  BY DEF Begin
<1> HIDE DEF opened
<1>4. /\ \A s \in Run : s # r => runs'[s] = runs[s]
      /\ runs'[r].at = "listing" /\ runs'[r].state = opened.state
  <2>1. "listing" \in {"new", "over", "dead"} \cup Active
    BY DEF Active
  <2>2. /\ \A s \in Run : s # r => runs'[s] = runs[s]
        /\ runs'[r].at = "listing"
    BY <1>1, <1>2, <1>3, <2>1, ContinueType DEF RunTypeOK
  <2>3. runs'[r].state = opened.state
    BY <1>1, <1>2, <1>3, ContinuesAs DEF RunTypeOK
  <2> QED BY <2>2, <2>3
<1>5. Moves
  BY BeginStep
<1>6. Led(r)' /\ Ended(r)'
  BY <1>2, <1>4 DEF Led, Ended, Reports
<1> QED BY <1>3, <1>4, <1>5, <1>6, OneEnds

\* A refused call has said nothing.
LEMMA RefusedEnds ==
    ASSUME IndInv, GrantInv, RunInv, EndInv, IndInv', GrantInv', NEW r \in Run,
           NEW t \in Task, Refused(r, t), UNCHANGED losses
    PROVE  EndInv'
<1> DEFINE i == contract[t]
           q == NewRun(t, i)
           p == [q EXCEPT !.result = "thrown"]
<1>1. RunTypeOK /\ i \in Intent \cup {NoOne} /\ t \in Task \cup {NoOne}
  BY DEF RunInv, RunTypeOK
<1>2. q \in RunRecord /\ q.said = <<>>
  BY <1>1, NewRunType DEF NewRun
<1> HIDE DEF q
<1>3. p \in RunRecord /\ p.said = <<>>
  BY <1>2 DEF RunRecord, Result
<1>4. Continue(r, p, "over") /\ UNCHANGED overdue
  BY DEF Refused, End, q
<1> HIDE DEF p
<1>5. /\ \A s \in Run : s # r => runs'[s] = runs[s]
      /\ runs'[r].at = "over" /\ runs'[r].said = <<>>
  <2>1. /\ \A s \in Run : s # r => runs'[s] = runs[s]
        /\ runs'[r].at = "over"
    BY <1>1, <1>3, <1>4, ContinueType DEF RunTypeOK
  <2>2. runs'[r].said = <<>>
    BY <1>1, <1>3, <1>4, ContinuesAs DEF RunTypeOK
  <2> QED BY <2>1, <2>2
<1>6. Moves
  BY RefusedStep
<1>7. Led(r)' /\ Ended(r)'
  BY <1>5 DEF Led, Active, Ended, Reports
<1> QED BY <1>4, <1>5, <1>6, <1>7, OneEnds

LEMMA EndStep ==
    ASSUME IndInv, GrantInv, RunInv, EndInv, [ExecutionNext]_allVars
    PROVE  EndInv'
<1>0. IndInv' /\ GrantInv'
  BY ExecutionStep
<1>m. ASSUME Moves, overdue \subseteq overdue',
             \A s \in Run : runs'[s] = runs[s] \/ runs'[s] = [runs[s] EXCEPT !.at = "dead"]
      PROVE  EndInv'
  <2>1. Unforgotten /\ late \subseteq late'
    BY <1>m, MovesKeep, LateStays DEF RunInv
  <2>2. ASSUME NEW s \in Run
        PROVE  /\ runs'[s].intent = runs[s].intent
               /\ Reports(s)' => Reports(s)
               /\ Led(s)'
    <3>1. CASE runs'[s] = runs[s]
      BY <1>m, <2>1, <3>1 DEF EndInv, Led, Reports
    <3>2. CASE runs'[s] = [runs[s] EXCEPT !.at = "dead"]
      <4>1. runs[s] \in RunRecord
        BY DEF RunInv, RunTypeOK
      <4>2. runs'[s].at = "dead" /\ runs'[s].intent = runs[s].intent
        BY <3>2, <4>1 DEF RunRecord
      <4> QED BY <4>2 DEF Led, Active, Reports
    <3> QED BY <1>m, <3>1, <3>2
  <2> QED BY <1>0, <1>m, <2>1, <2>2, NoneEnds
<1>1. ASSUME NEW i \in Intent, NEW t \in Task, Contract(i, t), UNCHANGED losses
      PROVE  EndInv'
  <2>1. /\ Creation(i, t) /\ runs' = runs /\ overdue' = overdue
        /\ \A s \in Run : runs[s].intent # i
    BY <1>1 DEF Contract
  <2>2. Unforgotten
    BY <1>1, <2>1, CreationKeeps DEF RunInv
  <2>3. late \subseteq late' \cup {i}
    BY <2>1, LateStays
  <2>4. ASSUME NEW s \in Run
        PROVE  /\ runs'[s].intent = runs[s].intent
               /\ Reports(s)' => Reports(s)
               /\ Led(s)'
    BY <2>1, <2>3 DEF EndInv, Led, Reports
  <2> QED BY <1>0, <2>1, <2>2, <2>4, NoneEnds
<1>2. CASE OtherOperation /\ UNCHANGED runVars /\ UNCHANGED losses
  BY <1>m, <1>2 DEF Moves, runVars
<1>3. ASSUME NEW r \in Run, NEW t \in Task, Begin(r, t) \/ Refused(r, t), UNCHANGED losses
      PROVE  EndInv'
  BY <1>0, <1>3, BeginEnds, RefusedEnds
<1>4. ASSUME NEW r \in Run, Answer(r), UNCHANGED losses PROVE EndInv'
  BY <1>0, <1>4, AnswerEnds
<1>5. ASSUME NEW r \in Run, Overdue(r) PROVE EndInv'
  <2>1. UNCHANGED vars /\ runs' = runs /\ overdue \subseteq overdue'
    BY <1>5 DEF Overdue, intentVars
  <2> QED BY <1>m, <2>1 DEF Moves
<1>6. CASE WriteLog /\ UNCHANGED runVars
  BY <1>m, <1>6 DEF Moves, runVars
<1>7. CASE Stop
  <2>1. /\ Restart /\ overdue' = overdue
        /\ runs' = [s \in Run |->
                      IF runs[s].at \in Active THEN [runs[s] EXCEPT !.at = "dead"] ELSE runs[s]]
    BY <1>7 DEF Stop
  <2>2. \A s \in Run : runs'[s] = runs[s] \/ runs'[s] = [runs[s] EXCEPT !.at = "dead"]
    BY <2>1
  <2> QED BY <1>m, <2>1, <2>2 DEF Moves
<1>8. CASE UNCHANGED allVars
  BY <1>m, <1>8 DEF Moves, allVars, intentVars, runVars
<1> QED BY <1>1, <1>2, <1>3, <1>4, <1>5, <1>6, <1>7, <1>8 DEF ExecutionNext

LEMMA EndInit == ExecutionInit => EndInv
<1> SUFFICES ASSUME ExecutionInit PROVE EndInv
  OBVIOUS
<1>1. \A r \in Run : runs[r].at = "new"
  BY NewRunType DEF ExecutionInit
<1>2. \A i \in Intent : intents[i].status = "none"
  BY DEF ExecutionInit, Init, NoIntent
<1> QED BY <1>1, <1>2 DEF EndInv, Led, Active, Stands, Ended, Reports

(***************************************************************************)
(* When executeCollaborationTask returns or throws after it has consumed   *)
(* an intent, however it got there, the intent is completed or failed, and *)
(* whoever uses, decides or cancels intents, and however often the process *)
(* restarts, it stays so, unless the intent or the envelope had expired or *)
(* lines of the log were lost.  The safety half of IntentIsSettled.        *)
(***************************************************************************)
SettledWhenOver ==
    \A r \in Run : Reports(r) /\ losses = 0 => intents[runs[r].intent].status \in Outcome

THEOREM SettledWhenOverAlways == ExecutionSpec => []SettledWhenOver
<1>1. IndInv /\ RunInv /\ EndInv => SettledWhenOver
  <2> SUFFICES ASSUME IndInv, RunInv, EndInv, NEW r \in Run, Reports(r), losses = 0
               PROVE  intents[runs[r].intent].status \in Outcome
    BY DEF SettledWhenOver
  <2> DEFINE i == runs[r].intent
  <2>1. i \in Intent /\ Tells(events, i, Outcome) /\ i \notin late
    BY DEF EndInv, Ended, Reports
  <2>2. Stands(i) /\ Tells(events, i, Used)
    BY <2>1 DEF EndInv, Tells, Used, Outcome
  <2>3. intents[i].status # "none"
    BY <2>1, IntentAssumption DEF RunInv, Named, Names
  <2> QED BY <2>1, <2>2, <2>3, UsedStands
<1>2. ExecutionSpec => []EndInv
  BY EndInit, EndStep, ExecutionInductive, PTL DEF ExecutionSpec
<1> QED BY <1>1, <1>2, ExecutionInductive, PTL
=============================================================================
