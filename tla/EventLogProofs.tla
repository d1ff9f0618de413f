--------------------------- MODULE EventLogProofs ---------------------------
(***************************************************************************)
(* Theorems about EventLog, for every set of events and every queue limit. *)
(* NothingMissing and QueueIsScheduled are inductive next to TypeOK.       *)
(* DiskInMemoryOrder is not: a line is written long after it was appended, *)
(* so the invariant must also order the lines on their way, which is what  *)
(* InMemoryOrder says of disk \o batch \o queue.                           *)
(***************************************************************************)
EXTENDS EventLog, SequenceTheorems, TLAPS

Lines == disk \o batch \o queue

\* Every line is in memory, and any two lines are in the order of memory.
InMemoryOrder(lines, log) ==
    /\ \A m \in DOMAIN lines : In(lines[m], log)
    /\ \A m, n \in DOMAIN lines :
         m < n => \E i, j \in DOMAIN log :
                    i < j /\ log[i] = lines[m] /\ log[j] = lines[n]

\* A last line without its newline is one of the lines on the disk.
OpenHasLine == tail = "open" => disk # <<>>

\* The file keeps its first keep lines, and of the batch the lines lo to k
\* follow them.
Leaves(keep, lo, k) ==
    /\ keep \in 0..Len(disk) /\ lo \in 1..2 /\ k \in 0..Len(batch)
    /\ lo <= k + 1
    /\ \/ keep = Len(disk)
       \/ keep = Len(disk) - 1 /\ lo = 2

IndInv ==
    /\ TypeOK
    /\ OpenHasLine
    /\ NothingMissing
    /\ QueueIsScheduled
    /\ InMemoryOrder(Lines, events)

-----------------------------------------------------------------------------
\* The empty sequence is a sequence of anything.
LEMMA EmptyIsSeq == ASSUME NEW S PROVE <<>> \in Seq(S)
OBVIOUS

\* Only the empty sequence has no elements.
LEMMA NonEmptyLen == ASSUME NEW S, NEW s \in Seq(S), s # <<>> PROVE Len(s) > 0
BY EmptySeq

\* What ends in a line is not empty.
LEMMA NonEmptyEnd ==
    ASSUME NEW a \in Seq(Event), NEW b \in Seq(Event), Len(b) > 0
    PROVE  a \o b # <<>>
<1>1. Len(a \o b) = Len(a) + Len(b) /\ Len(a) \in Nat /\ Len(b) \in Nat
  BY ConcatProperties
<1>2. Len(<<>>) = 0
  OBVIOUS
<1> QED BY <1>1, <1>2

\* A sequence without its first element, as a subsequence.
LEMMA TailOfFirst ==
    ASSUME NEW b \in Seq(Event), NEW k \in 1..Len(b)
    PROVE  /\ Tail(SubSeq(b, 1, k)) = SubSeq(b, 2, k)
           /\ SubSeq(b, 1, k) # <<>>
           /\ SubSeq(b, 1, k) \in Seq(Event)
           /\ Len(Tail(SubSeq(b, 1, k))) = k - 1
<1> DEFINE s == SubSeq(b, 1, k)
<1>1. s \in Seq(Event) /\ Len(s) = k /\ s # <<>>
  BY SubSeqProperties
<1>2. Tail(s) \in Seq(Event) /\ Len(Tail(s)) = k - 1
        /\ \A i \in 1..(k - 1) : Tail(s)[i] = s[i + 1]
  BY <1>1
<1>3. \A i \in 1..k : s[i] = b[i]
  BY SubSeqProperties
<1>4. SubSeq(b, 2, k) \in Seq(Event) /\ Len(SubSeq(b, 2, k)) = k - 1
        /\ \A i \in 1..(k - 1) : SubSeq(b, 2, k)[i] = b[i + 1]
  BY SubSeqProperties
<1> HIDE DEF s
<1>5. Tail(s) = SubSeq(b, 2, k)
  BY <1>2, <1>3, <1>4, SeqEqual
<1> QED BY <1>1, <1>2, <1>5 DEF s

\* What readEvents can parse of some lines of the batch behind the file.
LEMMA ReadableLines ==
    ASSUME TypeOK, OpenHasLine, batch # <<>>, NEW k \in 0..Len(batch)
    PROVE  \E keep \in 0..Len(disk), lo \in 1..2 : \E h \in 0..Len(batch) :
             /\ Leaves(keep, lo, h)
             /\ Readable(SubSeq(batch, 1, k))
                  = SubSeq(disk, 1, keep) \o SubSeq(batch, lo, h)
<1>0. /\ batch \in Seq(Event) /\ disk \in Seq(Event)
      /\ Len(batch) \in Nat /\ Len(disk) \in Nat /\ Len(batch) > 0
  BY NonEmptyLen DEF TypeOK
<1>1. SubSeq(disk, 1, Len(disk)) = disk
  BY <1>0, SubSeqFull
<1>2. SubSeq(batch, 1, 0) = <<>> /\ SubSeq(batch, 2, 1) = <<>>
  BY <1>0, SubSeqEmpty
<1>3. CASE tail = "clean" \/ (tail = "cut" /\ k = 0)
  <2>1. Readable(SubSeq(batch, 1, k))
          = SubSeq(disk, 1, Len(disk)) \o SubSeq(batch, 1, k)
    BY <1>1, <1>2, <1>3 DEF Readable
  <2>2. Leaves(Len(disk), 1, k)
    BY <1>0 DEF Leaves
  <2> QED BY <1>0, <2>1, <2>2 DEF Leaves
<1>4. CASE tail = "cut" /\ k > 0
  <2>0. k \in 1..Len(batch)
    BY <1>0, <1>4
  <2>1. Readable(SubSeq(batch, 1, k))
          = SubSeq(disk, 1, Len(disk)) \o SubSeq(batch, 2, k)
    BY <1>0, <1>1, <1>4, <2>0, TailOfFirst DEF Readable
  <2>2. Leaves(Len(disk), 2, k)
    BY <1>0, <2>0 DEF Leaves
  <2> QED BY <1>0, <2>1, <2>2 DEF Leaves
<1>5. CASE tail = "open" /\ k = 0
  <2>1. Readable(SubSeq(batch, 1, k))
          = SubSeq(disk, 1, Len(disk) - 1) \o SubSeq(batch, 2, 1)
    BY <1>2, <1>5 DEF Readable
  <2>2. Leaves(Len(disk) - 1, 2, 1)
    BY <1>0, <1>5, NonEmptyLen DEF Leaves, OpenHasLine
  <2> QED BY <1>0, <2>1, <2>2 DEF Leaves
<1>6. CASE tail = "open" /\ k > 0
  <2>0. k \in 1..Len(batch)
    BY <1>0, <1>6
  <2>1. Readable(SubSeq(batch, 1, k))
          = SubSeq(disk, 1, Len(disk) - 1) \o SubSeq(batch, 2, k)
    BY <1>0, <1>6, <2>0, TailOfFirst DEF Readable
  <2>2. Leaves(Len(disk) - 1, 2, k)
    BY <1>0, <1>6, <2>0, NonEmptyLen DEF Leaves, OpenHasLine
  <2> QED BY <1>0, <2>1, <2>2 DEF Leaves
<1>7. tail \in {"clean", "cut", "open"} /\ (k = 0 \/ k > 0)
  BY <1>0 DEF TypeOK, Tails
<1> QED BY <1>3, <1>4, <1>5, <1>6, <1>7

\* A complete write leaves such lines, and no unterminated one.
LEMMA WrittenLines ==
    ASSUME TypeOK, OpenHasLine, WriteSucceeds
    PROVE  \E keep \in 0..Len(disk), lo \in 1..2 : \E h \in 0..Len(batch) :
             /\ Leaves(keep, lo, h)
             /\ disk' = SubSeq(disk, 1, keep) \o SubSeq(batch, lo, h)
<1>1. SubSeq(batch, 1, Len(batch)) = batch /\ Len(batch) \in 0..Len(batch)
  BY SubSeqFull DEF TypeOK
<1>2. batch # <<>> /\ disk' = Readable(batch)
  BY DEF WriteSucceeds
<1> QED BY <1>1, <1>2, ReadableLines

\* The concatenation of three sequences, element by element.
LEMMA ThreeParts ==
    ASSUME NEW S, NEW a \in Seq(S), NEW b \in Seq(S), NEW c \in Seq(S)
    PROVE  LET s == a \o b \o c IN
           /\ s \in Seq(S)
           /\ Len(s) = Len(a) + Len(b) + Len(c)
           /\ \A i \in 1..Len(s) :
                s[i] = IF i <= Len(a) THEN a[i]
                       ELSE IF i <= Len(a) + Len(b) THEN b[i - Len(a)]
                       ELSE c[i - Len(a) - Len(b)]
<1> DEFINE d == a \o b
<1>1. d \in Seq(S) /\ Len(d) = Len(a) + Len(b)
        /\ \A i \in 1..(Len(a) + Len(b)) :
             d[i] = IF i <= Len(a) THEN a[i] ELSE b[i - Len(a)]
  BY ConcatProperties
<1> HIDE DEF d
<1>2. d \o c \in Seq(S) /\ Len(d \o c) = Len(d) + Len(c)
        /\ \A i \in 1..(Len(d) + Len(c)) :
             (d \o c)[i] = IF i <= Len(d) THEN d[i] ELSE c[i - Len(d)]
  <2>1. d \in Seq(S)
    BY <1>1
  <2> QED BY <2>1, ConcatProperties
<1>3. \A i \in 1..Len(d \o c) :
         (d \o c)[i] = IF i <= Len(a) THEN a[i]
                       ELSE IF i <= Len(a) + Len(b) THEN b[i - Len(a)]
                       ELSE c[i - Len(a) - Len(b)]
  BY <1>1, <1>2
<1>4. Len(d \o c) = Len(a) + Len(b) + Len(c)
  BY <1>1, <1>2
<1> QED BY <1>2, <1>3, <1>4 DEF d

(***************************************************************************)
(* Losing lines in the middle keeps the order: of the file the first keep  *)
(* lines stay, and of the batch the lines lo to k.                         *)
(***************************************************************************)
LEMMA LossKeepsOrder ==
    ASSUME NEW S, NEW a \in Seq(S), NEW b \in Seq(S), NEW c \in Seq(S),
           NEW log \in Seq(S), InMemoryOrder(a \o b \o c, log),
           NEW keep \in 0..Len(a),
           NEW k \in 0..Len(b), NEW lo \in 1..2, lo <= k + 1
    PROVE  InMemoryOrder(SubSeq(a, 1, keep) \o SubSeq(b, lo, k) \o c, log)
<1> DEFINE p == SubSeq(b, lo, k)
           q == SubSeq(a, 1, keep)
           s == a \o b \o c
           t == q \o p \o c
           from(i) == IF i <= keep THEN i
                      ELSE IF i <= keep + Len(p) THEN i - keep + Len(a) + lo - 1
                      ELSE i - keep - Len(p) + Len(a) + Len(b)
<1>1. /\ p \in Seq(S) /\ Len(p) = k - lo + 1
      /\ \A i \in 1..(k - lo + 1) : p[i] = b[lo + i - 1]
  BY SubSeqProperties
<1>q. /\ q \in Seq(S) /\ Len(q) = keep
      /\ \A i \in 1..keep : q[i] = a[i]
  BY SubSeqProperties
<1> HIDE DEF p, q
<1>2. /\ s \in Seq(S) /\ Len(s) = Len(a) + Len(b) + Len(c)
      /\ \A i \in 1..Len(s) :
           s[i] = IF i <= Len(a) THEN a[i]
                  ELSE IF i <= Len(a) + Len(b) THEN b[i - Len(a)]
                  ELSE c[i - Len(a) - Len(b)]
  BY ThreeParts
<1>3. /\ t \in Seq(S) /\ Len(t) = keep + Len(p) + Len(c)
      /\ \A i \in 1..Len(t) :
           t[i] = IF i <= keep THEN q[i]
                  ELSE IF i <= keep + Len(p) THEN p[i - keep]
                  ELSE c[i - keep - Len(p)]
  <2>1. p \in Seq(S) /\ q \in Seq(S)
    BY <1>1, <1>q
  <2>2. /\ t \in Seq(S) /\ Len(t) = Len(q) + Len(p) + Len(c)
        /\ \A i \in 1..Len(t) :
             t[i] = IF i <= Len(q) THEN q[i]
                    ELSE IF i <= Len(q) + Len(p) THEN p[i - Len(q)]
                    ELSE c[i - Len(q) - Len(p)]
    BY <2>1, ThreeParts
  <2> QED BY <2>2, <1>q
<1>0. InMemoryOrder(s, log)
  OBVIOUS
<1> HIDE DEF s, t
<1>n. Len(a) \in Nat /\ Len(b) \in Nat /\ Len(c) \in Nat /\ Len(p) \in Nat
        /\ keep \in Nat /\ keep <= Len(a)
  BY <1>1
<1>4. ASSUME NEW i \in 1..Len(t)
      PROVE  from(i) \in 1..Len(s) /\ s[from(i)] = t[i]
  <2>1. CASE i <= keep
    <3>1. from(i) = i
      BY <2>1
    <3>2. i \in 1..Len(s)
      BY <2>1, <1>n, <1>2
    <3>3. s[i] = a[i] /\ t[i] = a[i]
      <4>1. i \in 1..keep /\ i <= Len(a)
        BY <2>1, <1>n
      <4> QED BY <2>1, <3>2, <4>1, <1>2, <1>3, <1>q
    <3> HIDE DEF from
    <3> QED BY <3>1, <3>2, <3>3
  <2>2. CASE i > keep /\ i <= keep + Len(p)
    <3> DEFINE j == i - keep + Len(a) + lo - 1
               h == i - keep
    <3>1. h \in 1..(k - lo + 1) /\ lo + h - 1 = j - Len(a)
      <4>1. Len(p) = k - lo + 1
        BY <1>1
      <4> QED BY <2>2, <4>1, <1>n
    <3>2. from(i) = j
      BY <2>2
    <3>3. ~(j <= Len(a)) /\ j <= Len(a) + Len(b) /\ j \in 1..Len(s)
      <4>1. Len(s) = Len(a) + Len(b) + Len(c)
        BY <1>2
      <4> QED BY <2>2, <3>1, <4>1, <1>n
    <3> HIDE DEF from, j
    <3>4. s[j] = b[j - Len(a)]
      <4>1. s[j] = IF j <= Len(a) THEN a[j]
                   ELSE IF j <= Len(a) + Len(b) THEN b[j - Len(a)]
                   ELSE c[j - Len(a) - Len(b)]
        BY <1>2, <3>3
      <4> QED BY <3>3, <4>1
    <3>5. t[i] = p[h]
      <4>1. ~(i <= keep)
        BY <2>2, <1>n
      <4> QED BY <2>2, <4>1, <1>3
    <3>6. p[h] = b[lo + h - 1]
      <4> HIDE DEF h
      <4> QED BY <3>1, <1>1
    <3> QED BY <3>1, <3>2, <3>3, <3>4, <3>5, <3>6
  <2>3. CASE i > keep + Len(p)
    <3> DEFINE j == i - keep - Len(p) + Len(a) + Len(b)
    <3>1. from(i) = j
      BY <2>3, <1>n
    <3>2. /\ ~(j <= Len(a)) /\ ~(j <= Len(a) + Len(b)) /\ j \in 1..Len(s)
          /\ j - Len(a) - Len(b) = i - keep - Len(p)
      <4>1. /\ Len(s) = Len(a) + Len(b) + Len(c) /\ Len(t) = keep + Len(p) + Len(c)
            /\ i \in 1..Len(t)
        BY <1>2, <1>3
      <4> QED BY <2>3, <4>1, <1>n
    <3> HIDE DEF from, j
    <3>3. s[j] = c[j - Len(a) - Len(b)]
      <4>1. s[j] = IF j <= Len(a) THEN a[j]
                   ELSE IF j <= Len(a) + Len(b) THEN b[j - Len(a)]
                   ELSE c[j - Len(a) - Len(b)]
        BY <1>2, <3>2
      <4> QED BY <3>2, <4>1
    <3>4. t[i] = c[i - keep - Len(p)]
      <4>1. ~(i <= keep) /\ ~(i <= keep + Len(p))
        BY <2>3, <1>n
      <4> QED BY <4>1, <1>3
    <3> QED BY <3>1, <3>2, <3>3, <3>4
  <2> QED BY <2>1, <2>2, <2>3, <1>n
<1>5. ASSUME NEW i \in 1..Len(t), NEW j \in 1..Len(t), i < j
      PROVE  from(i) < from(j)
  <2>1. Len(p) = k - lo + 1
    BY <1>1
  <2>2. /\ from(i) = IF i <= keep THEN i
                     ELSE IF i <= keep + Len(p) THEN i - keep + Len(a) + lo - 1
                     ELSE i - keep - Len(p) + Len(a) + Len(b)
        /\ from(j) = IF j <= keep THEN j
                     ELSE IF j <= keep + Len(p) THEN j - keep + Len(a) + lo - 1
                     ELSE j - keep - Len(p) + Len(a) + Len(b)
    OBVIOUS
  <2> HIDE DEF from
  <2>3. CASE j <= keep
    BY <1>5, <1>n, <2>2, <2>3
  <2>4. CASE ~(j <= keep) /\ j <= keep + Len(p)
    BY <1>5, <1>n, <2>2, <2>4
  <2>5. CASE ~(j <= keep) /\ ~(j <= keep + Len(p))
    BY <1>5, <1>n, <2>1, <2>2, <2>5
  <2> QED BY <2>3, <2>4, <2>5
<1> HIDE DEF from
<1>6. DOMAIN t = 1..Len(t) /\ DOMAIN s = 1..Len(s)
  BY <1>2, <1>3
<1>7. \A m \in DOMAIN t : In(t[m], log)
  BY <1>0, <1>4, <1>6 DEF InMemoryOrder
<1>8. ASSUME NEW m \in DOMAIN t, NEW n \in DOMAIN t, m < n
      PROVE  \E i, j \in DOMAIN log : i < j /\ log[i] = t[m] /\ log[j] = t[n]
  <2>1. from(m) \in DOMAIN s /\ from(n) \in DOMAIN s /\ from(m) < from(n)
    BY <1>4, <1>5, <1>6, <1>8
  <2>2. s[from(m)] = t[m] /\ s[from(n)] = t[n]
    BY <1>4, <1>6
  <2>3. \E i, j \in DOMAIN log :
           i < j /\ log[i] = s[from(m)] /\ log[j] = s[from(n)]
    BY <1>0, <2>1 DEF InMemoryOrder
  <2> QED BY <2>2, <2>3
<1>9. InMemoryOrder(t, log)
  BY <1>7, <1>8 DEF InMemoryOrder
<1> QED BY <1>9 DEF t, p, q

\* Memory is in the order of memory.
LEMMA SelfOrder ==
    ASSUME NEW S, NEW log \in Seq(S) PROVE InMemoryOrder(log, log)
BY DEF InMemoryOrder, In

\* An event that is appended to memory may be appended to the lines.
LEMMA AppendKeepsOrder ==
    ASSUME NEW S, NEW lines \in Seq(S), NEW log \in Seq(S),
           InMemoryOrder(lines, log), NEW e \in S
    PROVE  InMemoryOrder(Append(lines, e), Append(log, e))
<1> DEFINE s == Append(lines, e)
           l == Append(log, e)
<1>1. s \in Seq(S) /\ Len(s) = Len(lines) + 1 /\ s[Len(lines) + 1] = e
        /\ \A i \in 1..Len(lines) : s[i] = lines[i]
  OBVIOUS
<1>2. l \in Seq(S) /\ Len(l) = Len(log) + 1 /\ l[Len(log) + 1] = e
        /\ \A i \in 1..Len(log) : l[i] = log[i]
  OBVIOUS
<1> HIDE DEF s, l
<1>3. /\ DOMAIN s = 1..(Len(lines) + 1) /\ DOMAIN lines = 1..Len(lines)
      /\ DOMAIN l = 1..(Len(log) + 1) /\ DOMAIN log = 1..Len(log)
      /\ Len(log) \in Nat /\ Len(lines) \in Nat
  BY <1>1, <1>2
<1>4. ASSUME NEW m \in DOMAIN s PROVE In(s[m], l)
  <2>1. CASE m = Len(lines) + 1
    BY <2>1, <1>1, <1>2, <1>3 DEF In
  <2>2. CASE m \in DOMAIN lines
    <3>1. PICK i \in DOMAIN log : log[i] = lines[m]
      BY <2>2 DEF InMemoryOrder, In
    <3>2. i \in DOMAIN l /\ l[i] = s[m]
      BY <2>2, <3>1, <1>1, <1>2, <1>3
    <3> QED BY <3>2 DEF In
  <2> QED BY <2>1, <2>2, <1>3
<1>5. ASSUME NEW m \in DOMAIN s, NEW n \in DOMAIN s, m < n
      PROVE  \E i, j \in DOMAIN l : i < j /\ l[i] = s[m] /\ l[j] = s[n]
  <2>0. m \in DOMAIN lines
    BY <1>3, <1>5
  <2>1. CASE n = Len(lines) + 1
    <3>1. PICK i \in DOMAIN log : log[i] = lines[m]
      BY <2>0 DEF InMemoryOrder, In
    <3>2. /\ i \in DOMAIN l /\ Len(log) + 1 \in DOMAIN l /\ i < Len(log) + 1
          /\ l[i] = s[m] /\ l[Len(log) + 1] = s[n]
      BY <2>0, <2>1, <3>1, <1>1, <1>2, <1>3
    <3> QED BY <3>2
  <2>2. CASE n \in DOMAIN lines
    <3>1. PICK i \in DOMAIN log, j \in DOMAIN log :
             i < j /\ log[i] = lines[m] /\ log[j] = lines[n]
      BY <2>0, <2>2, <1>5 DEF InMemoryOrder
    <3>2. /\ i \in DOMAIN l /\ j \in DOMAIN l
          /\ l[i] = s[m] /\ l[j] = s[n]
      BY <2>0, <2>2, <3>1, <1>1, <1>2, <1>3
    <3> QED BY <3>1, <3>2
  <2> QED BY <2>1, <2>2, <1>3
<1>6. InMemoryOrder(s, l)
  BY <1>4, <1>5 DEF InMemoryOrder
<1> QED BY <1>6 DEF s, l

-----------------------------------------------------------------------------
LEMMA InitIndInv == Init => IndInv
<1> SUFFICES ASSUME Init PROVE IndInv
  OBVIOUS
<1> USE DEF Init
<1>1. TypeOK
  BY EmptyIsSeq DEF TypeOK, Tails
<1>o. OpenHasLine
  BY DEF OpenHasLine
<1>2. disk \o batch \o queue = <<>>
  BY ConcatEmptySeq, EmptyIsSeq
<1>3. NothingMissing /\ QueueIsScheduled
  BY <1>2 DEF NothingMissing, QueueIsScheduled
<1>4. DOMAIN (<<>>) = {}
  OBVIOUS
<1>5. InMemoryOrder(<<>>, <<>>)
  BY <1>4 DEF InMemoryOrder
<1> QED BY <1>1, <1>o, <1>2, <1>3, <1>5 DEF IndInv, Lines

\* PartlyWritten, spelled out: some lines of the batch follow those that
\* stay, and a last line without its newline is among them.
LEMMA PartlyWrittenLines ==
    ASSUME TypeOK, OpenHasLine, NEW k \in 0..Len(batch), NEW next \in Nexts,
           PartlyWritten(k, next)
    PROVE  /\ tail' \in Tails
           /\ OpenHasLine'
           /\ \E keep \in 0..Len(disk), lo \in 1..2 : \E h \in 0..Len(batch) :
                /\ Leaves(keep, lo, h)
                /\ disk' = SubSeq(disk, 1, keep) \o SubSeq(batch, lo, h)
<1>0. /\ batch \in Seq(Event) /\ disk \in Seq(Event) /\ tail \in Tails
      /\ Len(batch) \in Nat /\ Len(disk) \in Nat
  BY DEF TypeOK
<1>1. CASE k = 0 /\ next = "nothing"
  <2>1. disk' = disk /\ tail' = tail
    BY <1>1 DEF PartlyWritten
  <2>2. SubSeq(disk, 1, Len(disk)) = disk /\ SubSeq(batch, 1, 0) = <<>>
          /\ disk \o <<>> = disk
    BY <1>0, SubSeqFull, SubSeqEmpty, ConcatEmptySeq
  <2>3. Leaves(Len(disk), 1, 0)
    BY <1>0 DEF Leaves
  <2>4. disk' = SubSeq(disk, 1, Len(disk)) \o SubSeq(batch, 1, 0)
    BY <2>1, <2>2
  <2> QED BY <1>0, <2>1, <2>3, <2>4 DEF OpenHasLine
<1>2. CASE ~(k = 0 /\ next = "nothing")
  <2> DEFINE m == IF next = "whole" THEN k + 1 ELSE k
             lines == SubSeq(batch, 1, m)
  <2>1. /\ disk' = Readable(lines)
        /\ tail' = IF next = "nothing" THEN "clean"
                   ELSE IF next = "part" \/ (k = 0 /\ tail # "clean") THEN "cut"
                   ELSE "open"
        /\ next # "nothing" => k < Len(batch)
    BY <1>2 DEF PartlyWritten
  <2>2. m \in 0..Len(batch) /\ Len(batch) > 0 /\ batch # <<>>
    BY <1>0, <1>2, <2>1 DEF Nexts
  <2>3. tail' \in Tails
    BY <2>1 DEF Tails
  <2>4. ASSUME tail' = "open" PROVE disk' # <<>>
    <3>1. m = k + 1 /\ m \in 1..Len(batch) /\ (k > 0 \/ tail = "clean")
      BY <1>0, <2>1, <2>2, <2>4 DEF Nexts
    <3> HIDE DEF m
    <3>2. /\ lines \in Seq(Event) /\ lines # <<>>
          /\ Len(Tail(lines)) = m - 1 /\ Tail(lines) = SubSeq(batch, 2, m)
      BY <1>0, <3>1, TailOfFirst
    <3>3. CASE tail = "clean"
      <4>1. disk' = disk \o lines
        BY <2>1, <3>3 DEF Readable
      <4>2. Len(lines) > 0
        BY <3>2, NonEmptyLen
      <4> QED BY <1>0, <3>2, <4>1, <4>2, NonEmptyEnd
    <3>4. CASE tail # "clean"
      <4> DEFINE kept == IF tail = "open" THEN SubSeq(disk, 1, Len(disk) - 1)
                         ELSE disk
                 new  == Tail(lines)
      <4>1. disk' = kept \o new
        BY <2>1, <3>2, <3>4 DEF Readable
      <4>2. kept \in Seq(Event)
        BY <1>0, SubSeqProperties
      <4>3. new \in Seq(Event) /\ Len(new) = m - 1
        BY <3>2
      <4>4. m - 1 > 0
        BY <1>0, <3>1, <3>4
      <4> HIDE DEF kept, new
      <4> QED BY <4>1, <4>2, <4>3, <4>4, NonEmptyEnd
    <3> QED BY <3>3, <3>4
  <2>5. \E keep \in 0..Len(disk), lo \in 1..2 : \E h \in 0..Len(batch) :
           /\ Leaves(keep, lo, h)
           /\ disk' = SubSeq(disk, 1, keep) \o SubSeq(batch, lo, h)
    <3> HIDE DEF m
    <3> QED BY <2>1, <2>2, ReadableLines
  <2> QED BY <2>3, <2>4, <2>5 DEF OpenHasLine
<1> QED BY <1>1, <1>2

-----------------------------------------------------------------------------
\* The type invariant, its Boolean part apart.
FlagsOK == timer \in BOOLEAN /\ damaged \in BOOLEAN

DataOK ==
    /\ events \in Seq(Event) /\ queue \in Seq(Event)
    /\ batch \in Seq(Event)  /\ disk \in Seq(Event)
    /\ flushes \in Nat /\ tail \in Tails
    /\ pendingIO \in {"idle", "rewriting", "rejected"}

LEMMA FlagsStep == ASSUME TypeOK, [Next]_vars PROVE FlagsOK'
<1> FlagsOK /\ batch \in Seq(Event)
  BY DEF TypeOK, FlagsOK
<1> USE DEF FlagsOK
<1>1. ASSUME NEW e \in Event, AppendEvent(e) PROVE FlagsOK'
  BY <1>1, Zenon DEF AppendEvent, Enqueue
<1>2. CASE TimerFires
  BY <1>2, Zenon DEF TimerFires
<1>3. CASE StartFlush
  BY <1>3, Zenon DEF StartFlush
<1>4. CASE WriteSucceeds
  BY <1>4, Zenon DEF WriteSucceeds
<1>5. CASE WriteFails
  BY <1>5, Zenon DEF WriteFails
<1>6. CASE FlushPendingIO
  BY <1>6, Zenon DEF FlushPendingIO
<1>7. CASE RewriteSucceeds
  BY <1>7, Zenon DEF RewriteSucceeds
<1>8. CASE RewriteFails
  BY <1>8, Zenon DEF RewriteFails
<1>9. CASE Crash
  BY <1>9, Zenon DEF Crash
<1>10. CASE UNCHANGED vars
  BY <1>10, Zenon DEF vars
<1> QED BY <1>1, <1>2, <1>3, <1>4, <1>5, <1>6, <1>7, <1>8, <1>9, <1>10 DEF Next

LEMMA DataStep == ASSUME TypeOK, OpenHasLine, [Next]_vars PROVE DataOK' /\ OpenHasLine'
<1>0. DataOK
  BY DEF TypeOK, DataOK
<1>a. disk' = disk /\ tail' = tail => OpenHasLine'
  BY DEF OpenHasLine
<1> USE <1>0 DEF DataOK
<1>1. ASSUME NEW e \in Event, AppendEvent(e) PROVE DataOK' /\ OpenHasLine'
  BY <1>1, <1>a DEF AppendEvent, Enqueue
<1>2. CASE TimerFires
  BY <1>2, <1>a DEF TimerFires
<1>3. CASE StartFlush
  BY <1>3, <1>a, EmptyIsSeq DEF StartFlush
<1>b. ASSUME NEW keep \in 0..Len(disk), NEW lo \in 1..2, NEW h \in 0..Len(batch),
             disk' = SubSeq(disk, 1, keep) \o SubSeq(batch, lo, h)
      PROVE  disk' \in Seq(Event)
  <2>1. SubSeq(disk, 1, keep) \in Seq(Event) /\ SubSeq(batch, lo, h) \in Seq(Event)
    BY SubSeqProperties
  <2> QED BY <1>b, <2>1, ConcatProperties
<1>4. CASE WriteSucceeds
  <2>1. disk' \in Seq(Event)
    BY <1>4, <1>b, WrittenLines
  <2> QED BY <1>4, <2>1, EmptyIsSeq DEF WriteSucceeds, Tails, OpenHasLine
<1>5. ASSUME NEW k \in 0..Len(batch), NEW next \in Nexts, PartlyWritten(k, next)
      PROVE  disk' \in Seq(Event) /\ tail' \in Tails /\ OpenHasLine'
  BY <1>5, <1>b, PartlyWrittenLines
<1>6. CASE WriteFails
  <2>1. PICK k \in 0..(Len(batch) - 1), next \in Nexts : PartlyWritten(k, next)
    BY <1>6 DEF WriteFails
  <2>2. k \in 0..Len(batch)
    OBVIOUS
  <2>3. disk' \in Seq(Event) /\ tail' \in Tails /\ OpenHasLine'
    BY <1>5, <2>1, <2>2
  <2> QED BY <1>6, <2>3, EmptyIsSeq DEF WriteFails
<1>7. CASE FlushPendingIO
  BY <1>7, <1>a DEF FlushPendingIO
<1>8. CASE RewriteSucceeds
  BY <1>8, <1>a DEF RewriteSucceeds
<1>9. CASE RewriteFails
  BY <1>9, <1>a DEF RewriteFails
<1>10. CASE Crash
  <2>1. disk' \in Seq(Event) /\ tail' \in Tails /\ OpenHasLine'
    BY <1>5, <1>10 DEF Crash
  <2> QED BY <1>10, <2>1, EmptyIsSeq DEF Crash
<1>11. CASE UNCHANGED vars
  BY <1>11, <1>a DEF vars
<1> QED BY <1>1, <1>2, <1>3, <1>4, <1>6, <1>7, <1>8, <1>9, <1>10, <1>11 DEF Next

LEMMA TypeStep ==
    ASSUME TypeOK, OpenHasLine, [Next]_vars PROVE TypeOK' /\ OpenHasLine'
BY FlagsStep, DataStep DEF TypeOK, FlagsOK, DataOK

-----------------------------------------------------------------------------
LEMMA NothingMissingStep ==
    ASSUME TypeOK, TypeOK', NothingMissing, [Next]_vars PROVE NothingMissing'
<1> USE DEF NothingMissing
<1>1. ASSUME NEW e \in Event, AppendEvent(e) PROVE NothingMissing'
  <2>1. queue' = queue \o <<e>> /\ events' = events \o <<e>>
    BY <1>1, AppendIsConcat DEF AppendEvent, Enqueue, TypeOK
  <2>2. <<e>> \in Seq(Event) /\ queue \in Seq(Event)
          /\ disk \o batch \in Seq(Event)
    BY ConcatProperties DEF TypeOK
  <2>3. disk \o batch \o (queue \o <<e>>) = (disk \o batch \o queue) \o <<e>>
    BY <2>2, ConcatAssociative, SMTT(30)
  <2> QED BY <1>1, <2>1, <2>3 DEF AppendEvent
<1>2. CASE TimerFires
  BY <1>2 DEF TimerFires
<1>3. CASE StartFlush
  <2>1. disk \o <<>> = disk /\ disk \o queue \in Seq(Event)
    BY ConcatEmptySeq, ConcatProperties DEF TypeOK
  <2>2. (disk \o queue) \o <<>> = disk \o queue
    BY <2>1, ConcatEmptySeq
  <2> QED BY <1>3, <2>1, <2>2 DEF StartFlush
<1>4. CASE WriteSucceeds
  <2>1. CASE damaged \/ tail # "clean"
    BY <1>4, <2>1 DEF WriteSucceeds, TypeOK
  <2>2. CASE ~(damaged \/ tail # "clean")
    <3>1. disk' = disk \o batch /\ batch' = <<>>
      BY <1>4, <2>2 DEF WriteSucceeds, Readable
    <3>2. (disk \o batch) \o <<>> = disk \o batch
      BY ConcatEmptySeq, ConcatProperties DEF TypeOK
    <3> QED BY <1>4, <2>2, <3>1, <3>2 DEF WriteSucceeds
  <2> QED BY <2>1, <2>2
<1>5. CASE WriteFails
  BY <1>5 DEF WriteFails
<1>6. CASE FlushPendingIO \/ RewriteSucceeds \/ RewriteFails
  BY <1>6 DEF FlushPendingIO, RewriteSucceeds, RewriteFails
<1>7. CASE Crash
  <2>1. disk' \in Seq(Event)
    BY DEF TypeOK
  <2>2. disk' \o <<>> = disk'
    BY <2>1, ConcatEmptySeq
  <2> QED BY <1>7, <2>2 DEF Crash
<1>8. CASE UNCHANGED vars
  BY <1>8 DEF vars
<1> QED BY <1>1, <1>2, <1>3, <1>4, <1>5, <1>6, <1>7, <1>8 DEF Next

-----------------------------------------------------------------------------
LEMMA QueueIsScheduledStep ==
    ASSUME TypeOK, QueueIsScheduled, [Next]_vars PROVE QueueIsScheduled'
<1> USE DEF QueueIsScheduled, TypeOK
<1>1. ASSUME NEW e \in Event, AppendEvent(e) PROVE QueueIsScheduled'
  <2>1. timer' = TRUE \/ flushes' > 0
    BY <1>1 DEF AppendEvent, Enqueue
  <2> QED BY <2>1
<1>2. CASE TimerFires
  BY <1>2 DEF TimerFires
<1>3. CASE StartFlush
  BY <1>3 DEF StartFlush
<1>4. CASE WriteSucceeds \/ WriteFails
  BY <1>4 DEF WriteSucceeds, WriteFails
<1>5. CASE FlushPendingIO
  BY <1>5 DEF FlushPendingIO
<1>6. CASE RewriteSucceeds
  BY <1>6 DEF RewriteSucceeds
<1>7. CASE RewriteFails
  BY <1>7 DEF RewriteFails
<1>8. CASE Crash
  BY <1>8 DEF Crash
<1>9. CASE UNCHANGED vars
  BY <1>9 DEF vars
<1> QED BY <1>1, <1>2, <1>3, <1>4, <1>5, <1>6, <1>7, <1>8, <1>9 DEF Next

-----------------------------------------------------------------------------
LEMMA InMemoryOrderStep ==
    ASSUME TypeOK, TypeOK', OpenHasLine, InMemoryOrder(Lines, events), [Next]_vars
    PROVE  InMemoryOrder(Lines', events')
<1> USE DEF Lines
<1>0. /\ disk \in Seq(Event) /\ batch \in Seq(Event) /\ queue \in Seq(Event)
      /\ events \in Seq(Event) /\ disk' \in Seq(Event) /\ events' \in Seq(Event)
  BY DEF TypeOK
<1>1. ASSUME NEW e \in Event, AppendEvent(e)
      PROVE  InMemoryOrder(Lines', events')
  <2>1. queue' = queue \o <<e>> /\ events' = Append(events, e)
          /\ disk' = disk /\ batch' = batch
    BY <1>0, <1>1, AppendIsConcat DEF AppendEvent, Enqueue
  <2>2. <<e>> \in Seq(Event) /\ disk \o batch \in Seq(Event)
          /\ disk \o batch \o queue \in Seq(Event)
    BY <1>0, ConcatProperties
  <2>3. disk \o batch \o (queue \o <<e>>) = (disk \o batch \o queue) \o <<e>>
    BY ONLY <1>0, <2>2, ConcatAssociative, SMTT(30)
  <2>4. (disk \o batch \o queue) \o <<e>> = Append(disk \o batch \o queue, e)
    BY <2>2, AppendIsConcat
  <2>5. InMemoryOrder(Append(disk \o batch \o queue, e), Append(events, e))
    BY <1>0, <2>2, AppendKeepsOrder
  <2> QED BY <2>1, <2>3, <2>4, <2>5
<1>2. CASE UNCHANGED <<disk, batch, queue, events>>
  BY <1>2
<1>3. CASE TimerFires \/ FlushPendingIO \/ RewriteSucceeds \/ RewriteFails
             \/ UNCHANGED vars
  BY <1>2, <1>3 DEF TimerFires, FlushPendingIO, RewriteSucceeds, RewriteFails, vars
<1>4. CASE StartFlush
  <2>1. disk \o <<>> = disk /\ disk \o queue \in Seq(Event)
    BY <1>0, ConcatEmptySeq, ConcatProperties
  <2>2. (disk \o queue) \o <<>> = disk \o queue
    BY <2>1, ConcatEmptySeq
  <2> QED BY <1>4, <2>1, <2>2 DEF StartFlush
<1>5. ASSUME NEW keep \in 0..Len(disk), NEW lo \in 1..2, NEW k \in 0..Len(batch),
             Leaves(keep, lo, k),
             disk' = SubSeq(disk, 1, keep) \o SubSeq(batch, lo, k),
             batch' = <<>>, queue' = queue, events' = events
      PROVE  InMemoryOrder(Lines', events')
  <2>0. lo <= k + 1
    BY <1>5 DEF Leaves
  <2>1. InMemoryOrder(SubSeq(disk, 1, keep) \o SubSeq(batch, lo, k) \o queue, events)
    BY <1>0, <2>0, LossKeepsOrder
  <2>2. disk' \o <<>> = disk'
    BY <1>0, ConcatEmptySeq
  <2> QED BY <1>5, <2>1, <2>2
<1>6. CASE WriteSucceeds
  BY <1>5, <1>6, WrittenLines DEF WriteSucceeds
<1>7. CASE WriteFails
  <2>1. PICK k \in 0..(Len(batch) - 1), next \in Nexts : PartlyWritten(k, next)
    BY <1>7 DEF WriteFails
  <2>2. k \in 0..Len(batch)
    BY <1>0
  <2>3. PICK keep \in 0..Len(disk), lo \in 1..2 : \E h \in 0..Len(batch) :
           /\ Leaves(keep, lo, h)
           /\ disk' = SubSeq(disk, 1, keep) \o SubSeq(batch, lo, h)
    BY <2>1, <2>2, PartlyWrittenLines
  <2> QED BY <1>5, <1>7, <2>3 DEF WriteFails
<1>8. CASE Crash
  <2>1. disk' \o <<>> = disk' /\ (disk' \o <<>>) \o <<>> = disk' \o <<>>
    BY <1>0, ConcatEmptySeq
  <2>2. InMemoryOrder(disk', disk')
    BY <1>0, SelfOrder
  <2> QED BY <1>8, <2>1, <2>2 DEF Crash
<1> QED BY <1>1, <1>3, <1>4, <1>6, <1>7, <1>8 DEF Next

-----------------------------------------------------------------------------
\* The order of all lines contains the order of the lines on the disk.
LEMMA LinesOrderDisk ==
    ASSUME TypeOK, InMemoryOrder(Lines, events) PROVE DiskInMemoryOrder
<1>1. /\ Len(Lines) = Len(disk) + Len(batch) + Len(queue)
      /\ Lines \in Seq(Event)
      /\ \A i \in 1..Len(Lines) :
           Lines[i] = IF i <= Len(disk) THEN disk[i]
                      ELSE IF i <= Len(disk) + Len(batch) THEN batch[i - Len(disk)]
                      ELSE queue[i - Len(disk) - Len(batch)]
  BY ThreeParts DEF TypeOK, Lines
<1>2. Len(disk) \in Nat /\ Len(batch) \in Nat /\ Len(queue) \in Nat
        /\ DOMAIN disk = 1..Len(disk) /\ DOMAIN Lines = 1..Len(Lines)
  BY <1>1 DEF TypeOK
<1>3. \A i \in DOMAIN disk : i \in DOMAIN Lines /\ Lines[i] = disk[i]
  BY <1>1, <1>2
<1> QED BY <1>3 DEF InMemoryOrder, DiskInMemoryOrder

LEMMA IndInvStep == ASSUME IndInv, [Next]_vars PROVE IndInv'
<1>1. TypeOK' /\ OpenHasLine'
  BY TypeStep DEF IndInv
<1>2. NothingMissing'
  BY <1>1, NothingMissingStep DEF IndInv
<1>3. QueueIsScheduled'
  BY QueueIsScheduledStep DEF IndInv
<1>4. InMemoryOrder(Lines', events')
  BY <1>1, InMemoryOrderStep DEF IndInv
<1> QED BY <1>1, <1>2, <1>3, <1>4 DEF IndInv

LEMMA Inductive == Spec => []IndInv
BY InitIndInv, IndInvStep, PTL DEF Spec

(***************************************************************************)
(* The state of the writer is well typed.                                  *)
(***************************************************************************)
THEOREM TypeCorrect == Spec => []TypeOK
<1>1. IndInv => TypeOK
  BY DEF IndInv
<1> QED BY <1>1, Inductive, PTL

(***************************************************************************)
(* Whatever flushes, timers, shutdowns and crashes interleave, a line is   *)
(* lost only by a failed write or at an unterminated end of the file.      *)
(***************************************************************************)
THEOREM NothingMissingAlways == Spec => []NothingMissing
<1>1. IndInv => NothingMissing
  BY DEF IndInv
<1> QED BY <1>1, Inductive, PTL

(***************************************************************************)
(* A queued line always has a timer, a flush or a flushPendingIO to take   *)
(* it: appendFlushTimer and appendWriteInFlight never strand the queue.    *)
(***************************************************************************)
THEOREM QueueNeverStranded == Spec => []QueueIsScheduled
<1>1. IndInv => QueueIsScheduled
  BY DEF IndInv
<1> QED BY <1>1, Inductive, PTL

(***************************************************************************)
(* Replaying the file never reorders what memory has seen.                 *)
(***************************************************************************)
THEOREM DiskOrder == Spec => []DiskInMemoryOrder
<1>1. IndInv => DiskInMemoryOrder
  BY LinesOrderDisk DEF IndInv
<1> QED BY <1>1, Inductive, PTL

-----------------------------------------------------------------------------
\* Of the lines still to be written the batch comes first, and what follows
\* it is the queue.
LEMMA Unwritten ==
    ASSUME NEW b \in Seq(Event), NEW q \in Seq(Event),
           NEW k \in 0..Len(b), NEW lo \in 1..2, lo <= k + 1
    PROVE  /\ b \o q \in Seq(Event)
           /\ Len(b) \in 0..Len(b \o q)
           /\ SubSeq(b \o q, lo, k) = SubSeq(b, lo, k)
           /\ SubSeq(b \o q, Len(b) + 1, Len(b \o q)) = q
<1> DEFINE s == b \o q
<1>1. /\ s \in Seq(Event) /\ Len(s) = Len(b) + Len(q)
      /\ \A i \in 1..(Len(b) + Len(q)) :
           s[i] = IF i <= Len(b) THEN b[i] ELSE q[i - Len(b)]
  BY ConcatProperties
<1>n. Len(b) \in Nat /\ Len(q) \in Nat
  OBVIOUS
<1> HIDE DEF s
<1>2. SubSeq(s, lo, k) = SubSeq(b, lo, k)
  <2>1. /\ SubSeq(s, lo, k) \in Seq(Event)
        /\ Len(SubSeq(s, lo, k)) = k - lo + 1
        /\ \A i \in 1..(k - lo + 1) : SubSeq(s, lo, k)[i] = s[lo + i - 1]
    BY <1>1, <1>n, SubSeqProperties
  <2>2. /\ SubSeq(b, lo, k) \in Seq(Event)
        /\ Len(SubSeq(b, lo, k)) = k - lo + 1
        /\ \A i \in 1..(k - lo + 1) : SubSeq(b, lo, k)[i] = b[lo + i - 1]
    BY <1>n, SubSeqProperties
  <2>3. \A i \in 1..(k - lo + 1) : s[lo + i - 1] = b[lo + i - 1]
    BY <1>1, <1>n
  <2> QED BY <2>1, <2>2, <2>3, SeqEqual
<1>3. SubSeq(s, Len(b) + 1, Len(s)) = q
  <2>1. /\ SubSeq(s, Len(b) + 1, Len(s)) \in Seq(Event)
        /\ Len(SubSeq(s, Len(b) + 1, Len(s))) = Len(q)
        /\ \A i \in 1..Len(q) :
             SubSeq(s, Len(b) + 1, Len(s))[i] = s[Len(b) + i]
    BY <1>1, <1>n, SubSeqProperties, SMTT(30)
  <2>2. ASSUME NEW i \in 1..Len(q) PROVE s[Len(b) + i] = q[i]
    <3>1. Len(b) + i \in 1..(Len(b) + Len(q)) /\ ~(Len(b) + i <= Len(b))
      BY <1>n
    <3>2. (Len(b) + i) - Len(b) = i
      BY <1>n
    <3> QED BY <1>1, <3>1, <3>2
  <2> QED BY <2>1, <2>2, SeqEqual
<1>4. Len(b) \in 0..Len(s)
  BY <1>1, <1>n
<1> QED BY <1>1, <1>2, <1>3, <1>4 DEF s

LEMMA InitRefines == Init => Abstract!LogInit
<1>1. <<>> \o <<>> = <<>>
  BY ConcatEmptySeq, EmptyIsSeq
<1> QED BY <1>1 DEF Init, Abstract!LogInit

LEMMA StepRefines ==
    ASSUME TypeOK, TypeOK', OpenHasLine, [Next]_vars
    PROVE  [Abstract!LogNext]_(Abstract!logVars)
<1>0. /\ disk \in Seq(Event) /\ batch \in Seq(Event) /\ queue \in Seq(Event)
      /\ events \in Seq(Event) /\ disk' \in Seq(Event)
  BY DEF TypeOK
<1>1. ASSUME NEW e \in Event, AppendEvent(e) PROVE Abstract!LogNext
  <2>1. queue' = queue \o <<e>> /\ events' = events \o <<e>>
    BY <1>0, <1>1, AppendIsConcat DEF AppendEvent, Enqueue
  <2>2. <<e>> \in Seq(Event) /\ DOMAIN (<<e>>) = {1} /\ <<e>>[1] = e
    OBVIOUS
  <2>3. batch \o (queue \o <<e>>) = (batch \o queue) \o <<e>>
    BY ONLY <1>0, <2>2, ConcatAssociative, SMTT(30)
  <2>4. ~Abstract!In(e, events)
    BY <1>1 DEF AppendEvent, In, Abstract!In
  <2>5. Abstract!AppendEvents(<<e>>)
    BY <1>1, <2>1, <2>2, <2>3, <2>4 DEF AppendEvent, Abstract!AppendEvents
  <2> QED BY <2>5 DEF Abstract!LogNext
<1>2. CASE UNCHANGED <<events, batch, queue, disk>>
  BY <1>2 DEF Abstract!logVars
<1>3. CASE TimerFires \/ FlushPendingIO \/ RewriteSucceeds \/ RewriteFails
             \/ UNCHANGED vars
  BY <1>2, <1>3 DEF TimerFires, FlushPendingIO, RewriteSucceeds, RewriteFails, vars
<1>4. CASE StartFlush
  <2>1. <<>> \o queue = queue /\ queue \o <<>> = queue
    BY <1>0, ConcatEmptySeq
  <2> QED BY <1>4, <2>1 DEF StartFlush, Abstract!logVars
<1>5. ASSUME NEW keep \in 0..Len(disk), NEW lo \in 1..2, NEW k \in 0..Len(batch),
             Leaves(keep, lo, k),
             disk' = SubSeq(disk, 1, keep) \o SubSeq(batch, lo, k), batch' = <<>>,
             \/ queue' = queue /\ events' = events /\ batch # <<>>
             \/ queue' = <<>> /\ events' = disk'
      PROVE  Abstract!LogNext
  <2> DEFINE n == Len(batch)
  <2>a. /\ Len(batch) \in 0..Len(batch \o queue)
        /\ SubSeq(batch \o queue, lo, k) = SubSeq(batch, lo, k)
        /\ SubSeq(batch \o queue, Len(batch) + 1, Len(batch \o queue)) = queue
    <3>1. k \in 0..Len(batch) /\ lo \in 1..2 /\ lo <= k + 1
      BY <1>5 DEF Leaves
    <3> QED BY <1>0, <3>1, Unwritten, SMTT(30)
  <2>m. Abstract!Meets(keep, lo)
    BY <1>0, <1>5 DEF Leaves, Abstract!Meets
  <2>1. /\ n \in 0..Len(batch \o queue)
        /\ disk' = SubSeq(disk, 1, keep) \o SubSeq(batch \o queue, lo, k)
        /\ SubSeq(batch \o queue, n + 1, Len(batch \o queue)) = queue
    BY <1>5, <2>a
  <2>2. <<>> \o queue = queue /\ (<<>> \o <<>>) = <<>>
    BY <1>0, ConcatEmptySeq, EmptyIsSeq
  <2>n. n \in Nat
    BY <1>0
  <2>3. CASE queue' = queue /\ events' = events /\ batch # <<>>
    <3>1. Abstract!Write(n, keep, lo, k)
      BY <1>5, <2>m, <2>1, <2>2, <2>3 DEF Abstract!Write
    <3>2. n \in 1..Len(batch \o queue) /\ k \in 0..n
      BY <1>0, <1>5, <2>1, <2>3, <2>n, NonEmptyLen
    <3> HIDE DEF n
    <3> QED BY <1>5, <3>1, <3>2 DEF Abstract!LogNext, Abstract!WriteSome
  <2>4. CASE queue' = <<>> /\ events' = disk'
    <3>1. Abstract!Restart(keep, lo, k)
      BY <1>5, <2>m, <2>1, <2>2, <2>4 DEF Abstract!Restart
    <3>2. k \in 0..Len(batch \o queue)
      BY <1>0, <1>5, <2>1, <2>n, ConcatProperties
    <3> QED BY <1>5, <3>1, <3>2 DEF Abstract!LogNext, Abstract!RestartSome
  <2> QED BY <1>5, <2>3, <2>4
<1>6. CASE WriteSucceeds
  BY <1>5, <1>6, WrittenLines DEF WriteSucceeds
<1>7. CASE WriteFails
  <2>1. PICK k \in 0..(Len(batch) - 1), next \in Nexts : PartlyWritten(k, next)
    BY <1>7 DEF WriteFails
  <2>2. k \in 0..Len(batch)
    BY <1>0
  <2>3. PICK keep \in 0..Len(disk), lo \in 1..2 : \E h \in 0..Len(batch) :
           /\ Leaves(keep, lo, h)
           /\ disk' = SubSeq(disk, 1, keep) \o SubSeq(batch, lo, h)
    BY <2>1, <2>2, PartlyWrittenLines
  <2> QED BY <1>5, <1>7, <2>3 DEF WriteFails
<1>8. CASE Crash
  <2>1. PICK k \in 0..Len(batch), next \in Nexts : PartlyWritten(k, next)
    BY <1>8 DEF Crash
  <2>2. PICK keep \in 0..Len(disk), lo \in 1..2 : \E h \in 0..Len(batch) :
           /\ Leaves(keep, lo, h)
           /\ disk' = SubSeq(disk, 1, keep) \o SubSeq(batch, lo, h)
    BY <2>1, PartlyWrittenLines
  <2> QED BY <1>5, <1>8, <2>2 DEF Crash
<1> QED BY <1>1, <1>3, <1>4, <1>6, <1>7, <1>8 DEF Next

(***************************************************************************)
(* The batched writer implements DurableLog: whatever its flushes, errors  *)
(* and crashes do to the file, they do no more to it than the abstract log *)
(* that SideEffectIntent and OrgCoordinator are written on.                *)
(***************************************************************************)
THEOREM Implements == Spec => ImplementsDurableLog
<1>1. IndInv /\ IndInv' /\ [Next]_vars => [Abstract!LogNext]_(Abstract!logVars)
  BY StepRefines DEF IndInv
<1> QED BY <1>1, InitRefines, Inductive, PTL
        DEF Spec, ImplementsDurableLog, Abstract!LogSpec
=============================================================================
