------------------------ MODULE NetworkMarketProofs ------------------------
(***************************************************************************)
(* The safety properties of NetworkMarket for any peers and bounds, from   *)
(* one invariant of two halves.  A state of the coordinator, in memory or  *)
(* in the log, is sound: its proposals, awards and deliveries agree with   *)
(* what was ever drawn, chosen and relayed, and its voided bids rest on    *)
(* revoked agreements.  And whatever outbox, relay and providers know of a *)
(* number comes from a proposal that had this number and was awarded to    *)
(* the peer in question; work that the relay has not confirmed still has   *)
(* its entry in outbox and file, or has expired.                           *)
(***************************************************************************)
EXTENDS NetworkMarket, SequenceTheorems, TLAPS

Agreement == [provider : Provider, number : Number, revoked : BOOLEAN]

\* What a state of the coordinator says, given what was drawn, chosen and
\* relayed.
Recorded(m, d, c, r) ==
    \A n \in Number :
        /\ m.proposals[n] # 0 =>
             /\ n <= m.last
             /\ m.proposals[n] \in DOMAIN d /\ d[m.proposals[n]] = n
        /\ m.awards[n] # NoBid =>
             /\ m.proposals[n] # 0 /\ m.awards[n].number = n
             /\ <<m.proposals[n], m.awards[n].provider>> \in c
        /\ m.deliveries[n] # "none" => m.awards[n] # NoBid
        /\ m.deliveries[n] = "delivered" => n \in r

\* The bids of the set B rest on agreements of m with their peers.
Based(m, B) ==
    \A x \in B : x.agreement \in DOMAIN m.agreements
                   /\ m.agreements[x.agreement].provider = x.provider

Void(m) ==
    \A x \in m.voided : x.agreement \in DOMAIN m.agreements
                          /\ m.agreements[x.agreement].revoked
                          /\ m.awards[x.number] # x

Sound(m, d, c, r) ==
    m \in Coordinator /\ Recorded(m, d, c, r) /\ Based(m, m.bids) /\ Void(m)

\* The proposal of the entry e had the number n and was awarded to its peer.
Meant(e, n, d, c) ==
    /\ <<e.proposal, e.to>> \in c
    /\ e.proposal \in DOMAIN d /\ d[e.proposal] = n

EntryMeant(n) ==
    /\ outbox[n] # NoEntry => Meant(outbox[n], n, drawn, chosen) /\ file[n] = outbox[n]
    /\ file[n] # NoEntry => Meant(file[n], n, drawn, chosen)

Served(n) == \E p \in Proposal, b \in Provider :
                 <<p, b>> \in worked /\ p \in DOMAIN drawn /\ drawn[p] = n

Confirmed(p, b) ==
    \/ drawn[p] \in relayed
    \/ p \in overdue
    \/ outbox[drawn[p]] = [proposal |-> p, to |-> b]

DeliveryInv ==
    /\ Len(drawn) <= MaxProposals
    /\ \A n \in sending : mem.awards[n] # NoBid
    /\ \A n \in Number : EntryMeant(n)
    /\ \A n \in relayed : n \in others \/ Served(n)
    /\ \A n \in Number, b \in Provider :
         <<n, b>> \in done => \E p \in Proposal :
             <<p, b>> \in worked /\ p \in DOMAIN drawn /\ drawn[p] = n
    /\ \A p \in Proposal, b \in Provider :
         <<p, b>> \in worked => <<p, b>> \in chosen /\ p \in DOMAIN drawn /\ Confirmed(p, b)
    /\ OneWorker

MarketInv ==
    /\ TypeOK
    /\ Sound(mem, drawn, chosen, relayed)
    /\ Sound(disk, drawn, chosen, relayed)
    /\ DeliveryInv

-----------------------------------------------------------------------------
(* States of the coordinator.                                              *)

LEMMA NoBidFacts ==
    /\ NoBid \notin Bid
    /\ \A x \in Bid : x.number \in Number /\ x.provider \in Provider /\ x # NoBid
    /\ \A e \in Entry : e.proposal \in Proposal /\ e.to \in Provider /\ e # NoEntry
<1>1. \A x \in Bid : x.number \in Number /\ x.provider \in Provider
  BY DEF Bid
<1>2. \A x \in Bid : x # NoBid
  <2>1. NoBid.number = 0 /\ 0 \notin Number
    BY MarketAssumption DEF NoBid, Number
  <2> QED  BY <1>1, <2>1
<1>3. \A e \in Entry : e.proposal \in Proposal /\ e.to \in Provider
  BY DEF Entry
<1>4. \A e \in Entry : e # NoEntry
  <2>1. NoEntry.proposal = 0 /\ 0 \notin Proposal
    BY MarketAssumption DEF NoEntry, Proposal
  <2> QED  BY <1>3, <2>1
<1> QED  BY <1>1, <1>2, <1>3, <1>4

\* What is sound stays so when more is drawn, chosen and relayed.
LEMMA SoundGrows ==
    ASSUME NEW m, NEW d, NEW c, NEW r, NEW d2, NEW c2, NEW r2,
           Sound(m, d, c, r), c \subseteq c2, r \subseteq r2,
           \A p \in DOMAIN d : p \in DOMAIN d2 /\ d2[p] = d[p]
    PROVE  Sound(m, d2, c2, r2)
BY DEF Sound, Recorded

\* The fields of a state.
LEMMA Fields ==
    ASSUME NEW m \in Coordinator
    PROVE  /\ m.trust \in [Provider -> {"known", "blocked"}]
           /\ m.proposals \in [Number -> Proposal \cup {0}]
           /\ m.agreements \in Seq(Agreement)
           /\ m.bids \in SUBSET Bid
           /\ m.awards \in [Number -> Bid \cup {NoBid}]
           /\ m.deliveries \in [Number -> {"none", "pending_delivery", "delivered", "failed"}]
           /\ m.last \in Number \cup {0}
           /\ m.voided \in SUBSET Bid
BY DEF Coordinator, Agreement

LEMMA SoundTrust ==
    ASSUME NEW m, NEW d, NEW c, NEW r, Sound(m, d, c, r),
           NEW b \in Provider, NEW t \in {"known", "blocked"}
    PROVE  Sound([m EXCEPT !.trust[b] = t], d, c, r)
<1> DEFINE k == [m EXCEPT !.trust[b] = t]
<1>1. m \in Coordinator
  BY DEF Sound
<1>2. k \in Coordinator
  BY <1>1 DEF Coordinator
<1>3. /\ k.proposals = m.proposals /\ k.agreements = m.agreements /\ k.bids = m.bids
      /\ k.awards = m.awards /\ k.deliveries = m.deliveries /\ k.last = m.last
      /\ k.voided = m.voided
  BY <1>1 DEF Coordinator
<1> HIDE DEF k
<1>4. Sound(k, d, c, r)
  BY <1>2, <1>3 DEF Sound, Recorded, Based, Void
<1> QED  BY <1>4 DEF k

LEMMA RevokedFacts ==
    ASSUME NEW m \in Coordinator, NEW b, NEW k \in Nat
    PROVE  LET a == Revoked(m, b, k) IN
           /\ a \in Coordinator
           /\ a.trust = m.trust
           /\ a.proposals = m.proposals /\ a.bids = m.bids /\ a.awards = m.awards
           /\ a.deliveries = m.deliveries /\ a.last = m.last /\ a.voided = m.voided
           /\ DOMAIN a.agreements = DOMAIN m.agreements
           /\ \A i \in DOMAIN m.agreements :
                /\ a.agreements[i].provider = m.agreements[i].provider
                /\ m.agreements[i].revoked => a.agreements[i].revoked
                /\ m.agreements[i].provider = b /\ i <= k => a.agreements[i].revoked
<1> DEFINE f == [i \in DOMAIN m.agreements |->
                   IF m.agreements[i].provider = b /\ i <= k
                   THEN [m.agreements[i] EXCEPT !.revoked = TRUE] ELSE m.agreements[i]]
           a == Revoked(m, b, k)
<1>1. m.agreements \in Seq(Agreement)
  BY Fields
<1>2. /\ Len(m.agreements) \in Nat /\ DOMAIN m.agreements = 1 .. Len(m.agreements)
      /\ \A i \in DOMAIN m.agreements : m.agreements[i] \in Agreement
  BY <1>1, LenProperties, ElementOfSeq
<1>3. \A i \in DOMAIN m.agreements : f[i] \in Agreement
  BY <1>2 DEF Agreement
<1>4. f \in [1 .. Len(m.agreements) -> Agreement]
  BY <1>2, <1>3
<1>5. f \in Seq(Agreement)
  BY <1>2, <1>4, SeqDef
<1>6. a = [m EXCEPT !.agreements = f]
  BY DEF Revoked
<1>7. \A i \in DOMAIN m.agreements :
        /\ f[i].provider = m.agreements[i].provider
        /\ m.agreements[i].revoked => f[i].revoked
        /\ m.agreements[i].provider = b /\ i <= k => f[i].revoked
  <2> TAKE i \in DOMAIN m.agreements
  <2>1. m.agreements[i] \in Agreement
    BY <1>2
  <2>2. [m.agreements[i] EXCEPT !.revoked = TRUE].revoked = TRUE
    BY <2>1 DEF Agreement
  <2>3. [m.agreements[i] EXCEPT !.revoked = TRUE].provider = m.agreements[i].provider
    BY <2>1 DEF Agreement
  <2> QED  BY <2>2, <2>3
<1>8. DOMAIN f = DOMAIN m.agreements
  OBVIOUS
<1> HIDE DEF f
<1>9. a \in Coordinator /\ a.agreements = f
  BY <1>5, <1>6 DEF Coordinator, Agreement
<1>10. /\ a.trust = m.trust /\ a.proposals = m.proposals /\ a.bids = m.bids
       /\ a.awards = m.awards /\ a.deliveries = m.deliveries /\ a.last = m.last
       /\ a.voided = m.voided
  BY <1>6 DEF Coordinator
<1> HIDE DEF a
<1>11. /\ DOMAIN a.agreements = DOMAIN m.agreements
       /\ \A i \in DOMAIN m.agreements :
                /\ a.agreements[i].provider = m.agreements[i].provider
                /\ m.agreements[i].revoked => a.agreements[i].revoked
                /\ m.agreements[i].provider = b /\ i <= k => a.agreements[i].revoked
  BY <1>7, <1>8, <1>9
<1> QED  BY <1>9, <1>10, <1>11 DEF a

LEMMA SoundRevoked ==
    ASSUME NEW m, NEW d, NEW c, NEW r, Sound(m, d, c, r), NEW b, NEW k \in Nat
    PROVE  Sound(Revoked(m, b, k), d, c, r)
<1> DEFINE a == Revoked(m, b, k)
<1>1. m \in Coordinator
  BY DEF Sound
<1>2. /\ a \in Coordinator
      /\ a.proposals = m.proposals /\ a.bids = m.bids /\ a.awards = m.awards
      /\ a.deliveries = m.deliveries /\ a.last = m.last /\ a.voided = m.voided
      /\ DOMAIN a.agreements = DOMAIN m.agreements
      /\ \A i \in DOMAIN m.agreements :
           /\ a.agreements[i].provider = m.agreements[i].provider
           /\ m.agreements[i].revoked => a.agreements[i].revoked
  BY <1>1, RevokedFacts
<1> HIDE DEF a
<1>3. Recorded(a, d, c, r)
  BY <1>2 DEF Sound, Recorded
<1>4. Based(a, a.bids) /\ Void(a)
  BY <1>2 DEF Sound, Based, Void
<1>5. Sound(a, d, c, r)
  BY <1>2, <1>3, <1>4 DEF Sound
<1> QED  BY <1>5 DEF a

\* The state after the peer b was blocked, with its waiting bids voided.
LEMMA SoundBlocked ==
    ASSUME NEW m, NEW d, NEW c, NEW r, Sound(m, d, c, r), NEW b \in Provider,
           NEW V, V \subseteq {x \in m.bids : x.provider = b /\ m.awards[x.number] # x}
    PROVE  Sound([Revoked([m EXCEPT !.trust[b] = "blocked"], b, Len(m.agreements))
                    EXCEPT !.voided = @ \cup V], d, c, r)
<1> DEFINE t == [m EXCEPT !.trust[b] = "blocked"]
           a == Revoked(t, b, Len(m.agreements))
           k == [a EXCEPT !.voided = @ \cup V]
<1>1. m \in Coordinator /\ m.agreements \in Seq(Agreement) /\ m.bids \in SUBSET Bid
  BY Fields DEF Sound
<1>2. Len(m.agreements) \in Nat /\ DOMAIN m.agreements = 1 .. Len(m.agreements)
  BY <1>1, LenProperties
<1>3. /\ t \in Coordinator /\ t.agreements = m.agreements /\ t.bids = m.bids
      /\ t.awards = m.awards
  BY <1>1 DEF Coordinator
<1>4. Sound(t, d, c, r)
  BY SoundTrust
<1> HIDE DEF t
<1>5. Sound(a, d, c, r)
  BY <1>2, <1>4, SoundRevoked
<1>6. /\ a \in Coordinator /\ a.bids = m.bids /\ a.awards = m.awards
      /\ DOMAIN a.agreements = DOMAIN m.agreements
      /\ \A i \in DOMAIN m.agreements :
           /\ a.agreements[i].provider = m.agreements[i].provider
           /\ m.agreements[i].provider = b => a.agreements[i].revoked
  BY <1>2, <1>3, RevokedFacts
<1> HIDE DEF a
<1>7. \A x \in V : /\ x \in m.bids /\ x.provider = b /\ m.awards[x.number] # x
                   /\ x.agreement \in DOMAIN m.agreements
                   /\ m.agreements[x.agreement].provider = b
  BY DEF Sound, Based
<1>8. V \subseteq Bid /\ a.voided \in SUBSET Bid
  BY <1>1, <1>6, <1>7, Fields
<1>9. k \in Coordinator /\ k.voided = a.voided \cup V
  BY <1>6, <1>8 DEF Coordinator
<1>10. /\ k.proposals = a.proposals /\ k.agreements = a.agreements /\ k.bids = a.bids
       /\ k.awards = a.awards /\ k.deliveries = a.deliveries /\ k.last = a.last
  BY <1>6 DEF Coordinator
<1> HIDE DEF k
<1>11. Recorded(k, d, c, r) /\ Based(k, k.bids)
  BY <1>5, <1>10 DEF Sound, Recorded, Based
<1>12. Void(k)
  BY <1>5, <1>6, <1>7, <1>9, <1>10 DEF Sound, Void
<1>13. Sound(k, d, c, r)
  BY <1>9, <1>11, <1>12 DEF Sound
<1> QED  BY <1>13 DEF k, a, t

LEMMA SoundProposed ==
    ASSUME NEW m, NEW d, NEW c, NEW r, Sound(m, d, c, r), d \in Seq(Number),
           Len(d) < MaxProposals, NEW n \in Number, n > m.last
    PROVE  Sound([m EXCEPT !.proposals[n] = Len(d) + 1, !.last = n], Append(d, n), c, r)
<1> DEFINE k == [m EXCEPT !.proposals[n] = Len(d) + 1, !.last = n]
           e == Append(d, n)
<1>1. m \in Coordinator /\ m.proposals \in [Number -> Proposal \cup {0}]
      /\ m.last \in Number \cup {0}
  BY Fields DEF Sound
<1>0. n \in Nat /\ m.last \in Nat /\ \A q \in Number : q \in Nat
  BY <1>1, MarketAssumption DEF Number
<1>2. Len(d) + 1 \in Proposal
  BY MarketAssumption DEF Proposal
<1>3. k.proposals = [m.proposals EXCEPT ![n] = Len(d) + 1] /\ k.last = n
  BY <1>1 DEF Coordinator
<1>4. /\ k.agreements = m.agreements /\ k.bids = m.bids
      /\ k.awards = m.awards /\ k.deliveries = m.deliveries
      /\ k.voided = m.voided
  BY <1>1 DEF Coordinator
<1>5. k \in Coordinator
  BY <1>1, <1>2 DEF Coordinator
<1>6. /\ DOMAIN d = 1 .. Len(d) /\ DOMAIN e = 1 .. (Len(d) + 1)
      /\ \A p \in DOMAIN d : p \in DOMAIN e /\ e[p] = d[p]
      /\ e[Len(d) + 1] = n
  OBVIOUS
<1>7. m.proposals[n] = 0
  <2>1. ~(n <= m.last)
    BY <1>0
  <2> QED  BY <2>1 DEF Sound, Recorded
<1>8. \A q \in Number : q # n => k.proposals[q] = m.proposals[q]
  BY <1>1, <1>3
<1>9. k.proposals[n] = Len(d) + 1
  BY <1>1, <1>3
<1> HIDE DEF k, e
<1>10. Recorded(k, e, c, r)
  <2> SUFFICES ASSUME NEW q \in Number
               PROVE  /\ k.proposals[q] # 0 =>
                           /\ q <= k.last
                           /\ k.proposals[q] \in DOMAIN e /\ e[k.proposals[q]] = q
                      /\ k.awards[q] # NoBid =>
                           /\ k.proposals[q] # 0 /\ k.awards[q].number = q
                           /\ <<k.proposals[q], k.awards[q].provider>> \in c
                      /\ k.deliveries[q] # "none" => k.awards[q] # NoBid
                      /\ k.deliveries[q] = "delivered" => q \in r
    BY DEF Recorded
  <2>1. CASE q = n
    <3>1. m.awards[n] = NoBid /\ m.deliveries[n] = "none"
      BY <1>7 DEF Sound, Recorded
    <3>2. /\ n <= k.last /\ k.proposals[n] \in DOMAIN e /\ e[k.proposals[n]] = n
      BY <1>0, <1>3, <1>6, <1>9
    <3> QED  BY <2>1, <3>1, <3>2, <1>4
  <2>2. CASE q # n
    <3>1. m.proposals[q] # 0 => q <= k.last
      <4>1. m.proposals[q] # 0 => q <= m.last
        BY DEF Sound, Recorded
      <4> QED  BY <4>1, <1>0, <1>3
    <3> QED  BY <2>2, <3>1, <1>4, <1>6, <1>8 DEF Sound, Recorded
  <2> QED  BY <2>1, <2>2
<1>11. Based(k, k.bids) /\ Void(k)
  BY <1>4 DEF Sound, Based, Void
<1>12. Sound(k, e, c, r)
  BY <1>5, <1>10, <1>11 DEF Sound
<1> QED  BY <1>12 DEF k, e

LEMMA SoundAgreed ==
    ASSUME NEW m, NEW d, NEW c, NEW r, Sound(m, d, c, r), NEW b \in Provider,
           NEW n \in Number
    PROVE  LET a == [m EXCEPT !.agreements =
                       Append(@, [provider |-> b, number |-> n, revoked |-> FALSE])]
               i == Len(m.agreements) + 1
           IN /\ Sound(a, d, c, r)
              /\ a.bids = m.bids /\ i \in DOMAIN a.agreements
              /\ a.agreements[i].provider = b
<1> DEFINE f == Append(m.agreements, [provider |-> b, number |-> n, revoked |-> FALSE])
           a == [m EXCEPT !.agreements = f]
           i == Len(m.agreements) + 1
<1>1. m \in Coordinator /\ m.agreements \in Seq(Agreement)
  BY Fields DEF Sound
<1>2. [provider |-> b, number |-> n, revoked |-> FALSE] \in Agreement
  BY DEF Agreement
<1>3. /\ f \in Seq(Agreement)
      /\ DOMAIN f = 1 .. i /\ DOMAIN m.agreements = 1 .. Len(m.agreements)
      /\ Len(m.agreements) \in Nat
      /\ \A j \in DOMAIN m.agreements : f[j] = m.agreements[j]
      /\ f[i] = [provider |-> b, number |-> n, revoked |-> FALSE]
  BY <1>1, <1>2
<1> HIDE DEF f
<1>4. a \in Coordinator /\ a.agreements = f
  BY <1>1, <1>3 DEF Coordinator, Agreement
<1>5. /\ a.proposals = m.proposals /\ a.bids = m.bids
      /\ a.awards = m.awards /\ a.deliveries = m.deliveries /\ a.last = m.last
      /\ a.voided = m.voided
  BY <1>1 DEF Coordinator
<1> HIDE DEF a
<1>6. Recorded(a, d, c, r)
  BY <1>5 DEF Sound, Recorded
<1>7. Based(a, a.bids) /\ Void(a)
  BY <1>3, <1>4, <1>5 DEF Sound, Based, Void
<1>8. i \in DOMAIN a.agreements /\ a.agreements[i].provider = b
  BY <1>3, <1>4
<1>9. Sound(a, d, c, r)
  BY <1>4, <1>6, <1>7 DEF Sound
<1> QED  BY <1>5, <1>8, <1>9 DEF a, f

LEMMA SoundBid ==
    ASSUME NEW m, NEW d, NEW c, NEW r, Sound(m, d, c, r), NEW b \in Provider,
           NEW n \in Number, NEW i \in DOMAIN m.agreements, m.agreements[i].provider = b
    PROVE  Sound([m EXCEPT !.bids = @ \cup
                    {[number |-> n, provider |-> b, agreement |-> i]}], d, c, r)
<1> DEFINE x == [number |-> n, provider |-> b, agreement |-> i]
           a == [m EXCEPT !.bids = @ \cup {x}]
<1>1. m \in Coordinator /\ m.agreements \in Seq(Agreement) /\ m.bids \in SUBSET Bid
  BY Fields DEF Sound
<1>2. i \in Nat
  BY <1>1, LenProperties
<1>3. x \in Bid /\ x.agreement = i /\ x.provider = b
  BY <1>2 DEF Bid
<1> HIDE DEF x
<1>4. a \in Coordinator /\ a.bids = m.bids \cup {x}
  BY <1>1, <1>3 DEF Coordinator
<1>5. /\ a.proposals = m.proposals /\ a.agreements = m.agreements
      /\ a.awards = m.awards /\ a.deliveries = m.deliveries /\ a.last = m.last
      /\ a.voided = m.voided
  BY <1>1 DEF Coordinator
<1> HIDE DEF a
<1>6. Recorded(a, d, c, r)
  BY <1>5 DEF Sound, Recorded
<1>7. Based(a, a.bids) /\ Void(a)
  BY <1>3, <1>4, <1>5 DEF Sound, Based, Void
<1>8. Sound(a, d, c, r)
  BY <1>4, <1>6, <1>7 DEF Sound
<1> QED  BY <1>8 DEF a, x

LEMMA SoundOneRevoked ==
    ASSUME NEW m, NEW d, NEW c, NEW r, Sound(m, d, c, r), NEW i \in DOMAIN m.agreements
    PROVE  Sound([m EXCEPT !.agreements[i].revoked = TRUE], d, c, r)
<1> DEFINE f == [m.agreements EXCEPT ![i] = [m.agreements[i] EXCEPT !.revoked = TRUE]]
           a == [m EXCEPT !.agreements = f]
<1>1. m \in Coordinator /\ m.agreements \in Seq(Agreement)
  BY Fields DEF Sound
<1>2. DOMAIN m.agreements = 1 .. Len(m.agreements) /\ m.agreements[i] \in Agreement
  BY <1>1, LenProperties, ElementOfSeq
<1>3. [m.agreements[i] EXCEPT !.revoked = TRUE] \in Agreement
  BY <1>2 DEF Agreement
<1>4. f \in Seq(Agreement)
  BY <1>1, <1>2, <1>3, ExceptSeq
<1>5. [m.agreements[i] EXCEPT !.revoked = TRUE].provider = m.agreements[i].provider
  BY <1>2 DEF Agreement
<1>6. [m.agreements[i] EXCEPT !.revoked = TRUE].revoked = TRUE
  BY <1>2 DEF Agreement
<1>7. /\ DOMAIN f = DOMAIN m.agreements
      /\ \A j \in DOMAIN m.agreements :
           /\ f[j].provider = m.agreements[j].provider
           /\ m.agreements[j].revoked => f[j].revoked
  BY <1>5, <1>6
<1> HIDE DEF f
<1>8. a \in Coordinator /\ a.agreements = f
  BY <1>1, <1>4 DEF Coordinator, Agreement
<1>9. /\ a.proposals = m.proposals /\ a.bids = m.bids
      /\ a.awards = m.awards /\ a.deliveries = m.deliveries /\ a.last = m.last
      /\ a.voided = m.voided
  BY <1>1 DEF Coordinator
<1>10. a = [m EXCEPT !.agreements[i].revoked = TRUE]
  BY DEF f
<1> HIDE DEF a
<1>11. Recorded(a, d, c, r)
  BY <1>9 DEF Sound, Recorded
<1>12. Based(a, a.bids) /\ Void(a)
  BY <1>7, <1>8, <1>9 DEF Sound, Based, Void
<1>13. Sound(a, d, c, r)
  BY <1>8, <1>11, <1>12 DEF Sound
<1> QED  BY <1>10, <1>13

\* An award of the bid x, now or before.
LEMMA SoundAward ==
    ASSUME NEW m, NEW d, NEW c, NEW r, Sound(m, d, c, r), NEW x \in m.bids,
           \/ m.awards[x.number] = x
           \/ /\ m.awards[x.number] = NoBid /\ m.proposals[x.number] # 0
              /\ ~m.agreements[x.agreement].revoked
    PROVE  /\ x \in Bid /\ m.proposals[x.number] # 0
           /\ Sound([m EXCEPT !.awards[x.number] = x], d,
                    c \cup {<<m.proposals[x.number], x.provider>>}, r)
           /\ [m EXCEPT !.awards[x.number] = x].awards[x.number] = x
           /\ [m EXCEPT !.awards[x.number] = x].deliveries = m.deliveries
           /\ [m EXCEPT !.awards[x.number] = x].proposals = m.proposals
           /\ \A n \in Number : m.awards[n] # NoBid =>
                [m EXCEPT !.awards[x.number] = x].awards[n] # NoBid
<1> DEFINE a == [m EXCEPT !.awards[x.number] = x]
           k == c \cup {<<m.proposals[x.number], x.provider>>}
<1>1. m \in Coordinator /\ m.bids \in SUBSET Bid
      /\ m.awards \in [Number -> Bid \cup {NoBid}]
  BY Fields DEF Sound
<1>2. x \in Bid /\ x.number \in Number /\ x # NoBid
  BY <1>1, NoBidFacts
<1>3. m.proposals[x.number] # 0
  BY <1>2 DEF Sound, Recorded
<1>4. a \in Coordinator /\ a.awards = [m.awards EXCEPT ![x.number] = x]
  BY <1>1, <1>2 DEF Coordinator
<1>5. /\ a.proposals = m.proposals /\ a.agreements = m.agreements
      /\ a.bids = m.bids /\ a.deliveries = m.deliveries /\ a.last = m.last
      /\ a.voided = m.voided
  BY <1>1 DEF Coordinator
<1>6. a.awards[x.number] = x /\ \A n \in Number : n # x.number => a.awards[n] = m.awards[n]
  BY <1>1, <1>2, <1>4
<1>7. x \notin m.voided
  BY DEF Sound, Void
<1> HIDE DEF a
<1>8. Recorded(a, d, k, r)
  <2> SUFFICES ASSUME NEW q \in Number
               PROVE  /\ a.proposals[q] # 0 =>
                           /\ q <= a.last
                           /\ a.proposals[q] \in DOMAIN d /\ d[a.proposals[q]] = q
                      /\ a.awards[q] # NoBid =>
                           /\ a.proposals[q] # 0 /\ a.awards[q].number = q
                           /\ <<a.proposals[q], a.awards[q].provider>> \in k
                      /\ a.deliveries[q] # "none" => a.awards[q] # NoBid
                      /\ a.deliveries[q] = "delivered" => q \in r
    BY DEF Recorded
  <2>1. CASE q = x.number
    <3>1. a.awards[q] = x /\ <<a.proposals[q], x.provider>> \in k
      BY <2>1, <1>5, <1>6
    <3> QED  BY <2>1, <3>1, <1>2, <1>3, <1>5 DEF Sound, Recorded
  <2>2. CASE q # x.number
    BY <2>2, <1>5, <1>6 DEF Sound, Recorded
  <2> QED  BY <2>1, <2>2
<1>9. Based(a, a.bids)
  BY <1>5 DEF Sound, Based
<1>10. Void(a)
  <2> SUFFICES ASSUME NEW y \in m.voided PROVE a.awards[y.number] # y
    BY <1>5 DEF Sound, Void
  <2>1. y \in Bid
    BY <1>1, Fields
  <2>2. y.number \in Number /\ y # x
    BY <2>1, <1>7, NoBidFacts
  <2> QED  BY <2>2, <1>6 DEF Sound, Void
<1>11. Sound(a, d, k, r)
  BY <1>4, <1>8, <1>9, <1>10 DEF Sound
<1>12. \A n \in Number : m.awards[n] # NoBid => a.awards[n] # NoBid
  BY <1>2, <1>6
<1> QED  BY <1>2, <1>3, <1>5, <1>6, <1>11, <1>12 DEF a

LEMMA SoundDelivery ==
    ASSUME NEW m, NEW d, NEW c, NEW r, Sound(m, d, c, r), NEW n \in Number,
           m.awards[n] # NoBid,
           NEW status \in {"pending_delivery", "delivered", "failed"},
           status = "delivered" => n \in r
    PROVE  /\ Sound([m EXCEPT !.deliveries[n] = status], d, c, r)
           /\ [m EXCEPT !.deliveries[n] = status].awards = m.awards
<1> DEFINE a == [m EXCEPT !.deliveries[n] = status]
<1>1. m \in Coordinator
      /\ m.deliveries \in [Number -> {"none", "pending_delivery", "delivered", "failed"}]
  BY Fields DEF Sound
<1>2. a \in Coordinator /\ a.deliveries = [m.deliveries EXCEPT ![n] = status]
  BY <1>1 DEF Coordinator
<1>3. /\ a.proposals = m.proposals /\ a.agreements = m.agreements
      /\ a.bids = m.bids /\ a.awards = m.awards /\ a.last = m.last
      /\ a.voided = m.voided
  BY <1>1 DEF Coordinator
<1>4. a.deliveries[n] = status /\ \A q \in Number : q # n => a.deliveries[q] = m.deliveries[q]
  BY <1>1, <1>2
<1> HIDE DEF a
<1>5. Recorded(a, d, c, r)
  BY <1>3, <1>4 DEF Sound, Recorded
<1>6. Based(a, a.bids) /\ Void(a)
  BY <1>3 DEF Sound, Based, Void
<1>7. Sound(a, d, c, r)
  BY <1>2, <1>5, <1>6 DEF Sound
<1> QED  BY <1>3, <1>7 DEF a

-----------------------------------------------------------------------------
(* The steps of the coordinator.                                           *)

LEMMA MarketInit == Init => MarketInv
<1> SUFFICES ASSUME Init PROVE MarketInv
  OBVIOUS
<1>1. /\ mem.trust = [b \in Provider |-> "known"]
      /\ mem.proposals = [n \in Number |-> 0] /\ mem.agreements = <<>>
      /\ mem.bids = {} /\ mem.awards = [n \in Number |-> NoBid]
      /\ mem.deliveries = [n \in Number |-> "none"]
      /\ mem.last = 0 /\ mem.voided = {}
  BY DEF Init
<1>2. mem \in Coordinator
  BY DEF Init, Coordinator
<1>3. Recorded(mem, drawn, chosen, relayed)
  BY <1>1 DEF Recorded
<1>4. Based(mem, mem.bids) /\ Void(mem)
  BY <1>1 DEF Based, Void
<1>5. Sound(mem, drawn, chosen, relayed) /\ Sound(disk, drawn, chosen, relayed)
  BY <1>2, <1>3, <1>4 DEF Sound, Init
<1>6. others \subseteq Number
  BY MarketAssumption DEF Init, Number
<1>7. /\ outbox \in [Number -> Entry \cup {NoEntry}] /\ file = outbox
      /\ \A n \in Number : outbox[n] = NoEntry
  BY DEF Init
<1>8. stalled \in BOOLEAN
  BY Zenon DEF Init
<1>9. TypeOK
  BY <1>2, <1>6, <1>7, <1>8 DEF Init, TypeOK
<1>10. DeliveryInv
  BY <1>7, MarketAssumption DEF Init, DeliveryInv, EntryMeant, OneWorker
<1> QED  BY <1>5, <1>9, <1>10 DEF MarketInv

\* The states that an operation passes through are sound, so the written one is.
LEMMA Mutated ==
    ASSUME TypeOK, NEW m, NEW S, MutateThrough(S, m),
           Sound(disk, drawn', chosen', relayed'), Sound(m, drawn', chosen', relayed'),
           \A s \in S : Sound(s, drawn', chosen', relayed')
    PROVE  /\ mem' = m /\ Sound(mem', drawn', chosen', relayed')
           /\ Sound(disk', drawn', chosen', relayed')
           /\ mem' \in Coordinator /\ disk' \in Coordinator
           /\ stalled' \in BOOLEAN
<1>1. mem' = m
  BY DEF MutateThrough
<1>2. disk' = disk \/ disk' = m \/ disk' \in S
  BY DEF MutateThrough
<1>3. stalled' = stalled \/ stalled' = TRUE
  BY Zenon DEF MutateThrough
<1>4. stalled' \in BOOLEAN
  BY <1>3, Zenon DEF TypeOK
<1>5. Sound(mem', drawn', chosen', relayed')
  BY <1>1
<1>6. Sound(disk', drawn', chosen', relayed')
  BY <1>2
<1> QED  BY <1>1, <1>4, <1>5, <1>6 DEF Sound

\* Steps that leave outbox, relay and providers alone.
LEMMA CoordinatorGrows ==
    ASSUME MarketInv, NEW m, NEW S, MutateThrough(S, m),
           UNCHANGED <<outboxVars, relayVars, overdue, restarts>>,
           drawn' \in Seq(Number), Len(drawn') <= MaxProposals,
           \A p \in DOMAIN drawn : p \in DOMAIN drawn' /\ drawn'[p] = drawn[p],
           chosen \subseteq chosen', chosen' \subseteq Proposal \X Provider,
           Sound(m, drawn', chosen', relayed),
           \A s \in S : Sound(s, drawn', chosen', relayed),
           \A n \in sending : m.awards[n] # NoBid
    PROVE  MarketInv'
<1>1. /\ UNCHANGED <<outbox, file, sending>>
      /\ UNCHANGED <<relayed, done, worked, others>>
      /\ UNCHANGED <<overdue, restarts>>
  BY DEF outboxVars, relayVars
<1>2. Sound(disk, drawn', chosen', relayed)
  BY SoundGrows DEF MarketInv
<1>3. /\ mem' = m /\ Sound(mem', drawn', chosen', relayed')
      /\ Sound(disk', drawn', chosen', relayed')
      /\ mem' \in Coordinator /\ disk' \in Coordinator
      /\ stalled' \in BOOLEAN
  BY <1>1, <1>2, Mutated DEF MarketInv
<1>4. TypeOK'
  BY <1>1, <1>3 DEF MarketInv, TypeOK
<1>5. DeliveryInv
  BY DEF MarketInv
<1>6. (\A n \in sending : mem.awards[n] # NoBid)'
  BY <1>1, <1>3
<1>7. (\A n \in Number : EntryMeant(n))'
  BY <1>1, <1>5 DEF DeliveryInv, EntryMeant, Meant
<1>8. /\ (\A n \in relayed : n \in others \/ Served(n))'
      /\ (\A n \in Number, b \in Provider :
            <<n, b>> \in done => \E p \in Proposal :
                <<p, b>> \in worked /\ p \in DOMAIN drawn /\ drawn[p] = n)'
  <2>1. \A n : Served(n) => Served(n)'
    BY <1>1 DEF Served
  <2>2. (\A n \in relayed : n \in others \/ Served(n))'
    BY <1>1, <1>5, <2>1 DEF DeliveryInv
  <2>3. \A n \in Number, b \in Provider :
            <<n, b>> \in done => \E p \in Proposal :
                <<p, b>> \in worked /\ p \in DOMAIN drawn /\ drawn[p] = n
    BY <1>5 DEF DeliveryInv
  <2>4. (\A n \in Number, b \in Provider :
            <<n, b>> \in done => \E p \in Proposal :
                <<p, b>> \in worked /\ p \in DOMAIN drawn /\ drawn[p] = n)'
    BY <1>1, <2>3
  <2> QED  BY <2>2, <2>4
<1>9. /\ (\A p \in Proposal, b \in Provider :
            <<p, b>> \in worked => <<p, b>> \in chosen /\ p \in DOMAIN drawn /\ Confirmed(p, b))'
      /\ OneWorker'
  BY <1>1, <1>5 DEF DeliveryInv, Confirmed, OneWorker
<1>10. DeliveryInv'
  BY <1>6, <1>7, <1>8, <1>9 DEF DeliveryInv
<1> QED  BY <1>3, <1>4, <1>10 DEF MarketInv

LEMMA CoordinatorStep ==
    ASSUME MarketInv, NEW m, NEW S, MutateThrough(S, m),
           UNCHANGED <<outboxVars, relayVars, overdue, restarts, drawn, chosen>>,
           Sound(m, drawn, chosen, relayed),
           \A s \in S : Sound(s, drawn, chosen, relayed),
           m.awards = mem.awards
    PROVE  MarketInv'
<1>1. /\ drawn \in Seq(Number) /\ Len(drawn) <= MaxProposals
      /\ chosen \subseteq Proposal \X Provider
      /\ \A n \in sending : m.awards[n] # NoBid
  BY DEF MarketInv, TypeOK, DeliveryInv
<1> QED  BY <1>1, CoordinatorGrows

LEMMA TrustStep ==
    ASSUME MarketInv, NEW b \in Provider, NEW t \in {"known", "blocked"}, SetPeerTrust(b, t)
    PROVE  MarketInv'
<1> DEFINE told == [mem EXCEPT !.trust[b] = t]
           total == Len(mem.agreements)
           blocked == [Revoked(told, b, total) EXCEPT !.voided = @ \cup Waiting(b)]
           S == {Revoked(told, b, k) : k \in 0..total}
<1>1. Sound(mem, drawn, chosen, relayed) /\ mem \in Coordinator
  BY DEF MarketInv, Sound
<1>2. told \in Coordinator /\ told.awards = mem.awards
  BY <1>1 DEF Coordinator
<1>3. Sound(told, drawn, chosen, relayed)
  BY <1>1, SoundTrust
<1>4. total \in Nat
  BY <1>1, Fields, LenProperties
<1>5. \A s \in S : Sound(s, drawn, chosen, relayed)
  <2> SUFFICES ASSUME NEW k \in 0..total
               PROVE  Sound(Revoked(told, b, k), drawn, chosen, relayed)
    OBVIOUS
  <2>1. k \in Nat
    BY <1>4
  <2> QED  BY <1>3, <2>1, SoundRevoked
<1>6. Waiting(b) \subseteq {x \in mem.bids : x.provider = b /\ mem.awards[x.number] # x}
  BY DEF Waiting
<1>7. t = "blocked" => Sound(blocked, drawn, chosen, relayed)
  BY <1>1, <1>6, SoundBlocked
<1>8. blocked.awards = mem.awards
  <2>1. Revoked(told, b, total) \in Coordinator /\ Revoked(told, b, total).awards = mem.awards
    <3> HIDE DEF told, total
    <3> QED  BY <1>2, <1>4, RevokedFacts
  <2> QED  BY <2>1 DEF Coordinator
<1>9. UNCHANGED <<outboxVars, relayVars, overdue, restarts, drawn, chosen>>
  BY DEF SetPeerTrust
<1>10. CASE t = "blocked"
  <2>1. MutateThrough(S, blocked)
    BY <1>10 DEF SetPeerTrust
  <2> HIDE DEF S, blocked, told, total
  <2> QED  BY <2>1, <1>5, <1>7, <1>8, <1>9, <1>10, CoordinatorStep
<1>11. CASE t # "blocked"
  <2>1. MutateThrough({}, told)
    BY <1>11 DEF SetPeerTrust, Mutate
  <2> HIDE DEF S, blocked, told, total
  <2> QED  BY <2>1, <1>2, <1>3, <1>9, CoordinatorStep
<1> QED  BY <1>10, <1>11

LEMMA NegotiateStep ==
    ASSUME MarketInv, NEW b \in Provider, NEW n \in Number, NegotiateCapability(b, n)
    PROVE  MarketInv'
<1> DEFINE a == Agreed(b, n)
<1>1. Sound(mem, drawn, chosen, relayed) /\ mem \in Coordinator
  BY DEF MarketInv, Sound
<1>2. Sound(a, drawn, chosen, relayed)
  BY <1>1, SoundAgreed DEF Agreed
<1>3. a.awards = mem.awards
  BY <1>1 DEF Agreed, Coordinator
<1>4. /\ MutateThrough({}, a)
      /\ UNCHANGED <<outboxVars, relayVars, overdue, restarts, drawn, chosen>>
  BY DEF NegotiateCapability, Mutate
<1> HIDE DEF a
<1> QED  BY <1>2, <1>3, <1>4, CoordinatorStep

LEMMA BidStep ==
    ASSUME MarketInv, NEW b \in Provider, NEW n \in Number, SubmitBid(b, n)
    PROVE  MarketInv'
<1> DEFINE a == Agreed(b, n)
           i == Len(mem.agreements) + 1
           fresh == [a EXCEPT !.bids = @ \cup
                       {[number |-> n, provider |-> b, agreement |-> i]}]
           usable == {j \in DOMAIN mem.agreements :
                        Usable(j) /\ mem.agreements[j].provider = b}
<1>1. Sound(mem, drawn, chosen, relayed) /\ mem \in Coordinator
  BY DEF MarketInv, Sound
<1>2. UNCHANGED <<outboxVars, relayVars, overdue, restarts, drawn, chosen>>
  BY DEF SubmitBid
<1>3. CASE usable = {}
  <2>1. /\ Sound(a, drawn, chosen, relayed)
        /\ i \in DOMAIN a.agreements /\ a.agreements[i].provider = b
    BY <1>1, SoundAgreed DEF Agreed
  <2>2. a.awards = mem.awards /\ a \in Coordinator
    BY <1>1, <2>1 DEF Agreed, Coordinator, Sound
  <2>3. MutateThrough({a}, fresh)
    BY <1>3 DEF SubmitBid
  <2> HIDE DEF a, i
  <2>4. Sound(fresh, drawn, chosen, relayed)
    BY <2>1, SoundBid
  <2>5. fresh.awards = mem.awards
    BY <2>2 DEF Coordinator
  <2> HIDE DEF fresh
  <2> QED  BY <1>2, <2>1, <2>3, <2>4, <2>5, CoordinatorStep
<1>4. CASE usable # {}
  <2>1. PICK j \in usable :
          Mutate([mem EXCEPT !.bids = @ \cup {[number |-> n, provider |-> b, agreement |-> j]}])
    BY <1>4 DEF SubmitBid
  <2> DEFINE k == [mem EXCEPT !.bids = @ \cup {[number |-> n, provider |-> b, agreement |-> j]}]
  <2>2. Sound(k, drawn, chosen, relayed)
    BY <1>1, SoundBid
  <2>3. k.awards = mem.awards
    BY <1>1 DEF Coordinator
  <2>4. MutateThrough({}, k)
    BY <2>1 DEF Mutate
  <2> HIDE DEF k
  <2> QED  BY <1>2, <2>2, <2>3, <2>4, CoordinatorStep
<1> QED  BY <1>3, <1>4

LEMMA RevokeStep ==
    ASSUME MarketInv, NEW i, RevokeAgreement(i)
    PROVE  MarketInv'
<1> DEFINE a == [mem EXCEPT !.agreements[i].revoked = TRUE]
<1>1. Sound(mem, drawn, chosen, relayed) /\ mem \in Coordinator
  BY DEF MarketInv, Sound
<1>2. Sound(a, drawn, chosen, relayed)
  BY <1>1, SoundOneRevoked DEF RevokeAgreement
<1>3. a.awards = mem.awards
  BY <1>1 DEF Coordinator
<1>4. /\ MutateThrough({}, a)
      /\ UNCHANGED <<outboxVars, relayVars, overdue, restarts, drawn, chosen>>
  BY DEF RevokeAgreement, Mutate
<1> HIDE DEF a
<1> QED  BY <1>2, <1>3, <1>4, CoordinatorStep

LEMMA ProposeStep ==
    ASSUME MarketInv, NEW n \in Number, ProposeService(n)
    PROVE  MarketInv'
<1> DEFINE m == [mem EXCEPT !.proposals[n] = Len(drawn) + 1, !.last = n]
<1>1. /\ drawn \in Seq(Number) /\ drawn' = Append(drawn, n)
      /\ n > mem.last /\ Len(drawn) < MaxProposals
      /\ Sound(mem, drawn, chosen, relayed) /\ mem \in Coordinator
  BY DEF MarketInv, TypeOK, ProposeService, Sound
<1>2. /\ drawn' \in Seq(Number) /\ Len(drawn') = Len(drawn) + 1
      /\ \A p \in DOMAIN drawn : p \in DOMAIN drawn' /\ drawn'[p] = drawn[p]
  BY <1>1
<1>3. Len(drawn') <= MaxProposals
  BY <1>1, <1>2, LenProperties, MarketAssumption
<1>4. Sound(m, drawn', chosen, relayed)
  BY <1>1, SoundProposed
<1>5. m.awards = mem.awards
  BY <1>1 DEF Coordinator
<1>6. \A q \in sending : m.awards[q] # NoBid
  BY <1>5 DEF MarketInv, DeliveryInv
<1>7. /\ MutateThrough({}, m)
      /\ UNCHANGED <<outboxVars, relayVars, overdue, restarts>> /\ chosen' = chosen
  BY <1>2 DEF ProposeService, Mutate
<1>8. chosen \subseteq Proposal \X Provider
  BY DEF MarketInv, TypeOK
<1> HIDE DEF m
<1> QED  BY <1>2, <1>3, <1>4, <1>6, <1>7, <1>8, CoordinatorGrows

\* The award of x, whoever is told of it.
LEMMA AwardedFacts ==
    ASSUME MarketInv, NEW x \in mem.bids, Awarded(x)
    PROVE  LET a == [mem EXCEPT !.awards[x.number] = x] IN
           /\ x \in Bid /\ x.number \in Number /\ x.provider \in Provider
           /\ mem.proposals[x.number] \in Proposal
           /\ mem.proposals[x.number] \in DOMAIN drawn
           /\ drawn[mem.proposals[x.number]] = x.number
           /\ chosen \subseteq chosen' /\ chosen' \subseteq Proposal \X Provider
           /\ <<mem.proposals[x.number], x.provider>> \in chosen'
           /\ Sound(a, drawn, chosen', relayed)
           /\ a.awards[x.number] # NoBid
           /\ \A n \in sending : a.awards[n] # NoBid
<1> DEFINE a == [mem EXCEPT !.awards[x.number] = x]
           n == x.number
<1>1. Sound(mem, drawn, chosen, relayed) /\ mem \in Coordinator
  BY DEF MarketInv, Sound
<1>2. \/ mem.awards[x.number] = x
      \/ /\ mem.awards[x.number] = NoBid /\ mem.proposals[x.number] # 0
         /\ ~mem.agreements[x.agreement].revoked
  BY DEF Awarded, Awardable, Open, Active, Known, Usable
<1>3. chosen' = chosen \cup {<<mem.proposals[x.number], x.provider>>}
  BY DEF Awarded
<1>4. /\ x \in Bid /\ mem.proposals[x.number] # 0
      /\ Sound(a, drawn, chosen', relayed) /\ a.awards[x.number] = x
      /\ \A q \in Number : mem.awards[q] # NoBid => a.awards[q] # NoBid
  <2>1. /\ x \in Bid /\ mem.proposals[x.number] # 0
        /\ Sound(a, drawn, chosen \cup {<<mem.proposals[x.number], x.provider>>}, relayed)
        /\ a.awards[x.number] = x
        /\ \A q \in Number : mem.awards[q] # NoBid => a.awards[q] # NoBid
    BY <1>1, <1>2, SoundAward
  <2> HIDE DEF a
  <2> QED  BY <2>1, <1>3
<1>5. x.number \in Number /\ x.provider \in Provider /\ x # NoBid
  BY <1>4, NoBidFacts
<1>6. mem.proposals[x.number] \in Proposal
  BY <1>1, <1>4, <1>5, Fields
<1>7. mem.proposals[x.number] \in DOMAIN drawn /\ drawn[mem.proposals[x.number]] = x.number
  BY <1>1, <1>4, <1>5 DEF Sound, Recorded
<1>8. chosen \subseteq Proposal \X Provider /\ sending \subseteq Number
      /\ \A q \in sending : mem.awards[q] # NoBid
  BY DEF MarketInv, TypeOK, DeliveryInv
<1> HIDE DEF a
<1>9. \A q \in sending : a.awards[q] # NoBid
  BY <1>4, <1>8
<1>10. chosen' \subseteq Proposal \X Provider
  BY <1>3, <1>5, <1>6, <1>8
<1> QED  BY <1>3, <1>4, <1>5, <1>6, <1>7, <1>9, <1>10 DEF a

LEMMA AwardUnsentStep ==
    ASSUME MarketInv, NEW x \in mem.bids, AwardUnsent(x)
    PROVE  MarketInv'
<1> DEFINE a == [mem EXCEPT !.awards[x.number] = x]
           k == [a EXCEPT !.deliveries[x.number] = "pending_delivery"]
<1>1. /\ Awarded(x)
      /\ UNCHANGED <<outboxVars, relayVars, overdue, restarts>> /\ drawn' = drawn
      /\ \/ MutateThrough({}, a)
         \/ MutateThrough({a}, k)
  BY DEF AwardUnsent, Mutate
<1>2. /\ x.number \in Number
      /\ chosen \subseteq chosen' /\ chosen' \subseteq Proposal \X Provider
      /\ Sound(a, drawn, chosen', relayed)
      /\ a.awards[x.number] # NoBid
      /\ \A n \in sending : a.awards[n] # NoBid
  BY <1>1, AwardedFacts
<1>3. drawn \in Seq(Number) /\ Len(drawn) <= MaxProposals
  BY DEF MarketInv, TypeOK, DeliveryInv
<1> HIDE DEF a
<1>4. Sound(k, drawn, chosen', relayed) /\ k.awards = a.awards
  BY <1>2, SoundDelivery
<1> HIDE DEF k
<1>5. CASE MutateThrough({}, a)
  BY <1>1, <1>2, <1>3, <1>5, CoordinatorGrows
<1>6. CASE MutateThrough({a}, k)
  BY <1>1, <1>2, <1>3, <1>4, <1>6, CoordinatorGrows
<1> QED  BY <1>1, <1>5, <1>6

LEMMA AwardSentStep ==
    ASSUME MarketInv, NEW x \in mem.bids, AwardSent(x)
    PROVE  MarketInv'
<1> DEFINE a == [mem EXCEPT !.awards[x.number] = x]
           n == x.number
           e == [proposal |-> mem.proposals[x.number], to |-> x.provider]
<1>1. /\ Awarded(x) /\ MutateThrough({}, a)
      /\ outbox' = [outbox EXCEPT ![n] = IF outbox[n] = NoEntry THEN e ELSE outbox[n]]
      /\ file' = (IF outbox[n] = NoEntry THEN outbox' ELSE file)
      /\ sending' = sending \cup {n}
      /\ UNCHANGED <<relayed, done, worked, others, overdue, restarts, drawn>>
  BY DEF AwardSent, Mutate, Kept, relayVars
<1>2. TypeOK /\ DeliveryInv /\ Sound(disk, drawn, chosen, relayed)
  BY DEF MarketInv
<1>3. /\ n \in Number /\ x.provider \in Provider
      /\ mem.proposals[n] \in Proposal /\ mem.proposals[n] \in DOMAIN drawn
      /\ drawn[mem.proposals[n]] = n
      /\ chosen \subseteq chosen' /\ chosen' \subseteq Proposal \X Provider
      /\ <<mem.proposals[n], x.provider>> \in chosen'
      /\ Sound(a, drawn, chosen', relayed)
      /\ a.awards[n] # NoBid /\ \A q \in sending : a.awards[q] # NoBid
  BY <1>1, AwardedFacts
<1>4. e \in Entry /\ e.proposal = mem.proposals[n] /\ e.to = x.provider
  BY <1>3 DEF Entry
<1>5. Sound(disk, drawn, chosen', relayed)
  BY <1>2, <1>3, SoundGrows
<1> HIDE DEF a, n, e
<1>6. /\ mem' = a /\ Sound(mem', drawn', chosen', relayed')
      /\ Sound(disk', drawn', chosen', relayed')
      /\ mem' \in Coordinator /\ disk' \in Coordinator /\ stalled' \in BOOLEAN
  BY <1>1, <1>2, <1>3, <1>5, Mutated
<1>7. /\ outbox \in [Number -> Entry \cup {NoEntry}]
      /\ file \in [Number -> Entry \cup {NoEntry}]
      /\ sending \subseteq Number
  BY <1>2 DEF TypeOK
<1>8. /\ outbox' \in [Number -> Entry \cup {NoEntry}]
      /\ file' \in [Number -> Entry \cup {NoEntry}]
      /\ sending' \subseteq Number
      /\ outbox'[n] = (IF outbox[n] = NoEntry THEN e ELSE outbox[n])
      /\ \A q \in Number : q # n => outbox'[q] = outbox[q]
  BY <1>1, <1>3, <1>4, <1>7
<1>9. TypeOK'
  BY <1>1, <1>2, <1>3, <1>6, <1>8 DEF TypeOK
<1>10. \A f, q : Meant(f, q, drawn, chosen) => Meant(f, q, drawn', chosen')
  BY <1>1, <1>3 DEF Meant
<1>11. Meant(e, n, drawn', chosen')
  BY <1>1, <1>3, <1>4 DEF Meant
<1>12. (\A q \in Number : EntryMeant(q))'
  <2> SUFFICES ASSUME NEW q \in Number
               PROVE  /\ outbox'[q] # NoEntry => Meant(outbox'[q], q, drawn', chosen') /\ file'[q] = outbox'[q]
                      /\ file'[q] # NoEntry => Meant(file'[q], q, drawn', chosen')
    BY DEF EntryMeant
  <2>1. /\ outbox[q] # NoEntry => Meant(outbox[q], q, drawn, chosen) /\ file[q] = outbox[q]
        /\ file[q] # NoEntry => Meant(file[q], q, drawn, chosen)
    BY <1>2 DEF DeliveryInv, EntryMeant
  <2>2. outbox'[q] # NoEntry => Meant(outbox'[q], q, drawn', chosen')
    <3>1. CASE q = n
      BY <2>1, <3>1, <1>8, <1>10, <1>11
    <3>2. CASE q # n
      BY <2>1, <3>2, <1>8, <1>10
    <3> QED  BY <3>1, <3>2
  <2>3. CASE outbox[n] = NoEntry
    BY <2>2, <2>3, <1>1
  <2>4. CASE outbox[n] # NoEntry
    <3>1. file' = file /\ outbox'[q] = outbox[q]
      BY <2>4, <1>1, <1>8
    <3> QED  BY <2>1, <2>2, <3>1, <1>10
  <2> QED  BY <2>3, <2>4
<1>13. /\ (\A q \in relayed : q \in others \/ Served(q))'
       /\ (\A q \in Number, b \in Provider :
            <<q, b>> \in done => \E p \in Proposal :
                <<p, b>> \in worked /\ p \in DOMAIN drawn /\ drawn[p] = q)'
       /\ OneWorker'
  BY <1>1, <1>2 DEF DeliveryInv, Served, OneWorker
<1>14. (\A p \in Proposal, b \in Provider :
          <<p, b>> \in worked => <<p, b>> \in chosen /\ p \in DOMAIN drawn /\ Confirmed(p, b))'
  <2> SUFFICES ASSUME NEW p \in Proposal, NEW b \in Provider, <<p, b>> \in worked
               PROVE  /\ <<p, b>> \in chosen' /\ p \in DOMAIN drawn
                      /\ \/ drawn[p] \in relayed
                         \/ p \in overdue
                         \/ outbox'[drawn[p]] = [proposal |-> p, to |-> b]
    BY <1>1 DEF Confirmed
  <2>1. /\ <<p, b>> \in chosen /\ p \in DOMAIN drawn
        /\ \/ drawn[p] \in relayed
           \/ p \in overdue
           \/ outbox[drawn[p]] = [proposal |-> p, to |-> b]
    BY <1>2 DEF DeliveryInv, Confirmed
  <2>2. drawn[p] \in Number
    BY <1>2, <2>1, ElementOfSeq DEF TypeOK
  <2>3. [proposal |-> p, to |-> b] # NoEntry
    BY NoBidFacts DEF Entry
  <2> QED  BY <2>1, <2>2, <2>3, <1>3, <1>8
<1>15. (\A q \in sending : mem.awards[q] # NoBid)'
  BY <1>1, <1>3, <1>6
<1>16. DeliveryInv'
  BY <1>1, <1>2, <1>12, <1>13, <1>14, <1>15 DEF DeliveryInv
<1> QED  BY <1>6, <1>9, <1>16 DEF MarketInv

-----------------------------------------------------------------------------
(* The steps of the outbox.                                                *)

LEMMA RecordFacts ==
    ASSUME MarketInv, NEW n \in Number,
           NEW status \in {"pending_delivery", "delivered", "failed"},
           Record(n, status), UNCHANGED <<drawn, chosen>>, relayed \subseteq relayed',
           status = "delivered" => n \in relayed'
    PROVE  /\ Sound(mem', drawn', chosen', relayed')
           /\ Sound(disk', drawn', chosen', relayed')
           /\ mem' \in Coordinator /\ disk' \in Coordinator /\ stalled' \in BOOLEAN
           /\ sending' \subseteq sending
           /\ \A q \in sending' : mem'.awards[q] # NoBid
<1>1. /\ TypeOK /\ Sound(mem, drawn', chosen', relayed')
      /\ Sound(disk, drawn', chosen', relayed')
  BY SoundGrows DEF MarketInv
<1>2. sending' \subseteq sending /\ \A q \in sending : mem.awards[q] # NoBid
  BY DEF Record, MarketInv, DeliveryInv
<1>3. CASE n \in sending \/ mem.deliveries[n] # "none"
  <2> DEFINE m == [mem EXCEPT !.deliveries[n] = status]
  <2>1. mem.awards[n] # NoBid
    BY <1>2, <1>3 DEF MarketInv, Sound, Recorded
  <2>2. Sound(m, drawn', chosen', relayed') /\ m.awards = mem.awards
    <3>1. Sound(m, drawn', chosen', relayed')
      BY <1>1, <2>1, SoundDelivery, Zenon
    <3>2. m.awards = mem.awards
      BY <1>1 DEF Sound, Coordinator
    <3> QED  BY <3>1, <3>2
  <2>3. MutateThrough({}, m)
    BY <1>3 DEF Record, Mutate
  <2> HIDE DEF m
  <2> QED  BY <1>1, <1>2, <2>2, <2>3, Mutated
<1>4. CASE ~(n \in sending \/ mem.deliveries[n] # "none")
  <2>1. UNCHANGED <<mem, disk, stalled>>
    BY <1>4 DEF Record, coordinatorVars
  <2>2. stalled' \in BOOLEAN
    BY <1>1, <2>1, Zenon DEF TypeOK
  <2> QED  BY <1>1, <1>2, <2>1, <2>2 DEF Sound
<1> QED  BY <1>3, <1>4

\* The file never holds an entry that outbox replaced.
LEMMA RemoveFacts ==
    ASSUME MarketInv, NEW n \in Number, Remove(n), UNCHANGED <<drawn, chosen>>
    PROVE  /\ outbox' \in [Number -> Entry \cup {NoEntry}]
           /\ file' \in [Number -> Entry \cup {NoEntry}]
           /\ \A q \in Number : q # n => outbox'[q] = outbox[q]
           /\ (\A q \in Number : EntryMeant(q))'
<1>1. /\ outbox \in [Number -> Entry \cup {NoEntry}]
      /\ file \in [Number -> Entry \cup {NoEntry}]
      /\ \A q \in Number :
           /\ outbox[q] # NoEntry => Meant(outbox[q], q, drawn, chosen) /\ file[q] = outbox[q]
           /\ file[q] # NoEntry => Meant(file[q], q, drawn, chosen)
  BY DEF MarketInv, TypeOK, DeliveryInv, EntryMeant
<1>2. /\ outbox' \in [Number -> Entry \cup {NoEntry}] /\ outbox'[n] = NoEntry
      /\ \A q \in Number : q # n => outbox'[q] = outbox[q]
      /\ file' = outbox' \/ file' = file
  BY <1>1 DEF Remove
<1>3. file' \in [Number -> Entry \cup {NoEntry}]
  BY <1>1, <1>2
<1>4. drawn' = drawn /\ chosen' = chosen
  OBVIOUS
<1>5. \A q \in Number :
        /\ outbox'[q] # NoEntry => Meant(outbox'[q], q, drawn', chosen') /\ file'[q] = outbox'[q]
        /\ file'[q] # NoEntry => Meant(file'[q], q, drawn', chosen')
  BY <1>1, <1>2, <1>4
<1> QED  BY <1>2, <1>3, <1>5 DEF EntryMeant

\* What the provider of the entry n makes of it.
WorkFacts(n) ==
    /\ done' \subseteq Number \X Provider /\ worked' \subseteq Proposal \X Provider
    /\ \A p \in Proposal, b \in Provider :
         <<p, b>> \in worked => <<p, b>> \in worked'
    /\ \A p \in Proposal, b \in Provider :
         <<p, b>> \in worked' /\ <<p, b>> \notin worked =>
             /\ outbox[n] = [proposal |-> p, to |-> b]
             /\ <<p, b>> \in chosen /\ p \in DOMAIN drawn /\ drawn[p] = n
    /\ \A q \in Number, b \in Provider :
         <<q, b>> \in done' => \E p \in Proposal :
             <<p, b>> \in worked' /\ p \in DOMAIN drawn /\ drawn[p] = q
    /\ \A p \in Proposal, a, b \in Provider :
         <<p, a>> \in worked' /\ <<p, b>> \in worked' => a = b

LEMMA IdleFacts ==
    ASSUME MarketInv, UNCHANGED <<done, worked>>, NEW n
    PROVE  WorkFacts(n)
<1>1. /\ done \subseteq Number \X Provider /\ worked \subseteq Proposal \X Provider
      /\ OneWorker
      /\ \A q \in Number, b \in Provider :
           <<q, b>> \in done => \E p \in Proposal :
             <<p, b>> \in worked /\ p \in DOMAIN drawn /\ drawn[p] = q
  BY DEF MarketInv, TypeOK, DeliveryInv
<1> QED  BY <1>1 DEF WorkFacts, OneWorker

LEMMA ServeFacts ==
    ASSUME MarketInv, NEW n \in Number, Sendable(n), n \notin relayed, Serve(n)
    PROVE  /\ WorkFacts(n)
           /\ \E p \in Proposal, b \in Provider :
                <<p, b>> \in worked' /\ p \in DOMAIN drawn /\ drawn[p] = n
<1> DEFINE p0 == outbox[n].proposal
           b0 == outbox[n].to
<1>1. /\ outbox[n] \in Entry /\ outbox[n] # NoEntry /\ p0 \notin overdue
      /\ done \subseteq Number \X Provider /\ worked \subseteq Proposal \X Provider
  BY DEF MarketInv, TypeOK, Sendable
<1>2. p0 \in Proposal /\ b0 \in Provider /\ outbox[n] = [proposal |-> p0, to |-> b0]
  BY <1>1 DEF Entry
<1>3. <<p0, b0>> \in chosen /\ p0 \in DOMAIN drawn /\ drawn[p0] = n
  BY <1>1 DEF MarketInv, DeliveryInv, EntryMeant, Meant
<1>4. \A q \in Number, b \in Provider :
        <<q, b>> \in done => \E p \in Proposal :
            <<p, b>> \in worked /\ p \in DOMAIN drawn /\ drawn[p] = q
  BY DEF MarketInv, DeliveryInv
<1>5. CASE <<n, b0>> \in done
  <2>1. UNCHANGED <<done, worked>>
    BY <1>5 DEF Serve
  <2>2. \E p \in Proposal, b \in Provider :
          <<p, b>> \in worked /\ p \in DOMAIN drawn /\ drawn[p] = n
    BY <1>2, <1>4, <1>5
  <2> QED  BY <2>1, <2>2, IdleFacts
<1>6. CASE <<n, b0>> \notin done
  <2>1. done' = done \cup {<<n, b0>>} /\ worked' = worked \cup {<<p0, b0>>}
    BY <1>6 DEF Serve
  <2>2. \A a \in Provider : <<p0, a>> \in worked => a = b0
    <3> SUFFICES ASSUME NEW a \in Provider, <<p0, a>> \in worked
                 PROVE  a = b0
      OBVIOUS
    <3>1. Confirmed(p0, a)
      BY <1>2 DEF MarketInv, DeliveryInv
    <3>2. outbox[n] = [proposal |-> p0, to |-> a]
      BY <1>1, <1>3, <3>1 DEF Confirmed
    <3>3. [proposal |-> p0, to |-> a].to = a
      OBVIOUS
    <3> QED  BY <3>2, <3>3
  <2> HIDE DEF p0, b0
  <2>3. /\ done' \subseteq Number \X Provider /\ worked' \subseteq Proposal \X Provider
        /\ \A p \in Proposal, b \in Provider :
             /\ <<p, b>> \in worked => <<p, b>> \in worked'
             /\ <<p, b>> \in worked' /\ <<p, b>> \notin worked => p = p0 /\ b = b0
    BY <1>1, <1>2, <2>1
  <2>4. \A q \in Number, b \in Provider :
          <<q, b>> \in done' => \E p \in Proposal :
              <<p, b>> \in worked' /\ p \in DOMAIN drawn /\ drawn[p] = q
    BY <1>2, <1>3, <1>4, <2>1
  <2>5. \A p \in Proposal, a, b \in Provider :
          <<p, a>> \in worked' /\ <<p, b>> \in worked' => a = b
    <3>1. OneWorker
      BY DEF MarketInv, DeliveryInv
    <3> QED  BY <2>2, <2>3, <3>1 DEF OneWorker
  <2>6. WorkFacts(n)
    BY <1>2, <1>3, <2>3, <2>4, <2>5 DEF WorkFacts
  <2> QED  BY <1>2, <1>3, <2>1, <2>6
<1> QED  BY <1>5, <1>6

\* A flush of the entry n, whatever comes of it.
LEMMA FlushStep ==
    ASSUME MarketInv, NEW n \in Number,
           NEW status \in {"pending_delivery", "delivered", "failed"},
           Record(n, status), WorkFacts(n),
           Remove(n) \/ UNCHANGED <<outbox, file>>,
           UNCHANGED <<others, overdue, restarts, drawn, chosen>>,
           relayed' = relayed \/ relayed' = relayed \cup {n},
           status = "delivered" => n \in relayed',
           n \in relayed' /\ n \notin relayed =>
             \E p \in Proposal, b \in Provider :
                <<p, b>> \in worked' /\ p \in DOMAIN drawn /\ drawn[p] = n,
           Remove(n) => n \in relayed' \/ outbox[n].proposal \in overdue
    PROVE  MarketInv'
<1>1. /\ Sound(mem', drawn', chosen', relayed')
      /\ Sound(disk', drawn', chosen', relayed')
      /\ mem' \in Coordinator /\ disk' \in Coordinator /\ stalled' \in BOOLEAN
      /\ sending' \subseteq sending
      /\ \A q \in sending' : mem'.awards[q] # NoBid
  BY RecordFacts
<1>2. TypeOK /\ DeliveryInv
  BY DEF MarketInv
<1>3. /\ outbox' \in [Number -> Entry \cup {NoEntry}]
      /\ file' \in [Number -> Entry \cup {NoEntry}]
      /\ \A q \in Number : q # n => outbox'[q] = outbox[q]
      /\ (\A q \in Number : EntryMeant(q))'
  <2>1. CASE Remove(n)
    BY <2>1, RemoveFacts
  <2>2. CASE UNCHANGED <<outbox, file>>
    BY <2>2, <1>2 DEF TypeOK, DeliveryInv, EntryMeant
  <2> QED  BY <2>1, <2>2
<1>4. TypeOK'
  BY <1>1, <1>2, <1>3 DEF TypeOK, WorkFacts
<1>5. (\A q \in relayed : q \in others \/ Served(q))'
  <2> SUFFICES ASSUME NEW q \in relayed', q \notin others
               PROVE  \E p \in Proposal, b \in Provider :
                        <<p, b>> \in worked' /\ p \in DOMAIN drawn /\ drawn[p] = q
    BY DEF Served
  <2>1. CASE q \in relayed
    BY <2>1, <1>2 DEF DeliveryInv, Served, WorkFacts
  <2>2. CASE q \notin relayed
    <3>1. q = n /\ n \in relayed' /\ n \notin relayed
      BY <2>2
    <3> QED  BY <3>1
  <2> QED  BY <2>1, <2>2
<1>6. /\ (\A q \in Number, b \in Provider :
            <<q, b>> \in done => \E p \in Proposal :
                <<p, b>> \in worked /\ p \in DOMAIN drawn /\ drawn[p] = q)'
      /\ OneWorker'
  BY DEF WorkFacts, OneWorker
<1>7. (\A p \in Proposal, b \in Provider :
          <<p, b>> \in worked => <<p, b>> \in chosen /\ p \in DOMAIN drawn /\ Confirmed(p, b))'
  <2> SUFFICES ASSUME NEW p \in Proposal, NEW b \in Provider, <<p, b>> \in worked'
               PROVE  /\ <<p, b>> \in chosen /\ p \in DOMAIN drawn
                      /\ \/ drawn[p] \in relayed'
                         \/ p \in overdue
                         \/ outbox'[drawn[p]] = [proposal |-> p, to |-> b]
    BY DEF Confirmed
  <2>1. /\ <<p, b>> \in chosen /\ p \in DOMAIN drawn
        /\ \/ drawn[p] \in relayed
           \/ p \in overdue
           \/ outbox[drawn[p]] = [proposal |-> p, to |-> b]
    <3>1. CASE <<p, b>> \in worked
      BY <1>2, <3>1 DEF DeliveryInv, Confirmed
    <3>2. CASE <<p, b>> \notin worked
      BY <3>2 DEF WorkFacts
    <3> QED  BY <3>1, <3>2
  <2>2. drawn[p] \in Number
    BY <1>2, <2>1, ElementOfSeq DEF TypeOK
  <2>3. CASE outbox[drawn[p]] = [proposal |-> p, to |-> b]
    <3>1. CASE drawn[p] # n
      BY <2>1, <2>2, <2>3, <3>1, <1>3
    <3>2. CASE drawn[p] = n /\ Remove(n)
      <4>1. outbox[n].proposal = p
        BY <2>3, <3>2
      <4> QED  BY <2>1, <3>2, <4>1
    <3>3. CASE UNCHANGED <<outbox, file>>
      BY <2>1, <2>3, <3>3
    <3> QED  BY <3>1, <3>2, <3>3
  <2> QED  BY <2>1, <2>3
<1>8. DeliveryInv'
  BY <1>1, <1>2, <1>3, <1>5, <1>6, <1>7 DEF DeliveryInv
<1> QED  BY <1>1, <1>4, <1>8 DEF MarketInv

LEMMA DeliveredStep ==
    ASSUME MarketInv, NEW n \in Number, FlushDelivered(n)
    PROVE  MarketInv'
<1>1. /\ Sendable(n) /\ Record(n, "delivered") /\ Remove(n)
      /\ UNCHANGED <<others, overdue, restarts, drawn, chosen>>
      /\ relayed' = relayed \cup {n}
      /\ n \in relayed => UNCHANGED <<done, worked>>
      /\ n \notin relayed => Serve(n)
  BY DEF FlushDelivered
<1>2. WorkFacts(n)
  BY <1>1, IdleFacts, ServeFacts
<1>3. n \in relayed' /\ n \notin relayed =>
        \E p \in Proposal, b \in Provider :
            <<p, b>> \in worked' /\ p \in DOMAIN drawn /\ drawn[p] = n
  BY <1>1, ServeFacts
<1>4. n \in relayed' /\ "delivered" \in {"pending_delivery", "delivered", "failed"}
  BY <1>1
<1> QED  BY <1>1, <1>2, <1>3, <1>4, FlushStep

LEMMA FailsStep ==
    ASSUME MarketInv, NEW n \in Number, FlushFails(n)
    PROVE  MarketInv'
<1>1. /\ Sendable(n) /\ Record(n, "pending_delivery")
      /\ UNCHANGED <<outbox, file, others, overdue, restarts, drawn, chosen>>
      /\ \/ UNCHANGED <<relayed, done, worked>>
         \/ n \notin relayed /\ Serve(n) /\ relayed' \in {relayed, relayed \cup {n}}
  BY DEF FlushFails
<1>2. WorkFacts(n)
  BY <1>1, IdleFacts, ServeFacts
<1>3. n \in relayed' /\ n \notin relayed =>
        \E p \in Proposal, b \in Provider :
            <<p, b>> \in worked' /\ p \in DOMAIN drawn /\ drawn[p] = n
  BY <1>1, ServeFacts
<1>4. /\ "pending_delivery" \in {"pending_delivery", "delivered", "failed"}
      /\ ~("pending_delivery" = "delivered")
      /\ relayed' = relayed \/ relayed' = relayed \cup {n}
  BY <1>1
<1>5. Remove(n) => n \in relayed' \/ outbox[n].proposal \in overdue
  <2>1. Remove(n) => outbox'[n] = NoEntry
    BY DEF Remove, MarketInv, TypeOK
  <2> QED  BY <1>1, <2>1 DEF Sendable
<1> QED  BY <1>1, <1>2, <1>3, <1>4, <1>5, FlushStep

LEMMA ExpiredStep ==
    ASSUME MarketInv, NEW n \in Number, FlushExpired(n)
    PROVE  MarketInv'
<1>1. /\ Record(n, "failed") /\ Remove(n) /\ outbox[n].proposal \in overdue
      /\ UNCHANGED <<relayed, done, worked>>
      /\ UNCHANGED <<others, overdue, restarts, drawn, chosen>>
  BY DEF FlushExpired, relayVars
<1>2. WorkFacts(n)
  BY <1>1, IdleFacts
<1>3. "failed" \in {"pending_delivery", "delivered", "failed"} /\ ~("failed" = "delivered")
  OBVIOUS
<1> QED  BY <1>1, <1>2, <1>3, FlushStep

LEMMA OverdueStep ==
    ASSUME MarketInv, NEW p0 \in Proposal, BecomesOverdue(p0)
    PROVE  MarketInv'
<1>1. /\ overdue' = overdue \cup {p0}
      /\ UNCHANGED <<mem, disk, stalled>> /\ UNCHANGED <<outbox, file, sending>>
      /\ UNCHANGED <<relayed, done, worked, others>>
      /\ UNCHANGED <<restarts, drawn, chosen>>
  BY DEF BecomesOverdue, coordinatorVars, outboxVars, relayVars
<1>2. TypeOK /\ DeliveryInv /\ Sound(mem, drawn, chosen, relayed)
      /\ Sound(disk, drawn, chosen, relayed)
  BY DEF MarketInv
<1>3. stalled' \in BOOLEAN
  BY <1>1, <1>2, Zenon DEF TypeOK
<1>4. TypeOK'
  BY <1>1, <1>2, <1>3 DEF TypeOK
<1>5. /\ (\A n \in sending : mem.awards[n] # NoBid)'
      /\ (\A n \in Number : EntryMeant(n))'
  BY <1>1, <1>2 DEF DeliveryInv, EntryMeant
<1>6. /\ (\A n \in relayed : n \in others \/ Served(n))'
      /\ (\A n \in Number, b \in Provider :
            <<n, b>> \in done => \E p \in Proposal :
                <<p, b>> \in worked /\ p \in DOMAIN drawn /\ drawn[p] = n)'
      /\ OneWorker'
  BY <1>1, <1>2 DEF DeliveryInv, Served, OneWorker
<1>7. (\A p \in Proposal, b \in Provider :
          <<p, b>> \in worked => <<p, b>> \in chosen /\ p \in DOMAIN drawn /\ Confirmed(p, b))'
  BY <1>1, <1>2 DEF DeliveryInv, Confirmed
<1>8. DeliveryInv'
  BY <1>1, <1>2, <1>5, <1>6, <1>7 DEF DeliveryInv
<1> QED  BY <1>1, <1>2, <1>4, <1>8 DEF MarketInv

LEMMA RestartStep ==
    ASSUME MarketInv, Restart
    PROVE  MarketInv'
<1>1. /\ mem' = disk /\ stalled' = FALSE /\ outbox' = file /\ sending' = {}
      /\ restarts' = restarts + 1
      /\ UNCHANGED <<disk, file>> /\ UNCHANGED <<relayed, done, worked, others>>
      /\ UNCHANGED <<overdue, drawn, chosen>>
  BY DEF Restart, relayVars
<1>2. TypeOK /\ DeliveryInv /\ Sound(disk, drawn, chosen, relayed)
  BY DEF MarketInv
<1>3. TypeOK'
  <2>1. stalled' \in BOOLEAN
    BY <1>1
  <2>2. sending' \subseteq Number /\ restarts' \in Nat
    BY <1>1, <1>2 DEF TypeOK
  <2> QED  BY <1>1, <1>2, <2>1, <2>2 DEF TypeOK
<1>4. (\A n \in Number : EntryMeant(n))'
  BY <1>1, <1>2 DEF DeliveryInv, EntryMeant
<1>5. /\ (\A n \in relayed : n \in others \/ Served(n))'
      /\ (\A n \in Number, b \in Provider :
            <<n, b>> \in done => \E p \in Proposal :
                <<p, b>> \in worked /\ p \in DOMAIN drawn /\ drawn[p] = n)'
      /\ OneWorker'
  BY <1>1, <1>2 DEF DeliveryInv, Served, OneWorker
<1>6. (\A p \in Proposal, b \in Provider :
          <<p, b>> \in worked => <<p, b>> \in chosen /\ p \in DOMAIN drawn /\ Confirmed(p, b))'
  <2> SUFFICES ASSUME NEW p \in Proposal, NEW b \in Provider, <<p, b>> \in worked
               PROVE  /\ <<p, b>> \in chosen /\ p \in DOMAIN drawn
                      /\ \/ drawn[p] \in relayed
                         \/ p \in overdue
                         \/ file[drawn[p]] = [proposal |-> p, to |-> b]
    BY <1>1 DEF Confirmed
  <2>1. /\ <<p, b>> \in chosen /\ p \in DOMAIN drawn
        /\ \/ drawn[p] \in relayed
           \/ p \in overdue
           \/ outbox[drawn[p]] = [proposal |-> p, to |-> b]
    BY <1>2 DEF DeliveryInv, Confirmed
  <2>2. drawn[p] \in Number
    BY <1>2, <2>1, ElementOfSeq DEF TypeOK
  <2>3. [proposal |-> p, to |-> b] # NoEntry
    BY NoBidFacts DEF Entry
  <2>4. outbox[drawn[p]] # NoEntry => file[drawn[p]] = outbox[drawn[p]]
    BY <1>2, <2>2 DEF DeliveryInv, EntryMeant
  <2> QED  BY <2>1, <2>3, <2>4
<1>7. DeliveryInv'
  BY <1>1, <1>2, <1>4, <1>5, <1>6 DEF DeliveryInv
<1> QED  BY <1>1, <1>2, <1>3, <1>7 DEF MarketInv

-----------------------------------------------------------------------------
LEMMA MarketNext == MarketInv /\ [Next]_vars => MarketInv'
<1> SUFFICES ASSUME MarketInv, [Next]_vars PROVE MarketInv'
  OBVIOUS
<1>1. ASSUME NEW b \in Provider, NEW trust \in {"known", "blocked"}, SetPeerTrust(b, trust)
      PROVE  MarketInv'
  BY <1>1, TrustStep
<1>2. ASSUME NEW b \in Provider, NEW n \in Number,
             NegotiateCapability(b, n) \/ SubmitBid(b, n)
      PROVE  MarketInv'
  BY <1>2, NegotiateStep, BidStep
<1>3. ASSUME NEW i \in DOMAIN mem.agreements, RevokeAgreement(i)
      PROVE  MarketInv'
  BY <1>3, RevokeStep
<1>4. ASSUME NEW x \in mem.bids, AwardUnsent(x) \/ AwardSent(x)
      PROVE  MarketInv'
  BY <1>4, AwardUnsentStep, AwardSentStep
<1>5. ASSUME NEW n \in Number, ProposeService(n)
      PROVE  MarketInv'
  BY <1>5, ProposeStep
<1>6. ASSUME NEW n \in Number, FlushDelivered(n) \/ FlushFails(n) \/ FlushExpired(n)
      PROVE  MarketInv'
  BY <1>6, DeliveredStep, FailsStep, ExpiredStep
<1>7. ASSUME NEW p \in Expiring, BecomesOverdue(p)
      PROVE  MarketInv'
  <2>1. p \in Proposal
    BY MarketAssumption DEF Proposal
  <2> QED  BY <1>7, <2>1, OverdueStep
<1>8. CASE Restart
  BY <1>8, RestartStep
<1>9. CASE UNCHANGED vars
  <2>1. /\ UNCHANGED <<mem, disk, stalled>> /\ UNCHANGED <<outbox, file, sending>>
        /\ UNCHANGED <<relayed, done, worked, others>>
        /\ UNCHANGED <<overdue, restarts, drawn, chosen>>
    BY <1>9 DEF vars, coordinatorVars, outboxVars, relayVars
  <2>2. TypeOK'
    BY <2>1, Zenon DEF MarketInv, TypeOK
  <2>3. /\ Sound(mem, drawn, chosen, relayed)'
        /\ Sound(disk, drawn, chosen, relayed)'
    BY <2>1 DEF MarketInv
  <2>4. DeliveryInv'
    BY <2>1 DEF MarketInv, DeliveryInv, EntryMeant, Served, Confirmed, OneWorker
  <2> QED  BY <2>2, <2>3, <2>4 DEF MarketInv
<1> QED
  BY <1>1, <1>2, <1>3, <1>4, <1>5, <1>6, <1>7, <1>8, <1>9 DEF Next

LEMMA Invariance == Spec => []MarketInv
BY MarketInit, MarketNext, PTL DEF Spec

(***************************************************************************)
(* Coordinator, outbox, relay and providers keep the shape of their state. *)
(***************************************************************************)
THEOREM MarketTypeCorrect == Spec => []TypeOK
<1>1. MarketInv => TypeOK
  BY DEF MarketInv
<1> QED  BY <1>1, Invariance, PTL

(***************************************************************************)
(* networkAwardBid, flushEntry and the relay: a proposal is delivered only *)
(* when its winner has worked on it, as long as its number is unambiguous. *)
(***************************************************************************)
THEOREM DeliveredMeansDone == Spec => []DeliveredWasDone
<1>1. MarketInv => DeliveredWasDone
  <2> SUFFICES ASSUME MarketInv, NEW n \in Number, mem.deliveries[n] = "delivered",
                      ~Ambiguous(n)
               PROVE  <<mem.proposals[n], mem.awards[n].provider>> \in worked
    BY DEF DeliveredWasDone
  <2>1. /\ mem \in Coordinator /\ n \in relayed
        /\ mem.awards[n] # NoBid /\ mem.proposals[n] # 0
    BY DEF MarketInv, Sound, Recorded
  <2>2. n \notin others
    BY DEF Ambiguous
  <2>3. PICK p \in Proposal, b \in Provider :
           <<p, b>> \in worked /\ p \in DOMAIN drawn /\ drawn[p] = n
    BY <2>1, <2>2 DEF MarketInv, DeliveryInv, Served
  <2>4. p = mem.proposals[n]
    BY <2>3 DEF Ambiguous
  <2>5. <<p, b>> \in chosen
    BY <2>3 DEF MarketInv, DeliveryInv
  <2>6. b = mem.awards[n].provider
    BY <2>4, <2>5 DEF Ambiguous
  <2> QED  BY <2>3, <2>4, <2>6
<1> QED  BY <1>1, Invariance, PTL

(***************************************************************************)
(* DurableOutbox.send, the relay's dedup and the provider's: no proposal   *)
(* is worked on by two peers, whatever a crash makes the requester forget. *)
(***************************************************************************)
THEOREM WorkedByOne == Spec => []OneWorker
<1>1. MarketInv => OneWorker
  BY DEF MarketInv, DeliveryInv
<1> QED  BY <1>1, Invariance, PTL

(***************************************************************************)
(* setPeerTrust and awardBid: a bid that waited when its provider was      *)
(* blocked never wins.                                                     *)
(***************************************************************************)
THEOREM VoidedStays == Spec => []VoidedNeverWins
<1>1. MarketInv => VoidedNeverWins
  <2> SUFFICES ASSUME MarketInv, NEW n \in Number, mem.awards[n] \in mem.voided
               PROVE  FALSE
    BY DEF VoidedNeverWins
  <2>1. Sound(mem, drawn, chosen, relayed) /\ mem.voided \in SUBSET Bid
    BY Fields DEF MarketInv, Sound
  <2>2. mem.awards[n] # NoBid
    BY <2>1, NoBidFacts
  <2>3. mem.awards[n].number = n
    BY <2>1, <2>2 DEF Sound, Recorded
  <2> QED  BY <2>1, <2>3 DEF Sound, Void
<1> QED  BY <1>1, Invariance, PTL
=============================================================================
