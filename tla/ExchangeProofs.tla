---------------------------- MODULE ExchangeProofs ----------------------------
(***************************************************************************)
(* What the standings and the door promise together, proved for any number *)
(* of heirs, parties and asks, whoever holds which invitation, and for     *)
(* asks and replies that arrive in any order, many times or never; and     *)
(* that Exchange keeps the promise of module Promise.                      *)
(***************************************************************************)
EXTENDS Exchange, DoorProofs

-----------------------------------------------------------------------------
(* The inductive invariant.                                                *)

Lids == Parties \X (1..MaxAsks)

Sent == [kind : {"knock", "probe", "ask"}, lid : Lids, box : Box(Edge)]

AskOf(sent) == [lid |-> sent.lid, box |-> sent.box]

StandingFields ==
  [phase : {"fresh", "uncertain", "bound"}, signer : Keys, edge : Edge,
   seq : 0..MaxAsks, moved : 0..MaxAsks, probeNext : BOOLEAN,
   knock : Sent \cup {NoSent}, last : Sent \cup {NoSent}]

(* The first box of a party is its knock, signed by the heir; the ones     *)
(* after it are signed by keys the party drew before, under edge keys that *)
(* come of its own knock.                                                  *)
IsKnock(a) ==
  /\ a.lid[2] = 1
  /\ a.box.by = Invitation[a.lid[1]]
  /\ a.box.ct = a.lid
  /\ a.box.edge = KnockEdge(a.lid)

FollowsKnock(a) ==
  /\ a.lid[2] > 1
  /\ a.box.by \in {Drawn(a.lid[1], m) : m \in 1..MaxAsks}
  /\ a.box.ct = NoCt
  /\ a.box.edge.root = Drawn(a.lid[1], 1)

OwnAsk(a) ==
  /\ a.lid \in Lids
  /\ a.box \in Box(Edge)
  /\ a.box.head = Invitation[a.lid[1]]
  /\ a.box.next = a.lid
  /\ a.box.seq = a.lid[2]
  /\ IsKnock(a) \/ FollowsKnock(a)

(* What a standing knows is what it sealed.                                *)
Knocked(p) ==
  LET s == st[p]
  IN /\ s.seq > 0
     /\ s.knock \in Sent /\ AskOf(s.knock) \in asks /\ s.knock.lid = Drawn(p, 1)
     /\ s.last \in Sent /\ AskOf(s.last) \in asks /\ s.last.lid[1] = p
     /\ s.last.lid[2] <= s.seq
     /\ s.signer \in {Drawn(p, m) : m \in 1..MaxAsks}
     /\ s.edge.root = Drawn(p, 1)

NotKnocked(p) ==
  /\ st[p].seq = 0
  /\ st[p].last = NoSent
  /\ st[p].signer = Invitation[p]

StandsAsSent(p) ==
  /\ st[p].moved <= st[p].seq
  /\ IF st[p].phase = "fresh" THEN NotKnocked(p) ELSE Knocked(p)

(* The edge keys of a bound relation, held or kept, come of the knock that *)
(* bound it; and what bound an heir was the first ask of a party that      *)
(* holds its invitation.                                                   *)
Rooted(rel, h) ==
  rel.stage = "spent" =>
    /\ honoured[h] # << >>
    /\ rel.O.root = honoured[h][1].next
    /\ rel.F.root = honoured[h][1].next

BoundByAKnock(h) ==
  honoured[h] # << >> =>
    \E p \in Parties : h = Invitation[p] /\ honoured[h][1].next = Drawn(p, 1)

(* An object answers an ask that was honoured.                             *)
ObjectWasHonoured(r) ==
  r.text = "object" =>
    LET log == honoured[Invitation[r.lid[1]]]
    IN \E i \in DOMAIN log : log[i].seq = r.lid[2] /\ log[i].next = r.lid

ExchangeInv ==
  /\ DoorInv
  /\ st \in [Parties -> StandingFields]
  /\ replies \subseteq Reply
  /\ \A a \in asks : OwnAsk(a)
  /\ \A p \in Parties : StandsAsSent(p)
  /\ \A h \in Heirs : Rooted(heirs[h], h) /\ Rooted(removed[h], h)
                      /\ BoundByAKnock(h)
  /\ \A r \in replies : ObjectWasHonoured(r)
  /\ SilenceToTheRest
  /\ BoundOnlyByOwnKnock
  /\ MovedWasHonoured

-----------------------------------------------------------------------------
(* Lids, asks and edge keys.                                               *)

LEMMA LidFacts ==
  ASSUME NEW lid \in Lids
  PROVE  /\ lid[1] \in Parties /\ lid[2] \in 1..MaxAsks
         /\ lid = Drawn(lid[1], lid[2])
         /\ lid \in Secrets /\ lid \in Keys /\ lid \notin Heirs
         /\ lid # NoCt /\ lid # NoKey
         /\ Invitation[lid[1]] \in Heirs /\ Invitation[lid[1]] # NoHeir
         /\ lid # Invitation[lid[1]]
         /\ MaxAsks \in Nat /\ MaxAsks > 0 /\ MaxAsks <= MaxCount
BY StandingAssumption, BoxesAssumption DEF Lids, Drawn

LEMMA DrawnIsALid ==
  ASSUME NEW p \in Parties, NEW n \in 1..MaxAsks
  PROVE  Drawn(p, n) \in Lids /\ Drawn(p, n)[1] = p /\ Drawn(p, n)[2] = n
BY DEF Lids, Drawn

(* A step of both ends is, to the door, a step of its own or none.         *)
LEMMA DoorSteps ==
  ASSUME \A a \in asks : OwnAsk(a), [ExchangeNext]_exchangeVars
  PROVE  [DoorNext]_doorVars
<1>1. CASE UNCHANGED exchangeVars
  BY <1>1 DEF exchangeVars, doorVars
<1>2. ASSUME NEW h \in Heirs, NEW reach \in Reaches, WardInvites(h, reach)
      PROVE  DoorNext
  BY <1>2 DEF WardInvites, DoorNext
<1>3. ASSUME NEW h \in Heirs, WardReleases(h)
      PROVE  DoorNext
  BY <1>3 DEF WardReleases, DoorNext
<1>4. ASSUME NEW p \in Parties, NEW unread \in BOOLEAN, PartyAsks(p, unread)
      PROVE  UNCHANGED doorVars
  BY <1>4 DEF PartyAsks, doorVars
<1>5. ASSUME NEW a \in asks, AskArrives(a)
      PROVE  [DoorNext]_doorVars
  <2>1. a.box \in Box(Edge)
    BY DEF OwnAsk
  <2>2. CASE Verdict(a.box) = "choice"
    BY <1>5, <2>1, <2>2, ChoiceInReach DEF AskArrives, DoorNext
  <2>3. CASE Verdict(a.box) # "choice"
    BY <1>5, <2>3 DEF AskArrives, Arrive
  <2> QED
    BY <2>2, <2>3
<1>6. ASSUME NEW p \in Parties, NEW reply, PartyReads(p, reply)
      PROVE  UNCHANGED doorVars
  BY <1>6 DEF PartyReads, doorVars
<1> QED
  BY <1>1, <1>2, <1>3, <1>4, <1>5, <1>6 DEF ExchangeNext

-----------------------------------------------------------------------------
(* A party asks.                                                           *)

LEMMA SealedIsOwn ==
  ASSUME ExchangeInv, NEW p \in Parties, NEW unread \in BOOLEAN,
         st[p].seq < MaxAsks
  PROVE  /\ Sealed(p, unread) \in Sent
         /\ Sealed(p, unread).lid = Drawn(p, st[p].seq + 1)
         /\ OwnAsk(AskOf(Sealed(p, unread)))
<1> DEFINE s == st[p]
           n == s.seq + 1
           b == Sealed(p, unread).box
<1>1. /\ s \in StandingFields /\ StandsAsSent(p)
      /\ n \in 1..MaxAsks /\ MaxAsks \in Nat /\ MaxAsks <= MaxCount
  BY StandingAssumption, BoxesAssumption DEF ExchangeInv, StandingFields
<1>2. Drawn(p, n) \in Lids /\ Drawn(p, n)[1] = p /\ Drawn(p, n)[2] = n
  BY <1>1, DrawnIsALid
<1>3. /\ Drawn(p, n) \in Secrets /\ Drawn(p, n) \in Keys /\ Drawn(p, n) # NoCt
      /\ Invitation[p] \in Heirs
  BY <1>2, LidFacts
<1>4. /\ b.head = Invitation[p] /\ b.by = s.signer /\ b.next = Drawn(p, n)
      /\ b.seq = n /\ b.fault = "none" /\ b.unread = unread
      /\ b.ct = IF s.phase = "fresh" THEN Drawn(p, n) ELSE NoCt
      /\ b.edge = IF s.phase = "fresh" THEN KnockEdge(Drawn(p, n)) ELSE s.edge
      /\ b = [head |-> b.head, ct |-> b.ct, edge |-> b.edge, by |-> b.by,
              next |-> b.next, seq |-> b.seq, fault |-> b.fault,
              unread |-> b.unread]
  BY <1>3 DEF Sealed, SealAsk
<1>5. /\ Sealed(p, unread).kind = KindOf[s.phase]
      /\ Sealed(p, unread).lid = Drawn(p, n)
      /\ Sealed(p, unread) = [kind |-> KindOf[s.phase], lid |-> Drawn(p, n),
                              box |-> b]
  BY DEF Sealed
<1>6. KindOf[s.phase] \in {"knock", "probe", "ask"}
  BY <1>1 DEF StandingFields, KindOf
<1> HIDE DEF s, n, b
<1>7. b \in Box(Edge)
  <2>1. b.edge \in Edge
    BY <1>1, <1>3, <1>4, KnockEdgeType DEF StandingFields
  <2>2. b.seq \in 0..(MaxCount + 1)
    BY <1>1, <1>4, BoxesAssumption
  <2>3. b.by \in Keys
    BY <1>1, <1>4 DEF StandingFields
  <2>4. b.ct \in Secrets \cup {NoCt}
    BY <1>3, <1>4
  <2> QED
    BY <1>3, <1>4, <2>1, <2>2, <2>3, <2>4 DEF Box, Faults
<1>8. CASE s.phase = "fresh"
  <2>1. n = 1 /\ s.signer = Invitation[p]
    BY <1>1, <1>8 DEF StandsAsSent, NotKnocked, n, s
  <2>2. IsKnock(AskOf(Sealed(p, unread)))
    BY <1>2, <1>4, <1>5, <1>8, <2>1 DEF IsKnock, AskOf, b
  <2> QED
    BY <1>2, <1>4, <1>5, <1>6, <1>7, <2>2 DEF OwnAsk, AskOf, Sent, b, n, s
<1>9. CASE s.phase # "fresh"
  <2>1. /\ s.seq > 0
        /\ s.signer \in {Drawn(p, m) : m \in 1..MaxAsks}
        /\ s.edge.root = Drawn(p, 1)
    BY <1>1, <1>9 DEF StandsAsSent, Knocked, s
  <2>2. n > 1
    BY <1>1, <2>1 DEF n, StandingFields
  <2>3. FollowsKnock(AskOf(Sealed(p, unread)))
    BY <1>2, <1>4, <1>5, <1>9, <2>1, <2>2 DEF FollowsKnock, AskOf, b
  <2> QED
    BY <1>2, <1>4, <1>5, <1>6, <1>7, <2>3 DEF OwnAsk, AskOf, Sent, b, n, s
<1> QED
  BY <1>8, <1>9

LEMMA AskKeeps ==
  ASSUME ExchangeInv, NEW p \in Parties, NEW unread \in BOOLEAN,
         PartyAsks(p, unread)
  PROVE  /\ \A a \in asks' : OwnAsk(a)
         /\ st' \in [Parties -> StandingFields]
         /\ \A q \in Parties : StandsAsSent(q)'
         /\ \A q \in Parties : /\ st'[q].moved = st[q].moved
                               /\ st'[q].phase = "bound" => st[q].phase = "bound"
<1> DEFINE s == st[p]
           sent == NextSent(p, unread)
           t == AfterAsk(s, sent)
<1>1. /\ s \in StandingFields /\ StandsAsSent(p)
      /\ st' = [st EXCEPT ![p] = t]
      /\ st'[p] = t
      /\ \A q \in Parties \ {p} : st'[q] = st[q]
      /\ asks' = asks \cup {AskOf(st'[p].last)}
  BY DEF ExchangeInv, PartyAsks, StandingAsk, AskOf
<1>2. MaxAsks \in Nat /\ s.seq \in 0..MaxAsks /\ s.moved \in 0..MaxAsks
  BY <1>1, StandingAssumption, BoxesAssumption DEF StandingFields
<1>3. CASE Resends(p)
  <2>1. s.phase = "uncertain" /\ ~s.probeNext /\ sent = s.knock
    BY <1>3 DEF Resends, NextSent
  <2>2. Knocked(p)
    BY <1>1, <2>1 DEF StandsAsSent
  <2>3. t = [s EXCEPT !.probeNext = TRUE, !.last = s.knock]
    BY <2>1 DEF AfterAsk
  <2> HIDE DEF t, sent
  <2>4. /\ t.phase = s.phase /\ t.signer = s.signer /\ t.edge = s.edge
        /\ t.seq = s.seq /\ t.moved = s.moved /\ t.knock = s.knock
        /\ t.last = s.knock /\ t \in StandingFields
    BY <1>1, <2>2, <2>3 DEF StandingFields, Knocked
  <2>5. asks' = asks
    BY <1>1, <2>2, <2>4 DEF Knocked
  <2>6. StandsAsSent(p)'
    <3>1. s.knock.lid[1] = p /\ s.knock.lid[2] = 1
      BY <2>2 DEF Knocked, Drawn
    <3>2. 1 <= s.seq
      BY <1>2, <2>2 DEF Knocked
    <3> QED
      BY <1>1, <2>1, <2>2, <2>4, <2>5, <3>1, <3>2 DEF StandsAsSent, Knocked
  <2>7. \A q \in Parties \ {p} : StandsAsSent(q)'
    BY <1>1, <2>5 DEF ExchangeInv, StandsAsSent, Knocked, NotKnocked
  <2> QED
    BY <1>1, <2>1, <2>4, <2>5, <2>6, <2>7 DEF ExchangeInv
<1>4. CASE ~Resends(p)
  <2>1. s.seq < MaxAsks /\ sent = Sealed(p, unread)
    BY <1>4 DEF PartyAsks, StandingAsk, NextSent
  <2>2. /\ sent \in Sent /\ sent.lid = Drawn(p, s.seq + 1) /\ OwnAsk(AskOf(sent))
    BY <2>1, SealedIsOwn
  <2>3. sent.lid[1] = p /\ sent.lid[2] = s.seq + 1 /\ s.seq + 1 \in 1..MaxAsks
    BY <1>2, <2>1, <2>2 DEF Drawn
  <2>4. /\ sent.box \in Box(Edge) /\ sent.box.edge \in Edge
        /\ sent.box.seq = s.seq + 1
        /\ sent.box.next = Drawn(p, s.seq + 1) /\ sent.box.next \in Keys
        /\ IsKnock(AskOf(sent)) \/ FollowsKnock(AskOf(sent))
    <3>1. sent.lid \in Lids
      BY <2>2 DEF Sent
    <3> QED
      BY <2>2, <2>3, <3>1, LidFacts DEF OwnAsk, AskOf, Box
  <2>5. /\ t \in StandingFields
        /\ t.phase # "fresh" /\ t.last = sent /\ t.seq = s.seq + 1
        /\ t.moved = s.moved
        /\ t.phase = "bound" => s.phase = "bound"
        /\ s.phase = "fresh" => /\ t.knock = sent /\ t.signer = sent.box.next
                                /\ t.edge = sent.box.edge
        /\ s.phase # "fresh" => /\ t.knock = s.knock /\ t.signer = s.signer
                                /\ t.edge = s.edge
    <3>0. /\ s \in StandingFields /\ sent \in Sent
          /\ sent.box.seq \in 0..MaxAsks /\ sent.box.seq = s.seq + 1
          /\ sent.box.next \in Keys /\ sent.box.edge \in Edge
      BY <1>1, <1>2, <2>2, <2>3, <2>4
    <3>1. CASE s.phase = "fresh"
      <4>1. t = [s EXCEPT !.seq = sent.box.seq, !.knock = sent, !.last = sent,
                          !.edge = sent.box.edge, !.signer = sent.box.next,
                          !.phase = "uncertain", !.probeNext = TRUE]
        BY <3>1 DEF AfterAsk, AfterKnock
      <4> HIDE DEF t, sent, s
      <4> QED
        BY <3>0, <3>1, <4>1 DEF StandingFields
    <3>2. CASE s.phase = "uncertain"
      <4>1. t = [s EXCEPT !.seq = sent.box.seq, !.probeNext = FALSE,
                          !.last = sent]
        BY <1>4, <3>2 DEF AfterAsk, Resends
      <4> HIDE DEF t, sent, s
      <4> QED
        BY <3>0, <3>2, <4>1 DEF StandingFields
    <3>3. CASE s.phase = "bound"
      <4>1. t = [s EXCEPT !.seq = sent.box.seq, !.last = sent]
        BY <3>3 DEF AfterAsk
      <4> HIDE DEF t, sent, s
      <4> QED
        BY <3>0, <3>3, <4>1 DEF StandingFields
    <3> QED
      BY <1>1, <3>1, <3>2, <3>3 DEF StandingFields
  <2> HIDE DEF t, sent
  <2>6. asks' = asks \cup {AskOf(sent)}
    BY <1>1, <2>5
  <2>7. Knocked(p)'
    <3>1. CASE s.phase = "fresh"
      <4>1. s.seq = 0
        BY <1>1, <3>1 DEF StandsAsSent, NotKnocked
      <4>2. sent.box.edge.root = Drawn(p, 1)
        BY <2>2, <2>4, <4>1 DEF IsKnock, FollowsKnock, AskOf, KnockEdge, Drawn
      <4>3. t.signer \in {Drawn(p, m) : m \in 1..MaxAsks}
        BY <2>3, <2>4, <2>5, <3>1
      <4> QED
        BY <1>1, <2>2, <2>3, <2>5, <2>6, <3>1, <4>1, <4>2, <4>3 DEF Knocked
    <3>2. CASE s.phase # "fresh"
      <4>1. Knocked(p)
        BY <1>1, <3>2 DEF StandsAsSent
      <4>2. t.seq > 0 /\ t.last.lid[2] <= t.seq /\ t.last.lid[1] = p
        BY <1>2, <2>3, <2>5
      <4> QED
        BY <1>1, <2>2, <2>5, <2>6, <3>2, <4>1, <4>2 DEF Knocked
    <3> QED
      BY <3>1, <3>2
  <2>8. StandsAsSent(p)'
    <3>1. t.moved <= t.seq
      <4>1. t.moved = s.moved /\ t.seq = s.seq + 1 /\ s.moved <= s.seq
        BY <1>1, <2>5 DEF StandsAsSent
      <4>2. s.moved \in Nat /\ s.seq \in Nat
        BY <1>2
      <4> QED
        BY <4>1, <4>2
    <3> QED
      BY <1>1, <2>5, <2>7, <3>1 DEF StandsAsSent
  <2>9. \A q \in Parties \ {p} : StandsAsSent(q)'
    BY <1>1, <2>6 DEF ExchangeInv, StandsAsSent, Knocked, NotKnocked
  <2>10. st' \in [Parties -> StandingFields]
    BY <1>1, <2>5 DEF ExchangeInv
  <2> QED
    BY <1>1, <2>2, <2>5, <2>6, <2>8, <2>9, <2>10 DEF ExchangeInv
<1> QED
  BY <1>3, <1>4

(* Every box a party sends is sealed on its own knock's chain.             *)
LEMMA OwnRoot ==
  ASSUME NEW a, OwnAsk(a)
  PROVE  a.box.edge.root = Drawn(a.lid[1], 1) /\ a.box.edge \in Edge
<1>1. a.lid \in Lids /\ a.lid = Drawn(a.lid[1], a.lid[2])
  BY LidFacts DEF OwnAsk
<1> QED
  BY <1>1 DEF OwnAsk, IsKnock, FollowsKnock, KnockEdge, Box

-----------------------------------------------------------------------------
(* A party reads.                                                          *)

LEMMA ReadMeans ==
  ASSUME replies \subseteq Reply, NEW sent \in Sent,
         NEW reply \in replies \cup {Garbled, Nothing},
         ReadKind(sent, reply) \in {"object"} \cup Words
  PROVE  /\ reply \in replies /\ reply.lid = sent.lid
         /\ reply.text = ReadKind(sent, reply)
         /\ reply.agreement \in Nat
<1>1. sent.lid # NoCt
  BY LidFacts DEF Sent
<1>2. reply # Nothing /\ reply.lid = sent.lid /\ reply.text = ReadKind(sent, reply)
  BY DEF ReadKind, Words
<1>3. reply # Garbled
  BY <1>1, <1>2 DEF Garbled
<1> QED
  BY <1>2, <1>3 DEF Reply, Agreements

LEMMA ReadKeeps ==
  ASSUME ExchangeInv, NEW p \in Parties,
         NEW reply \in replies \cup {Garbled, Nothing}, PartyReads(p, reply)
  PROVE  /\ st' \in [Parties -> StandingFields]
         /\ \A q \in Parties : StandsAsSent(q)'
         /\ BoundOnlyByOwnKnock' /\ MovedWasHonoured'
<1> DEFINE s == st[p]
           t == AfterRead(s, reply)
           kind == ReadKind(s.last, reply)
<1>1. /\ s \in StandingFields
      /\ st' = [st EXCEPT ![p] = t]
      /\ st'[p] = t
      /\ \A q \in Parties \ {p} : st'[q] = st[q]
      /\ asks' = asks /\ honoured' = honoured
  BY DEF ExchangeInv, PartyReads, StandingRead
<1>2. s.phase # "fresh" /\ Knocked(p) /\ s.moved <= s.seq
  BY DEF ExchangeInv, StandsAsSent, NotKnocked, PartyReads, StandingRead
<1>3. /\ s.last \in Sent /\ s.last.lid \in Lids /\ s.last.lid[1] = p
      /\ s.last.lid = Drawn(p, s.last.lid[2])
      /\ s.last.lid[2] \in 1..MaxAsks /\ s.last.lid[2] <= s.seq
      /\ s.last.box.seq = s.last.lid[2] /\ s.last.box.next = s.last.lid
      /\ s.last.box.next \in Keys
      /\ s.last.box.edge \in Edge /\ s.last.box.edge.root = Drawn(p, 1)
  <2>1. s.last \in Sent /\ OwnAsk(AskOf(s.last)) /\ s.last.lid[1] = p
        /\ s.last.lid[2] <= s.seq
    BY <1>2 DEF Knocked, ExchangeInv
  <2>2. s.last.lid \in Lids
    BY <2>1 DEF Sent
  <2> QED
    BY <2>1, <2>2, LidFacts, OwnRoot DEF OwnAsk, AskOf
<1>4. MaxAsks \in Nat /\ s.seq \in Nat /\ s.moved \in Nat
  BY <1>1, StandingAssumption, BoxesAssumption DEF StandingFields
<1>5. /\ t \in StandingFields /\ Knocked(p)' /\ t.moved <= t.seq
      /\ t.phase # "fresh"
      /\ t.phase = "bound" => BoundBy(p)
      /\ t.moved > 0 =>
           \E i \in DOMAIN honoured[Invitation[p]] :
             LET e == honoured[Invitation[p]][i]
             IN e.seq = t.moved /\ e.next = Drawn(p, t.moved)
  <2>1. s.phase = "bound" => BoundBy(p)
    BY DEF ExchangeInv, BoundOnlyByOwnKnock
  <2>2. s.moved > 0 =>
           \E i \in DOMAIN honoured[Invitation[p]] :
             LET e == honoured[Invitation[p]][i]
             IN e.seq = s.moved /\ e.next = Drawn(p, s.moved)
    BY DEF ExchangeInv, MovedWasHonoured
  <2>3. kind \in {"object"} \cup Words => BoundBy(p) /\ reply.agreement \in Nat
    <3> SUFFICES ASSUME kind \in {"object"} \cup Words
                 PROVE  BoundBy(p) /\ reply.agreement \in Nat
      OBVIOUS
    <3>1. reply \in replies /\ reply.lid = s.last.lid /\ reply.text # "silence"
          /\ reply.agreement \in Nat
      BY <1>3, ReadMeans DEF ExchangeInv, Words
    <3> QED
      BY <1>3, <3>1 DEF ExchangeInv, SilenceToTheRest
  <2>4. CASE MovesOn(s, kind)
    <3>1. t = [s EXCEPT !.moved = s.last.box.seq, !.phase = "bound",
                        !.signer = s.last.box.next,
                        !.edge = Follow(s.last.box.edge, reply.agreement)]
      BY <2>4 DEF AfterRead, AfterObject
    <3>2. kind = "object" /\ BoundBy(p) /\ reply.agreement \in Nat
      BY <2>3, <2>4 DEF MovesOn
    <3>3. /\ Follow(s.last.box.edge, reply.agreement) \in Edge
          /\ Follow(s.last.box.edge, reply.agreement).root = Drawn(p, 1)
      BY <1>3, <3>2, FollowType DEF Follow
    <3>4. /\ s.last.box.seq \in 0..MaxAsks /\ s.last.box.next \in Keys
          /\ s.last.box.seq <= s.seq
      BY <1>3, <1>4
    <3> HIDE DEF t
    <3>5. t \in StandingFields
      BY <1>1, <3>1, <3>3, <3>4 DEF StandingFields
    <3>6. /\ t.moved = s.last.box.seq /\ t.phase = "bound"
          /\ t.signer = s.last.box.next /\ t.edge.root = Drawn(p, 1)
          /\ t.seq = s.seq /\ t.knock = s.knock /\ t.last = s.last
      BY <1>1, <3>1, <3>3 DEF StandingFields
    <3>7. t.signer \in {Drawn(p, m) : m \in 1..MaxAsks}
      BY <1>3, <3>6
    <3>8. Knocked(p)'
      BY <1>1, <1>2, <3>6, <3>7 DEF Knocked
    <3>9. \E i \in DOMAIN honoured[Invitation[p]] :
             LET e == honoured[Invitation[p]][i]
             IN e.seq = s.last.lid[2] /\ e.next = s.last.lid
      <4>1. reply \in replies /\ reply.lid = s.last.lid /\ reply.text = "object"
        BY <1>3, <3>2, ReadMeans DEF ExchangeInv
      <4>2. ObjectWasHonoured(reply)
        BY <4>1 DEF ExchangeInv
      <4> QED
        BY <1>3, <4>1, <4>2 DEF ObjectWasHonoured
    <3>10. s.last.lid[2] = t.moved /\ s.last.lid = Drawn(p, t.moved)
      BY <1>3, <3>6
    <3> QED
      BY <3>2, <3>4, <3>5, <3>6, <3>8, <3>9, <3>10
  <2>5. CASE ~MovesOn(s, kind) /\ SettlesOn(s, kind)
    <3>1. t = [s EXCEPT !.phase = "bound"]
      BY <2>5 DEF AfterRead
    <3>2. BoundBy(p)
      BY <2>3, <2>5 DEF SettlesOn
    <3> HIDE DEF t
    <3>3. /\ t \in StandingFields
          /\ t.phase = "bound" /\ t.moved = s.moved
          /\ t.signer = s.signer /\ t.edge = s.edge
          /\ t.seq = s.seq /\ t.knock = s.knock /\ t.last = s.last
      BY <1>1, <3>1 DEF StandingFields
    <3>4. Knocked(p)'
      BY <1>1, <1>2, <3>3 DEF Knocked
    <3> QED
      BY <1>2, <2>2, <3>2, <3>3, <3>4
  <2>6. CASE ~MovesOn(s, kind) /\ ~SettlesOn(s, kind)
    <3>1. t = s \/ \E x \in BOOLEAN : t = [s EXCEPT !.probeNext = x]
      BY <2>6 DEF AfterRead
    <3> HIDE DEF t
    <3>2. /\ t \in StandingFields
          /\ t.phase = s.phase /\ t.moved = s.moved
          /\ t.signer = s.signer /\ t.edge = s.edge
          /\ t.seq = s.seq /\ t.knock = s.knock /\ t.last = s.last
      BY <1>1, <3>1 DEF StandingFields
    <3>3. Knocked(p)'
      BY <1>1, <1>2, <3>2 DEF Knocked
    <3> QED
      BY <1>2, <2>1, <2>2, <3>2, <3>3
  <2> QED
    BY <2>4, <2>5, <2>6
<1> HIDE DEF t, kind
<1>6. st' \in [Parties -> StandingFields]
  BY <1>1, <1>5 DEF ExchangeInv
<1>7. \A q \in Parties : StandsAsSent(q)'
  <2>1. StandsAsSent(p)'
    BY <1>1, <1>5 DEF StandsAsSent
  <2>2. \A q \in Parties \ {p} : StandsAsSent(q)'
    BY <1>1 DEF ExchangeInv, StandsAsSent, Knocked, NotKnocked
  <2> QED
    BY <2>1, <2>2
<1>8. BoundOnlyByOwnKnock'
  BY <1>1, <1>5 DEF ExchangeInv, BoundOnlyByOwnKnock, BoundBy
<1>9. MovedWasHonoured'
  BY <1>1, <1>5 DEF ExchangeInv, MovedWasHonoured
<1> QED
  BY <1>6, <1>7, <1>8, <1>9

-----------------------------------------------------------------------------
(* The door answers an ask.                                                *)

(* An ask answered otherwise than by silence is the holder's: a knock      *)
(* binds its party, and past the knock only the holder's boxes open.       *)
LEMMA AnswerIsTheHolders ==
  ASSUME ExchangeInv, NEW a \in asks, AskArrives(a),
         ReplyText(a.box) # "silence"
  PROVE  /\ BoundBy(a.lid[1])'
         /\ ReplyText(a.box) \in {"object", "removed", "repeated"}
<1> DEFINE b == a.box
           p == a.lid[1]
           h == Invitation[p]
<1>1. /\ OwnAsk(a) /\ a.lid \in Lids /\ b \in Box(Edge)
      /\ p \in Parties /\ h \in Heirs
      /\ b.head = h /\ b.next = a.lid /\ b.next \notin Heirs
      /\ b.next # NoKey /\ h # NoHeir
      /\ b.edge.root = Drawn(p, 1)
  BY LidFacts, OwnRoot DEF ExchangeInv, OwnAsk
<1>2. honoured[h] \in Seq(Entry)
  BY <1>1 DEF ExchangeInv, DoorInv, DoorTypeOK
<1>3. Verdict(b) \in {"removed", "unannounced", "repeated", "choice"}
  BY <1>1 DEF ReplyText, Verdict
<1>4. ~Refused(b)
  BY <1>3 DEF Verdict
<1>5. CASE Held(b, "fresh")
  <2>1. b.by = h /\ b.edge = KnockEdge(b.ct) /\ b.ct # NoCt
    BY <1>1, <1>4, <1>5 DEF Refused, SignedBy, Opens
  <2>2. IsKnock(a)
    BY <1>1, <2>1 DEF OwnAsk, FollowsKnock
  <2>3. a.lid = Drawn(p, 1)
    BY <1>1, <2>2, LidFacts DEF IsKnock
  <2>4. Announces(b)
    BY <1>1, <2>1, <2>3 DEF Announces
  <2>5. Verdict(b) = "choice"
    BY <1>3, <1>5, <2>4 DEF Verdict, Unannounced, Held, Kept, Repeated
  <2>6. b \in Box(EdgesInReach)
    BY <1>1, <2>5, ChoiceInReach
  <2>7. honoured[h] = << >>
    BY <1>1, <1>5 DEF ExchangeInv, DoorInv, StartsEmpty, Held
  <2>8. honoured'[h] = Append(honoured[h], Logged(b))
    BY <1>1, <2>5 DEF AskArrives, Arrive, ExchangeInv, DoorInv, DoorTypeOK
  <2>9. honoured'[h] # << >> /\ honoured'[h][1].next = a.lid
    BY <1>1, <2>7, <2>8 DEF Logged
  <2> QED
    BY <2>3, <2>5, <2>9 DEF BoundBy, ReplyText
<1>6. CASE ~Held(b, "fresh")
  <2>1. Held(b, "spent") \/ Kept(b)
    BY <1>1, <1>4, <1>6 DEF Refused
  <2>2. b.edge \in {KeysOf(b).O, KeysOf(b).F}
    BY <1>4, <1>6, <2>1 DEF Refused, Opens
  <2>3. Rooted(KeysOf(b), h) /\ KeysOf(b).stage = "spent"
    BY <1>1, <2>1 DEF ExchangeInv, KeysOf, Kept, Held
  <2>4. honoured[h] # << >> /\ honoured[h][1].next = Drawn(p, 1)
    BY <1>1, <2>2, <2>3 DEF Rooted
  <2>5. honoured'[h] # << >> /\ honoured'[h][1] = honoured[h][1]
    <3>1. [ExchangeNext]_exchangeVars
      BY DEF ExchangeNext
    <3> QED
      BY <1>1, <2>4, <3>1, DoorSteps, LogsGrow DEF ExchangeInv
  <2>6. Verdict(b) # "unannounced"
    BY <1>6 DEF Verdict, Unannounced
  <2> QED
    BY <1>3, <2>4, <2>5, <2>6 DEF BoundBy, ReplyText
<1> QED
  BY <1>5, <1>6

LEMMA ReplyKeeps ==
  ASSUME ExchangeInv, NEW a \in asks, AskArrives(a),
         NEW r, r = ReplyTo(a)
  PROVE  /\ r \in Reply
         /\ r.text # "silence" => BoundBy(r.lid[1])'
         /\ r.text # "unannounced"
         /\ ObjectWasHonoured(r)'
<1> DEFINE b == a.box
           h == Invitation[a.lid[1]]
<1>1. /\ a.lid \in Lids /\ b \in Box(Edge) /\ h \in Heirs
      /\ b.head = h /\ b.next = a.lid /\ b.seq = a.lid[2] /\ h # NoHeir
  BY LidFacts DEF ExchangeInv, OwnAsk
<1>2. r = [lid |-> a.lid, text |-> ReplyText(b),
           agreement |-> IF Verdict(b) = "choice" THEN NextAgreement(h) ELSE 0]
  BY <1>1 DEF ReplyTo
<1>3. ReplyText(b) \in {"silence", "object", "removed", "repeated"}
  BY AnswerIsTheHolders
<1>4. honoured[h] \in Seq(Entry) /\ NextAgreement(h) \in Nat
  BY <1>1 DEF ExchangeInv, DoorInv, DoorTypeOK, NextAgreement
<1>5. r.text = "object" => Verdict(b) = "choice"
  BY <1>1, <1>2 DEF ReplyText, Verdict
<1>6. ObjectWasHonoured(r)'
  <2> SUFFICES ASSUME r.text = "object"
               PROVE  \E i \in DOMAIN honoured'[h] :
                        /\ honoured'[h][i].seq = a.lid[2]
                        /\ honoured'[h][i].next = a.lid
    BY <1>2 DEF ObjectWasHonoured
  <2>1. honoured'[h] = Append(honoured[h], Logged(b))
    <3>1. DoorTypeOK /\ Arrive(b)
      BY DEF ExchangeInv, DoorInv, AskArrives
    <3> QED
      BY <1>1, <1>5, <3>1, ChoiceWrites
  <2>2. Logged(b) \in Entry
    BY <1>1, BoxesAssumption DEF Logged, Entry, Box
  <2>3. /\ Len(honoured[h]) + 1 \in DOMAIN honoured'[h]
        /\ honoured'[h][Len(honoured[h]) + 1] = Logged(b)
    <3> HIDE DEF b, h
    <3> QED
      BY <1>4, <2>1, <2>2, AppendEnds
  <2>4. Logged(b).seq = a.lid[2] /\ Logged(b).next = a.lid
    BY <1>1 DEF Logged
  <2> QED
    BY <2>3, <2>4
<1>7. r \in Reply
  BY <1>1, <1>2, <1>3, <1>4 DEF Reply, Agreements, Lids
<1> QED
  BY <1>2, <1>3, <1>6, <1>7, AnswerIsTheHolders

LEMMA ArriveKeepsRoots ==
  ASSUME ExchangeInv, NEW a \in asks, AskArrives(a), NEW g \in Heirs
  PROVE  Rooted(heirs[g], g)' /\ Rooted(removed[g], g)' /\ BoundByAKnock(g)'
<1> DEFINE b == a.box
           h == Invitation[a.lid[1]]
           e == Logged(b)
<1>1. /\ OwnAsk(a) /\ a.lid \in Lids /\ a.lid[1] \in Parties
      /\ b \in Box(Edge) /\ h \in Heirs
      /\ b.head = h /\ b.next = a.lid /\ a.lid \notin Heirs
      /\ b.edge.root = Drawn(a.lid[1], 1) /\ b.edge \in Edge
  BY LidFacts, OwnRoot DEF ExchangeInv, OwnAsk
<1>2. honoured[h] \in Seq(Entry) /\ e \in Entry /\ e.next = a.lid
  <2>1. honoured[h] \in Seq(Entry)
    BY <1>1 DEF ExchangeInv, DoorInv, DoorTypeOK
  <2>2. e \in Entry
    BY <1>1, BoxesAssumption DEF Logged, Entry, Box
  <2> QED
    BY <1>1, <2>1, <2>2 DEF Logged
<1>3. CASE Verdict(b) # "choice"
  BY <1>3 DEF AskArrives, Arrive, doorVars, ExchangeInv, Rooted, BoundByAKnock
<1>4. CASE Verdict(b) = "choice"
  <2>1. b \in Box(EdgesInReach)
    BY <1>1, <1>4, ChoiceInReach
  <2>2. /\ Len(honoured[h]) = 0 <=> heirs[h].stage = "fresh"
        /\ Len(honoured[h]) = 0 <=> b.by = h
        /\ removed[h].stage = "absent"
    BY <1>1, <1>4, <2>1, ChoiceExtends DEF ExchangeInv
  <2>3. /\ heirs'[h] = Moved(heirs[h], b, NextAgreement(h))
        /\ honoured'[h] = Append(honoured[h], e)
        /\ removed' = removed
        /\ \A f \in Heirs \ {h} : heirs'[f] = heirs[f] /\ honoured'[f] = honoured[f]
    <3>1. DoorTypeOK /\ Arrive(b)
      BY DEF ExchangeInv, DoorInv, AskArrives
    <3> QED
      BY <1>1, <1>4, <3>1, ChoiceWrites
  <2>4. CASE g # h
    <3>1. heirs'[g] = heirs[g] /\ honoured'[g] = honoured[g] /\ removed' = removed
      BY <2>3, <2>4
    <3>2. Rooted(heirs[g], g) /\ Rooted(removed[g], g) /\ BoundByAKnock(g)
      BY DEF ExchangeInv
    <3> QED
      BY <3>1, <3>2 DEF Rooted, BoundByAKnock
  <2>5. CASE g = h
    <3>1. /\ heirs'[h].O.root = Drawn(a.lid[1], 1)
          /\ heirs'[h].F.root = Drawn(a.lid[1], 1)
      <4>1. heirs'[h] = Moved(heirs[h], b, NextAgreement(h))
        BY <2>3
      <4> HIDE DEF b, h
      <4> QED
        BY <1>1, <4>1, MovedIs
    <3>2. honoured'[h] # << >> /\ honoured'[h][1].next = Drawn(a.lid[1], 1)
      <4>1. CASE Len(honoured[h]) = 0
        <5>1. IsKnock(a)
          <6>1. b.by \in Heirs
            BY <1>1, <2>2, <4>1
          <6>2. \A m \in 1..MaxAsks : Drawn(a.lid[1], m) \notin Heirs
            BY <1>1, DrawnIsALid, LidFacts
          <6> QED
            BY <1>1, <6>1, <6>2 DEF OwnAsk, FollowsKnock
        <5>2. a.lid = Drawn(a.lid[1], 1)
          BY <1>1, <5>1, LidFacts DEF IsKnock
        <5>3. honoured'[h] # << >> /\ honoured'[h][1] = e
          <6>1. honoured[h] = << >>
            BY <1>2, <4>1
          <6>2. honoured'[h] = Append(honoured[h], e)
            BY <2>3
          <6> HIDE DEF e, h
          <6> QED
            BY <1>2, <6>1, <6>2, AppendEnds
        <5>4. e.next = a.lid
          BY <1>2
        <5> HIDE DEF e, h
        <5> QED
          BY <5>2, <5>3, <5>4
      <4>2. CASE Len(honoured[h]) # 0
        <5>1. honoured[h] # << >> /\ honoured'[h] # << >>
              /\ honoured'[h][1] = honoured[h][1]
          <6>1. honoured'[h] = Append(honoured[h], e)
            BY <2>3
          <6>2. honoured[h] # << >>
            BY <4>2
          <6> HIDE DEF e, h
          <6> QED
            BY <1>2, <6>1, <6>2, AppendEnds
        <5>2. Held(b, "spent")
          BY <1>1, <1>4, <2>1, <2>2, <4>2, ChoiceIsHeld DEF Held
        <5>3. b.edge \in {heirs[h].O, heirs[h].F}
          BY <1>1, <1>4, <5>2 DEF Verdict, Refused, Opens, Held, KeysOf, Kept
        <5>4. Rooted(heirs[h], h) /\ heirs[h].stage = "spent"
          BY <1>1, <5>2 DEF ExchangeInv, Held
        <5> QED
          BY <1>1, <5>1, <5>3, <5>4 DEF Rooted
      <4> QED
        BY <4>1, <4>2
    <3>3. Rooted(removed[h], h)'
      BY <2>2, <2>3 DEF Rooted
    <3>4. BoundByAKnock(h)'
      BY <1>1, <3>2 DEF BoundByAKnock
    <3> QED
      BY <2>5, <3>1, <3>2, <3>3, <3>4 DEF Rooted
  <2> QED
    BY <2>4, <2>5
<1> QED
  BY <1>3, <1>4

-----------------------------------------------------------------------------
(* The invariant holds.                                                    *)

LEMMA ExchangeInvInit == ExchangeInit => ExchangeInv
<1> SUFFICES ASSUME ExchangeInit PROVE ExchangeInv
  OBVIOUS
<1>1. DoorInv
  BY InvInit DEF ExchangeInit
<1>2. \A h \in Heirs : heirs[h].stage = "absent" /\ removed[h].stage = "absent"
                       /\ honoured[h] = << >>
  BY DEF ExchangeInit, DoorInit, NoRelation
<1>3. \A p \in Parties :
        /\ st[p] = [phase |-> "fresh", signer |-> Invitation[p],
                    edge |-> ZERO32, seq |-> 0, moved |-> 0,
                    probeNext |-> TRUE, knock |-> NoSent, last |-> NoSent]
        /\ st[p] \in StandingFields
  <2>1. Heirs \subseteq Keys /\ ZERO32 \in Edge
    BY BoxesAssumption, ZeroEdgeType
  <2>2. \A p \in Parties : Invitation[p] \in Keys
    BY <2>1, StandingAssumption
  <2>3. 0 \in 0..MaxAsks
    BY StandingAssumption, BoxesAssumption
  <2> QED
    BY <2>1, <2>2, <2>3 DEF ExchangeInit, StandingInit, StandingFields
<1>4. st \in [Parties -> StandingFields]
  BY <1>3 DEF ExchangeInit, StandingInit
<1>5. \A p \in Parties : StandsAsSent(p) /\ st[p].phase = "fresh" /\ st[p].moved = 0
  <2>1. \A p \in Parties : /\ st[p].phase = "fresh" /\ st[p].moved = 0
                           /\ st[p].seq = 0 /\ st[p].last = NoSent
                           /\ st[p].signer = Invitation[p]
    <3> TAKE p \in Parties
    <3> QED
      BY DEF ExchangeInit, StandingInit
  <2> QED
    BY <2>1 DEF StandsAsSent, NotKnocked
<1> QED
  BY <1>1, <1>2, <1>4, <1>5
  DEF ExchangeInit, ExchangeInv, Rooted, BoundByAKnock, SilenceToTheRest,
      BoundOnlyByOwnKnock, MovedWasHonoured

(* What is said of the past stays true when the histories only grow.       *)
LEMMA PastStays ==
  ASSUME ExchangeInv, [DoorNext]_doorVars
  PROVE  /\ \A p \in Parties : BoundBy(p) => BoundBy(p)'
         /\ \A r \in replies : ObjectWasHonoured(r)'
         /\ \A p \in Parties : \A n : (\E i \in DOMAIN honoured[Invitation[p]] :
                 /\ honoured[Invitation[p]][i].seq = n
                 /\ honoured[Invitation[p]][i].next = Drawn(p, n)) =>
              \E i \in DOMAIN honoured'[Invitation[p]] :
                 /\ honoured'[Invitation[p]][i].seq = n
                 /\ honoured'[Invitation[p]][i].next = Drawn(p, n)
<1>1. \A h \in Heirs :
         /\ \A i \in DOMAIN honoured[h] : i \in DOMAIN honoured'[h]
                                         /\ honoured'[h][i] = honoured[h][i]
         /\ honoured[h] # << >> => honoured'[h] # << >>
                                   /\ honoured'[h][1] = honoured[h][1]
  BY LogsGrow DEF ExchangeInv
<1>2. \A p \in Parties : Invitation[p] \in Heirs
  BY StandingAssumption
<1>3. \A r \in replies : ObjectWasHonoured(r)'
  <2>1. \A r \in replies : r.lid[1] \in Parties
    BY DEF ExchangeInv, Reply
  <2> QED
    BY <1>1, <1>2, <2>1 DEF ExchangeInv, ObjectWasHonoured
<1> QED
  BY <1>1, <1>2, <1>3 DEF BoundBy

LEMMA RepliesLids ==
  ASSUME ExchangeInv, NEW r \in replies
  PROVE  r.lid[1] \in Parties
BY DEF ExchangeInv, Reply

LEMMA ExchangeInvNext ==
  ASSUME ExchangeInv, [ExchangeNext]_exchangeVars
  PROVE  ExchangeInv'
<1>1. [DoorNext]_doorVars /\ DoorInv'
  <2>1. [DoorNext]_doorVars
    BY DoorSteps DEF ExchangeInv
  <2> QED
    BY <2>1, InvNext DEF ExchangeInv
<1>2. CASE UNCHANGED exchangeVars
  BY <1>1, <1>2
  DEF exchangeVars, ExchangeInv, StandsAsSent, NotKnocked, Knocked, Rooted,
      BoundByAKnock, ObjectWasHonoured, SilenceToTheRest, BoundBy,
      BoundOnlyByOwnKnock, MovedWasHonoured
<1>3. ASSUME NEW h \in Heirs, NEW reach \in Reaches, WardInvites(h, reach)
      PROVE  ExchangeInv'
  <2>1. /\ \A g \in Heirs \ {h} : heirs'[g] = heirs[g]
        /\ heirs'[h].stage = "fresh"
        /\ UNCHANGED << removed, honoured, st, asks, replies >>
    BY <1>3 DEF WardInvites, Invite, FreshRelation, ExchangeInv, DoorInv, DoorTypeOK
  <2>2. \A g \in Heirs : Rooted(heirs[g], g)' /\ Rooted(removed[g], g)'
                         /\ BoundByAKnock(g)'
    BY <2>1 DEF ExchangeInv, Rooted, BoundByAKnock
  <2> QED
    BY <1>1, <2>1, <2>2
    DEF ExchangeInv, StandsAsSent, NotKnocked, Knocked,
        ObjectWasHonoured, SilenceToTheRest, BoundBy,
        BoundOnlyByOwnKnock, MovedWasHonoured
<1>4. ASSUME NEW h \in Heirs, WardReleases(h)
      PROVE  ExchangeInv'
  <2>1. /\ \A g \in Heirs \ {h} : heirs'[g] = heirs[g] /\ removed'[g] = removed[g]
        /\ heirs'[h].stage = "absent"
        /\ removed'[h].stage = heirs[h].stage
        /\ removed'[h].O = heirs[h].O /\ removed'[h].F = heirs[h].F
        /\ UNCHANGED << honoured, st, asks, replies >>
    BY <1>4 DEF WardReleases, Release, NoRelation, KeptOf, ExchangeInv, DoorInv,
                DoorTypeOK
  <2>2. \A g \in Heirs : Rooted(heirs[g], g)' /\ Rooted(removed[g], g)'
                         /\ BoundByAKnock(g)'
    BY <2>1 DEF ExchangeInv, Rooted, BoundByAKnock
  <2> QED
    BY <1>1, <2>1, <2>2
    DEF ExchangeInv, StandsAsSent, NotKnocked, Knocked,
        ObjectWasHonoured, SilenceToTheRest, BoundBy,
        BoundOnlyByOwnKnock, MovedWasHonoured
<1>5. ASSUME NEW p \in Parties, NEW unread \in BOOLEAN, PartyAsks(p, unread)
      PROVE  ExchangeInv'
  <2>1. UNCHANGED << heirs, removed, honoured, replies >>
    BY <1>5 DEF PartyAsks
  <2>2. /\ \A a \in asks' : OwnAsk(a)
        /\ st' \in [Parties -> StandingFields]
        /\ \A q \in Parties : StandsAsSent(q)'
        /\ \A q \in Parties : /\ st'[q].moved = st[q].moved
                              /\ st'[q].phase = "bound" => st[q].phase = "bound"
    BY <1>5, AskKeeps
  <2>3. BoundOnlyByOwnKnock' /\ MovedWasHonoured'
    BY <2>1, <2>2 DEF ExchangeInv, BoundOnlyByOwnKnock, MovedWasHonoured, BoundBy
  <2> QED
    BY <1>1, <2>1, <2>2, <2>3
    DEF ExchangeInv, Rooted, BoundByAKnock, ObjectWasHonoured,
        SilenceToTheRest, BoundBy
<1>6. ASSUME NEW a \in asks, AskArrives(a)
      PROVE  ExchangeInv'
  <2>1. replies' = replies \cup {ReplyTo(a)} /\ UNCHANGED << st, asks >>
    BY <1>6 DEF AskArrives
  <2>2. \A h \in Heirs : Rooted(heirs[h], h)' /\ Rooted(removed[h], h)'
                         /\ BoundByAKnock(h)'
    BY <1>6, ArriveKeepsRoots
  <2>3. \A r \in replies' : /\ r \in Reply /\ ObjectWasHonoured(r)'
                            /\ r.text # "silence" => BoundBy(r.lid[1])'
                            /\ r.text # "unannounced"
    <3>1. \A r \in replies : /\ r \in Reply /\ ObjectWasHonoured(r)'
                             /\ r.text # "silence" => BoundBy(r.lid[1])'
                             /\ r.text # "unannounced"
      BY <1>1, PastStays, RepliesLids DEF ExchangeInv, SilenceToTheRest
    <3>2. \A r : r = ReplyTo(a) => /\ r \in Reply /\ ObjectWasHonoured(r)'
                                   /\ r.text # "silence" => BoundBy(r.lid[1])'
                                   /\ r.text # "unannounced"
      BY <1>6, ReplyKeeps
    <3> QED
      BY <2>1, <3>1, <3>2
  <2>4. \A p \in Parties : StandsAsSent(p)'
    BY <2>1 DEF ExchangeInv, StandsAsSent, NotKnocked, Knocked
  <2>5. BoundOnlyByOwnKnock'
    <3>1. BoundOnlyByOwnKnock /\ \A p \in Parties : BoundBy(p) => BoundBy(p)'
      BY <1>1, PastStays DEF ExchangeInv
    <3> QED
      BY <2>1, <3>1 DEF BoundOnlyByOwnKnock
  <2>6. MovedWasHonoured'
    <3> SUFFICES ASSUME NEW p \in Parties, st[p].moved > 0
                 PROVE  \E i \in DOMAIN honoured'[Invitation[p]] :
                          /\ honoured'[Invitation[p]][i].seq = st[p].moved
                          /\ honoured'[Invitation[p]][i].next = Drawn(p, st[p].moved)
      BY <2>1 DEF MovedWasHonoured
    <3>1. \E i \in DOMAIN honoured[Invitation[p]] :
            /\ honoured[Invitation[p]][i].seq = st[p].moved
            /\ honoured[Invitation[p]][i].next = Drawn(p, st[p].moved)
      BY DEF ExchangeInv, MovedWasHonoured
    <3> QED
      BY <1>1, <3>1, PastStays
  <2>7. SilenceToTheRest'
    BY <2>3 DEF SilenceToTheRest
  <2> QED
    BY <1>1, <2>1, <2>2, <2>3, <2>4, <2>5, <2>6, <2>7 DEF ExchangeInv
<1>7. ASSUME NEW p \in Parties, NEW reply \in replies \cup {Garbled, Nothing},
             PartyReads(p, reply)
      PROVE  ExchangeInv'
  <2>1. UNCHANGED << heirs, removed, honoured, asks, replies >>
    BY <1>7 DEF PartyReads
  <2>2. /\ st' \in [Parties -> StandingFields]
        /\ \A q \in Parties : StandsAsSent(q)'
        /\ BoundOnlyByOwnKnock' /\ MovedWasHonoured'
    BY <1>7, ReadKeeps
  <2> QED
    BY <1>1, <2>1, <2>2
    DEF ExchangeInv, Rooted, BoundByAKnock, ObjectWasHonoured,
        SilenceToTheRest, BoundBy
<1> QED
  BY <1>2, <1>3, <1>4, <1>5, <1>6, <1>7 DEF ExchangeNext

THEOREM ExchangeInductive == ExchangeSpec => []ExchangeInv
<1> QED
  BY ExchangeInvInit, ExchangeInvNext, PTL DEF ExchangeSpec

-----------------------------------------------------------------------------
(* What it gives.                                                          *)

(* Standings, asks and replies are what their fields say, and a standing   *)
(* past its knock last sent a box it sealed.                               *)
THEOREM ExchangeTyped == ExchangeSpec => []ExchangeTypeOK
<1>1. ExchangeInv => ExchangeTypeOK
  <2> SUFFICES ASSUME ExchangeInv PROVE ExchangeTypeOK
    OBVIOUS
  <2>1. \A p \in Parties :
          /\ st[p].phase \in {"fresh", "uncertain", "bound"}
          /\ st[p].signer \in Keys
          /\ st[p].edge \in Edge
          /\ st[p].seq \in 0..MaxAsks
          /\ st[p].moved \in 0..st[p].seq
          /\ st[p].phase # "fresh" => [lid |-> st[p].last.lid,
                                       box |-> st[p].last.box] \in asks
    <3> SUFFICES ASSUME NEW p \in Parties
                 PROVE  /\ st[p].phase \in {"fresh", "uncertain", "bound"}
                        /\ st[p].signer \in Keys
                        /\ st[p].edge \in Edge
                        /\ st[p].seq \in 0..MaxAsks
                        /\ st[p].moved \in 0..st[p].seq
                        /\ st[p].phase # "fresh" =>
                             [lid |-> st[p].last.lid, box |-> st[p].last.box] \in asks
      OBVIOUS
    <3>1. st[p] \in StandingFields /\ StandsAsSent(p)
      BY DEF ExchangeInv
    <3>2. MaxAsks \in Nat
      BY StandingAssumption, BoxesAssumption
    <3>3. st[p].moved \in 0..st[p].seq
      BY <3>1, <3>2 DEF StandingFields, StandsAsSent
    <3> QED
      BY <3>1, <3>3 DEF StandingFields, StandsAsSent, Knocked, AskOf
  <2> QED
    BY <2>1 DEF ExchangeInv, ExchangeTypeOK, DoorInv, OwnAsk, Lids
<1> QED
  BY <1>1, ExchangeInductive, PTL

(* With one invitation in many hands, at most the party whose knock bound  *)
(* the heir ever takes its relation for bound, in any order of asks and    *)
(* replies.                                                                *)
THEOREM OnlyTheBinderIsBound == ExchangeSpec => []BoundOnlyByOwnKnock
<1>1. ExchangeInv => BoundOnlyByOwnKnock
  BY DEF ExchangeInv
<1> QED
  BY <1>1, ExchangeInductive, PTL

(* A number a standing moved on is one the door honoured from it.          *)
THEOREM MovesAreHonoured == ExchangeSpec => []MovedWasHonoured
<1>1. ExchangeInv => MovedWasHonoured
  BY DEF ExchangeInv
<1> QED
  BY <1>1, ExchangeInductive, PTL

(* No party but the one whose knock bound the heir ever hears a word or an *)
(* object, and none hears `unannounced'.                                   *)
THEOREM StrangersHearSilence == ExchangeSpec => []SilenceToTheRest
<1>1. ExchangeInv => SilenceToTheRest
  BY DEF ExchangeInv
<1> QED
  BY <1>1, ExchangeInductive, PTL

-----------------------------------------------------------------------------
(* Exchange keeps the promise.                                             *)

(* The promise looks at these alone.                                       *)
LEMMA PromiseRests ==
  ASSUME \A h \in Heirs : /\ StageOf(h)' = StageOf(h)
                          /\ HolderOf(h)' = HolderOf(h)
                          /\ CountOf(h)' = CountOf(h),
         \A p \in Parties : st'[p].moved = st[p].moved
  PROVE  UNCHANGED Abstract!promiseVars
BY DEF Abstract!promiseVars

LEMMA StageRests ==
  ASSUME DoorTypeOK, NEW h \in Heirs,
         heirs'[h] = heirs[h], removed'[h] = removed[h]
  PROVE  StageOf(h)' = StageOf(h)
<1>1. heirs[h].stage \in {"absent", "fresh", "spent"}
  BY DEF DoorTypeOK, Relation
<1> QED
  BY <1>1 DEF StageOf

(* The party that bound an heir holds it, and no honoured number is above  *)
(* the count.                                                              *)
LEMMA BinderHolds ==
  ASSUME NEW p \in Parties, BoundBy(p)
  PROVE  HolderOf(Invitation[p]) = p
BY DEF BoundBy, HolderOf, Drawn

LEMMA CountIsHighest ==
  ASSUME DoorInv, NEW h \in Heirs, NEW i \in DOMAIN honoured[h]
  PROVE  honoured[h][i].seq <= CountOf(h)
<1>1. honoured[h] \in Seq(Entry)
  BY DEF DoorInv, DoorTypeOK
<1> DEFINE n == Len(honoured[h])
<1>2. /\ n \in Nat /\ i \in 1..n /\ n > 0 /\ honoured[h] # << >>
      /\ n \in DOMAIN honoured[h]
      /\ honoured[h][i].seq \in Nat /\ honoured[h][n].seq \in Nat
  <2>1. n \in Nat /\ i \in 1..n /\ n > 0
    BY <1>1
  <2>2. n \in 1..n
    BY <2>1
  <2>3. \A k \in 1..n : honoured[h][k] \in Entry
    BY <1>1
  <2> QED
    BY <1>1, <2>1, <2>2, <2>3 DEF Entry
<1>3. CountOf(h) = honoured[h][n].seq
  BY <1>2 DEF CountOf
<1>4. i < n => honoured[h][i].seq < honoured[h][n].seq
  BY <1>2 DEF DoorInv, NumbersClimb
<1> QED
  BY <1>2, <1>3, <1>4

LEMMA PromiseInits == ExchangeInit => Abstract!PromiseInit
<1> SUFFICES ASSUME ExchangeInit PROVE Abstract!PromiseInit
  OBVIOUS
<1>1. \A h \in Heirs : /\ StageOf(h) = "unmade"
                       /\ HolderOf(h) = Nobody
                       /\ CountOf(h) = 0
  BY DEF ExchangeInit, DoorInit, NoRelation, StageOf, HolderOf, CountOf
<1>2. \A p \in Parties : st[p].moved = 0
  BY DEF ExchangeInit, StandingInit
<1> QED
  BY <1>1, <1>2 DEF Abstract!PromiseInit

LEMMA InvitesOffer ==
  ASSUME ExchangeInv, NEW h \in Heirs, NEW reach \in Reaches,
         WardInvites(h, reach)
  PROVE  Abstract!Offer(h)
<1>1. /\ heirs[h].stage = "absent" /\ removed[h].stage = "absent"
      /\ heirs'[h].stage = "fresh"
      /\ \A g \in Heirs \ {h} : heirs'[g] = heirs[g]
      /\ UNCHANGED << removed, honoured, st >>
  BY DEF WardInvites, Invite, FreshRelation, ExchangeInv, DoorInv, DoorTypeOK
<1>2. StageOf(h) = "unmade" /\ StageOf(h)' = "open"
  BY <1>1 DEF StageOf
<1>3. \A g \in Heirs \ {h} : StageOf(g)' = StageOf(g)
  BY <1>1, StageRests DEF ExchangeInv, DoorInv
<1>4. \A g \in Heirs : HolderOf(g)' = HolderOf(g) /\ CountOf(g)' = CountOf(g)
  BY <1>1 DEF HolderOf, CountOf
<1> QED
  BY <1>1, <1>2, <1>3, <1>4 DEF Abstract!Offer

LEMMA ReleasesClose ==
  ASSUME ExchangeInv, NEW h \in Heirs, WardReleases(h)
  PROVE  Abstract!Close(h)
<1>1. /\ heirs[h].stage \in {"fresh", "spent"} /\ removed[h].stage = "absent"
      /\ removed'[h].stage # "absent"
      /\ \A g \in Heirs \ {h} : heirs'[g] = heirs[g] /\ removed'[g] = removed[g]
      /\ UNCHANGED << honoured, st >>
  BY DEF WardReleases, Release, KeptOf, ExchangeInv, DoorInv, DoorTypeOK,
         StartsEmpty, Relation
<1>2. StageOf(h) \in {"open", "bound"} /\ StageOf(h)' = "closed"
  BY <1>1 DEF StageOf
<1>3. \A g \in Heirs \ {h} : StageOf(g)' = StageOf(g)
  BY <1>1, StageRests DEF ExchangeInv, DoorInv
<1>4. \A g \in Heirs : HolderOf(g)' = HolderOf(g) /\ CountOf(g)' = CountOf(g)
  BY <1>1 DEF HolderOf, CountOf
<1> QED
  BY <1>1, <1>2, <1>3, <1>4 DEF Abstract!Close

(* The knock that binds an heir binds it to its sender; an ask honoured    *)
(* after it carries a higher number; any other moves nothing.              *)
LEMMA ArrivesBindOrHonour ==
  ASSUME ExchangeInv, ExchangeInv', NEW a \in asks, AskArrives(a)
  PROVE  \/ \E n \in 1..MaxCount : Abstract!Bind(a.lid[1], n)
         \/ \E n \in 1..MaxCount : Abstract!Honour(Invitation[a.lid[1]], n)
         \/ UNCHANGED Abstract!promiseVars
<1> DEFINE b == a.box
           p == a.lid[1]
           h == Invitation[p]
           n == b.seq
           log == honoured[h]
           more == honoured'[h]
<1>1. /\ OwnAsk(a) /\ a.lid \in Lids /\ p \in Parties /\ b \in Box(Edge)
      /\ h \in Heirs /\ b.head = h /\ n = a.lid[2] /\ n \in 1..MaxCount
  <2>1. OwnAsk(a) /\ a.lid \in Lids
    BY DEF ExchangeInv, OwnAsk
  <2>2. a.lid[2] \in 1..MaxAsks /\ MaxAsks \in Nat /\ MaxAsks <= MaxCount
    BY <2>1, LidFacts
  <2> QED
    BY <2>1, <2>2, LidFacts, BoxesAssumption DEF OwnAsk
<1>2. st' = st
  BY DEF AskArrives
<1>3. CASE Verdict(b) # "choice"
  <2>1. UNCHANGED << heirs, removed, honoured >>
    BY <1>3 DEF AskArrives, Arrive, doorVars
  <2>2. \A g \in Heirs : /\ StageOf(g)' = StageOf(g)
                         /\ HolderOf(g)' = HolderOf(g)
                         /\ CountOf(g)' = CountOf(g)
    BY <2>1, StageRests DEF HolderOf, CountOf, ExchangeInv, DoorInv
  <2> QED
    BY <1>2, <2>2, PromiseRests
<1>4. CASE Verdict(b) = "choice"
  <2>1. b \in Box(EdgesInReach)
    BY <1>1, <1>4, ChoiceInReach
  <2>2. /\ Len(log) = 0 <=> heirs[h].stage = "fresh"
        /\ Len(log) > 0 => log[Len(log)].seq < n
        /\ removed[h].stage = "absent"
        /\ heirs[h].stage \in {"fresh", "spent"}
    BY <1>1, <1>4, <2>1, ChoiceExtends, ChoiceIsHeld DEF ExchangeInv, Held
  <2>3. /\ heirs'[h].stage = "spent"
        /\ more = Append(log, Logged(b))
        /\ removed' = removed
        /\ \A g \in Heirs \ {h} : heirs'[g] = heirs[g] /\ honoured'[g] = honoured[g]
    <3>1. DoorTypeOK /\ Arrive(b)
      BY DEF ExchangeInv, DoorInv, AskArrives
    <3>2. Moved(heirs[h], b, NextAgreement(h)).stage = "spent"
      BY MovedIs
    <3> QED
      BY <1>1, <1>4, <3>1, <3>2, ChoiceWrites
  <2>4. log \in Seq(Entry) /\ Logged(b) \in Entry /\ Logged(b).seq = n
    <3>1. Logged(b) \in Entry
      BY <1>1, BoxesAssumption DEF Logged, Entry, Box
    <3> QED
      BY <1>1, <3>1 DEF ExchangeInv, DoorInv, DoorTypeOK, Logged
  <2>5. more # << >> /\ more[Len(more)].seq = n
    <3>1. more = Append(log, Logged(b))
      BY <2>3
    <3> HIDE DEF more, log, n, b
    <3> QED
      BY <2>4, <3>1, AppendEnds
  <2>6. CountOf(h)' = n /\ StageOf(h)' = "bound"
    BY <2>2, <2>3, <2>5 DEF CountOf, StageOf
  <2>7. \A g \in Heirs \ {h} : /\ StageOf(g)' = StageOf(g)
                               /\ HolderOf(g)' = HolderOf(g)
                               /\ CountOf(g)' = CountOf(g)
    BY <2>3, StageRests DEF HolderOf, CountOf, ExchangeInv, DoorInv
  <2>8. HolderOf(h)' = p
    <3>1. BoundBy(p)'
      <4>1. Rooted(heirs[h], h)'
        BY <1>1 DEF ExchangeInv
      <4>2. heirs'[h].O.root = Drawn(p, 1)
        BY <1>1, <1>4, OwnRoot DEF AskArrives, Arrive, Moved, OpenAfter, ExchangeInv,
                                   DoorInv, DoorTypeOK
      <4> QED
        BY <2>3, <4>1, <4>2 DEF Rooted, BoundBy
    <3> QED
      <4>1. more # << >> /\ more[1].next = Drawn(p, 1)
        BY <3>1 DEF BoundBy
      <4>2. Drawn(p, 1)[1] = p
        BY DEF Drawn
      <4> QED
        BY <4>1, <4>2 DEF HolderOf
  <2>9. CASE Len(log) = 0
    <3>1. StageOf(h) = "open"
      BY <2>2, <2>9 DEF StageOf
    <3>2. Abstract!Bind(p, n)
      BY <1>1, <1>2, <2>6, <2>7, <2>8, <3>1 DEF Abstract!Bind
    <3> QED
      BY <1>1, <3>2
  <2>10. CASE Len(log) # 0
    <3>1. StageOf(h) = "bound"
      BY <2>2, <2>10 DEF StageOf
    <3>2. log # << >> /\ Len(log) > 0
      BY <2>4, <2>10
    <3>3. CountOf(h) = log[Len(log)].seq /\ log[Len(log)].seq < n
      BY <2>2, <3>2 DEF CountOf
    <3>4. HolderOf(h)' = HolderOf(h)
      <4>1. more # << >> /\ more[1] = log[1]
        <5>1. more = Append(log, Logged(b))
          BY <2>3
        <5> HIDE DEF more, log, n, b
        <5> QED
          BY <2>4, <3>2, <5>1, AppendEnds
      <4> QED
        BY <3>2, <4>1 DEF HolderOf
    <3>5. n > CountOf(h)
      <4>1. log[Len(log)] \in Entry
        BY <2>4, <3>2
      <4>2. n \in Nat /\ log[Len(log)].seq \in Nat
        BY <1>1, <4>1, BoxesAssumption DEF Entry
      <4> QED
        BY <3>3, <4>2
    <3>6. Abstract!Honour(h, n)
      BY <1>1, <1>2, <2>6, <2>7, <3>1, <3>4, <3>5 DEF Abstract!Honour
    <3> QED
      BY <1>1, <3>6
  <2> QED
    BY <2>9, <2>10
<1> QED
  BY <1>3, <1>4

(* A party learns of a number by moving on it.                             *)
LEMMA ReadsLearn ==
  ASSUME ExchangeInv, ExchangeInv', NEW p \in Parties,
         NEW reply \in replies \cup {Garbled, Nothing}, PartyReads(p, reply)
  PROVE  \/ \E n \in 1..MaxCount : Abstract!Learn(p, n)
         \/ UNCHANGED Abstract!promiseVars
<1> DEFINE s == st[p]
           kind == ReadKind(s.last, reply)
           h == Invitation[p]
<1> SUFFICES ASSUME NEW n, n = s.last.box.seq
             PROVE  \/ \E k \in 1..MaxCount : Abstract!Learn(p, k)
                    \/ UNCHANGED Abstract!promiseVars
  OBVIOUS
<1>1. /\ st' = [st EXCEPT ![p] = AfterRead(s, reply)]
      /\ UNCHANGED << heirs, removed, honoured >>
      /\ s \in StandingFields /\ h \in Heirs
  BY StandingAssumption DEF PartyReads, StandingRead, ExchangeInv
<1>2. \A q \in Parties \ {p} : st'[q] = st[q]
  BY <1>1 DEF ExchangeInv
<1>3. st'[p] = AfterRead(s, reply)
  BY <1>1 DEF ExchangeInv
<1>4. \A g \in Heirs : /\ StageOf(g)' = StageOf(g)
                       /\ HolderOf(g)' = HolderOf(g)
                       /\ CountOf(g)' = CountOf(g)
  BY <1>1, StageRests DEF HolderOf, CountOf, ExchangeInv, DoorInv
<1>5. CASE ~MovesOn(s, kind)
  <2>1. st'[p].moved = s.moved
    BY <1>1, <1>3, <1>5 DEF AfterRead, StandingFields
  <2>2. \A q \in Parties : st'[q].moved = st[q].moved
    BY <1>2, <2>1
  <2> QED
    BY <1>4, <2>2, PromiseRests
<1>6. CASE MovesOn(s, kind)
  <2>1. st'[p].moved = n /\ n > s.moved /\ st'[p].phase = "bound"
    <3>1. n = s.last.box.seq /\ n > s.moved
      BY <1>6 DEF MovesOn
    <3>2. st'[p] = [s EXCEPT !.moved = s.last.box.seq, !.phase = "bound",
                             !.signer = s.last.box.next,
                             !.edge = Follow(s.last.box.edge, reply.agreement)]
      BY <1>3, <1>6 DEF AfterRead, AfterObject
    <3>3. s \in StandingFields
      BY <1>1
    <3> HIDE DEF s
    <3>4. st'[p].moved = s.last.box.seq /\ st'[p].phase = "bound"
      BY <3>2, <3>3 DEF StandingFields
    <3> QED
      BY <3>1, <3>4
  <2>2. st'[p] \in StandingFields /\ MaxAsks \in Nat /\ MaxAsks <= MaxCount
        /\ MaxCount \in Nat
    BY StandingAssumption, BoxesAssumption DEF ExchangeInv
  <2>3. n \in 1..MaxAsks /\ n \in 1..MaxCount /\ s.moved \in Nat
    BY <1>1, <2>1, <2>2 DEF StandingFields
  <2>4. BoundBy(p)
    BY <1>1, <2>1 DEF ExchangeInv, BoundOnlyByOwnKnock, BoundBy
  <2>5. HolderOf(h) = p
    BY <2>4, BinderHolds
  <2>6. PICK i \in DOMAIN honoured[h] : honoured[h][i].seq = n
    BY <1>1, <2>1, <2>3 DEF ExchangeInv, MovedWasHonoured
  <2>7. n <= CountOf(h)
    BY <1>1, <2>6, CountIsHighest DEF ExchangeInv
  <2>8. [q \in Parties |-> st[q].moved]' =
          [[q \in Parties |-> st[q].moved] EXCEPT ![p] = n]
    BY <1>2, <2>1
  <2>9. Abstract!Learn(p, n)
    BY <1>1, <1>4, <2>1, <2>5, <2>7, <2>8 DEF Abstract!Learn
  <2> QED
    BY <2>3, <2>9
<1> QED
  BY <1>5, <1>6

LEMMA PromiseSteps ==
  ASSUME ExchangeInv, ExchangeInv', [ExchangeNext]_exchangeVars
  PROVE  [Abstract!PromiseNext]_(Abstract!promiseVars)
<1>1. CASE UNCHANGED exchangeVars
  <2>1. \A h \in Heirs : /\ StageOf(h)' = StageOf(h)
                         /\ HolderOf(h)' = HolderOf(h)
                         /\ CountOf(h)' = CountOf(h)
    BY <1>1, StageRests DEF exchangeVars, HolderOf, CountOf, ExchangeInv, DoorInv
  <2> QED
    BY <1>1, <2>1, PromiseRests DEF exchangeVars
<1>2. ASSUME NEW h \in Heirs, NEW reach \in Reaches, WardInvites(h, reach)
      PROVE  Abstract!PromiseNext
  BY <1>2, InvitesOffer DEF Abstract!PromiseNext
<1>3. ASSUME NEW h \in Heirs, WardReleases(h)
      PROVE  Abstract!PromiseNext
  BY <1>3, ReleasesClose DEF Abstract!PromiseNext
<1>4. ASSUME NEW p \in Parties, NEW unread \in BOOLEAN, PartyAsks(p, unread)
      PROVE  UNCHANGED Abstract!promiseVars
  <2>1. UNCHANGED << heirs, removed, honoured >>
    BY <1>4 DEF PartyAsks
  <2>2. \A q \in Parties : st'[q].moved = st[q].moved
    BY <1>4, AskKeeps
  <2>3. \A h \in Heirs : /\ StageOf(h)' = StageOf(h)
                         /\ HolderOf(h)' = HolderOf(h)
                         /\ CountOf(h)' = CountOf(h)
    BY <2>1, StageRests DEF HolderOf, CountOf, ExchangeInv, DoorInv
  <2> QED
    BY <2>2, <2>3, PromiseRests
<1>5. ASSUME NEW a \in asks, AskArrives(a)
      PROVE  [Abstract!PromiseNext]_(Abstract!promiseVars)
  <2>1. a.lid[1] \in Parties /\ Invitation[a.lid[1]] \in Heirs
    BY LidFacts DEF ExchangeInv, OwnAsk
  <2> QED
    BY <1>5, <2>1, ArrivesBindOrHonour DEF Abstract!PromiseNext
<1>6. ASSUME NEW p \in Parties, NEW reply \in replies \cup {Garbled, Nothing},
             PartyReads(p, reply)
      PROVE  [Abstract!PromiseNext]_(Abstract!promiseVars)
  BY <1>6, ReadsLearn DEF Abstract!PromiseNext
<1> QED
  BY <1>1, <1>2, <1>3, <1>4, <1>5, <1>6 DEF ExchangeNext

(* Both ends, in whatever order boxes and replies come, behave as Promise  *)
(* says: an heir is bound by one party and once, numbers are honoured once *)
(* and climbing, a party learns only of numbers its relation honoured, and *)
(* what is closed stays closed.                                            *)
THEOREM PromiseKept == ExchangeSpec => KeepsThePromise
<1>1. ExchangeInv /\ ExchangeInv' /\ [ExchangeNext]_exchangeVars
        => [Abstract!PromiseNext]_(Abstract!promiseVars)
  BY PromiseSteps
<1> QED
  BY <1>1, PromiseInits, ExchangeInductive, PTL
  DEF ExchangeSpec, KeepsThePromise, Abstract!PromiseSpec
=============================================================================
