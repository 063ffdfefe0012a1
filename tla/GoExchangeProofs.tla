--------------------------- MODULE GoExchangeProofs ---------------------------
(***************************************************************************)
(* What the Go standings and the door promise together, proved for any     *)
(* number of heirs, parties, asks and sends under way at once, and for     *)
(* asks and replies in any order, many times or never; that GoExchange     *)
(* keeps the promise of module Promise; and, over GoSend, that sends which *)
(* overlapped leave a relation in step while nothing was lost.             *)
(***************************************************************************)
EXTENDS GoSend, DoorProofs

-----------------------------------------------------------------------------
(* The inductive invariant.                                                *)

Lids == Parties \X (1..MaxAsks)

Sents == [isKnock : BOOLEAN, lid : Lids, box : Box(Edge)]

AskIn(sent) == [lid |-> sent.lid, box |-> sent.box]

GoStandingFields ==
  [bound : BOOLEAN, key : Keys \cup {NoKey}, edge : Edge,
   seq : 0..MaxAsks, moved : 0..MaxAsks, knock : Sents \cup {NoSent},
   probeNext : BOOLEAN, last : Sents \cup {NoSent}]

(* The first box of a party is its knock, signed by the heir; the ones     *)
(* after it are signed by keys the party drew, under edge keys that come   *)
(* of its own knock.                                                       *)
IsKnock(a) ==
  /\ a.lid[2] = 1
  /\ a.box.by = Invitation[a.lid[1]]
  /\ a.box.ct = a.lid
  /\ a.box.edge = KnockEdge(a.lid)

FollowsKnock(a) ==
  /\ a.lid[2] > 1
  /\ a.box.by \in {Drawn(a.lid[1], m) : m \in 1..MaxAsks}
  /\ a.box.ct = NoCt
  /\ a.box.edge.root = Drawn(a.lid[1], 1)

OwnAsk(a) ==
  /\ a.lid \in Lids
  /\ a.box \in Box(Edge)
  /\ a.box.head = Invitation[a.lid[1]]
  /\ a.box.next = a.lid
  /\ a.box.seq = a.lid[2]
  /\ IsKnock(a) \/ FollowsKnock(a)

(* A lid names one box for good: what is sealed again is the same box.     *)
LidsOnce == \A a, b \in asks : a.lid = b.lid => a = b

(* A lid, or the reply to one, is of a box its party counted.              *)
Counted(lid) == lid[2] <= gs[lid[1]].seq

SentBy(p, sent) == sent \in Sents /\ AskIn(sent) \in asks /\ sent.lid[1] = p

(* What a standing stands on, and what its sends under way are read by, is *)
(* what it sealed.                                                         *)
StandsAsSent(p) ==
  LET s == gs[p]
  IN /\ s.moved <= s.seq
     /\ s.knock # NoSent => /\ ~s.bound
                            /\ SentBy(p, s.knock) /\ s.knock.lid = Drawn(p, 1)
     /\ s.last # NoSent => SentBy(p, s.last)
     /\ \A i \in Slots : flight[p][i] # NoSent => SentBy(p, flight[p][i])
     /\ s.bound => /\ s.seq > 0
                   /\ s.key \in {Drawn(p, m) : m \in 1..MaxAsks}
                   /\ s.edge.root = Drawn(p, 1)
     /\ ~s.bound /\ s.knock = NoSent => s.seq = 0

(* The edge keys of a bound relation, held or kept, come of the knock that *)
(* bound it; and what bound an heir was the first ask of a party that      *)
(* holds its invitation.                                                   *)
Rooted(rel, h) ==
  rel.stage = "spent" =>
    /\ honoured[h] # << >>
    /\ rel.O.root = honoured[h][1].next
    /\ rel.F.root = honoured[h][1].next

BoundByAKnock(h) ==
  honoured[h] # << >> =>
    \E p \in Parties : h = Invitation[p] /\ honoured[h][1].next = Drawn(p, 1)

WasHonoured(h, lid) ==
  \E i \in DOMAIN honoured[h] :
    honoured[h][i].seq = lid[2] /\ honoured[h][i].next = lid

(* An object answers an ask that was honoured, to the party that bound the *)
(* heir; and while nothing was honoured after it, the relation stands on   *)
(* the keys that ask announced and its reply made.                         *)
ObjectStands(r) ==
  LET h == Invitation[r.lid[1]]
      rel == heirs[h]
  IN r.text = "object" =>
       /\ WasHonoured(h, r.lid)
       /\ BoundBy(r.lid[1])
       /\ rel.stage = "spent" /\ rel.high = r.lid[2] =>
            /\ r.lid \in {rel.H, rel.V}
            /\ \A a \in asks : a.lid = r.lid =>
                 rel.F = Follow(a.box.edge, r.agreement)

MovedWasHonoured ==
  \A p \in Parties : gs[p].moved > 0 =>
    WasHonoured(Invitation[p], Drawn(p, gs[p].moved))

GoExchangeInv ==
  /\ DoorInv
  /\ gs \in [Parties -> GoStandingFields]
  /\ flight \in [Parties -> [Slots -> Sents \cup {NoSent}]]
  /\ replies \subseteq Reply
  /\ \A a \in asks : OwnAsk(a) /\ Counted(a.lid)
  /\ LidsOnce
  /\ \A p \in Parties : StandsAsSent(p)
  /\ \A h \in Heirs : Rooted(heirs[h], h) /\ Rooted(removed[h], h)
                      /\ BoundByAKnock(h)
  /\ \A r \in replies : Counted(r.lid) /\ ObjectStands(r)
  /\ MovedWasHonoured
  /\ BoundOnlyByOwnKnock
  /\ AdmittedUnlessPassed

-----------------------------------------------------------------------------
(* Lids, asks and edge keys.                                               *)

LEMMA LidFacts ==
  ASSUME NEW lid \in Lids
  PROVE  /\ lid[1] \in Parties /\ lid[2] \in 1..MaxAsks
         /\ lid = Drawn(lid[1], lid[2])
         /\ lid \in Secrets /\ lid \in Keys /\ lid \notin Heirs
         /\ lid # NoCt /\ lid # NoKey
         /\ Invitation[lid[1]] \in Heirs /\ Invitation[lid[1]] # NoHeir
         /\ MaxAsks \in Nat /\ MaxAsks > 0 /\ MaxAsks <= MaxCount
BY GoStandingAssumption, BoxesAssumption DEF Lids, Drawn

LEMMA DrawnIsALid ==
  ASSUME NEW p \in Parties, NEW n \in 1..MaxAsks
  PROVE  Drawn(p, n) \in Lids /\ Drawn(p, n)[1] = p /\ Drawn(p, n)[2] = n
BY DEF Lids, Drawn

LEMMA NoSentIsNone == NoSent \notin Sents
BY LidFacts DEF NoSent, Sents

(* Every box a party sends is sealed on its own knock's chain.             *)
LEMMA OwnRoot ==
  ASSUME NEW a, OwnAsk(a)
  PROVE  a.box.edge.root = Drawn(a.lid[1], 1) /\ a.box.edge \in Edge
<1>1. a.lid \in Lids /\ a.lid = Drawn(a.lid[1], a.lid[2])
  BY LidFacts DEF OwnAsk
<1> QED
  BY <1>1 DEF OwnAsk, IsKnock, FollowsKnock, KnockEdge, Box

(* What a party sealed, field by field.                                    *)
LEMMA SentIsOwn ==
  ASSUME GoExchangeInv, NEW p \in Parties, NEW sent, SentBy(p, sent)
  PROVE  /\ sent \in Sents /\ sent.lid \in Lids /\ sent # NoSent
         /\ sent.lid[2] \in 1..MaxAsks /\ sent.lid = Drawn(p, sent.lid[2])
         /\ sent.lid[2] <= gs[p].seq
         /\ sent.box.seq = sent.lid[2] /\ sent.box.next = sent.lid
         /\ sent.box.edge \in Edge /\ sent.box.edge.root = Drawn(p, 1)
         /\ sent.box \in Box(Edge)
<1>1. sent \in Sents /\ OwnAsk(AskIn(sent)) /\ Counted(sent.lid) /\ sent.lid[1] = p
  BY DEF SentBy, GoExchangeInv, AskIn
<1>2. sent.lid \in Lids
  BY <1>1 DEF Sents
<1> QED
  BY <1>1, <1>2, LidFacts, OwnRoot, NoSentIsNone DEF OwnAsk, AskIn, Counted

(* A step of both ends is, to the door, a step of its own or none.         *)
LEMMA DoorSteps ==
  ASSUME \A a \in asks : OwnAsk(a), [GoExchangeNext]_goExchangeVars
  PROVE  [DoorNext]_doorVars
<1>1. CASE UNCHANGED goExchangeVars
  BY <1>1 DEF goExchangeVars, doorVars
<1>2. ASSUME NEW h \in Heirs, NEW reach \in Reaches, WardInvites(h, reach)
      PROVE  DoorNext
  BY <1>2 DEF WardInvites, DoorNext
<1>3. ASSUME NEW h \in Heirs, WardReleases(h)
      PROVE  DoorNext
  BY <1>3 DEF WardReleases, DoorNext
<1>4. ASSUME NEW p \in Parties, NEW unread \in UnreadArgs,
             \/ PartyAsks(p, unread)
             \/ \E i \in Slots : SendStarts(p, unread, i)
      PROVE  UNCHANGED doorVars
  BY <1>4 DEF PartyAsks, SendStarts, Sealing, doorVars
<1>5. ASSUME NEW a \in asks, AskArrives(a)
      PROVE  [DoorNext]_doorVars
  <2>1. a.box \in Box(Edge)
    BY DEF OwnAsk
  <2>2. CASE Verdict(a.box) = "choice"
    BY <1>5, <2>1, <2>2, ChoiceInReach DEF AskArrives, DoorNext
  <2>3. CASE Verdict(a.box) # "choice"
    BY <1>5, <2>3 DEF AskArrives, Arrive
  <2> QED
    BY <2>2, <2>3
<1>6. ASSUME NEW p \in Parties, NEW reply,
             PartyReads(p, reply) \/ \E i \in Slots : SendReads(p, i, reply)
      PROVE  UNCHANGED doorVars
  BY <1>6 DEF PartyReads, SendReads, doorVars
<1> QED
  BY <1>1, <1>2, <1>3, <1>4, <1>5, <1>6 DEF GoExchangeNext

-----------------------------------------------------------------------------
(* A party seals.                                                          *)

LEMMA SealedIsOwn ==
  ASSUME GoExchangeInv, NEW p \in Parties, NEW unread \in BOOLEAN,
         ~Resends(p), gs[p].seq < MaxAsks
  PROVE  /\ Sealed(p, unread) \in Sents
         /\ Sealed(p, unread).lid = Drawn(p, gs[p].seq + 1)
         /\ OwnAsk(AskIn(Sealed(p, unread)))
         /\ Sealed(p, unread).isKnock = (~gs[p].bound /\ gs[p].knock = NoSent)
<1> DEFINE s == gs[p]
           n == s.seq + 1
           knocks == ~s.bound /\ s.knock = NoSent
           b == Sealed(p, unread).box
<1>1. /\ s \in GoStandingFields /\ StandsAsSent(p)
      /\ n \in 1..MaxAsks /\ MaxAsks \in Nat /\ MaxAsks <= MaxCount
  BY GoStandingAssumption, BoxesAssumption DEF GoExchangeInv, GoStandingFields
<1>2. Drawn(p, n) \in Lids /\ Drawn(p, n)[1] = p /\ Drawn(p, n)[2] = n
  BY <1>1, DrawnIsALid
<1>3. /\ Drawn(p, n) \in Secrets /\ Drawn(p, n) \in Keys /\ Drawn(p, n) # NoCt
      /\ Invitation[p] \in Heirs /\ Invitation[p] \in Keys
  BY <1>2, LidFacts, BoxesAssumption
<1>4. /\ b.head = Invitation[p] /\ b.by = Signer(p) /\ b.next = Drawn(p, n)
      /\ b.seq = n /\ b.fault = "none" /\ b.unread = unread
      /\ b.ct = IF knocks THEN Drawn(p, n) ELSE NoCt
      /\ b.edge = IF knocks THEN KnockEdge(Drawn(p, n)) ELSE Under(p)
      /\ b = [head |-> b.head, ct |-> b.ct, edge |-> b.edge, by |-> b.by,
              next |-> b.next, seq |-> b.seq, fault |-> b.fault,
              unread |-> b.unread]
  BY <1>3 DEF Sealed, SealAsk
<1>5. /\ Sealed(p, unread).isKnock = knocks
      /\ Sealed(p, unread).lid = Drawn(p, n)
      /\ Sealed(p, unread) = [isKnock |-> knocks, lid |-> Drawn(p, n), box |-> b]
  BY DEF Sealed
<1>6. CASE knocks
  <2>1. n = 1 /\ Signer(p) = Invitation[p]
    BY <1>1, <1>6 DEF StandsAsSent, Signer, Probes
  <2>2. IsKnock(AskIn(Sealed(p, unread)))
    BY <1>2, <1>4, <1>5, <1>6, <2>1 DEF IsKnock, AskIn
  <2>3. /\ KnockEdge(Drawn(p, n)) \in Edge /\ Drawn(p, n) \in Secrets \cup {NoCt}
        /\ n \in 0..(MaxCount + 1)
    BY <1>1, <1>3, KnockEdgeType, BoxesAssumption
  <2> HIDE DEF b, n, s, knocks
  <2>4. b \in Box(Edge)
    BY <1>3, <1>4, <1>6, <2>1, <2>3 DEF Box, Faults
  <2>5. Sealed(p, unread) \in Sents
    BY <1>2, <1>5, <1>6, <2>4 DEF Sents
  <2> QED
    BY <1>2, <1>4, <1>5, <2>2, <2>4, <2>5 DEF OwnAsk, AskIn, b, n, s, knocks
<1>7. CASE ~knocks
  <2>1. /\ s.seq > 0
        /\ Signer(p) \in {Drawn(p, m) : m \in 1..MaxAsks}
        /\ Under(p).root = Drawn(p, 1) /\ Under(p) \in Edge
    <3>1. CASE s.bound
      BY <1>1, <3>1 DEF StandsAsSent, Signer, Under, GoStandingFields
    <3>2. CASE ~s.bound
      <4>1. s.knock # NoSent /\ Probes(p)
        BY <1>7, <3>2 DEF Resends, Probes
      <4>2. SentBy(p, s.knock) /\ s.knock.lid = Drawn(p, 1)
        BY <1>1, <4>1 DEF StandsAsSent
      <4>3. /\ Signer(p) = s.knock.box.next /\ Under(p) = s.knock.box.edge
        BY <3>2, <4>1 DEF Signer, Under
      <4>4. /\ s.knock.lid[2] \in 1..MaxAsks /\ s.knock.lid[2] <= s.seq
            /\ s.knock.box.next = Drawn(p, 1)
            /\ s.knock.box.edge \in Edge /\ s.knock.box.edge.root = Drawn(p, 1)
        BY <4>2, SentIsOwn
      <4>5. s.seq \in Nat /\ 1 \in 1..MaxAsks
        BY <1>1 DEF GoStandingFields
      <4> QED
        BY <4>3, <4>4, <4>5
    <3> QED
      BY <3>1, <3>2
  <2>2. n > 1
    BY <1>1, <2>1 DEF GoStandingFields
  <2>3. FollowsKnock(AskIn(Sealed(p, unread)))
    BY <1>2, <1>4, <1>5, <1>7, <2>1, <2>2 DEF FollowsKnock, AskIn
  <2>4. n \in 0..(MaxCount + 1) /\ Signer(p) \in Keys
        /\ Sealed(p, unread) = [isKnock |-> FALSE, lid |-> Drawn(p, n), box |-> b]
    <3>1. n \in 0..(MaxCount + 1)
      BY <1>1, BoxesAssumption
    <3>2. \A m \in 1..MaxAsks : Drawn(p, m) \in Keys
      BY DrawnIsALid, LidFacts
    <3>3. Sealed(p, unread) = [isKnock |-> FALSE, lid |-> Drawn(p, n), box |-> b]
      BY <1>7 DEF Sealed
    <3> QED
      BY <2>1, <3>1, <3>2, <3>3
  <2> HIDE DEF b, n, s, knocks
  <2>5. b \in Box(Edge)
    BY <1>3, <1>4, <1>7, <2>1, <2>4 DEF Box, Faults
  <2>6. Sealed(p, unread) \in Sents
    BY <1>2, <2>4, <2>5 DEF Sents
  <2> QED
    BY <1>2, <1>4, <1>5, <2>3, <2>5, <2>6 DEF OwnAsk, AskIn, b, n, s, knocks
<1> QED
  BY <1>6, <1>7

(* What is sealed is the knock again or a box of a number of its own.      *)
LEMMA SealIs ==
  ASSUME GoExchangeInv, NEW p \in Parties, NEW unread \in BOOLEAN,
         NEW keeps \in BOOLEAN, Seal(p, unread, keeps),
         NEW sent, sent = NextSent(p, unread)
  PROVE  /\ sent \in Sents /\ sent.lid[1] = p
         /\ \/ /\ gs'[p].seq = gs[p].seq /\ AskIn(sent) \in asks
               /\ gs'[p].knock = gs[p].knock
            \/ /\ gs[p].seq < MaxAsks /\ gs'[p].seq = gs[p].seq + 1
               /\ sent.lid = Drawn(p, gs[p].seq + 1) /\ OwnAsk(AskIn(sent))
               /\ IF ~gs[p].bound /\ gs[p].knock = NoSent
                    THEN gs'[p].knock = sent ELSE gs'[p].knock = gs[p].knock
         /\ gs' = [gs EXCEPT ![p] = gs'[p]] /\ gs'[p] \in GoStandingFields
         /\ gs'[p].bound = gs[p].bound /\ gs'[p].key = gs[p].key
         /\ gs'[p].edge = gs[p].edge /\ gs'[p].moved = gs[p].moved
         /\ gs'[p].last \in {gs[p].last, sent}
<1> DEFINE s == gs[p]
           r == AfterSeal(s, sent)
           t == [r EXCEPT !.last = IF keeps THEN sent ELSE @]
<1>1. /\ s \in GoStandingFields /\ StandsAsSent(p)
      /\ gs' = [gs EXCEPT ![p] = t] /\ gs'[p] = t
      /\ Resends(p) \/ s.seq < MaxAsks
  <2>1. gs' = [gs EXCEPT ![p] = t] /\ (Resends(p) \/ s.seq < MaxAsks)
    BY DEF Seal
  <2>2. gs \in [Parties -> GoStandingFields] /\ StandsAsSent(p)
    BY DEF GoExchangeInv
  <2> HIDE DEF t
  <2> QED
    BY <2>1, <2>2
<1>2. MaxAsks \in Nat /\ s.seq \in Nat /\ s.seq \in 0..MaxAsks
  BY <1>1, GoStandingAssumption, BoxesAssumption DEF GoStandingFields
<1>3. r = [s EXCEPT !.seq = IF sent.box.seq > s.seq THEN sent.box.seq ELSE s.seq,
                    !.knock = IF sent.isKnock THEN sent ELSE s.knock,
                    !.probeNext = IF s.bound THEN s.probeNext ELSE sent = s.knock]
  BY DEF AfterSeal
<1>4. CASE Resends(p)
  <2>1. sent = s.knock /\ ~s.bound /\ s.knock # NoSent
    BY <1>4 DEF NextSent, Resends
  <2>2. SentBy(p, sent) /\ sent.lid = Drawn(p, 1)
    BY <1>1, <2>1 DEF StandsAsSent
  <2>3. /\ sent.box.seq = sent.lid[2] /\ sent.lid[2] <= s.seq
        /\ sent.lid[2] \in 1..MaxAsks /\ sent \in Sents /\ sent.lid[1] = p
        /\ AskIn(sent) \in asks
    BY <2>2, SentIsOwn DEF SentBy
  <2>4. ~(sent.box.seq > s.seq)
    BY <1>2, <2>3
  <2>5. /\ r \in GoStandingFields /\ r.seq = s.seq /\ r.knock = s.knock
        /\ r.bound = s.bound /\ r.key = s.key /\ r.edge = s.edge
        /\ r.moved = s.moved /\ r.last = s.last
    <3>1. r = [s EXCEPT !.seq = s.seq, !.knock = s.knock, !.probeNext = TRUE]
      BY <1>3, <2>1, <2>4
    <3> HIDE DEF s, r
    <3> QED
      BY <1>1, <3>1 DEF GoStandingFields
  <2> HIDE DEF r, s
  <2>6. /\ t \in GoStandingFields /\ t.seq = r.seq /\ t.knock = r.knock
        /\ t.bound = r.bound /\ t.key = r.key /\ t.edge = r.edge
        /\ t.moved = r.moved /\ t.last \in {r.last, sent}
    BY <2>3, <2>5 DEF GoStandingFields
  <2> HIDE DEF t
  <2> QED
    BY <1>1, <2>3, <2>5, <2>6 DEF s
<1>5. CASE ~Resends(p)
  <2>1. sent = Sealed(p, unread) /\ s.seq < MaxAsks
    BY <1>1, <1>5 DEF NextSent
  <2>2. /\ sent \in Sents /\ sent.lid = Drawn(p, s.seq + 1)
        /\ OwnAsk(AskIn(sent))
        /\ sent.isKnock = (~s.bound /\ s.knock = NoSent)
    BY <1>5, <2>1, SealedIsOwn
  <2>3. /\ sent.lid[1] = p /\ sent.lid[2] = s.seq + 1
        /\ sent.box.seq = s.seq + 1 /\ s.seq + 1 \in 0..MaxAsks
        /\ sent.box.seq > s.seq
    BY <1>2, <2>1, <2>2 DEF OwnAsk, AskIn, Drawn
  <2>4. /\ r \in GoStandingFields /\ r.seq = s.seq + 1
        /\ IF ~s.bound /\ s.knock = NoSent
             THEN r.knock = sent ELSE r.knock = s.knock
        /\ r.bound = s.bound /\ r.key = s.key /\ r.edge = s.edge
        /\ r.moved = s.moved /\ r.last = s.last
    <3>1. s.bound \in BOOLEAN /\ s.probeNext \in BOOLEAN
      BY <1>1 DEF GoStandingFields
    <3>2. PICK pn \in BOOLEAN : pn = IF s.bound THEN s.probeNext ELSE sent = s.knock
      BY <3>1
    <3>3. \/ /\ ~s.bound /\ s.knock = NoSent
             /\ r = [s EXCEPT !.seq = s.seq + 1, !.knock = sent, !.probeNext = pn]
          \/ /\ ~(~s.bound /\ s.knock = NoSent)
             /\ r = [s EXCEPT !.seq = s.seq + 1, !.knock = s.knock, !.probeNext = pn]
      BY <1>3, <2>2, <2>3, <3>2
    <3> HIDE DEF s, r
    <3> QED
      BY <1>1, <2>2, <2>3, <3>3 DEF GoStandingFields
  <2> HIDE DEF r, s
  <2>5. /\ t \in GoStandingFields /\ t.seq = r.seq /\ t.knock = r.knock
        /\ t.bound = r.bound /\ t.key = r.key /\ t.edge = r.edge
        /\ t.moved = r.moved /\ t.last \in {r.last, sent}
    BY <2>2, <2>4 DEF GoStandingFields
  <2> HIDE DEF t
  <2> QED
    BY <1>1, <2>1, <2>2, <2>3, <2>4, <2>5 DEF s
<1> QED
  BY <1>4, <1>5

LEMMA SealKeeps ==
  ASSUME GoExchangeInv, NEW p \in Parties, NEW unread \in BOOLEAN,
         NEW keeps \in BOOLEAN, Sealing(p, unread, keeps),
         NEW sent, sent = NextSent(p, unread),
         \/ flight' = flight
         \/ \E i \in Slots : flight' = [flight EXCEPT ![p][i] = sent]
  PROVE  /\ gs' \in [Parties -> GoStandingFields]
         /\ flight' \in [Parties -> [Slots -> Sents \cup {NoSent}]]
         /\ \A a \in asks' : OwnAsk(a) /\ Counted(a.lid)'
         /\ LidsOnce'
         /\ \A q \in Parties : StandsAsSent(q)'
         /\ \A q \in Parties :
              /\ gs'[q].bound = gs[q].bound /\ gs'[q].key = gs[q].key
              /\ gs'[q].edge = gs[q].edge /\ gs'[q].moved = gs[q].moved
         /\ \A r \in replies : Counted(r.lid)' /\ ObjectStands(r)'
<1> DEFINE s == gs[p]
           t == gs'[p]
           Mine(x) == x \in Sents /\ AskIn(x) \in asks' /\ x.lid[1] = p
<1>1. /\ asks' = asks \cup {AskIn(sent)}
      /\ UNCHANGED << heirs, removed, honoured, replies >>
  BY DEF Sealing, AskIn
<1>2. /\ sent \in Sents /\ sent.lid[1] = p
      /\ \/ /\ t.seq = s.seq /\ AskIn(sent) \in asks /\ t.knock = s.knock
         \/ /\ s.seq < MaxAsks /\ t.seq = s.seq + 1
            /\ sent.lid = Drawn(p, s.seq + 1) /\ OwnAsk(AskIn(sent))
            /\ IF ~s.bound /\ s.knock = NoSent
                 THEN t.knock = sent ELSE t.knock = s.knock
      /\ gs' = [gs EXCEPT ![p] = t] /\ t \in GoStandingFields
      /\ t.bound = s.bound /\ t.key = s.key /\ t.edge = s.edge
      /\ t.moved = s.moved /\ t.last \in {s.last, sent}
  BY SealIs DEF Sealing
<1>3. /\ \A q \in Parties \ {p} : gs'[q] = gs[q]
      /\ gs' \in [Parties -> GoStandingFields]
  BY <1>2 DEF GoExchangeInv
<1>4. flight' \in [Parties -> [Slots -> Sents \cup {NoSent}]]
  BY <1>2 DEF GoExchangeInv
<1>5. /\ \A q \in Parties \ {p} : flight'[q] = flight[q]
      /\ \A i \in Slots : flight'[p][i] \in {flight[p][i], sent}
  BY DEF GoExchangeInv
<1>6. /\ s \in GoStandingFields /\ StandsAsSent(p) /\ s.seq \in Nat
      /\ MaxAsks \in Nat /\ s.moved \in Nat /\ t.seq \in Nat
  BY <1>2, GoStandingAssumption, BoxesAssumption DEF GoExchangeInv, GoStandingFields
<1>7. AskIn(sent) \in asks' /\ Mine(sent)
  BY <1>1, <1>2
<1>8. \A lid \in Lids : Counted(lid) => Counted(lid)'
  BY <1>2, <1>3, <1>6, LidFacts DEF Counted
<1>9. \/ asks' = asks
      \/ /\ OwnAsk(AskIn(sent)) /\ AskIn(sent).lid = Drawn(p, s.seq + 1)
         /\ t.seq = s.seq + 1 /\ sent.lid[2] = s.seq + 1
  BY <1>1, <1>2 DEF AskIn, Drawn
<1>10. \A a \in asks' : OwnAsk(a) /\ Counted(a.lid)'
  <2>1. \A a \in asks : OwnAsk(a) /\ Counted(a.lid)'
    BY <1>8 DEF GoExchangeInv, OwnAsk
  <2>2. asks' # asks => Counted(sent.lid)'
    BY <1>2, <1>6, <1>9 DEF Counted
  <2> QED
    BY <1>1, <1>9, <2>1, <2>2 DEF AskIn
<1>11. \A lid \in Lids : Counted(lid) =>
         asks' = asks \/ lid # AskIn(sent).lid
  <2> SUFFICES ASSUME NEW lid \in Lids, Counted(lid), asks' # asks
               PROVE  lid # AskIn(sent).lid
    OBVIOUS
  <2>1. AskIn(sent).lid = sent.lid /\ sent.lid[1] = p /\ sent.lid[2] = s.seq + 1
    BY <1>2, <1>9 DEF AskIn
  <2>2. lid[1] = p => lid[2] <= s.seq
    BY DEF Counted
  <2>3. lid[2] \in Nat
    BY LidFacts
  <2> QED
    BY <1>6, <2>1, <2>2, <2>3
<1>12. LidsOnce'
  <2>1. \A a \in asks : asks' = asks \/ a.lid # AskIn(sent).lid
    BY <1>11 DEF GoExchangeInv, OwnAsk
  <2> QED
    BY <1>1, <2>1 DEF GoExchangeInv, LidsOnce
<1>13. \A q \in Parties : StandsAsSent(q)'
  <2>1. \A q \in Parties \ {p} : StandsAsSent(q)'
    BY <1>1, <1>3, <1>5 DEF GoExchangeInv, StandsAsSent, SentBy
  <2>2. t.moved <= t.seq
    <3>1. s.moved <= s.seq
      BY <1>6 DEF StandsAsSent
    <3> QED
      BY <1>2, <1>6, <3>1
  <2>3. \A x : SentBy(p, x) => Mine(x)
    BY <1>1 DEF SentBy
  <2>4. t.knock # NoSent => ~t.bound /\ Mine(t.knock) /\ t.knock.lid = Drawn(p, 1)
    <3>1. CASE t.knock = s.knock
      BY <1>2, <1>6, <2>3, <3>1 DEF StandsAsSent
    <3>2. CASE t.knock # s.knock
      <4>1. t.knock = sent /\ ~s.bound /\ s.knock = NoSent
            /\ sent.lid = Drawn(p, s.seq + 1)
        BY <1>2, <3>2
      <4>2. s.seq = 0
        BY <1>6, <4>1 DEF StandsAsSent
      <4> QED
        BY <1>2, <1>7, <4>1, <4>2
    <3> QED
      BY <3>1, <3>2
  <2>5. t.last # NoSent => Mine(t.last)
    BY <1>2, <1>6, <1>7, <2>3 DEF StandsAsSent
  <2>6. \A i \in Slots : flight'[p][i] # NoSent => Mine(flight'[p][i])
    <3> SUFFICES ASSUME NEW i \in Slots, NEW x, x = flight'[p][i], x # NoSent
                 PROVE  Mine(x)
      OBVIOUS
    <3>1. x = flight[p][i] \/ x = sent
      BY <1>5
    <3>2. x = flight[p][i] => SentBy(p, x)
      BY <1>6 DEF StandsAsSent
    <3> QED
      BY <1>7, <2>3, <3>1, <3>2
  <2>7. t.bound => /\ t.seq > 0
                   /\ t.key \in {Drawn(p, m) : m \in 1..MaxAsks}
                   /\ t.edge.root = Drawn(p, 1)
    <3>1. s.bound => /\ s.seq > 0
                     /\ s.key \in {Drawn(p, m) : m \in 1..MaxAsks}
                     /\ s.edge.root = Drawn(p, 1)
      BY <1>6 DEF StandsAsSent
    <3>2. s.seq > 0 => t.seq > 0
      BY <1>2, <1>6
    <3> QED
      BY <1>2, <3>1, <3>2
  <2>8. ~t.bound /\ t.knock = NoSent => t.seq = 0
    <3>1. ~s.bound /\ s.knock = NoSent => s.seq = 0
      BY <1>6 DEF StandsAsSent
    <3>2. sent # NoSent
      BY <1>2, NoSentIsNone
    <3> QED
      BY <1>2, <3>1, <3>2
  <2> QED
    BY <2>1, <2>2, <2>4, <2>5, <2>6, <2>7, <2>8 DEF StandsAsSent, SentBy
<1>14. \A r \in replies : Counted(r.lid)' /\ ObjectStands(r)'
  <2> SUFFICES ASSUME NEW r \in replies
               PROVE  Counted(r.lid)' /\ ObjectStands(r)'
    OBVIOUS
  <2>1. r.lid \in Lids /\ Counted(r.lid) /\ ObjectStands(r)
    BY DEF GoExchangeInv, Reply, Lids
  <2>2. Counted(r.lid)'
    BY <1>8, <2>1
  <2>3. \A a \in asks' : a.lid = r.lid => a \in asks
    BY <1>1, <1>11, <2>1
  <2> QED
    BY <1>1, <2>1, <2>2, <2>3 DEF ObjectStands, WasHonoured, BoundBy
<1> QED
  BY <1>2, <1>3, <1>4, <1>10, <1>12, <1>13, <1>14

-----------------------------------------------------------------------------
(* A party reads.                                                          *)

LEMMA ObjectMeans ==
  ASSUME replies \subseteq Reply, NEW sent \in Sents,
         NEW reply \in replies \cup {Garbled, Nothing},
         ReadKind(sent, reply) = "object"
  PROVE  /\ reply \in replies /\ reply.lid = sent.lid
         /\ reply.text = "object" /\ reply.agreement \in Nat
<1>1. reply # Nothing /\ reply.lid = sent.lid /\ reply.text = "object"
  BY DEF ReadKind
<1>2. reply # Garbled
  BY <1>1 DEF Garbled
<1> QED
  BY <1>1, <1>2 DEF Reply, Agreements

(* What a read leaves of a standing: where it stood, or on what the box it *)
(* was read for announced and its reply made, past every number before.    *)
StoodStill(s, t) ==
  /\ t.bound = s.bound /\ t.key = s.key /\ t.edge = s.edge
  /\ t.moved = s.moved /\ t.knock = s.knock

MovedBy(s, sent, reply, t) ==
  /\ reply \in replies /\ reply.lid = sent.lid /\ reply.text = "object"
  /\ t.bound /\ t.key = sent.lid
  /\ t.edge = Follow(sent.box.edge, reply.agreement)
  /\ t.edge.root = sent.box.edge.root
  /\ t.moved = sent.lid[2] /\ t.moved > s.moved
  /\ t.knock = NoSent

ReadLeaves(s, sent, reply, t) ==
  /\ t \in GoStandingFields /\ t.seq = s.seq /\ t.last \in {s.last, NoSent}
  /\ StoodStill(s, t) \/ MovedBy(s, sent, reply, t)

LEMMA ReadGives ==
  ASSUME GoExchangeInv, NEW p \in Parties, NEW sent, SentBy(p, sent),
         NEW reply \in replies \cup {Garbled, Nothing},
         NEW s, s = gs[p], NEW t, t = AfterRead(s, sent, reply)
  PROVE  /\ ReadLeaves(s, sent, reply, t)
         /\ ReadLeaves(s, sent, reply, [t EXCEPT !.last = NoSent])
<1> DEFINE kind == ReadKind(sent, reply)
<1>1. /\ s \in GoStandingFields
      /\ sent \in Sents /\ sent.lid \in Lids
      /\ sent.box.seq = sent.lid[2] /\ sent.box.next = sent.lid
      /\ sent.box.edge \in Edge /\ sent.lid[2] \in 0..MaxAsks
      /\ sent.lid \in Keys
  <2>1. /\ sent \in Sents /\ sent.lid \in Lids
        /\ sent.box.seq = sent.lid[2] /\ sent.box.next = sent.lid
        /\ sent.box.edge \in Edge
    BY SentIsOwn
  <2> QED
    BY <2>1, LidFacts DEF GoExchangeInv
<1>2. CASE MovesOn(s, sent, kind)
  <2>1. t = [s EXCEPT !.moved = sent.box.seq, !.bound = TRUE,
                      !.key = sent.box.next,
                      !.edge = Follow(sent.box.edge, reply.agreement),
                      !.knock = NoSent]
    BY <1>2 DEF AfterRead, MoveTo
  <2>2. kind = "object" /\ sent.box.seq > s.moved
    BY <1>2 DEF MovesOn
  <2>3. /\ reply \in replies /\ reply.lid = sent.lid
        /\ reply.text = "object" /\ reply.agreement \in Nat
    BY <1>1, <2>2, ObjectMeans DEF GoExchangeInv
  <2>4. /\ Follow(sent.box.edge, reply.agreement) \in Edge
        /\ Follow(sent.box.edge, reply.agreement).root = sent.box.edge.root
    BY <1>1, <2>3, FollowType DEF Follow
  <2>5. /\ t \in GoStandingFields /\ t.seq = s.seq /\ t.last = s.last
        /\ t.moved = sent.box.seq /\ t.bound /\ t.key = sent.box.next
        /\ t.edge = Follow(sent.box.edge, reply.agreement) /\ t.knock = NoSent
    BY <1>1, <2>1, <2>4 DEF GoStandingFields
  <2>6. t.last = s.last /\ MovedBy(s, sent, reply, t)
    BY <1>1, <2>2, <2>3, <2>4, <2>5 DEF MovedBy
  <2> HIDE DEF kind
  <2> QED
    BY <2>5, <2>6 DEF ReadLeaves, MovedBy, GoStandingFields
<1>3. CASE ~MovesOn(s, sent, kind)
  <2>1. t = s \/ \E x \in BOOLEAN : t = [s EXCEPT !.probeNext = x]
    BY <1>3 DEF AfterRead
  <2>2. t \in GoStandingFields /\ t.seq = s.seq /\ t.last = s.last
        /\ StoodStill(s, t)
    BY <1>1, <2>1 DEF GoStandingFields, StoodStill
  <2> QED
    BY <2>2 DEF ReadLeaves, StoodStill, GoStandingFields
<1> QED
  BY <1>2, <1>3

(* Both reads of the stand read for a box that was sealed.                 *)
LEMMA ReadIs ==
  ASSUME GoExchangeInv, NEW p \in Parties,
         NEW reply \in replies \cup {Garbled, Nothing},
         PartyReads(p, reply) \/ \E i \in Slots : SendReads(p, i, reply)
  PROVE  \E sent, u : /\ SentBy(p, sent) /\ ReadLeaves(gs[p], sent, reply, u)
                      /\ gs' = [gs EXCEPT ![p] = u]
<1>1. StandsAsSent(p)
  BY DEF GoExchangeInv
<1>2. CASE PartyReads(p, reply)
  <2>1. ASSUME NEW s, s = gs[p], NEW sent, sent = s.last,
               NEW t, t = AfterRead(s, sent, reply),
               NEW u, u = [t EXCEPT !.last = NoSent]
        PROVE  /\ SentBy(p, sent) /\ ReadLeaves(gs[p], sent, reply, u)
               /\ gs' = [gs EXCEPT ![p] = u]
    <3>1. SentBy(p, sent)
      BY <1>1, <1>2, <2>1 DEF StandsAsSent, PartyReads
    <3>2. gs' = [gs EXCEPT ![p] = u]
      BY <1>2, <2>1 DEF PartyReads, ReadLast
    <3> QED
      BY <2>1, <3>1, <3>2, ReadGives
  <2> QED
    BY <2>1, ZenonT(40)
<1>3. ASSUME NEW i \in Slots, SendReads(p, i, reply)
      PROVE  \E sent, u :
               /\ SentBy(p, sent) /\ ReadLeaves(gs[p], sent, reply, u)
               /\ gs' = [gs EXCEPT ![p] = u]
  <2> SUFFICES ASSUME NEW s, s = gs[p], NEW sent, sent = flight[p][i],
                      NEW t, t = AfterRead(s, sent, reply)
               PROVE  /\ SentBy(p, sent) /\ ReadLeaves(gs[p], sent, reply, t)
                      /\ gs' = [gs EXCEPT ![p] = t]
    OBVIOUS
  <2>1. SentBy(p, sent)
    BY <1>1, <1>3 DEF StandsAsSent, SendReads
  <2>2. gs' = [gs EXCEPT ![p] = t]
    BY <1>3 DEF SendReads, ReadReply
  <2> QED
    BY <2>1, <2>2, ReadGives
<1> QED
  BY <1>2, <1>3

LEMMA ReadKeeps ==
  ASSUME GoExchangeInv, NEW p \in Parties, NEW sent, SentBy(p, sent),
         NEW reply, NEW u, ReadLeaves(gs[p], sent, reply, u),
         gs' = [gs EXCEPT ![p] = u],
         \/ flight' = flight
         \/ \E i \in Slots : flight' = [flight EXCEPT ![p][i] = NoSent],
         UNCHANGED << heirs, removed, honoured, asks, replies >>
  PROVE  /\ gs' \in [Parties -> GoStandingFields]
         /\ flight' \in [Parties -> [Slots -> Sents \cup {NoSent}]]
         /\ \A lid \in Lids : Counted(lid) => Counted(lid)'
         /\ \A q \in Parties : StandsAsSent(q)'
         /\ MovedWasHonoured' /\ BoundOnlyByOwnKnock' /\ AdmittedUnlessPassed'
<1> DEFINE s == gs[p]
<1>2. /\ u \in GoStandingFields /\ u.seq = s.seq
      /\ u.last = s.last \/ u.last = NoSent
      /\ StoodStill(s, u) \/ MovedBy(s, sent, reply, u)
  BY DEF ReadLeaves
<1>3. /\ gs'[p] = u
      /\ \A q \in Parties \ {p} : gs'[q] = gs[q]
      /\ gs' \in [Parties -> GoStandingFields]
  BY <1>2 DEF GoExchangeInv
<1>4. /\ sent \in Sents /\ sent.lid \in Lids
      /\ sent.lid[2] \in 1..MaxAsks /\ sent.lid = Drawn(p, sent.lid[2])
      /\ sent.lid[2] <= s.seq
      /\ sent.box.edge \in Edge /\ sent.box.edge.root = Drawn(p, 1)
      /\ AskIn(sent) \in asks /\ sent.lid[1] = p
  BY SentIsOwn DEF SentBy
<1>5. /\ s \in GoStandingFields /\ StandsAsSent(p) /\ s.seq \in Nat
      /\ s.moved \in Nat /\ MaxAsks \in Nat
  BY GoStandingAssumption, BoxesAssumption DEF GoExchangeInv, GoStandingFields
<1>6. /\ flight' \in [Parties -> [Slots -> Sents \cup {NoSent}]]
      /\ \A q \in Parties \ {p} : flight'[q] = flight[q]
      /\ \A i \in Slots : flight'[p][i] \in {flight[p][i], NoSent}
  BY DEF GoExchangeInv
<1>7. \A lid \in Lids : Counted(lid) => Counted(lid)'
  BY <1>2, <1>3 DEF Counted
<1>8. MovedBy(s, sent, reply, u) =>
        /\ reply \in replies /\ ObjectStands(reply)
        /\ reply.text = "object" /\ reply.lid = sent.lid
        /\ u.moved = sent.lid[2] /\ u.key = sent.lid
        /\ u.edge = Follow(sent.box.edge, reply.agreement)
        /\ u.edge.root = Drawn(p, 1)
        /\ WasHonoured(Invitation[p], sent.lid) /\ BoundBy(p)
  BY <1>4 DEF MovedBy, GoExchangeInv, ObjectStands
<1>9. \A q \in Parties : StandsAsSent(q)'
  <2>1. \A q \in Parties \ {p} : StandsAsSent(q)'
    BY <1>3, <1>6 DEF GoExchangeInv, StandsAsSent, SentBy
  <2>2. u.moved <= u.seq
    <3>1. s.moved <= s.seq
      BY <1>5 DEF StandsAsSent
    <3> QED
      BY <1>2, <1>4, <3>1 DEF StoodStill, MovedBy
  <2>3. u.knock # NoSent => /\ ~u.bound /\ SentBy(p, u.knock)
                            /\ u.knock.lid = Drawn(p, 1)
    BY <1>2, <1>5 DEF StandsAsSent, StoodStill, MovedBy
  <2>4. u.last # NoSent => SentBy(p, u.last)
    BY <1>2, <1>5 DEF StandsAsSent
  <2>5. \A i \in Slots : flight'[p][i] # NoSent =>
           flight'[p][i] = flight[p][i] /\ SentBy(p, flight[p][i])
    BY <1>5, <1>6 DEF StandsAsSent
  <2>6. u.bound => /\ u.seq > 0
                   /\ u.key \in {Drawn(p, m) : m \in 1..MaxAsks}
                   /\ u.edge.root = Drawn(p, 1)
    <3>1. CASE StoodStill(s, u)
      BY <1>2, <1>5, <3>1 DEF StandsAsSent, StoodStill
    <3>2. CASE MovedBy(s, sent, reply, u)
      BY <1>2, <1>4, <1>5, <1>8, <3>2
    <3> QED
      BY <1>2, <3>1, <3>2
  <2>7. ~u.bound /\ u.knock = NoSent => u.seq = 0
    BY <1>2, <1>5 DEF StandsAsSent, StoodStill, MovedBy
  <2>8. StandsAsSent(p)'
    BY <1>3, <2>2, <2>3, <2>4, <2>5, <2>6, <2>7 DEF StandsAsSent, SentBy
  <2> QED
    BY <2>1, <2>8
<1>10. MovedWasHonoured'
  <2>1. u.moved > 0 => WasHonoured(Invitation[p], Drawn(p, u.moved))
    <3>1. CASE StoodStill(s, u)
      BY <3>1 DEF StoodStill, GoExchangeInv, MovedWasHonoured
    <3>2. CASE MovedBy(s, sent, reply, u)
      BY <1>4, <1>8, <3>2
    <3> QED
      BY <1>2, <3>1, <3>2
  <2> QED
    BY <1>3, <2>1 DEF GoExchangeInv, MovedWasHonoured, WasHonoured
<1>11. BoundOnlyByOwnKnock'
  <2>1. u.bound => BoundBy(p)
    BY <1>2, <1>8 DEF GoExchangeInv, BoundOnlyByOwnKnock, StoodStill
  <2> QED
    BY <1>3, <2>1 DEF GoExchangeInv, BoundOnlyByOwnKnock, BoundBy
<1>12. AdmittedUnlessPassed'
  <2> DEFINE rel == heirs[Invitation[p]]
  <2>1. u.bound /\ rel.stage = "spent" /\ rel.high = u.moved =>
          u.key \in {rel.H, rel.V} /\ u.edge \in {rel.O, rel.F}
    <3>1. CASE StoodStill(s, u)
      BY <3>1 DEF StoodStill, GoExchangeInv, AdmittedUnlessPassed
    <3>2. CASE MovedBy(s, sent, reply, u)
      <4> SUFFICES ASSUME rel.stage = "spent", rel.high = sent.lid[2]
                   PROVE  sent.lid \in {rel.H, rel.V} /\ u.edge = rel.F
        BY <1>8, <3>2
      <4>1. AskIn(sent).lid = sent.lid /\ AskIn(sent).box = sent.box
        BY DEF AskIn
      <4> QED
        BY <1>4, <1>8, <3>2, <4>1 DEF ObjectStands
    <3> QED
      BY <1>2, <3>1, <3>2
  <2> QED
    BY <1>3, <2>1 DEF GoExchangeInv, AdmittedUnlessPassed
<1> QED
  BY <1>3, <1>6, <1>7, <1>9, <1>10, <1>11, <1>12

-----------------------------------------------------------------------------
(* The door answers an ask.                                                *)

(* What an ask honoured does to its relation, and that its number is above *)
(* every one honoured before.                                              *)
LEMMA Honours ==
  ASSUME GoExchangeInv, NEW a \in asks, AskArrives(a),
         Verdict(a.box) = "choice",
         NEW h, h = Invitation[a.lid[1]]
  PROVE  /\ h \in Heirs
         /\ heirs'[h] = Moved(heirs[h], a.box, NextAgreement(h))
         /\ heirs'[h].stage = "spent" /\ heirs'[h].high = a.lid[2]
         /\ heirs'[h].O = a.box.edge
         /\ heirs'[h].F = Follow(a.box.edge, NextAgreement(h))
         /\ a.lid \in {heirs'[h].H, heirs'[h].V}
         /\ honoured[h] \in Seq(Entry) /\ Logged(a.box) \in Entry
         /\ honoured'[h] = Append(honoured[h], Logged(a.box))
         /\ removed' = removed /\ removed[h].stage = "absent"
         /\ \A g \in Heirs \ {h} : heirs'[g] = heirs[g] /\ honoured'[g] = honoured[g]
         /\ honoured[h] = << >> => IsKnock(a)
         /\ honoured[h] # << >> => Held(a.box, "spent")
         /\ \A i \in DOMAIN honoured[h] : honoured[h][i].seq < a.lid[2]
<1> DEFINE b == a.box
           log == honoured[h]
           n == Len(log)
<1>1. /\ OwnAsk(a) /\ a.lid \in Lids /\ a.lid[1] \in Parties
      /\ b \in Box(Edge) /\ h \in Heirs /\ b.seq = a.lid[2]
      /\ b.head = h /\ b.next = a.lid /\ a.lid \notin Heirs /\ a.lid # NoKey
  BY LidFacts DEF GoExchangeInv, OwnAsk
<1>2. log \in Seq(Entry) /\ Logged(b) \in Entry
  <2>1. log \in Seq(Entry)
    BY <1>1 DEF GoExchangeInv, DoorInv, DoorTypeOK
  <2>2. Logged(b) \in Entry
    BY <1>1, BoxesAssumption DEF Logged, Entry, Box
  <2> QED
    BY <2>1, <2>2
<1>3. b \in Box(EdgesInReach)
  BY <1>1, ChoiceInReach
<1>4. /\ n = 0 <=> heirs[h].stage = "fresh"
      /\ n = 0 <=> b.by = h
      /\ n > 0 => log[n].seq < b.seq
      /\ removed[h].stage = "absent"
  BY <1>1, <1>3, ChoiceExtends DEF GoExchangeInv
<1>5. \/ heirs[h].stage = "fresh" /\ b.by = h /\ Announces(b)
      \/ heirs[h].stage = "spent" /\ SignedBy(b) # "nobody"
  BY <1>1, <1>3, ChoiceIsHeld DEF Held
<1>6. /\ heirs'[h] = Moved(heirs[h], b, NextAgreement(h))
      /\ honoured'[h] = Append(log, Logged(b))
      /\ removed' = removed
      /\ \A g \in Heirs \ {h} : heirs'[g] = heirs[g] /\ honoured'[g] = honoured[g]
  BY <1>1 DEF AskArrives, Arrive, GoExchangeInv, DoorInv, DoorTypeOK
<1>7. /\ heirs'[h].stage = "spent" /\ heirs'[h].high = b.seq
      /\ heirs'[h].O = b.edge
      /\ heirs'[h].F = Follow(b.edge, NextAgreement(h))
      /\ heirs'[h].H = HeldAfter(heirs[h], b)
      /\ heirs'[h].V = VouchedAfter(heirs[h], b)
  <2>1. heirs'[h] = Moved(heirs[h], b, NextAgreement(h))
    BY <1>6
  <2> HIDE DEF b
  <2> QED
    BY <2>1, MovedIs
<1>8. a.lid \in {heirs'[h].H, heirs'[h].V}
  <2>1. CASE heirs[h].stage = "fresh"
    BY <1>1, <1>7, <2>1 DEF HeldAfter
  <2>2. CASE heirs[h].stage = "spent" /\ Announces(b)
    BY <1>1, <1>7, <2>2 DEF VouchedAfter
  <2>3. CASE heirs[h].stage = "spent" /\ ~Announces(b)
    <3>1. b.by = a.lid
      BY <1>1, <2>3 DEF Announces
    <3>2. b.by \in {heirs[h].H, heirs[h].V}
      BY <1>1, <1>5, <2>3 DEF SignedBy, KeysOf, Kept, Held
    <3> QED
      BY <1>7, <2>3, <3>1, <3>2 DEF HeldAfter
  <2> QED
    BY <1>5, <2>1, <2>2, <2>3
<1>9. \A m \in 1..MaxAsks : Drawn(a.lid[1], m) \notin Heirs
  BY <1>1, DrawnIsALid, LidFacts
<1>10. log = << >> => IsKnock(a)
  <2> SUFFICES ASSUME log = << >> PROVE IsKnock(a)
    OBVIOUS
  <2>1. b.by \in Heirs
    BY <1>1, <1>2, <1>4
  <2> QED
    BY <1>1, <1>9, <2>1 DEF OwnAsk, FollowsKnock
<1>11. log # << >> => Held(b, "spent")
  BY <1>1, <1>2, <1>4, <1>5 DEF Held
<1>12. \A i \in DOMAIN log : log[i].seq < b.seq
  <2> SUFFICES ASSUME NEW i \in DOMAIN log
               PROVE  log[i].seq < b.seq
    OBVIOUS
  <2>1. n \in Nat /\ n > 0 /\ i \in 1..n /\ n \in 1..n
    BY <1>2
  <2>2. log[i].seq \in Nat /\ log[n].seq \in Nat /\ b.seq \in Nat
    <3>1. log[i] \in Entry /\ log[n] \in Entry
      BY <1>2, <2>1
    <3>2. b.seq \in Nat
      BY <1>1, LidFacts
    <3> QED
      BY <3>1, <3>2 DEF Entry
  <2>3. i < n => log[i].seq < log[n].seq
    <3>1. NumbersClimb /\ n \in DOMAIN log
      BY <1>2, <2>1 DEF GoExchangeInv, DoorInv
    <3>2. i < n => i \in 1..(n - 1)
      BY <2>1
    <3> QED
      BY <1>1, <3>1, <3>2 DEF NumbersClimb
  <2> QED
    BY <1>4, <2>1, <2>2, <2>3
<1> QED
  BY <1>1, <1>2, <1>4, <1>6, <1>7, <1>8, <1>10, <1>11, <1>12

LEMMA ArriveKeepsRoots ==
  ASSUME GoExchangeInv, NEW a \in asks, AskArrives(a), NEW g \in Heirs
  PROVE  Rooted(heirs[g], g)' /\ Rooted(removed[g], g)' /\ BoundByAKnock(g)'
<1> DEFINE b == a.box
<1>1. /\ OwnAsk(a) /\ a.lid \in Lids /\ a.lid[1] \in Parties
      /\ b.next = a.lid /\ b.head = Invitation[a.lid[1]]
      /\ b.edge.root = Drawn(a.lid[1], 1)
  BY LidFacts, OwnRoot DEF GoExchangeInv, OwnAsk
<1>2. CASE Verdict(b) # "choice"
  BY <1>2 DEF AskArrives, Arrive, doorVars, GoExchangeInv, Rooted, BoundByAKnock
<1>3. CASE Verdict(b) = "choice"
  <2> SUFFICES ASSUME NEW h, h = Invitation[a.lid[1]]
               PROVE  Rooted(heirs[g], g)' /\ Rooted(removed[g], g)'
                      /\ BoundByAKnock(g)'
    OBVIOUS
  <2>1. /\ h \in Heirs
        /\ heirs'[h].O = b.edge
        /\ heirs'[h].F = Follow(b.edge, NextAgreement(h))
        /\ honoured[h] \in Seq(Entry) /\ Logged(b) \in Entry
        /\ honoured'[h] = Append(honoured[h], Logged(b))
        /\ removed' = removed /\ removed[h].stage = "absent"
        /\ \A f \in Heirs \ {h} : heirs'[f] = heirs[f] /\ honoured'[f] = honoured[f]
        /\ honoured[h] = << >> => IsKnock(a)
        /\ honoured[h] # << >> => Held(b, "spent")
    BY <1>3, Honours
  <2>2. CASE g # h
    <3>1. heirs'[g] = heirs[g] /\ honoured'[g] = honoured[g] /\ removed' = removed
      BY <2>1, <2>2
    <3>2. Rooted(heirs[g], g) /\ Rooted(removed[g], g) /\ BoundByAKnock(g)
      BY DEF GoExchangeInv
    <3> QED
      BY <3>1, <3>2 DEF Rooted, BoundByAKnock
  <2>3. CASE g = h
    <3>1. /\ heirs'[h].O.root = Drawn(a.lid[1], 1)
          /\ heirs'[h].F.root = Drawn(a.lid[1], 1)
      <4>1. /\ heirs'[h].O = b.edge
            /\ heirs'[h].F = Follow(b.edge, NextAgreement(h))
        BY <2>1
      <4>2. Follow(b.edge, NextAgreement(h)).root = b.edge.root
        BY DEF Follow
      <4> QED
        BY <1>1, <4>1, <4>2
    <3>2. honoured'[h] # << >> /\ honoured'[h][1].next = Drawn(a.lid[1], 1)
      <4>1. CASE honoured[h] = << >>
        <5>1. a.lid = Drawn(a.lid[1], 1)
          BY <1>1, <2>1, <4>1, LidFacts DEF IsKnock
        <5>2. honoured'[h] # << >> /\ honoured'[h][1] = Logged(b)
          BY <2>1, <4>1
        <5> QED
          BY <1>1, <5>1, <5>2 DEF Logged
      <4>2. CASE honoured[h] # << >>
        <5>1. honoured'[h] # << >> /\ honoured'[h][1] = honoured[h][1]
          <6>1. /\ honoured[h] \in Seq(Entry) /\ Logged(b) \in Entry
                /\ honoured'[h] = Append(honoured[h], Logged(b))
            BY <2>1
          <6> HIDE DEF b
          <6> QED
            BY <4>2, <6>1, AppendEnds, SMTT(30)
        <5>2. b.edge \in {heirs[h].O, heirs[h].F}
          BY <1>1, <1>3, <2>1, <4>2 DEF Verdict, Refused, Opens, Held, KeysOf, Kept
        <5>3. Rooted(heirs[h], h) /\ heirs[h].stage = "spent"
          BY <1>1, <2>1, <4>2 DEF GoExchangeInv, Held
        <5> QED
          BY <1>1, <5>1, <5>2, <5>3 DEF Rooted
      <4> QED
        BY <4>1, <4>2
    <3>3. Rooted(removed[h], h)'
      BY <2>1 DEF Rooted
    <3>4. BoundByAKnock(h)'
      BY <1>1, <3>2 DEF BoundByAKnock
    <3> QED
      BY <2>3, <3>1, <3>2, <3>3, <3>4 DEF Rooted
  <2> QED
    BY <2>2, <2>3
<1> QED
  BY <1>2, <1>3

(* What is said of the past stays true when the histories only grow.       *)
LEMMA PastStays ==
  ASSUME DoorInv, [DoorNext]_doorVars
  PROVE  /\ \A p \in Parties : BoundBy(p) => BoundBy(p)'
         /\ \A h \in Heirs : \A lid : WasHonoured(h, lid) => WasHonoured(h, lid)'
<1>1. \A h \in Heirs :
         /\ \A i \in DOMAIN honoured[h] : i \in DOMAIN honoured'[h]
                                         /\ honoured'[h][i] = honoured[h][i]
         /\ honoured[h] # << >> => honoured'[h] # << >>
                                   /\ honoured'[h][1] = honoured[h][1]
  BY LogsGrow
<1>2. \A p \in Parties : Invitation[p] \in Heirs
  BY GoStandingAssumption
<1> QED
  BY <1>1, <1>2 DEF BoundBy, WasHonoured

LEMMA ReplyKeeps ==
  ASSUME GoExchangeInv, NEW a \in asks, AskArrives(a),
         NEW r, r = ReplyTo(a)
  PROVE  r \in Reply /\ r.lid = a.lid /\ ObjectStands(r)'
<1> DEFINE b == a.box
<1> SUFFICES ASSUME NEW h, h = Invitation[a.lid[1]]
             PROVE  r \in Reply /\ r.lid = a.lid /\ ObjectStands(r)'
  OBVIOUS
<1>1. /\ OwnAsk(a) /\ a.lid \in Lids /\ b \in Box(Edge) /\ h \in Heirs
      /\ b.head = h /\ b.next = a.lid /\ b.seq = a.lid[2] /\ h # NoHeir
      /\ a.lid[1] \in Parties
  BY LidFacts DEF GoExchangeInv, OwnAsk
<1>2. r = [lid |-> a.lid, text |-> ReplyText(b),
           agreement |-> IF Verdict(b) = "choice" THEN NextAgreement(h) ELSE 0]
  BY <1>1 DEF ReplyTo
<1>3. /\ ReplyText(b) \in {"silence", "object", "removed", "unannounced", "repeated"}
      /\ ReplyText(b) = "object" => Verdict(b) = "choice"
  BY <1>1 DEF ReplyText, Verdict
<1>4. NextAgreement(h) \in Nat
  BY <1>1 DEF GoExchangeInv, DoorInv, DoorTypeOK, NextAgreement
<1>5. r \in Reply
  BY <1>1, <1>2, <1>3, <1>4 DEF Reply, Agreements, Lids
<1>6. ObjectStands(r)'
  <2> SUFFICES ASSUME r.text = "object" PROVE ObjectStands(r)'
    BY DEF ObjectStands
  <2>1. Verdict(b) = "choice" /\ r.agreement = NextAgreement(h) /\ r.lid = a.lid
    BY <1>2, <1>3
  <2>2. /\ heirs'[h].F = Follow(b.edge, NextAgreement(h))
        /\ heirs'[h].stage = "spent" /\ heirs'[h].O = b.edge
        /\ a.lid \in {heirs'[h].H, heirs'[h].V}
        /\ honoured[h] \in Seq(Entry) /\ Logged(b) \in Entry
        /\ honoured'[h] = Append(honoured[h], Logged(b))
    BY <2>1, Honours
  <2>3. WasHonoured(h, a.lid)'
    <3>1. /\ Len(honoured[h]) + 1 \in DOMAIN honoured'[h]
          /\ honoured'[h][Len(honoured[h]) + 1] = Logged(b)
      <4>1. /\ honoured[h] \in Seq(Entry) /\ Logged(b) \in Entry
            /\ honoured'[h] = Append(honoured[h], Logged(b))
        BY <2>2
      <4> HIDE DEF b
      <4> QED
        BY <4>1, AppendEnds
    <3>2. Logged(b).seq = a.lid[2] /\ Logged(b).next = a.lid
      BY <1>1 DEF Logged
    <3> QED
      BY <3>1, <3>2 DEF WasHonoured
  <2>4. BoundBy(a.lid[1])'
    <3>1. Rooted(heirs[h], h)'
      BY <1>1, ArriveKeepsRoots
    <3>2. b.edge.root = Drawn(a.lid[1], 1)
      BY <1>1, OwnRoot
    <3> QED
      BY <2>2, <3>1, <3>2 DEF Rooted, BoundBy
  <2>5. \A c \in asks : c.lid = a.lid => c = a
    BY DEF GoExchangeInv, LidsOnce
  <2>6. asks' = asks
    BY DEF AskArrives
  <2> QED
    BY <2>1, <2>2, <2>3, <2>4, <2>5, <2>6 DEF ObjectStands
<1> QED
  BY <1>2, <1>5, <1>6

LEMMA ArriveKeeps ==
  ASSUME GoExchangeInv, NEW a \in asks, AskArrives(a),
         DoorInv, [DoorNext]_doorVars
  PROVE  /\ \A r \in replies : ObjectStands(r)'
         /\ AdmittedUnlessPassed'
<1> DEFINE b == a.box
<1> SUFFICES ASSUME NEW h, h = Invitation[a.lid[1]]
             PROVE  /\ \A r \in replies : ObjectStands(r)'
                    /\ AdmittedUnlessPassed'
  OBVIOUS
<1>1. gs' = gs /\ asks' = asks
  BY DEF AskArrives
<1>2. CASE Verdict(b) # "choice"
  <2>1. UNCHANGED << heirs, removed, honoured >>
    BY <1>2 DEF AskArrives, Arrive, doorVars
  <2>2. (\A r \in replies : ObjectStands(r)) /\ AdmittedUnlessPassed
    BY DEF GoExchangeInv
  <2>3. \A r \in replies : ObjectStands(r)'
    BY <1>1, <2>1, <2>2 DEF ObjectStands, WasHonoured, BoundBy
  <2>4. AdmittedUnlessPassed'
    BY <1>1, <2>1, <2>2 DEF AdmittedUnlessPassed
  <2> QED
    BY <2>3, <2>4
<1>3. CASE Verdict(b) = "choice"
  <2>1. /\ h \in Heirs /\ heirs'[h].high = a.lid[2]
        /\ \A g \in Heirs \ {h} : heirs'[g] = heirs[g]
        /\ \A i \in DOMAIN honoured[h] : honoured[h][i].seq < a.lid[2]
    <3> HIDE DEF b
    <3>1. Verdict(a.box) = "choice"
      BY <1>3 DEF b
    <3>2. h \in Heirs /\ heirs'[h].high = a.lid[2]
      BY <3>1, Honours
    <3>3. \A g \in Heirs \ {h} : heirs'[g] = heirs[g]
      BY <3>1, Honours
    <3>4. \A i \in DOMAIN honoured[h] : honoured[h][i].seq < a.lid[2]
      BY <3>1, Honours
    <3> QED
      BY <3>2, <3>3, <3>4
  <2>2. \A lid \in Lids : WasHonoured(h, lid) => lid[2] # a.lid[2]
    <3>1. a.lid[2] \in Nat
      BY LidFacts DEF GoExchangeInv, OwnAsk
    <3> QED
      BY <2>1, <3>1 DEF WasHonoured
  <2>3. \A r \in replies : ObjectStands(r)'
    <3> SUFFICES ASSUME NEW r \in replies, r.text = "object"
                 PROVE  ObjectStands(r)'
      BY DEF ObjectStands
    <3>1. r.lid \in Lids /\ ObjectStands(r)
      BY DEF GoExchangeInv, Reply, Lids
    <3>2. r.lid[1] \in Parties /\ Invitation[r.lid[1]] \in Heirs
      BY <3>1, LidFacts
    <3>3. /\ WasHonoured(Invitation[r.lid[1]], r.lid)
          /\ WasHonoured(Invitation[r.lid[1]], r.lid)'
          /\ BoundBy(r.lid[1])'
      BY <3>1, <3>2, PastStays DEF ObjectStands
    <3>4. CASE Invitation[r.lid[1]] = h
      BY <2>1, <2>2, <3>1, <3>3, <3>4 DEF ObjectStands
    <3>5. CASE Invitation[r.lid[1]] # h
      BY <1>1, <2>1, <3>1, <3>2, <3>3, <3>5 DEF ObjectStands
    <3> QED
      BY <3>4, <3>5
  <2>4. AdmittedUnlessPassed'
    <3> SUFFICES ASSUME NEW p \in Parties, NEW k, k = Invitation[p],
                        gs[p].bound, heirs'[k].stage = "spent",
                        heirs'[k].high = gs[p].moved
                 PROVE  /\ gs[p].key \in {heirs'[k].H, heirs'[k].V}
                        /\ gs[p].edge \in {heirs'[k].O, heirs'[k].F}
      BY <1>1 DEF AdmittedUnlessPassed
    <3>1. k \in Heirs
      BY GoStandingAssumption
    <3>2. k # h
      <4> SUFFICES ASSUME k = h PROVE FALSE
        OBVIOUS
      <4>1. gs[p].moved = a.lid[2] /\ a.lid[2] \in 1..MaxAsks /\ MaxAsks \in Nat
        BY <2>1, LidFacts DEF GoExchangeInv, OwnAsk
      <4>2. WasHonoured(h, Drawn(p, gs[p].moved))
        <5>1. gs[p].moved > 0
          BY <4>1
        <5> QED
          BY <5>1 DEF GoExchangeInv, MovedWasHonoured
      <4>3. Drawn(p, gs[p].moved) \in Lids /\ Drawn(p, gs[p].moved)[2] = gs[p].moved
        BY <4>1, DrawnIsALid
      <4> QED
        BY <2>2, <4>1, <4>2, <4>3
    <3> QED
      BY <2>1, <3>1, <3>2 DEF GoExchangeInv, AdmittedUnlessPassed
  <2> QED
    BY <2>3, <2>4
<1> QED
  BY <1>2, <1>3

-----------------------------------------------------------------------------
(* The invariant holds.                                                    *)

LEMMA GoExchangeInvInit == GoExchangeInit => GoExchangeInv
<1> SUFFICES ASSUME GoExchangeInit PROVE GoExchangeInv
  OBVIOUS
<1>1. DoorInv
  BY InvInit DEF GoExchangeInit
<1>2. \A h \in Heirs : heirs[h].stage = "absent" /\ removed[h].stage = "absent"
                       /\ honoured[h] = << >>
  BY DEF GoExchangeInit, DoorInit, NoRelation
<1>3. \A p \in Parties :
        /\ gs[p] = [bound |-> FALSE, key |-> NoKey, edge |-> ZERO32,
                    seq |-> 0, moved |-> 0, knock |-> NoSent,
                    probeNext |-> FALSE, last |-> NoSent]
        /\ gs[p] \in GoStandingFields
  <2>1. ZERO32 \in Edge /\ 0 \in 0..MaxAsks
    BY ZeroEdgeType, GoStandingAssumption, BoxesAssumption
  <2> QED
    BY <2>1 DEF GoExchangeInit, GoStandingInit, GoStandingFields
<1>4. gs \in [Parties -> GoStandingFields]
  BY <1>3 DEF GoExchangeInit, GoStandingInit
<1>5. \A p \in Parties : /\ ~gs[p].bound /\ gs[p].moved = 0 /\ gs[p].seq = 0
                         /\ gs[p].knock = NoSent /\ gs[p].last = NoSent
  BY <1>3
<1>6. flight \in [Parties -> [Slots -> Sents \cup {NoSent}]]
      /\ \A p \in Parties, i \in Slots : flight[p][i] = NoSent
  BY DEF GoExchangeInit
<1>7. \A p \in Parties : StandsAsSent(p)
  BY <1>5, <1>6 DEF StandsAsSent
<1>8. asks = {} /\ replies = {}
  BY DEF GoExchangeInit
<1>9. MovedWasHonoured /\ BoundOnlyByOwnKnock /\ AdmittedUnlessPassed
  BY <1>5 DEF MovedWasHonoured, BoundOnlyByOwnKnock, AdmittedUnlessPassed
<1>10. \A h \in Heirs : Rooted(heirs[h], h) /\ Rooted(removed[h], h)
                        /\ BoundByAKnock(h)
  BY <1>2 DEF Rooted, BoundByAKnock
<1> QED
  BY <1>1, <1>4, <1>6, <1>7, <1>8, <1>9, <1>10 DEF GoExchangeInv, LidsOnce

(* While neither the door's history nor what it holds for an heir that is  *)
(* bound changes, the parties' side alone does.                            *)
LEMMA PartiesRest ==
  ASSUME GoExchangeInv, UNCHANGED << honoured, gs, asks, replies, flight >>,
         \A h \in Heirs : heirs'[h].stage = "spent" => heirs'[h] = heirs[h]
  PROVE  /\ gs' \in [Parties -> GoStandingFields]
         /\ flight' \in [Parties -> [Slots -> Sents \cup {NoSent}]]
         /\ replies' \subseteq Reply
         /\ \A a \in asks' : OwnAsk(a) /\ Counted(a.lid)'
         /\ LidsOnce'
         /\ \A p \in Parties : StandsAsSent(p)'
         /\ \A r \in replies' : Counted(r.lid)' /\ ObjectStands(r)'
         /\ MovedWasHonoured' /\ BoundOnlyByOwnKnock' /\ AdmittedUnlessPassed'
<1>1. \A p \in Parties : Invitation[p] \in Heirs
  BY GoStandingAssumption
<1>2. \A r \in replies' : Counted(r.lid)' /\ ObjectStands(r)'
  <2> SUFFICES ASSUME NEW r \in replies
               PROVE  Counted(r.lid)' /\ ObjectStands(r)'
    OBVIOUS
  <2>1. r.lid[1] \in Parties /\ Counted(r.lid) /\ ObjectStands(r)
    BY DEF GoExchangeInv, Reply
  <2> QED
    BY <1>1, <2>1 DEF Counted, ObjectStands, WasHonoured, BoundBy
<1>3. \A p \in Parties : StandsAsSent(p)'
  BY DEF GoExchangeInv, StandsAsSent, SentBy
<1>4. \A a \in asks' : OwnAsk(a) /\ Counted(a.lid)'
  BY DEF GoExchangeInv, Counted
<1>5. MovedWasHonoured' /\ BoundOnlyByOwnKnock'
  BY DEF GoExchangeInv, MovedWasHonoured, WasHonoured, BoundOnlyByOwnKnock, BoundBy
<1>6. AdmittedUnlessPassed'
  BY <1>1 DEF GoExchangeInv, AdmittedUnlessPassed
<1> QED
  BY <1>2, <1>3, <1>4, <1>5, <1>6 DEF GoExchangeInv, LidsOnce

LEMMA GoExchangeInvNext ==
  ASSUME GoExchangeInv, [GoExchangeNext]_goExchangeVars
  PROVE  GoExchangeInv'
<1>1. [DoorNext]_doorVars /\ DoorInv /\ DoorInv'
  <2>1. [DoorNext]_doorVars
    BY DoorSteps DEF GoExchangeInv
  <2> QED
    BY <2>1, InvNext DEF GoExchangeInv
<1>2. CASE UNCHANGED goExchangeVars
  <2>1. UNCHANGED << honoured, gs, asks, replies, flight >>
        /\ heirs' = heirs /\ removed' = removed
    BY <1>2 DEF goExchangeVars
  <2>2. \A g \in Heirs : Rooted(heirs[g], g)' /\ Rooted(removed[g], g)'
                         /\ BoundByAKnock(g)'
    BY <2>1 DEF GoExchangeInv, Rooted, BoundByAKnock
  <2> QED
    BY <1>1, <2>1, <2>2, PartiesRest DEF GoExchangeInv
<1>3. ASSUME NEW h \in Heirs, NEW reach \in Reaches, WardInvites(h, reach)
      PROVE  GoExchangeInv'
  <2>1. /\ \A g \in Heirs \ {h} : heirs'[g] = heirs[g]
        /\ heirs'[h].stage = "fresh"
        /\ UNCHANGED << removed, honoured, gs, asks, replies, flight >>
    BY <1>3 DEF WardInvites, Invite, FreshRelation, GoExchangeInv, DoorInv, DoorTypeOK
  <2>2. \A g \in Heirs : Rooted(heirs[g], g)' /\ Rooted(removed[g], g)'
                         /\ BoundByAKnock(g)'
    BY <2>1 DEF GoExchangeInv, Rooted, BoundByAKnock
  <2>3. \A g \in Heirs : heirs'[g].stage = "spent" => heirs'[g] = heirs[g]
    BY <2>1
  <2> QED
    BY <1>1, <2>1, <2>2, <2>3, PartiesRest DEF GoExchangeInv
<1>4. ASSUME NEW h \in Heirs, WardReleases(h)
      PROVE  GoExchangeInv'
  <2>1. /\ \A g \in Heirs \ {h} : heirs'[g] = heirs[g] /\ removed'[g] = removed[g]
        /\ heirs'[h].stage = "absent"
        /\ removed'[h].stage = heirs[h].stage
        /\ removed'[h].O = heirs[h].O /\ removed'[h].F = heirs[h].F
        /\ UNCHANGED << honoured, gs, asks, replies, flight >>
    BY <1>4 DEF WardReleases, Release, NoRelation, KeptOf, GoExchangeInv, DoorInv,
                DoorTypeOK
  <2>2. \A g \in Heirs : Rooted(heirs[g], g)' /\ Rooted(removed[g], g)'
                         /\ BoundByAKnock(g)'
    BY <2>1 DEF GoExchangeInv, Rooted, BoundByAKnock
  <2>3. \A g \in Heirs : heirs'[g].stage = "spent" => heirs'[g] = heirs[g]
    BY <2>1
  <2> QED
    BY <1>1, <2>1, <2>2, <2>3, PartiesRest DEF GoExchangeInv
<1>5. ASSUME NEW p \in Parties, NEW unread \in BOOLEAN, NEW keeps \in BOOLEAN,
             Sealing(p, unread, keeps),
             NEW sent, sent = NextSent(p, unread),
             \/ flight' = flight
             \/ \E i \in Slots : flight' = [flight EXCEPT ![p][i] = sent]
      PROVE  GoExchangeInv'
  <2>1. UNCHANGED << heirs, removed, honoured, replies >>
    BY <1>5 DEF Sealing
  <2>2. /\ gs' \in [Parties -> GoStandingFields]
        /\ flight' \in [Parties -> [Slots -> Sents \cup {NoSent}]]
        /\ \A a \in asks' : OwnAsk(a) /\ Counted(a.lid)'
        /\ LidsOnce'
        /\ \A q \in Parties : StandsAsSent(q)'
        /\ \A q \in Parties :
              /\ gs'[q].bound = gs[q].bound /\ gs'[q].key = gs[q].key
              /\ gs'[q].edge = gs[q].edge /\ gs'[q].moved = gs[q].moved
        /\ \A r \in replies : Counted(r.lid)' /\ ObjectStands(r)'
    BY <1>5, SealKeeps
  <2>3. MovedWasHonoured' /\ BoundOnlyByOwnKnock' /\ AdmittedUnlessPassed'
    <3>1. MovedWasHonoured /\ BoundOnlyByOwnKnock /\ AdmittedUnlessPassed
      BY DEF GoExchangeInv
    <3>2. MovedWasHonoured'
      BY <2>1, <2>2, <3>1 DEF MovedWasHonoured, WasHonoured
    <3>3. BoundOnlyByOwnKnock'
      BY <2>1, <2>2, <3>1 DEF BoundOnlyByOwnKnock, BoundBy
    <3>4. AdmittedUnlessPassed'
      BY <2>1, <2>2, <3>1 DEF AdmittedUnlessPassed
    <3> QED
      BY <3>2, <3>3, <3>4
  <2>4. \A g \in Heirs : Rooted(heirs[g], g)' /\ Rooted(removed[g], g)'
                         /\ BoundByAKnock(g)'
    BY <2>1 DEF GoExchangeInv, Rooted, BoundByAKnock
  <2> QED
    BY <1>1, <2>1, <2>2, <2>3, <2>4 DEF GoExchangeInv
<1>6. ASSUME NEW a \in asks, AskArrives(a)
      PROVE  GoExchangeInv'
  <2>1. replies' = replies \cup {ReplyTo(a)} /\ UNCHANGED << gs, asks, flight >>
    BY <1>6 DEF AskArrives
  <2>2. \A h \in Heirs : Rooted(heirs[h], h)' /\ Rooted(removed[h], h)'
                         /\ BoundByAKnock(h)'
    BY <1>6, ArriveKeepsRoots
  <2>3. (\A r \in replies : ObjectStands(r)') /\ AdmittedUnlessPassed'
    BY <1>1, <1>6, ArriveKeeps
  <2>4. \A r : r = ReplyTo(a) => /\ r \in Reply /\ r.lid = a.lid
                                 /\ ObjectStands(r)'
    BY <1>6, ReplyKeeps
  <2>5. \A r \in replies' : r \in Reply /\ Counted(r.lid)' /\ ObjectStands(r)'
    <3>1. \A r \in replies : r \in Reply /\ Counted(r.lid)'
      BY <2>1 DEF GoExchangeInv, Counted
    <3>2. Counted(a.lid)'
      BY <2>1 DEF GoExchangeInv, Counted
    <3> QED
      BY <2>1, <2>3, <2>4, <3>1, <3>2 DEF Counted
  <2>6. \A p \in Parties : StandsAsSent(p)'
    BY <2>1 DEF GoExchangeInv, StandsAsSent, SentBy
  <2>7. \A c \in asks' : OwnAsk(c) /\ Counted(c.lid)'
    BY <2>1 DEF GoExchangeInv, Counted
  <2>8. BoundOnlyByOwnKnock'
    BY <1>1, <2>1, PastStays DEF GoExchangeInv, BoundOnlyByOwnKnock
  <2>9. MovedWasHonoured'
    BY <1>1, <2>1, PastStays, GoStandingAssumption
    DEF GoExchangeInv, MovedWasHonoured
  <2> QED
    BY <1>1, <2>1, <2>2, <2>3, <2>5, <2>6, <2>7, <2>8, <2>9
    DEF GoExchangeInv, LidsOnce
<1>7. ASSUME NEW p \in Parties, NEW sent, SentBy(p, sent),
             NEW reply, NEW u, ReadLeaves(gs[p], sent, reply, u),
             gs' = [gs EXCEPT ![p] = u],
             \/ flight' = flight
             \/ \E i \in Slots : flight' = [flight EXCEPT ![p][i] = NoSent],
             UNCHANGED << heirs, removed, honoured, asks, replies >>
      PROVE  GoExchangeInv'
  <2>1. /\ gs' \in [Parties -> GoStandingFields]
        /\ flight' \in [Parties -> [Slots -> Sents \cup {NoSent}]]
        /\ \A lid \in Lids : Counted(lid) => Counted(lid)'
        /\ \A q \in Parties : StandsAsSent(q)'
        /\ MovedWasHonoured' /\ BoundOnlyByOwnKnock' /\ AdmittedUnlessPassed'
    BY <1>7, ReadKeeps
  <2>2. \A g \in Heirs : Rooted(heirs[g], g)' /\ Rooted(removed[g], g)'
                         /\ BoundByAKnock(g)'
    BY <1>7 DEF GoExchangeInv, Rooted, BoundByAKnock
  <2>3. \A a \in asks' : OwnAsk(a) /\ Counted(a.lid)'
    BY <1>7, <2>1 DEF GoExchangeInv, OwnAsk
  <2>4. \A r \in replies' : Counted(r.lid)' /\ ObjectStands(r)'
    <3>1. \A r \in replies : r.lid \in Lids
      BY DEF GoExchangeInv, Reply, Lids
    <3> QED
      BY <1>7, <2>1, <3>1 DEF GoExchangeInv, ObjectStands, WasHonoured, BoundBy
  <2> QED
    BY <1>1, <1>7, <2>1, <2>2, <2>3, <2>4 DEF GoExchangeInv, LidsOnce
<1>8. ASSUME NEW p \in Parties, NEW unread \in UnreadArgs,
             \/ PartyAsks(p, unread)
             \/ \E i \in Slots : SendStarts(p, unread, i)
      PROVE  GoExchangeInv'
  <2>1. unread \in BOOLEAN
    BY GoExchangeAssumption
  <2> SUFFICES ASSUME NEW sent, sent = NextSent(p, unread)
               PROVE  GoExchangeInv'
    OBVIOUS
  <2>2. CASE PartyAsks(p, unread)
    BY <1>5, <2>1, <2>2 DEF PartyAsks
  <2>3. CASE \E i \in Slots : SendStarts(p, unread, i)
    BY <1>5, <2>1, <2>3 DEF SendStarts
  <2> QED
    BY <1>8, <2>2, <2>3
<1>9. ASSUME NEW p \in Parties, NEW reply \in replies \cup {Garbled, Nothing},
             PartyReads(p, reply) \/ \E i \in Slots : SendReads(p, i, reply)
      PROVE  GoExchangeInv'
  <2>1. \E sent, u : /\ SentBy(p, sent) /\ ReadLeaves(gs[p], sent, reply, u)
                     /\ gs' = [gs EXCEPT ![p] = u]
    BY <1>9, ReadIs
  <2>2. /\ UNCHANGED << heirs, removed, honoured, asks, replies >>
        /\ \/ flight' = flight
           \/ \E i \in Slots : flight' = [flight EXCEPT ![p][i] = NoSent]
    BY <1>9 DEF PartyReads, SendReads
  <2> QED
    BY <1>7, <2>1, <2>2
<1> QED
  BY <1>2, <1>3, <1>4, <1>6, <1>8, <1>9 DEF GoExchangeNext

THEOREM GoExchangeInductive == GoExchangeSpec => []GoExchangeInv
<1> QED
  BY GoExchangeInvInit, GoExchangeInvNext, PTL DEF GoExchangeSpec

-----------------------------------------------------------------------------
(* What it gives.                                                          *)

(* Standings, asks, replies and sends under way are what their fields say; *)
(* no number learnt is above what was counted, and every reply is read     *)
(* against a box that was sealed.                                          *)
THEOREM GoExchangeTyped == GoExchangeSpec => []GoExchangeTypeOK
<1>1. GoExchangeInv => GoExchangeTypeOK
  <2> SUFFICES ASSUME GoExchangeInv PROVE GoExchangeTypeOK
    OBVIOUS
  <2>1. \A p \in Parties :
          /\ gs[p].bound => gs[p].key \in Keys
          /\ gs[p].edge \in Edge
          /\ gs[p].seq \in 0..MaxAsks
          /\ gs[p].moved \in 0..gs[p].seq
          /\ gs[p].knock # NoSent => ~gs[p].bound
          /\ \A sent \in {flight[p][i] : i \in Slots}
                           \cup {gs[p].knock, gs[p].last} :
               sent # NoSent => [lid |-> sent.lid, box |-> sent.box] \in asks
    <3> TAKE p \in Parties
    <3>1. gs[p] \in GoStandingFields /\ StandsAsSent(p)
      BY DEF GoExchangeInv
    <3>2. MaxAsks \in Nat
      BY GoStandingAssumption, BoxesAssumption
    <3>3. gs[p].moved \in 0..gs[p].seq
      BY <3>1, <3>2 DEF GoStandingFields, StandsAsSent
    <3>4. gs[p].bound => gs[p].key \in Keys
      <4>1. \A m \in 1..MaxAsks : Drawn(p, m) \in Keys
        BY DrawnIsALid, LidFacts
      <4> QED
        BY <3>1, <4>1 DEF StandsAsSent
    <3>5. \A sent \in {flight[p][i] : i \in Slots}
                           \cup {gs[p].knock, gs[p].last} :
               sent # NoSent => [lid |-> sent.lid, box |-> sent.box] \in asks
      BY <3>1 DEF StandsAsSent, SentBy, AskIn
    <3> QED
      BY <3>1, <3>3, <3>4, <3>5 DEF GoStandingFields, StandsAsSent
  <2> QED
    BY <2>1 DEF GoExchangeInv, GoExchangeTypeOK, DoorInv, OwnAsk, Lids
<1> QED
  BY <1>1, GoExchangeInductive, PTL

(* With an invitation in many hands and sends of each under way together,  *)
(* a standing takes its relation for bound only when its own knock bound   *)
(* it.                                                                     *)
THEOREM GoOnlyTheBinderIsBound == GoExchangeSpec => []BoundOnlyByOwnKnock
<1>1. GoExchangeInv => BoundOnlyByOwnKnock
  BY DEF GoExchangeInv
<1> QED
  BY <1>1, GoExchangeInductive, PTL

(* A standing that has moved holds keys the door takes, for as long as     *)
(* nothing above the number it moved on was honoured.                      *)
THEOREM OnlyPassedIsRefused == GoExchangeSpec => []AdmittedUnlessPassed
<1>1. GoExchangeInv => AdmittedUnlessPassed
  BY DEF GoExchangeInv
<1> QED
  BY <1>1, GoExchangeInductive, PTL

-----------------------------------------------------------------------------
(* GoExchange keeps the promise.                                           *)

(* The promise looks at these alone.                                       *)
LEMMA PromiseRests ==
  ASSUME \A h \in Heirs : /\ StageOf(h)' = StageOf(h)
                          /\ HolderOf(h)' = HolderOf(h)
                          /\ CountOf(h)' = CountOf(h),
         \A p \in Parties : gs'[p].moved = gs[p].moved
  PROVE  UNCHANGED Abstract!promiseVars
BY DEF Abstract!promiseVars

LEMMA StageRests ==
  ASSUME DoorTypeOK, NEW h \in Heirs,
         heirs'[h] = heirs[h], removed'[h] = removed[h]
  PROVE  StageOf(h)' = StageOf(h)
<1>1. heirs[h].stage \in {"absent", "fresh", "spent"}
  BY DEF DoorTypeOK, Relation
<1> QED
  BY <1>1 DEF StageOf

(* The party that bound an heir holds it, and no honoured number is above  *)
(* the count.                                                              *)
LEMMA BinderHolds ==
  ASSUME NEW p \in Parties, BoundBy(p)
  PROVE  HolderOf(Invitation[p]) = p
BY DEF BoundBy, HolderOf, Drawn

LEMMA CountIsHighest ==
  ASSUME DoorInv, NEW h \in Heirs, NEW i \in DOMAIN honoured[h]
  PROVE  honoured[h][i].seq <= CountOf(h)
<1>1. honoured[h] \in Seq(Entry)
  BY DEF DoorInv, DoorTypeOK
<1> DEFINE n == Len(honoured[h])
<1>2. /\ n \in Nat /\ i \in 1..n /\ n > 0 /\ honoured[h] # << >>
      /\ n \in DOMAIN honoured[h]
      /\ honoured[h][i].seq \in Nat /\ honoured[h][n].seq \in Nat
  <2>1. n \in Nat /\ i \in 1..n /\ n > 0
    BY <1>1
  <2>2. n \in 1..n
    BY <2>1
  <2>3. \A k \in 1..n : honoured[h][k] \in Entry
    BY <1>1
  <2> QED
    BY <1>1, <2>1, <2>2, <2>3 DEF Entry
<1>3. CountOf(h) = honoured[h][n].seq
  BY <1>2 DEF CountOf
<1>4. i < n => honoured[h][i].seq < honoured[h][n].seq
  BY <1>2 DEF DoorInv, NumbersClimb
<1> QED
  BY <1>2, <1>3, <1>4

LEMMA PromiseInits == GoExchangeInit => Abstract!PromiseInit
<1> SUFFICES ASSUME GoExchangeInit PROVE Abstract!PromiseInit
  OBVIOUS
<1>1. \A h \in Heirs : /\ StageOf(h) = "unmade"
                       /\ HolderOf(h) = Nobody
                       /\ CountOf(h) = 0
  BY DEF GoExchangeInit, DoorInit, NoRelation, StageOf, HolderOf, CountOf
<1>2. \A p \in Parties : gs[p].moved = 0
  BY DEF GoExchangeInit, GoStandingInit
<1> QED
  BY <1>1, <1>2 DEF Abstract!PromiseInit

LEMMA InvitesOffer ==
  ASSUME GoExchangeInv, NEW h \in Heirs, NEW reach \in Reaches,
         WardInvites(h, reach)
  PROVE  Abstract!Offer(h)
<1>1. /\ heirs[h].stage = "absent" /\ removed[h].stage = "absent"
      /\ heirs'[h].stage = "fresh"
      /\ \A g \in Heirs \ {h} : heirs'[g] = heirs[g]
      /\ UNCHANGED << removed, honoured, gs >>
  BY DEF WardInvites, Invite, FreshRelation, GoExchangeInv, DoorInv, DoorTypeOK
<1>2. StageOf(h) = "unmade" /\ StageOf(h)' = "open"
  BY <1>1 DEF StageOf
<1>3. \A g \in Heirs \ {h} : StageOf(g)' = StageOf(g)
  BY <1>1, StageRests DEF GoExchangeInv, DoorInv
<1>4. \A g \in Heirs : HolderOf(g)' = HolderOf(g) /\ CountOf(g)' = CountOf(g)
  BY <1>1 DEF HolderOf, CountOf
<1> QED
  BY <1>1, <1>2, <1>3, <1>4 DEF Abstract!Offer

LEMMA ReleasesClose ==
  ASSUME GoExchangeInv, NEW h \in Heirs, WardReleases(h)
  PROVE  Abstract!Close(h)
<1>1. /\ heirs[h].stage \in {"fresh", "spent"} /\ removed[h].stage = "absent"
      /\ removed'[h].stage # "absent"
      /\ \A g \in Heirs \ {h} : heirs'[g] = heirs[g] /\ removed'[g] = removed[g]
      /\ UNCHANGED << honoured, gs >>
  BY DEF WardReleases, Release, KeptOf, GoExchangeInv, DoorInv, DoorTypeOK,
         StartsEmpty, Relation
<1>2. StageOf(h) \in {"open", "bound"} /\ StageOf(h)' = "closed"
  BY <1>1 DEF StageOf
<1>3. \A g \in Heirs \ {h} : StageOf(g)' = StageOf(g)
  BY <1>1, StageRests DEF GoExchangeInv, DoorInv
<1>4. \A g \in Heirs : HolderOf(g)' = HolderOf(g) /\ CountOf(g)' = CountOf(g)
  BY <1>1 DEF HolderOf, CountOf
<1> QED
  BY <1>1, <1>2, <1>3, <1>4 DEF Abstract!Close

(* The knock that binds an heir binds it to its sender; an ask honoured    *)
(* after it carries a higher number; any other moves nothing.              *)
LEMMA ArrivesBindOrHonour ==
  ASSUME GoExchangeInv, GoExchangeInv', NEW a \in asks, AskArrives(a)
  PROVE  \/ \E n \in 1..MaxCount : Abstract!Bind(a.lid[1], n)
         \/ \E n \in 1..MaxCount : Abstract!Honour(Invitation[a.lid[1]], n)
         \/ UNCHANGED Abstract!promiseVars
<1> DEFINE b == a.box
           p == a.lid[1]
           h == Invitation[p]
           n == b.seq
           log == honoured[h]
           more == honoured'[h]
<1>1. /\ OwnAsk(a) /\ a.lid \in Lids /\ p \in Parties /\ b \in Box(Edge)
      /\ h \in Heirs /\ b.head = h /\ n = a.lid[2] /\ n \in 1..MaxCount
  <2>1. OwnAsk(a) /\ a.lid \in Lids
    BY DEF GoExchangeInv, OwnAsk
  <2>2. a.lid[2] \in 1..MaxAsks /\ MaxAsks \in Nat /\ MaxAsks <= MaxCount
    BY <2>1, LidFacts
  <2> QED
    BY <2>1, <2>2, LidFacts, BoxesAssumption DEF OwnAsk
<1>2. gs' = gs
  BY DEF AskArrives
<1>3. CASE Verdict(b) # "choice"
  <2>1. UNCHANGED << heirs, removed, honoured >>
    BY <1>3 DEF AskArrives, Arrive, doorVars
  <2>2. \A g \in Heirs : /\ StageOf(g)' = StageOf(g)
                         /\ HolderOf(g)' = HolderOf(g)
                         /\ CountOf(g)' = CountOf(g)
    BY <2>1, StageRests DEF HolderOf, CountOf, GoExchangeInv, DoorInv
  <2> QED
    BY <1>2, <2>2, PromiseRests
<1>4. CASE Verdict(b) = "choice"
  <2>1. /\ heirs'[h].stage = "spent" /\ heirs'[h].O = b.edge
        /\ log \in Seq(Entry) /\ Logged(b) \in Entry
        /\ more = Append(log, Logged(b))
        /\ removed' = removed /\ removed[h].stage = "absent"
        /\ \A g \in Heirs \ {h} : heirs'[g] = heirs[g] /\ honoured'[g] = honoured[g]
        /\ log # << >> => Held(b, "spent")
        /\ \A i \in DOMAIN log : log[i].seq < n
    <3> SUFFICES ASSUME NEW g, g = h
                 PROVE  /\ g \in Heirs
                        /\ heirs'[g].stage = "spent" /\ heirs'[g].O = b.edge
                        /\ honoured[g] \in Seq(Entry) /\ Logged(b) \in Entry
                        /\ honoured'[g] = Append(honoured[g], Logged(b))
                        /\ removed' = removed /\ removed[g].stage = "absent"
                        /\ \A f \in Heirs \ {g} : /\ heirs'[f] = heirs[f]
                                                 /\ honoured'[f] = honoured[f]
                        /\ honoured[g] # << >> => Held(b, "spent")
                        /\ \A i \in DOMAIN honoured[g] : honoured[g][i].seq < n
      BY <1>1
    <3>1. g = Invitation[a.lid[1]] /\ n = a.lid[2]
      BY <1>1
    <3> HIDE DEF n
    <3>2. /\ g \in Heirs
          /\ heirs'[g].stage = "spent" /\ heirs'[g].O = b.edge
          /\ removed' = removed /\ removed[g].stage = "absent"
          /\ \A f \in Heirs \ {g} : /\ heirs'[f] = heirs[f]
                                   /\ honoured'[f] = honoured[f]
      BY <1>4, <3>1, Honours
    <3>3. /\ honoured[g] \in Seq(Entry) /\ Logged(b) \in Entry
          /\ honoured'[g] = Append(honoured[g], Logged(b))
      BY <1>4, <3>1, Honours
    <3>4. /\ honoured[g] # << >> => Held(b, "spent")
          /\ \A i \in DOMAIN honoured[g] : honoured[g][i].seq < n
      BY <1>4, <3>1, Honours
    <3> QED
      BY <3>2, <3>3, <3>4
  <2>2. /\ more # << >> /\ more[Len(more)].seq = n
        /\ log # << >> => more[1] = log[1]
    <3>1. /\ more # << >> /\ more[Len(more)] = Logged(b)
          /\ log # << >> => more[1] = log[1]
      <4>1. more = Append(log, Logged(b)) /\ log \in Seq(Entry) /\ Logged(b) \in Entry
        BY <2>1
      <4> HIDE DEF more, log, b
      <4> QED
        BY <4>1, AppendEnds
    <3> QED
      BY <3>1 DEF Logged
  <2>3. CountOf(h)' = n /\ StageOf(h)' = "bound"
    BY <2>1, <2>2 DEF CountOf, StageOf
  <2>4. \A g \in Heirs \ {h} : /\ StageOf(g)' = StageOf(g)
                               /\ HolderOf(g)' = HolderOf(g)
                               /\ CountOf(g)' = CountOf(g)
    BY <2>1, StageRests DEF HolderOf, CountOf, GoExchangeInv, DoorInv
  <2>5. HolderOf(h)' = p
    <3>1. Rooted(heirs[h], h)'
      BY <1>1 DEF GoExchangeInv
    <3>2. heirs'[h].O.root = Drawn(p, 1)
      BY <1>1, <2>1, OwnRoot
    <3>3. more[1].next = Drawn(p, 1)
      BY <2>1, <3>1, <3>2 DEF Rooted
    <3> QED
      <4>1. Drawn(p, 1)[1] = p
        BY DEF Drawn
      <4> QED
        BY <2>2, <3>3, <4>1 DEF HolderOf
  <2>6. CASE log = << >>
    <3>1. heirs[h].stage = "fresh"
      <4>1. b \in Box(EdgesInReach)
        BY <1>1, <1>4, ChoiceInReach
      <4> QED
        BY <1>1, <1>4, <2>6, <4>1, ChoiceExtends DEF GoExchangeInv
    <3>2. StageOf(h) = "open"
      BY <2>1, <3>1 DEF StageOf
    <3>3. Abstract!Bind(p, n)
      BY <1>1, <1>2, <2>3, <2>4, <2>5, <3>2 DEF Abstract!Bind
    <3> QED
      BY <1>1, <3>3
  <2>7. CASE log # << >>
    <3>1. StageOf(h) = "bound"
      BY <1>1, <2>1, <2>7 DEF StageOf, Held
    <3>2. HolderOf(h)' = HolderOf(h)
      BY <2>2, <2>7 DEF HolderOf
    <3>3. n > CountOf(h)
      <4>1. Len(log) \in DOMAIN log /\ log[Len(log)] \in Entry
        <5>1. log \in Seq(Entry)
          BY <2>1
        <5> HIDE DEF log
        <5> QED
          BY <2>7, <5>1
      <4>2. n \in Nat /\ log[Len(log)].seq \in Nat
        BY <1>1, <4>1, BoxesAssumption DEF Entry
      <4>3. log[Len(log)].seq < n
        BY <2>1, <4>1
      <4> QED
        BY <2>7, <4>2, <4>3 DEF CountOf
    <3>4. Abstract!Honour(h, n)
      BY <1>1, <1>2, <2>3, <2>4, <3>1, <3>2, <3>3 DEF Abstract!Honour
    <3> QED
      BY <1>1, <3>4
  <2> QED
    BY <2>6, <2>7
<1> QED
  BY <1>3, <1>4

(* A party learns of a number by moving on it.                             *)
LEMMA ReadsLearn ==
  ASSUME GoExchangeInv, GoExchangeInv', NEW p \in Parties,
         NEW sent, SentBy(p, sent), NEW reply, NEW u,
         ReadLeaves(gs[p], sent, reply, u), gs' = [gs EXCEPT ![p] = u],
         UNCHANGED << heirs, removed, honoured >>
  PROVE  \/ \E n \in 1..MaxCount : Abstract!Learn(p, n)
         \/ UNCHANGED Abstract!promiseVars
<1> DEFINE s == gs[p]
           h == Invitation[p]
<1> SUFFICES ASSUME NEW n, n = u.moved
             PROVE  \/ \E k \in 1..MaxCount : Abstract!Learn(p, k)
                    \/ UNCHANGED Abstract!promiseVars
  OBVIOUS
<1>1. /\ s \in GoStandingFields /\ u \in GoStandingFields /\ h \in Heirs
      /\ gs'[p] = u /\ \A q \in Parties \ {p} : gs'[q] = gs[q]
      /\ u.moved = s.moved \/ (u.bound /\ u.moved > s.moved)
  BY GoStandingAssumption
  DEF GoExchangeInv, ReadLeaves, StoodStill, MovedBy
<1>2. \A g \in Heirs : /\ StageOf(g)' = StageOf(g)
                       /\ HolderOf(g)' = HolderOf(g)
                       /\ CountOf(g)' = CountOf(g)
  BY StageRests DEF HolderOf, CountOf, GoExchangeInv, DoorInv
<1>3. CASE u.moved = s.moved
  <2>1. \A q \in Parties : gs'[q].moved = gs[q].moved
    BY <1>1, <1>3
  <2> QED
    BY <1>2, <2>1, PromiseRests
<1>4. CASE u.bound /\ u.moved > s.moved
  <2>1. MaxAsks \in Nat /\ MaxAsks <= MaxCount /\ MaxCount \in Nat
    BY GoStandingAssumption, BoxesAssumption
  <2>2. n \in 1..MaxAsks /\ n \in 1..MaxCount /\ s.moved \in Nat /\ n > 0
    BY <1>1, <1>4, <2>1 DEF GoStandingFields
  <2>3. BoundBy(p)
    BY <1>1, <1>4 DEF GoExchangeInv, BoundOnlyByOwnKnock, BoundBy
  <2>4. HolderOf(h) = p
    BY <2>3, BinderHolds
  <2>5. WasHonoured(h, Drawn(p, n))'
    BY <1>1, <2>2 DEF GoExchangeInv, MovedWasHonoured, WasHonoured
  <2>6. PICK i \in DOMAIN honoured[h] : honoured[h][i].seq = n
    BY <2>5 DEF WasHonoured, Drawn
  <2>7. n <= CountOf(h)
    BY <1>1, <2>6, CountIsHighest DEF GoExchangeInv
  <2>8. [q \in Parties |-> gs[q].moved]' =
          [[q \in Parties |-> gs[q].moved] EXCEPT ![p] = n]
    <3>1. \A q \in Parties :
             gs'[q].moved = [[k \in Parties |-> gs[k].moved] EXCEPT ![p] = n][q]
      BY <1>1
    <3> QED
      BY <3>1
  <2>9. Abstract!Learn(p, n)
    BY <1>1, <1>2, <1>4, <2>4, <2>7, <2>8 DEF Abstract!Learn
  <2> QED
    BY <2>2, <2>9
<1> QED
  BY <1>1, <1>3, <1>4

LEMMA PromiseSteps ==
  ASSUME GoExchangeInv, GoExchangeInv', [GoExchangeNext]_goExchangeVars
  PROVE  [Abstract!PromiseNext]_(Abstract!promiseVars)
<1>1. ASSUME UNCHANGED << heirs, removed, honoured >>,
             \A p \in Parties : gs'[p].moved = gs[p].moved
      PROVE  UNCHANGED Abstract!promiseVars
  <2>1. \A h \in Heirs : /\ StageOf(h)' = StageOf(h)
                         /\ HolderOf(h)' = HolderOf(h)
                         /\ CountOf(h)' = CountOf(h)
    BY <1>1, StageRests DEF HolderOf, CountOf, GoExchangeInv, DoorInv
  <2> QED
    BY <1>1, <2>1, PromiseRests
<1>2. CASE UNCHANGED goExchangeVars
  BY <1>1, <1>2 DEF goExchangeVars
<1>3. ASSUME NEW h \in Heirs, NEW reach \in Reaches, WardInvites(h, reach)
      PROVE  Abstract!PromiseNext
  BY <1>3, InvitesOffer DEF Abstract!PromiseNext
<1>4. ASSUME NEW h \in Heirs, WardReleases(h)
      PROVE  Abstract!PromiseNext
  BY <1>4, ReleasesClose DEF Abstract!PromiseNext
<1>5. ASSUME NEW p \in Parties, NEW unread \in UnreadArgs,
             \/ PartyAsks(p, unread)
             \/ \E i \in Slots : SendStarts(p, unread, i)
      PROVE  UNCHANGED Abstract!promiseVars
  <2> SUFFICES ASSUME NEW sent, sent = NextSent(p, unread)
               PROVE  UNCHANGED Abstract!promiseVars
    OBVIOUS
  <2>1. PICK keeps \in BOOLEAN : Sealing(p, unread, keeps)
    BY <1>5 DEF PartyAsks, SendStarts
  <2>2. Seal(p, unread, keeps) /\ UNCHANGED << heirs, removed, honoured >>
    BY <2>1 DEF Sealing
  <2>3. gs' = [gs EXCEPT ![p] = gs'[p]] /\ gs'[p].moved = gs[p].moved
    BY <2>2, SealIs, GoExchangeAssumption
  <2>4. \A q \in Parties : gs'[q].moved = gs[q].moved
    BY <2>3 DEF GoExchangeInv
  <2> QED
    BY <1>1, <2>2, <2>4
<1>6. ASSUME NEW a \in asks, AskArrives(a)
      PROVE  [Abstract!PromiseNext]_(Abstract!promiseVars)
  <2>1. a.lid[1] \in Parties /\ Invitation[a.lid[1]] \in Heirs
    BY LidFacts DEF GoExchangeInv, OwnAsk
  <2> QED
    BY <1>6, <2>1, ArrivesBindOrHonour DEF Abstract!PromiseNext
<1>7. ASSUME NEW p \in Parties, NEW reply \in replies \cup {Garbled, Nothing},
             PartyReads(p, reply) \/ \E i \in Slots : SendReads(p, i, reply)
      PROVE  [Abstract!PromiseNext]_(Abstract!promiseVars)
  <2>1. \E sent, u : /\ SentBy(p, sent) /\ ReadLeaves(gs[p], sent, reply, u)
                     /\ gs' = [gs EXCEPT ![p] = u]
    BY <1>7, ReadIs
  <2>2. UNCHANGED << heirs, removed, honoured >>
    BY <1>7 DEF PartyReads, SendReads
  <2> QED
    BY <2>1, <2>2, ReadsLearn DEF Abstract!PromiseNext
<1> QED
  BY <1>2, <1>3, <1>4, <1>5, <1>6, <1>7 DEF GoExchangeNext

(* Sends that overlap, in whatever order their boxes and replies come,     *)
(* keep what Promise says: an heir is bound by one party and once, numbers *)
(* are honoured once and climbing, a party learns only of numbers its      *)
(* relation honoured, and what is closed stays closed.                     *)
THEOREM GoPromiseKept == GoExchangeSpec => KeepsThePromise
<1>1. GoExchangeInv /\ GoExchangeInv' /\ [GoExchangeNext]_goExchangeVars
        => [Abstract!PromiseNext]_(Abstract!promiseVars)
  BY PromiseSteps
<1> QED
  BY <1>1, PromiseInits, GoExchangeInductive, PTL
  DEF GoExchangeSpec, KeepsThePromise, Abstract!PromiseSpec

-----------------------------------------------------------------------------
(* Sends.  While nothing was lost, a relation its party is behind on has   *)
(* the reply that brings the party up under way to be read; and a relation *)
(* that answers with silence never gets so far.                            *)

NoneUnread == \A a \in asks : ~a.box.unread

SilentGivesNone(h) ==
  heirs[h].stage # "absent" /\ heirs[h].reach = "silent" =>
    /\ \A r \in replies : Invitation[r.lid[1]] = h => r.text # "object"
    /\ \A p \in Parties : Invitation[p] = h => ~gs[p].bound

Ways ==
  [at : Nat, stage : {"idle", "asked", "answered"},
   reply : Reply \cup {Garbled, Nothing}]

SendStands(p, i) ==
  /\ way[p][i].stage # "idle" => flight[p][i] # NoSent
  /\ way[p][i].reply \in replies \cup {Garbled, Nothing}

HasItsReply(p, i, n) ==
  /\ way[p][i].stage = "answered"
  /\ flight[p][i].lid[2] = n
  /\ way[p][i].reply \in replies
  /\ way[p][i].reply.text = "object"
  /\ way[p][i].reply.lid = flight[p][i].lid

BehindByAReply(p) ==
  LET rel == heirs[Invitation[p]]
  IN /\ failures = 0 /\ BoundBy(p)
     /\ rel.stage = "spent" /\ rel.reach = "answers" /\ rel.high # gs[p].moved
     => \E i \in Slots : HasItsReply(p, i, rel.high)

GoSendInv ==
  /\ GoExchangeInv
  /\ way \in [Parties -> [Slots -> Ways]]
  /\ failures \in Nat /\ late \subseteq asks
  /\ failures = 0 => late = {}
  /\ \A p \in Parties, i \in Slots : SendStands(p, i)
  /\ \A h \in Heirs : SilentGivesNone(h)
  /\ NoneUnread
  /\ \A p \in Parties : BehindByAReply(p)

(* What a send dials with is what it sealed.                               *)
LEMMA DialsItsAsk ==
  ASSUME GoSendInv, NEW p \in Parties, NEW i \in Slots,
         way[p][i].stage # "idle"
  PROVE  /\ SentBy(p, flight[p][i]) /\ AskOf(p, i) = AskIn(flight[p][i])
         /\ AskOf(p, i) \in asks /\ AskOf(p, i).lid = flight[p][i].lid
         /\ AskOf(p, i).lid[1] = p
<1>1. SentBy(p, flight[p][i])
  BY DEF GoSendInv, SendStands, GoExchangeInv, StandsAsSent
<1> QED
  BY <1>1 DEF SentBy, AskIn, AskOf

(* To the standings and the door, a step of the sends is a step of theirs. *)
LEMMA SendsExchange ==
  ASSUME GoSendInv, [GoSendNext]_goSendVars
  PROVE  [GoExchangeNext]_goExchangeVars
<1>1. CASE UNCHANGED goSendVars
  BY <1>1 DEF goSendVars, goExchangeVars
<1>2. CASE WardSteps
  BY <1>2 DEF WardSteps, GoExchangeNext
<1>3. ASSUME NEW p \in Parties, NEW unread \in UnreadArgs, NEW i \in Slots,
             Goes(p, unread, i)
      PROVE  GoExchangeNext
  BY <1>3 DEF Goes, GoExchangeNext
<1>4. ASSUME NEW p \in Parties, NEW i \in Slots, Arrives(p, i)
      PROVE  GoExchangeNext
  BY <1>4, DialsItsAsk DEF Arrives, GoExchangeNext
<1>5. ASSUME NEW p \in Parties, NEW i \in Slots, Reads(p, i)
      PROVE  GoExchangeNext
  <2>1. way[p][i].reply \in replies \cup {Garbled, Nothing}
    BY DEF GoSendInv, SendStands
  <2> QED
    BY <1>5, <2>1 DEF Reads, GoExchangeNext
<1>6. ASSUME NEW p \in Parties, NEW i \in Slots, GivesUp(p, i)
      PROVE  [GoExchangeNext]_goExchangeVars
  BY <1>6 DEF GivesUp, GoExchangeNext
<1>7. ASSUME NEW p \in Parties, NEW i \in Slots, Alters(p, i)
      PROVE  UNCHANGED goExchangeVars
  BY <1>7 DEF Alters
<1>8. ASSUME NEW ask \in late, LateArrives(ask)
      PROVE  GoExchangeNext
  BY <1>8 DEF LateArrives, GoExchangeNext, GoSendInv
<1> QED
  BY <1>1, <1>2, <1>3, <1>4, <1>5, <1>6, <1>7, <1>8 DEF GoSendNext

LEMMA UnreadStays ==
  ASSUME UnreadArgs \subseteq {FALSE}, GoSendInv,
         [GoExchangeNext]_goExchangeVars
  PROVE  NoneUnread'
<1>1. CASE asks' = asks
  BY <1>1 DEF GoSendInv, NoneUnread
<1>2. ASSUME NEW p \in Parties, NEW unread \in UnreadArgs, NEW keeps \in BOOLEAN,
             Sealing(p, unread, keeps)
      PROVE  NoneUnread'
  <2> SUFFICES ASSUME NEW sent, sent = NextSent(p, unread)
               PROVE  NoneUnread'
    OBVIOUS
  <2>1. asks' = asks \cup {AskIn(sent)} /\ AskIn(sent).box = sent.box
    BY <1>2 DEF Sealing, AskIn
  <2>2. CASE Resends(p)
    <3>1. sent = gs[p].knock /\ gs[p].knock # NoSent
      BY <2>2 DEF NextSent, Resends
    <3>2. AskIn(sent) \in asks
      BY <3>1 DEF GoSendInv, GoExchangeInv, StandsAsSent, SentBy
    <3> QED
      BY <2>1, <3>2 DEF GoSendInv, NoneUnread
  <2>3. CASE ~Resends(p)
    <3>1. unread = FALSE /\ sent = Sealed(p, unread)
      BY <2>3 DEF NextSent
    <3>2. sent.box.unread = FALSE
      BY <3>1 DEF Sealed, SealAsk
    <3> QED
      BY <2>1, <3>2 DEF GoSendInv, NoneUnread
  <2> QED
    BY <2>2, <2>3
<1>3. asks' = asks \/ \E p \in Parties, unread \in UnreadArgs, keeps \in BOOLEAN :
                        Sealing(p, unread, keeps)
  BY DEF GoExchangeNext, goExchangeVars, WardInvites, WardReleases, PartyAsks,
         SendStarts, AskArrives, PartyReads, SendReads
<1> QED
  BY <1>1, <1>2, <1>3

(* What an ask leads to, honoured: an object, unless the reach is silent.  *)
LEMMA AnswersObject ==
  ASSUME GoSendInv, NEW a \in asks
  PROVE  /\ ReplyTo(a).lid = a.lid
         /\ ReplyTo(a).text = "object" <=>
              /\ Verdict(a.box) = "choice"
              /\ heirs[Invitation[a.lid[1]]].reach # "silent"
<1>1. /\ a.box.head = Invitation[a.lid[1]] /\ Invitation[a.lid[1]] # NoHeir
      /\ ~a.box.unread
  BY LidFacts DEF GoSendInv, GoExchangeInv, OwnAsk, NoneUnread
<1> QED
  BY <1>1 DEF ReplyTo, ReplyText, Verdict

LEMMA SilenceStays ==
  ASSUME GoSendInv, GoExchangeInv', [GoExchangeNext]_goExchangeVars, NEW h \in Heirs
  PROVE  SilentGivesNone(h)'
<1>1. GoExchangeInv /\ SilentGivesNone(h) /\ DoorTypeOK
  BY DEF GoSendInv, GoExchangeInv, DoorInv
<1>2. CASE UNCHANGED goExchangeVars
  BY <1>1, <1>2 DEF goExchangeVars, SilentGivesNone
<1>3. ASSUME NEW g \in Heirs, NEW reach \in Reaches, WardInvites(g, reach)
      PROVE  SilentGivesNone(h)'
  <2>1. /\ \A f \in Heirs \ {g} : heirs'[f] = heirs[f]
        /\ UNCHANGED << gs, replies, honoured >>
        /\ heirs[g].stage = "absent" /\ removed[g].stage = "absent"
    BY <1>1, <1>3 DEF WardInvites, Invite
  <2>2. CASE h # g
    BY <1>1, <2>1, <2>2 DEF SilentGivesNone
  <2>3. CASE h = g
    <3>1. honoured[h] = << >>
      BY <2>1, <2>3 DEF GoSendInv, GoExchangeInv, DoorInv, StartsEmpty
    <3>2. \A r \in replies : Invitation[r.lid[1]] = h => r.text # "object"
      <4>1. ~\E i : i \in DOMAIN honoured[h]
        BY <3>1
      <4>2. \A r \in replies : ObjectStands(r)
        BY <1>1 DEF GoExchangeInv
      <4> QED
        BY <4>1, <4>2 DEF ObjectStands, WasHonoured
    <3>3. \A p \in Parties : Invitation[p] = h => ~gs[p].bound
      BY <1>1, <3>1 DEF GoExchangeInv, BoundOnlyByOwnKnock, BoundBy
    <3> QED
      BY <2>1, <3>2, <3>3 DEF SilentGivesNone
  <2> QED
    BY <2>2, <2>3
<1>4. ASSUME NEW g \in Heirs, WardReleases(g)
      PROVE  SilentGivesNone(h)'
  <2>1. /\ \A f \in Heirs \ {g} : heirs'[f] = heirs[f]
        /\ heirs'[g].stage = "absent"
        /\ UNCHANGED << gs, replies >>
    BY <1>1, <1>4 DEF WardReleases, Release, NoRelation, DoorTypeOK
  <2> QED
    BY <1>1, <2>1 DEF SilentGivesNone
<1>5. ASSUME NEW p \in Parties, NEW unread \in UnreadArgs,
             \/ PartyAsks(p, unread)
             \/ \E i \in Slots : SendStarts(p, unread, i)
      PROVE  SilentGivesNone(h)'
  <2> SUFFICES ASSUME NEW sent, sent = NextSent(p, unread)
               PROVE  SilentGivesNone(h)'
    OBVIOUS
  <2>1. PICK keeps \in BOOLEAN : Sealing(p, unread, keeps)
    BY <1>5 DEF PartyAsks, SendStarts
  <2>2. Seal(p, unread, keeps) /\ UNCHANGED << heirs, replies >>
    BY <2>1 DEF Sealing
  <2>3. gs' = [gs EXCEPT ![p] = gs'[p]] /\ gs'[p].bound = gs[p].bound
    BY <1>1, <2>2, SealIs, GoExchangeAssumption
  <2>4. \A q \in Parties : gs'[q].bound = gs[q].bound
    BY <1>1, <2>3 DEF GoExchangeInv
  <2> QED
    BY <1>1, <2>2, <2>4 DEF SilentGivesNone
<1>6. ASSUME NEW a \in asks, AskArrives(a)
      PROVE  SilentGivesNone(h)'
  <2>1. replies' = replies \cup {ReplyTo(a)} /\ gs' = gs
    BY <1>6 DEF AskArrives
  <2>2. /\ heirs'[h].reach = heirs[h].reach
        /\ heirs'[h].stage # "absent" => heirs[h].stage # "absent"
    <3>1. CASE Verdict(a.box) # "choice"
      BY <1>6, <3>1 DEF AskArrives, Arrive, doorVars
    <3>2. CASE Verdict(a.box) = "choice"
      <4> SUFFICES ASSUME NEW g, g = Invitation[a.lid[1]]
                   PROVE  /\ heirs'[h].reach = heirs[h].reach
                          /\ heirs'[h].stage # "absent" => heirs[h].stage # "absent"
        OBVIOUS
      <4>1. /\ g \in Heirs /\ heirs'[g] = Moved(heirs[g], a.box, NextAgreement(g))
            /\ \A f \in Heirs \ {g} : heirs'[f] = heirs[f]
        BY <1>1, <1>6, <3>2, Honours
      <4>2. heirs'[g].reach = heirs[g].reach
        BY <4>1 DEF Moved
      <4>3. heirs[g].stage # "absent"
        <5>1. a.box \in Box(Edge) /\ a.box.head = g
          BY DEF GoSendInv, GoExchangeInv, OwnAsk
        <5>2. a.box \in Box(EdgesInReach)
          BY <3>2, <5>1, ChoiceInReach
        <5> QED
          BY <3>2, <5>1, <5>2, ChoiceIsHeld DEF Held
      <4> QED
        BY <4>1, <4>2, <4>3
    <3> QED
      BY <3>1, <3>2
  <2>3. ReplyTo(a).lid = a.lid
        /\ (heirs[Invitation[a.lid[1]]].reach = "silent" => ReplyTo(a).text # "object")
    BY AnswersObject
  <2> QED
    BY <1>1, <2>1, <2>2, <2>3 DEF SilentGivesNone
<1>7. ASSUME NEW p \in Parties, NEW reply \in replies \cup {Garbled, Nothing},
             PartyReads(p, reply) \/ \E i \in Slots : SendReads(p, i, reply)
      PROVE  SilentGivesNone(h)'
  <2>1. UNCHANGED << heirs, replies, honoured >>
    BY <1>7 DEF PartyReads, SendReads
  <2>2. \E sent, u : /\ SentBy(p, sent) /\ ReadLeaves(gs[p], sent, reply, u)
                     /\ gs' = [gs EXCEPT ![p] = u]
    BY <1>1, <1>7, ReadIs
  <2>3. PICK sent, u : /\ SentBy(p, sent) /\ ReadLeaves(gs[p], sent, reply, u)
                       /\ gs' = [gs EXCEPT ![p] = u]
    BY <2>2
  <2>4. gs'[p] = u /\ \A q \in Parties \ {p} : gs'[q] = gs[q]
    BY <1>1, <2>3 DEF GoExchangeInv
  <2>5. u.bound => \/ gs[p].bound
                   \/ reply \in replies /\ reply.text = "object" /\ reply.lid[1] = p
    BY <2>3 DEF ReadLeaves, StoodStill, MovedBy, SentBy
  <2> QED
    BY <1>1, <2>1, <2>4, <2>5 DEF SilentGivesNone
<1> QED
  BY <1>2, <1>3, <1>4, <1>5, <1>6, <1>7 DEF GoExchangeNext

(* Losses are counted, and without one no ask is under way but its send's. *)
LEMMA LossesCount ==
  ASSUME GoSendInv, [GoSendNext]_goSendVars
  PROVE  /\ failures' \in Nat /\ late' \subseteq asks'
         /\ failures' = 0 => failures = 0 /\ late' = {}
<1>1. failures \in Nat /\ late \subseteq asks /\ (failures = 0 => late = {})
  BY DEF GoSendInv
<1>2. asks \subseteq asks'
  <2>1. [GoExchangeNext]_goExchangeVars
    BY SendsExchange
  <2> QED
    BY <2>1 DEF GoExchangeNext, goExchangeVars, WardInvites, WardReleases,
                PartyAsks, SendStarts, Sealing, AskArrives, PartyReads, SendReads
<1>3. \/ UNCHANGED << late, failures >>
      \/ /\ failures' = failures + 1
         /\ \/ late' = late
            \/ \E p \in Parties, i \in Slots :
                 /\ way[p][i].stage # "idle"
                 /\ late' = late \cup {AskOf(p, i)}
  BY DEF GoSendNext, goSendVars, WardSteps, Goes, Arrives, Reads, GivesUp, Alters,
         LateArrives, Fails
<1>4. late' \subseteq asks
  BY <1>1, <1>3, DialsItsAsk
<1> QED
  BY <1>1, <1>2, <1>3, <1>4

(* Every step of the sends leaves its slot with one of these.              *)
LEMMA SlotsKeep ==
  ASSUME GoSendInv, NEW p \in Parties, NEW i \in Slots, NEW w \in Ways,
         way' = [way EXCEPT ![p][i] = w],
         w.stage # "idle" => way[p][i].stage # "idle" /\ flight' = flight,
         \/ flight' = flight
         \/ flight' = [flight EXCEPT ![p][i] = NoSent],
         replies \subseteq replies',
         w.reply \in replies' \cup {Garbled, Nothing}
  PROVE  /\ way' \in [Parties -> [Slots -> Ways]]
         /\ \A q \in Parties, j \in Slots : SendStands(q, j)'
<1>1. /\ way \in [Parties -> [Slots -> Ways]]
      /\ flight \in [Parties -> [Slots -> Sents \cup {NoSent}]]
      /\ \A q \in Parties, j \in Slots : SendStands(q, j)
  BY DEF GoSendInv, GoExchangeInv
<1>2. \A q \in Parties, j \in Slots : ~(q = p /\ j = i) =>
        way'[q][j] = way[q][j] /\ flight'[q][j] = flight[q][j]
  BY <1>1
<1>3. way'[p][i] = w /\ way' \in [Parties -> [Slots -> Ways]]
  BY <1>1
<1>4. \A q \in Parties, j \in Slots : ~(q = p /\ j = i) => SendStands(q, j)'
  BY <1>1, <1>2 DEF SendStands
<1>5. SendStands(p, i)'
  BY <1>1, <1>3 DEF SendStands
<1> QED
  BY <1>3, <1>4, <1>5

LEMMA WaysKeep ==
  ASSUME GoSendInv, GoExchangeInv', [GoSendNext]_goSendVars
  PROVE  /\ way' \in [Parties -> [Slots -> Ways]]
         /\ \A p \in Parties, i \in Slots : SendStands(p, i)'
<1>1. /\ way \in [Parties -> [Slots -> Ways]]
      /\ flight \in [Parties -> [Slots -> Sents \cup {NoSent}]]
      /\ \A p \in Parties, i \in Slots : SendStands(p, i)
  BY DEF GoSendInv, GoExchangeInv
<1>2. /\ NoWay \in Ways /\ NoWay.stage = "idle" /\ NoWay.reply = Nothing
      /\ \A at \in Nat : /\ Dialing(at) \in Ways /\ Dialing(at).reply = Nothing
                         /\ Dialing(at).stage = "asked"
  BY DEF NoWay, Dialing, Ways
<1>3. ASSUME UNCHANGED << way, flight >>, replies \subseteq replies'
      PROVE  /\ way' \in [Parties -> [Slots -> Ways]]
             /\ \A p \in Parties, i \in Slots : SendStands(p, i)'
  BY <1>1, <1>3 DEF SendStands
<1>4. CASE UNCHANGED goSendVars \/ WardSteps
  BY <1>3, <1>4 DEF goSendVars, WardSteps, WardInvites, WardReleases
<1>5. ASSUME NEW p \in Parties, NEW unread \in UnreadArgs, NEW i \in Slots,
             Goes(p, unread, i)
      PROVE  /\ way' \in [Parties -> [Slots -> Ways]]
             /\ \A q \in Parties, j \in Slots : SendStands(q, j)'
  <2> SUFFICES ASSUME NEW sent, sent = NextSent(p, unread)
               PROVE  /\ way' \in [Parties -> [Slots -> Ways]]
                      /\ \A q \in Parties, j \in Slots : SendStands(q, j)'
    OBVIOUS
  <2>1. /\ way' = [way EXCEPT ![p][i] = Dialing(1)]
        /\ flight' = [flight EXCEPT ![p][i] = sent]
        /\ Sealing(p, unread, FALSE)
    BY <1>5 DEF Goes, SendStarts
  <2>2. replies' = replies /\ Seal(p, unread, FALSE)
    BY <2>1 DEF Sealing
  <2>3. sent # NoSent
    <3>1. unread \in BOOLEAN /\ GoExchangeInv
      BY GoExchangeAssumption DEF GoSendInv
    <3>2. sent \in Sents
      BY <2>2, <3>1, SealIs
    <3> QED
      BY <3>2, NoSentIsNone
  <2>4. way' \in [Parties -> [Slots -> Ways]]
    BY <1>1, <1>2, <2>1
  <2>5. \A q \in Parties, j \in Slots :
          \/ way'[q][j] = way[q][j] /\ flight'[q][j] = flight[q][j]
          \/ way'[q][j] = Dialing(1) /\ flight'[q][j] = sent
    BY <1>1, <2>1
  <2>6. Dialing(1).reply = Nothing
    BY <1>2
  <2>7. \A q \in Parties, j \in Slots : SendStands(q, j)'
    BY <1>1, <2>2, <2>3, <2>5, <2>6 DEF SendStands
  <2> QED
    BY <2>4, <2>7
<1>6. ASSUME NEW p \in Parties, NEW i \in Slots, Arrives(p, i)
      PROVE  /\ way' \in [Parties -> [Slots -> Ways]]
             /\ \A q \in Parties, j \in Slots : SendStands(q, j)'
  <2> SUFFICES ASSUME NEW w, w = [at |-> way[p][i].at, stage |-> "answered",
                                  reply |-> ReplyTo(AskOf(p, i))]
               PROVE  /\ way' \in [Parties -> [Slots -> Ways]]
                      /\ \A q \in Parties, j \in Slots : SendStands(q, j)'
    OBVIOUS
  <2>1. /\ way' = [way EXCEPT ![p][i] = w] /\ way[p][i].stage = "asked"
        /\ flight' = flight
        /\ replies' = replies \cup {ReplyTo(AskOf(p, i))}
    BY <1>6 DEF Arrives, AskArrives
  <2>2. w.reply \in replies' /\ w \in Ways
    <3>1. way[p][i].at \in Nat
      BY <1>1 DEF Ways
    <3>2. ReplyTo(AskOf(p, i)) \in Reply
      BY <2>1 DEF GoExchangeInv
    <3> QED
      BY <2>1, <3>1, <3>2 DEF Ways
  <2> QED
    BY <2>1, <2>2, SlotsKeep
<1>7. ASSUME NEW p \in Parties, NEW i \in Slots,
             way' = [way EXCEPT ![p][i] = NoWay],
             flight' = [flight EXCEPT ![p][i] = NoSent], replies' = replies
      PROVE  /\ way' \in [Parties -> [Slots -> Ways]]
             /\ \A q \in Parties, j \in Slots : SendStands(q, j)'
  BY <1>2, <1>7, SlotsKeep
<1>8. ASSUME NEW p \in Parties, NEW i \in Slots, Reads(p, i)
      PROVE  /\ way' \in [Parties -> [Slots -> Ways]]
             /\ \A q \in Parties, j \in Slots : SendStands(q, j)'
  BY <1>7, <1>8 DEF Reads, SendReads
<1>9. ASSUME NEW p \in Parties, NEW i \in Slots, GivesUp(p, i)
      PROVE  /\ way' \in [Parties -> [Slots -> Ways]]
             /\ \A q \in Parties, j \in Slots : SendStands(q, j)'
  <2>1. CASE MoreAddresses(way[p][i].at)
    <3> SUFFICES ASSUME NEW w, w = Dialing(way[p][i].at + 1)
                 PROVE  /\ way' \in [Parties -> [Slots -> Ways]]
                        /\ \A q \in Parties, j \in Slots : SendStands(q, j)'
      OBVIOUS
    <3>1. /\ way' = [way EXCEPT ![p][i] = w] /\ UNCHANGED << flight, replies >>
          /\ way[p][i].stage # "idle"
      BY <1>9, <2>1 DEF GivesUp, goExchangeVars
    <3>2. way[p][i].at + 1 \in Nat
      BY <1>1 DEF Ways
    <3>3. w \in Ways /\ w.reply = Nothing
      BY <1>2, <3>2
    <3> QED
      BY <3>1, <3>3, SlotsKeep
  <2>2. CASE ~MoreAddresses(way[p][i].at)
    BY <1>7, <1>9, <2>2 DEF GivesUp, SendReads
  <2> QED
    BY <2>1, <2>2
<1>10. ASSUME NEW p \in Parties, NEW i \in Slots, Alters(p, i)
       PROVE  /\ way' \in [Parties -> [Slots -> Ways]]
              /\ \A q \in Parties, j \in Slots : SendStands(q, j)'
  <2> SUFFICES ASSUME NEW w, w = [at |-> way[p][i].at, stage |-> "answered",
                                  reply |-> Garbled]
               PROVE  /\ way' \in [Parties -> [Slots -> Ways]]
                      /\ \A q \in Parties, j \in Slots : SendStands(q, j)'
    OBVIOUS
  <2>1. /\ way' = [way EXCEPT ![p][i] = w] /\ way[p][i].stage # "idle"
        /\ UNCHANGED << flight, replies >>
    BY <1>10 DEF Alters, goExchangeVars
  <2>2. w \in Ways /\ w.reply = Garbled
    <3>1. way[p][i].at \in Nat
      BY <1>1 DEF Ways
    <3> QED
      BY <3>1 DEF Ways
  <2> QED
    BY <2>1, <2>2, SlotsKeep
<1>11. ASSUME NEW ask \in late, LateArrives(ask)
       PROVE  /\ way' \in [Parties -> [Slots -> Ways]]
              /\ \A q \in Parties, j \in Slots : SendStands(q, j)'
  <2>1. UNCHANGED << way, flight >> /\ replies \subseteq replies'
    BY <1>11 DEF LateArrives, AskArrives
  <2> QED
    BY <1>3, <2>1
<1> QED
  BY <1>4, <1>5, <1>6, <1>8, <1>9, <1>10, <1>11 DEF GoSendNext

(* The highest number honoured is the last one.                            *)
LEMMA HighIsHighest ==
  ASSUME DoorInv, NEW h \in Heirs, heirs[h].stage = "spent",
         NEW i \in DOMAIN honoured[h]
  PROVE  honoured[h][i].seq <= heirs[h].high
<1>1. heirs[h].high = honoured[h][Len(honoured[h])].seq /\ honoured[h] # << >>
  BY DEF DoorInv, DoorTypeOK, KeepsTrack
<1>2. heirs[h].high = CountOf(h)
  BY <1>1 DEF CountOf
<1> QED
  BY <1>2, CountIsHighest

(* A number moved on is none above the highest.                            *)
LEMMA MovedIsPast ==
  ASSUME GoExchangeInv, NEW p \in Parties, NEW h, h = Invitation[p],
         heirs[h].stage = "spent"
  PROVE  gs[p].moved \in Nat /\ heirs[h].high \in Nat
         /\ gs[p].moved <= heirs[h].high
<1>1. h \in Heirs /\ MaxAsks \in Nat
  BY GoStandingAssumption, BoxesAssumption
<1>2. gs[p].moved \in Nat /\ heirs[h].high \in Nat
  BY <1>1 DEF GoExchangeInv, GoStandingFields, DoorInv, DoorTypeOK, Relation
<1>3. CASE gs[p].moved = 0
  BY <1>2, <1>3
<1>4. CASE gs[p].moved > 0
  <2>1. WasHonoured(h, Drawn(p, gs[p].moved))
    BY <1>4 DEF GoExchangeInv, MovedWasHonoured
  <2>2. PICK i \in DOMAIN honoured[h] : honoured[h][i].seq = gs[p].moved
    BY <2>1 DEF WasHonoured, Drawn
  <2> QED
    BY <1>1, <1>2, <2>2, HighIsHighest DEF GoExchangeInv
<1> QED
  BY <1>2, <1>3, <1>4

(* While the door and the party leave a relation where it was, the reply   *)
(* that would bring the party up stays to be read.                         *)
LEMMA ReplyWaits ==
  ASSUME GoSendInv, NEW p \in Parties, failures' = 0 => failures = 0,
         NEW h, h = Invitation[p],
         heirs'[h].stage = "spent" => heirs'[h] = heirs[h],
         heirs'[h].stage = "spent" => honoured'[h] = honoured[h],
         gs'[p].moved = gs[p].moved, replies \subseteq replies',
         \A j \in Slots : way[p][j].stage = "answered" =>
           way'[p][j] = way[p][j] /\ flight'[p][j] = flight[p][j]
  PROVE  BehindByAReply(p)'
<1> SUFFICES ASSUME failures' = 0, BoundBy(p)', heirs'[h].stage = "spent",
                    heirs'[h].reach = "answers", heirs'[h].high # gs'[p].moved,
                    NEW n, n = heirs'[h].high
             PROVE  \E j \in Slots : HasItsReply(p, j, n)'
  BY DEF BehindByAReply
<1>1. BoundBy(p)
  BY DEF BoundBy
<1>2. PICK j \in Slots : HasItsReply(p, j, n)
  BY <1>1 DEF GoSendInv, BehindByAReply
<1>3. HasItsReply(p, j, n)'
  BY <1>2 DEF HasItsReply
<1> QED
  BY <1>3

(* An ask honoured: whoever bound the relation is the one that sent it,    *)
(* and its reply is the one that brings the party up.                      *)
LEMMA BehindAtArrival ==
  ASSUME GoSendInv, GoExchangeInv', NEW q \in Parties, NEW i \in Slots,
         Arrives(q, i), NEW p \in Parties
  PROVE  BehindByAReply(p)'
<1> SUFFICES ASSUME NEW a, a = AskOf(q, i), NEW h, h = Invitation[p],
                    NEW r, r = ReplyTo(a)
             PROVE  BehindByAReply(p)'
  OBVIOUS
<1>1. /\ GoExchangeInv /\ DoorTypeOK /\ h \in Heirs
      /\ way \in [Parties -> [Slots -> Ways]]
  BY GoStandingAssumption DEF GoSendInv, GoExchangeInv, DoorInv
<1>2. /\ way[q][i].stage = "asked" /\ AskArrives(a)
      /\ way' = [way EXCEPT ![q][i] =
                   [at |-> way[q][i].at, stage |-> "answered", reply |-> r]]
      /\ UNCHANGED << failures, gs, flight >>
      /\ replies' = replies \cup {r}
  BY DEF Arrives, AskArrives
<1>3. /\ a \in asks /\ a.lid = flight[q][i].lid /\ a.lid[1] = q
  BY <1>2, DialsItsAsk
<1>4. \A j \in Slots : way[p][j].stage = "answered" => way'[p][j] = way[p][j]
  BY <1>1, <1>2
<1>5. CASE heirs'[h] = heirs[h] /\ honoured'[h] = honoured[h]
  BY <1>2, <1>4, <1>5, ReplyWaits
<1>6. CASE Verdict(a.box) # "choice"
  BY <1>2, <1>5, <1>6 DEF Arrive, AskArrives, doorVars
<1>7. CASE Verdict(a.box) = "choice"
  <2> SUFFICES ASSUME NEW g, g = Invitation[q]
               PROVE  BehindByAReply(p)'
    OBVIOUS
  <2>1. /\ g \in Heirs /\ heirs'[g] = Moved(heirs[g], a.box, NextAgreement(g))
        /\ heirs'[g].stage = "spent" /\ heirs'[g].high = a.lid[2]
        /\ heirs'[g].O = a.box.edge
        /\ \A f \in Heirs \ {g} : heirs'[f] = heirs[f] /\ honoured'[f] = honoured[f]
    BY <1>1, <1>2, <1>3, <1>7, Honours
  <2>2. CASE h # g
    BY <1>1, <1>5, <2>1, <2>2
  <2>3. CASE h = g
    <3> SUFFICES ASSUME BoundBy(p)', heirs'[h].reach = "answers",
                        NEW n, n = heirs'[h].high
                 PROVE  \E j \in Slots : HasItsReply(p, j, n)'
      BY DEF BehindByAReply
    <3>1. honoured'[h][1].next = Drawn(p, 1)
      BY DEF BoundBy
    <3>2. heirs'[h].O.root = honoured'[h][1].next
      BY <1>1, <2>1, <2>3 DEF GoExchangeInv, Rooted
    <3>3. heirs'[h].O.root = Drawn(q, 1)
      BY <1>1, <1>3, <2>1, <2>3, OwnRoot DEF GoExchangeInv
    <3>4. p = q
      BY <3>1, <3>2, <3>3 DEF Drawn
    <3>5. heirs[h].reach = "answers"
      BY <2>1, <2>3 DEF Moved
    <3>6. r.lid = a.lid /\ r.text = "object"
      BY <1>3, <1>7, <2>3, <3>4, <3>5, AnswersObject
    <3>7. way'[p][i] = [at |-> way[q][i].at, stage |-> "answered", reply |-> r]
      BY <1>1, <1>2, <3>4
    <3>8. HasItsReply(p, i, n)'
      BY <1>2, <1>3, <2>1, <2>3, <3>4, <3>6, <3>7 DEF HasItsReply
    <3> QED
      BY <3>8
  <2> QED
    BY <2>2, <2>3
<1> QED
  BY <1>6, <1>7

(* A reply read: the party that is behind has not read the one it is       *)
(* behind by, which would have brought it up.                              *)
LEMMA BehindAtRead ==
  ASSUME GoSendInv, GoExchangeInv', NEW q \in Parties, NEW i \in Slots,
         Reads(q, i), NEW p \in Parties
  PROVE  BehindByAReply(p)'
<1> SUFFICES ASSUME NEW h, h = Invitation[p], NEW sent, sent = flight[q][i],
                    NEW reply, reply = way[q][i].reply,
                    NEW s, s = gs[q], NEW u, u = AfterRead(s, sent, reply)
             PROVE  BehindByAReply(p)'
  OBVIOUS
<1>1. /\ GoExchangeInv /\ h \in Heirs
      /\ way \in [Parties -> [Slots -> Ways]]
      /\ flight \in [Parties -> [Slots -> Sents \cup {NoSent}]]
      /\ gs \in [Parties -> GoStandingFields]
      /\ reply \in replies \cup {Garbled, Nothing}
  BY GoStandingAssumption DEF GoSendInv, GoExchangeInv, SendStands
<1>2. /\ sent # NoSent /\ gs' = [gs EXCEPT ![q] = u]
      /\ way' = [way EXCEPT ![q][i] = NoWay]
      /\ flight' = [flight EXCEPT ![q][i] = NoSent]
      /\ UNCHANGED << failures, heirs, honoured, replies >>
  BY DEF Reads, SendReads, ReadReply
<1>3. SentBy(q, sent)
  BY <1>1, <1>2 DEF GoExchangeInv, StandsAsSent
<1>4. ReadLeaves(s, sent, reply, u)
  BY <1>1, <1>3, ReadGives
<1>5. \A j \in Slots : ~(p = q /\ j = i) =>
        way'[p][j] = way[p][j] /\ flight'[p][j] = flight[p][j]
  BY <1>1, <1>2
<1> SUFFICES ASSUME failures = 0, BoundBy(p), heirs[h].stage = "spent",
                    heirs[h].reach = "answers", heirs[h].high # gs'[p].moved,
                    NEW n, n = heirs[h].high
             PROVE  \E j \in Slots : HasItsReply(p, j, n)'
  BY <1>2 DEF BehindByAReply, BoundBy
<1>6. /\ gs[p].moved \in Nat /\ heirs[h].high \in Nat
      /\ gs[p].moved <= heirs[h].high
  BY <1>1, MovedIsPast
<1>7. \/ gs'[p].moved = gs[p].moved
      \/ /\ gs'[p].moved \in Nat /\ gs'[p].moved > gs[p].moved
         /\ gs'[p].moved <= heirs[h].high
  <2>1. CASE p # q \/ StoodStill(s, u)
    BY <1>1, <1>2, <2>1 DEF StoodStill
  <2>2. CASE p = q /\ MovedBy(s, sent, reply, u)
    <3>1. /\ reply \in replies /\ reply.text = "object" /\ reply.lid = sent.lid
          /\ u.moved = sent.lid[2] /\ u.moved > s.moved
      BY <2>2 DEF MovedBy
    <3>2. Invitation[reply.lid[1]] = h /\ ObjectStands(reply)
      BY <1>1, <1>3, <2>2, <3>1 DEF GoExchangeInv, SentBy
    <3>3. WasHonoured(h, sent.lid)
      BY <3>1, <3>2 DEF ObjectStands
    <3>4. PICK k \in DOMAIN honoured[h] : honoured[h][k].seq = sent.lid[2]
      BY <3>3 DEF WasHonoured
    <3>5. sent.lid[2] <= heirs[h].high
      BY <1>1, <3>4, HighIsHighest DEF GoExchangeInv
    <3>6. sent.lid[2] \in Nat
      BY <1>1, <1>3, SentIsOwn
    <3>7. gs'[p] = u /\ s = gs[p]
      BY <1>1, <1>2, <2>2
    <3> QED
      BY <3>1, <3>5, <3>6, <3>7
  <2> QED
    BY <1>4, <2>1, <2>2 DEF ReadLeaves
<1>8. heirs[h].high # gs[p].moved
  BY <1>6, <1>7
<1>9. PICK j \in Slots : HasItsReply(p, j, n)
  BY <1>8 DEF GoSendInv, BehindByAReply
<1>10. CASE ~(p = q /\ j = i)
  <2>1. HasItsReply(p, j, n)'
    BY <1>2, <1>5, <1>9, <1>10 DEF HasItsReply
  <2> QED
    BY <2>1
<1>11. CASE p = q /\ j = i
  <2>1. /\ reply.text = "object" /\ reply.lid = sent.lid /\ reply \in replies
        /\ sent.lid[2] = heirs[h].high
    BY <1>9, <1>11 DEF HasItsReply
  <2>2. sent.box.seq = sent.lid[2] /\ sent.box.seq > s.moved
    <3>1. sent.box.seq = sent.lid[2]
      BY <1>1, <1>3, SentIsOwn
    <3> QED
      BY <1>6, <1>8, <1>11, <2>1, <3>1
  <2>3. ReadKind(sent, reply) = "object"
    BY <1>2, <2>1 DEF ReadKind, Nothing
  <2>4. u = MoveTo(s, sent, reply.agreement)
    BY <2>2, <2>3 DEF AfterRead, MovesOn
  <2>5. u.moved = sent.box.seq
    <3>1. s \in GoStandingFields
      BY <1>1
    <3> QED
      BY <2>4, <3>1 DEF MoveTo, GoStandingFields
  <2>6. gs'[p].moved = heirs[h].high
    BY <1>1, <1>2, <1>11, <2>1, <2>2, <2>5
  <2> QED
    BY <1>2, <2>6
<1> QED
  BY <1>10, <1>11

(* Every step of the sends leaves no party behind by a number whose reply  *)
(* is not under way to it, unless something was lost.                      *)
LEMMA BehindKeeps ==
  ASSUME UnreadArgs \subseteq {FALSE}, GoSendInv, GoExchangeInv',
         [GoSendNext]_goSendVars, NEW p \in Parties
  PROVE  BehindByAReply(p)'
<1> SUFFICES ASSUME NEW h, h = Invitation[p]
             PROVE  BehindByAReply(p)'
  OBVIOUS
<1>1. /\ GoExchangeInv /\ DoorTypeOK /\ h \in Heirs
      /\ way \in [Parties -> [Slots -> Ways]]
      /\ flight \in [Parties -> [Slots -> Sents \cup {NoSent}]]
      /\ failures \in Nat /\ (failures = 0 => late = {})
  BY GoStandingAssumption DEF GoSendInv, GoExchangeInv, DoorInv
<1>2. CASE UNCHANGED goSendVars
  BY <1>2, ReplyWaits DEF goSendVars
<1>3. CASE WardSteps
  <2>1. UNCHANGED << gs, replies, flight, way, failures >>
    BY <1>3 DEF WardSteps, WardInvites, WardReleases
  <2>2. heirs'[h].stage = "spent" => /\ heirs'[h] = heirs[h]
                                     /\ honoured'[h] = honoured[h]
    <3>1. ASSUME NEW g \in Heirs, NEW reach \in Reaches, Invite(g, reach)
          PROVE  heirs'[h].stage = "spent" => /\ heirs'[h] = heirs[h]
                                              /\ honoured'[h] = honoured[h]
      BY <1>1, <3>1 DEF Invite, FreshRelation, DoorTypeOK
    <3>2. ASSUME NEW g \in Heirs, Release(g)
          PROVE  heirs'[h].stage = "spent" => /\ heirs'[h] = heirs[h]
                                              /\ honoured'[h] = honoured[h]
      BY <1>1, <3>2 DEF Release, NoRelation, DoorTypeOK
    <3> QED
      BY <1>3, <3>1, <3>2 DEF WardSteps, WardInvites, WardReleases
  <2> QED
    BY <2>1, <2>2, ReplyWaits
<1>4. ASSUME NEW q \in Parties, NEW unread \in UnreadArgs, NEW i \in Slots,
             Goes(q, unread, i)
      PROVE  BehindByAReply(p)'
  <2> SUFFICES ASSUME NEW sent, sent = NextSent(q, unread),
                      NEW keeps \in BOOLEAN, keeps = FALSE
               PROVE  BehindByAReply(p)'
    OBVIOUS
  <2>1. /\ flight[q][i] = NoSent /\ flight' = [flight EXCEPT ![q][i] = sent]
        /\ way' = [way EXCEPT ![q][i] = Dialing(1)]
        /\ Seal(q, unread, keeps)
        /\ UNCHANGED << heirs, honoured, replies, failures >>
    BY <1>4 DEF Goes, SendStarts, Free, Sealing
  <2>2. gs' = [gs EXCEPT ![q] = gs'[q]] /\ gs'[q].moved = gs[q].moved
    BY <1>1, <2>1, SealIs, GoExchangeAssumption
  <2>3. gs'[p].moved = gs[p].moved
    BY <1>1, <2>2 DEF GoExchangeInv
  <2>4. way[q][i].stage = "idle"
    BY <2>1 DEF GoSendInv, SendStands
  <2>5. \A j \in Slots : way[p][j].stage = "answered" =>
          way'[p][j] = way[p][j] /\ flight'[p][j] = flight[p][j]
    BY <1>1, <2>1, <2>4
  <2> QED
    BY <2>1, <2>3, <2>5, ReplyWaits
<1>5. ASSUME NEW q \in Parties, NEW i \in Slots, GivesUp(q, i) \/ Alters(q, i)
      PROVE  BehindByAReply(p)'
  <2>1. failures' = failures + 1
    BY <1>5 DEF GivesUp, Alters, Fails
  <2>2. failures' # 0
    BY <1>1, <2>1
  <2> QED
    BY <2>2 DEF BehindByAReply
<1>6. ASSUME NEW ask \in late, LateArrives(ask)
      PROVE  BehindByAReply(p)'
  <2>1. failures' # 0
    BY <1>1, <1>6 DEF LateArrives
  <2> QED
    BY <2>1 DEF BehindByAReply
<1> QED
  BY <1>2, <1>3, <1>4, <1>5, <1>6, BehindAtArrival, BehindAtRead DEF GoSendNext

LEMMA GoSendInvInit == GoSendInit => GoSendInv
<1> SUFFICES ASSUME GoSendInit PROVE GoSendInv
  OBVIOUS
<1>1. /\ GoExchangeInv /\ late = {} /\ failures = 0 /\ asks = {} /\ replies = {}
      /\ way = [p \in Parties |-> [i \in Slots |-> NoWay]]
  BY GoExchangeInvInit DEF GoSendInit, GoExchangeInit
<1>2. \A h \in Heirs : heirs[h].stage = "absent"
  BY DEF GoSendInit, GoExchangeInit, DoorInit, NoRelation
<1>3. NoWay \in Ways /\ NoWay.stage = "idle" /\ NoWay.reply = Nothing
  BY DEF NoWay, Ways
<1>4. \A p \in Parties, i \in Slots : SendStands(p, i)
  BY <1>1, <1>3 DEF SendStands
<1>5. \A h \in Heirs : SilentGivesNone(h)
  BY <1>2 DEF SilentGivesNone
<1>6. \A p \in Parties : BehindByAReply(p)
  BY <1>2, GoStandingAssumption DEF BehindByAReply
<1> QED
  BY <1>1, <1>3, <1>4, <1>5, <1>6 DEF GoSendInv, NoneUnread

LEMMA GoSendInvNext ==
  ASSUME UnreadArgs \subseteq {FALSE}, GoSendInv, [GoSendNext]_goSendVars
  PROVE  GoSendInv'
<1>1. GoExchangeInv /\ [GoExchangeNext]_goExchangeVars
  BY SendsExchange DEF GoSendInv
<1>2. GoExchangeInv'
  BY <1>1, GoExchangeInvNext
<1>3. NoneUnread'
  BY <1>1, UnreadStays
<1>4. \A h \in Heirs : SilentGivesNone(h)'
  BY <1>1, <1>2, SilenceStays
<1>5. /\ failures' \in Nat /\ late' \subseteq asks'
      /\ failures' = 0 => late' = {}
  BY LossesCount
<1>6. /\ way' \in [Parties -> [Slots -> Ways]]
      /\ \A p \in Parties, i \in Slots : SendStands(p, i)'
  BY <1>2, WaysKeep
<1>7. \A p \in Parties : BehindByAReply(p)'
  BY <1>2, BehindKeeps
<1> QED
  BY <1>2, <1>3, <1>4, <1>5, <1>6, <1>7 DEF GoSendInv

(* With every send at rest nothing is behind: what is bound has the number *)
(* of the relation, and the door takes what it stands on.                  *)
LEMMA QuietIsLevel == GoSendInv => QuietIsAdmitted
<1> SUFFICES ASSUME GoSendInv, NEW p \in Parties, failures = 0, gs[p].bound,
                    heirs[Invitation[p]].stage = "spent", Quiet(p)
             PROVE  LET rel == heirs[Invitation[p]]
                    IN gs[p].key \in {rel.H, rel.V} /\ gs[p].edge \in {rel.O, rel.F}
  BY DEF QuietIsAdmitted
<1> DEFINE rel == heirs[Invitation[p]]
<1>1. Invitation[p] \in Heirs /\ rel \in Relation
  BY GoStandingAssumption DEF GoSendInv, GoExchangeInv, DoorInv, DoorTypeOK
<1>2. rel.reach = "answers"
  BY <1>1 DEF GoSendInv, SilentGivesNone, Relation, Reaches
<1>3. BoundBy(p)
  BY DEF GoSendInv, GoExchangeInv, BoundOnlyByOwnKnock
<1>4. \A i \in Slots : way[p][i].stage = "idle"
  BY DEF GoSendInv, SendStands, Quiet
<1>5. rel.high = gs[p].moved
  BY <1>2, <1>3, <1>4 DEF GoSendInv, BehindByAReply, HasItsReply
<1> QED
  BY <1>5 DEF GoSendInv, GoExchangeInv, AdmittedUnlessPassed

(* Sends of one relation carried together, in whatever order the door took *)
(* them and the stand read what came back, leave it in step once all of    *)
(* them came home and nothing was lost, as long as the kit reads the args  *)
(* of its asks (QuietIsAdmitted): an ask whose args it does not read is    *)
(* honoured and answered with silence, which brings nobody up.             *)
THEOREM QuietIsInStep ==
  ASSUME UnreadArgs \subseteq {FALSE}
  PROVE  GoSendSpec => []QuietIsAdmitted
<1>1. GoSendInv /\ [GoSendNext]_goSendVars => GoSendInv'
  BY GoSendInvNext
<1> QED
  BY <1>1, GoSendInvInit, QuietIsLevel, PTL DEF GoSendSpec
=============================================================================
