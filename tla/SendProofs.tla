----------------------------- MODULE SendProofs -----------------------------
(***************************************************************************)
(* What a send leaves behind, proved for any number of heirs, parties,     *)
(* asks, addresses and failures: a standing that is bound is one the door  *)
(* admits, as long as no carrier both delivers late and alters.  With one  *)
(* that does both it is not so, which TLC shows.                           *)
(***************************************************************************)
EXTENDS Send, ExchangeProofs

-----------------------------------------------------------------------------
(* A send is a run of both ends, in one order of its asks, arrivals and    *)
(* reads: what is dialed or late was asked, and what is read was answered. *)

SendKnown ==
  /\ dial \in [Parties -> [at : Nat, stage : {"idle", "asked", "answered"},
                           ask : asks \cup {NoCt},
                           reply : replies \cup {Garbled, Nothing}]]
  /\ \A p \in Parties : dial[p].stage # "idle" => dial[p].ask \in asks
  /\ late \subseteq asks

(* One party's dial changes, to what is known.                             *)
LEMMA KnownStays ==
  ASSUME SendKnown, asks \subseteq asks', replies \subseteq replies',
         late' \subseteq asks', NEW p \in Parties, NEW d,
         dial' = [dial EXCEPT ![p] = d],
         d \in [at : Nat, stage : {"idle", "asked", "answered"},
               ask : asks' \cup {NoCt}, reply : replies' \cup {Garbled, Nothing}],
         d.stage # "idle" => d.ask \in asks'
  PROVE  SendKnown'
<1>1. \A q \in Parties :
        dial[q] \in [at : Nat, stage : {"idle", "asked", "answered"},
                    ask : asks' \cup {NoCt},
                    reply : replies' \cup {Garbled, Nothing}]
  BY DEF SendKnown
<1>2. dial'[p] = d /\ \A q \in Parties \ {p} : dial'[q] = dial[q]
  BY DEF SendKnown
<1>3. dial' \in [Parties -> [at : Nat, stage : {"idle", "asked", "answered"},
                            ask : asks' \cup {NoCt},
                            reply : replies' \cup {Garbled, Nothing}]]
  BY <1>1 DEF SendKnown
<1>4. \A q \in Parties : dial'[q].stage # "idle" => dial'[q].ask \in asks'
  BY <1>2 DEF SendKnown
<1> QED
  BY <1>3, <1>4 DEF SendKnown

LEMMA KnownSteps ==
  ASSUME SendKnown, [SendNext]_sendVars
  PROVE  SendKnown' /\ [ExchangeNext]_exchangeVars
<1> DEFINE Goal == SendKnown' /\ [ExchangeNext]_exchangeVars
<1>1. CASE UNCHANGED sendVars
  BY <1>1 DEF sendVars, exchangeVars, SendKnown
<1>2. CASE WardSteps
  BY <1>2 DEF WardSteps, WardInvites, WardReleases, ExchangeNext, SendKnown
<1>3. ASSUME NEW p \in Parties, NEW unread \in UnreadArgs, SendStarts(p, unread)
      PROVE  Goal
  <2> DEFINE a == [lid |-> st'[p].last.lid, box |-> st'[p].last.box]
  <2>1. /\ asks' = asks \cup {a} /\ replies' = replies /\ late' = late
        /\ dial' = [dial EXCEPT ![p] = Dialing(1, a)]
    BY <1>3 DEF SendStarts, PartyAsks
  <2> HIDE DEF a
  <2>2. SendKnown'
    BY <2>1, KnownStays DEF SendKnown, Dialing
  <2> QED
    BY <1>3, <2>2, SendAssumption DEF SendStarts, ExchangeNext
<1>4. ASSUME NEW p \in Parties, DialArrives(p)
      PROVE  Goal
  <2> DEFINE a == dial[p].ask
             d == [dial[p] EXCEPT !.stage = "answered", !.reply = ReplyTo(a)]
  <2>1. /\ asks' = asks /\ replies' = replies \cup {ReplyTo(a)} /\ late' = late
        /\ dial' = [dial EXCEPT ![p] = d] /\ a \in asks /\ AskArrives(a)
    BY <1>4 DEF DialArrives, AskArrives, SendKnown
  <2>2. /\ d \in [at : Nat, stage : {"idle", "asked", "answered"},
                  ask : asks \cup {NoCt},
                  reply : replies \cup {ReplyTo(a)} \cup {Garbled, Nothing}]
        /\ d.ask = a
    BY DEF SendKnown
  <2> HIDE DEF a, d
  <2>3. SendKnown'
    BY <2>1, <2>2, KnownStays DEF SendKnown
  <2> QED
    BY <2>1, <2>3 DEF ExchangeNext
<1>5. ASSUME NEW p \in Parties, SendReads(p)
      PROVE  Goal
  <2>1. /\ asks' = asks /\ replies' = replies /\ late' = late
        /\ dial' = [dial EXCEPT ![p] = Idle]
        /\ PartyReads(p, dial[p].reply)
        /\ dial[p].reply \in replies \cup {Garbled, Nothing}
    BY <1>5 DEF SendReads, PartyReads, SendKnown
  <2>2. SendKnown'
    BY <2>1, KnownStays DEF SendKnown, Idle
  <2> QED
    BY <2>1, <2>2 DEF ExchangeNext
<1>6. ASSUME NEW p \in Parties, DialGivesUp(p)
      PROVE  Goal
  <2>1. /\ asks' = asks /\ replies' = replies
        /\ dial[p].ask \in asks /\ late' \subseteq asks
    BY <1>6 DEF DialGivesUp, PartyReads, exchangeVars, SendKnown
  <2>2. CASE MoreAddresses(dial[p].at)
    <3> DEFINE d == Dialing(dial[p].at + 1, dial[p].ask)
    <3>1. dial' = [dial EXCEPT ![p] = d] /\ UNCHANGED exchangeVars
      BY <1>6, <2>2 DEF DialGivesUp
    <3>2. /\ d \in [at : Nat, stage : {"idle", "asked", "answered"},
                    ask : asks \cup {NoCt},
                    reply : replies \cup {Garbled, Nothing}]
          /\ d.ask = dial[p].ask
      BY <2>1 DEF Dialing, SendKnown
    <3> HIDE DEF d
    <3>3. SendKnown'
      BY <2>1, <3>1, <3>2, KnownStays
    <3> QED
      BY <3>1, <3>3
  <2>3. CASE ~MoreAddresses(dial[p].at)
    <3>1. dial' = [dial EXCEPT ![p] = Idle] /\ PartyReads(p, Nothing)
      BY <1>6, <2>3 DEF DialGivesUp
    <3>2. SendKnown'
      BY <2>1, <3>1, KnownStays DEF Idle
    <3> QED
      BY <3>1, <3>2 DEF ExchangeNext
  <2> QED
    BY <2>2, <2>3
<1>7. ASSUME NEW p \in Parties, CarrierAlters(p)
      PROVE  Goal
  <2> DEFINE d == [dial[p] EXCEPT !.stage = "answered", !.reply = Garbled]
  <2>1. /\ UNCHANGED exchangeVars /\ asks' = asks /\ replies' = replies
        /\ late' = late /\ dial' = [dial EXCEPT ![p] = d]
        /\ dial[p].ask \in asks
    BY <1>7 DEF CarrierAlters, exchangeVars, SendKnown
  <2>2. /\ d \in [at : Nat, stage : {"idle", "asked", "answered"},
                  ask : asks \cup {NoCt},
                  reply : replies \cup {Garbled, Nothing}]
        /\ d.ask = dial[p].ask
    BY DEF SendKnown
  <2> HIDE DEF d
  <2>3. SendKnown'
    BY <2>1, <2>2, KnownStays DEF SendKnown
  <2> QED
    BY <2>1, <2>3
<1>8. ASSUME NEW a \in late, LateAskArrives(a)
      PROVE  Goal
  <2>1. a \in asks /\ AskArrives(a) /\ asks' = asks
        /\ replies \subseteq replies' /\ UNCHANGED << dial, late >>
    BY <1>8 DEF LateAskArrives, AskArrives, SendKnown
  <2>2. SendKnown'
    BY <2>1 DEF SendKnown
  <2> QED
    BY <2>1, <2>2 DEF ExchangeNext
<1> HIDE DEF Goal
<1> QED
  BY <1>1, <1>2, <1>3, <1>4, <1>5, <1>6, <1>7, <1>8 DEF SendNext, Goal

(* Whatever the carriers do, what the stand's sends (ops.send) do to the   *)
(* standings and the door is something the harness could have played: the  *)
(* sends are a run of Exchange.                                            *)
THEOREM SendIsAnExchange == SendSpec => ExchangeSpec
<1>1. SendInit => SendKnown /\ ExchangeInit
  BY DEF SendInit, SendKnown, Idle
<1>2. SendKnown /\ [SendNext]_sendVars => SendKnown' /\ [ExchangeNext]_exchangeVars
  BY KnownSteps
<1> QED
  BY <1>1, <1>2, PTL DEF SendSpec, ExchangeSpec

(* So the stand keeps the promise of both ends, whoever it dials: an heir  *)
(* is bound to one party for good, and nobody learns of a move that the    *)
(* door did not make for it.                                               *)
THEOREM SendKeepsThePromise == SendSpec => KeepsThePromise
<1> QED
  BY SendIsAnExchange, PromiseKept, PTL

-----------------------------------------------------------------------------
(* The inductive invariant.                                                *)

Asked == [lid : Lids, box : Box(Edge)]

Dials ==
  [at : Nat, stage : {"idle", "asked", "answered"},
   ask : Asked \cup {NoCt}, reply : Reply \cup {Garbled, Nothing}]

(* A carrier that delivers late alters nothing, and the other way round.   *)
OneWrong == ~({"late", "altered"} \subseteq carrier)
Delays == "late" \in carrier

SendFields ==
  /\ carrier \in Carriers /\ OneWrong
  /\ dial \in [Parties -> Dials]
  /\ late \subseteq asks
  /\ ~Delays => late = {}
  /\ \A p \in Parties :
       /\ dial[p].stage = "answered" => dial[p].reply \in replies \cup {Garbled}
       /\ dial[p].reply = Garbled => "altered" \in carrier

(* A standing counts what it sealed, and nothing it seals is faulty.       *)
Counted(a) == a.lid[2] <= st[a.lid[1]].seq /\ a.box.fault = "none"

(* What is dialed is what was asked last: the knock again, or the highest  *)
(* number.                                                                 *)
DialsTheLast(p) ==
  dial[p].stage # "idle" =>
    /\ st[p].phase # "fresh"
    /\ dial[p].ask = AskOf(st[p].last)
    /\ dial[p].ask.box.ct = NoCt => dial[p].ask.lid[2] = st[p].seq

(* The knock kept is a knock, and what is sent after it that is no knock   *)
(* carries no ciphertext.                                                  *)
KindsTell(p) ==
  st[p].phase # "fresh" =>
    /\ st[p].knock.kind = "knock"
    /\ st[p].last.kind # "knock" => st[p].last.box.ct = NoCt

(* Until its relation is bound a standing stands on its knock, and so does *)
(* whatever it sealed.                                                     *)
OnTheKnock(a, p) == a.box.by = Drawn(p, 1) /\ a.box.edge = KnockEdge(Drawn(p, 1))

DoubtStandsStill(p) ==
  st[p].phase = "uncertain" =>
    /\ st[p].signer = Drawn(p, 1) /\ st[p].edge = KnockEdge(Drawn(p, 1))
    /\ \A a \in asks : a.lid[1] = p /\ a.box.ct = NoCt => OnTheKnock(a, p)

(* An heir that no knock binds any more.                                   *)
Dead(h) == Made(h) /\ heirs[h].stage # "fresh"

(* Where dials are late and never altered, whoever went on past its knock  *)
(* knows that the heir was bound, or released: an answer to its knock told *)
(* it.  So a knock sent again binds nothing that a probe could move on.    *)
KnowsItsFate(p) ==
  LET h == Invitation[p]
  IN /\ st[p].phase # "fresh" => Made(h)
     /\ BoundBy(p) => st[p].phase # "fresh"
     /\ Delays => /\ st[p].seq > 1 => Dead(h)
                  /\ dial[p].stage = "answered" => Dead(h)
                  /\ dial[p].stage = "idle" /\ st[p].phase = "uncertain"
                       /\ st[p].probeNext => Dead(h)

(* The asks of a party that may still arrive.                              *)
Underway(p, a) ==
  /\ a.lid[1] = p
  /\ \/ a \in late
     \/ (dial[p].stage # "idle" /\ a = dial[p].ask)

(* The relation admits the keys the standing has, and whatever may still   *)
(* move it is sealed with the same keys, so that it leaves them admitted.  *)
InStep(p) ==
  LET rel == heirs[Invitation[p]]
  IN BoundBy(p) /\ rel.stage = "spent" =>
       /\ st[p].signer \in {rel.H, rel.V} /\ st[p].edge \in {rel.O, rel.F}
       /\ \A a \in asks : Underway(p, a) /\ a.lid[2] > rel.high /\ a.box.ct = NoCt =>
            a.box.by = st[p].signer /\ a.box.edge = st[p].edge

(* While an object waits to be read, the relation admits what it moves the *)
(* standing to, and nothing else of the party's will move it before.       *)
ObjectAwaits(p) ==
  LET rel == heirs[Invitation[p]]
      ask == dial[p].ask
  IN /\ dial[p].stage = "answered" /\ dial[p].reply.text = "object"
     /\ dial[p].reply.lid = ask.lid /\ rel.stage = "spent"
     => /\ BoundBy(p) /\ rel.high = ask.lid[2]
        /\ ask.lid \in {rel.H, rel.V}
        /\ rel.F = Follow(ask.box.edge, dial[p].reply.agreement)
        /\ \A a \in late : a.lid[1] = p => a.lid[2] <= rel.high

PartyInv(p) ==
  /\ DialsTheLast(p) /\ KindsTell(p) /\ DoubtStandsStill(p)
  /\ KnowsItsFate(p) /\ InStep(p) /\ ObjectAwaits(p)

SendInv ==
  /\ ExchangeInv
  /\ SendKnown
  /\ SendFields
  /\ \A a \in asks : Counted(a)
  /\ \A p \in Parties : PartyInv(p)

-----------------------------------------------------------------------------
(* What is dialed is its party's own.                                      *)

LEMMA DialedIsOwn ==
  ASSUME SendInv, NEW p \in Parties, dial[p].stage # "idle"
  PROVE  LET a == dial[p].ask
         IN /\ a \in asks /\ OwnAsk(a) /\ a.lid \in Lids /\ a.lid[1] = p
            /\ a = AskOf(st[p].last) /\ st[p].phase # "fresh"
            /\ a.lid = st[p].last.lid /\ a.box = st[p].last.box
<1>1. PartyInv(p) /\ StandsAsSent(p)
  BY DEF SendInv, ExchangeInv
<1>2. dial[p].ask = AskOf(st[p].last) /\ st[p].phase # "fresh"
  BY <1>1 DEF PartyInv, DialsTheLast
<1>3. AskOf(st[p].last) \in asks /\ st[p].last.lid[1] = p
  BY <1>1, <1>2 DEF StandsAsSent, Knocked
<1>4. OwnAsk(AskOf(st[p].last))
  BY <1>3 DEF SendInv, ExchangeInv
<1> QED
  BY <1>2, <1>3, <1>4 DEF OwnAsk, AskOf

LEMMA SendSteps ==
  ASSUME SendInv, [SendNext]_sendVars
  PROVE  ExchangeInv' /\ SendKnown'
BY KnownSteps, ExchangeInvNext DEF SendInv

-----------------------------------------------------------------------------
(* What no step undoes.                                                    *)

LEMMA MadeStays ==
  ASSUME DoorTypeOK, [DoorNext]_doorVars, NEW h \in Heirs
  PROVE  (Made(h) => Made(h)') /\ (Dead(h) => Dead(h)')
<1>1. CASE UNCHANGED doorVars
  BY <1>1 DEF doorVars, Made, Dead
<1>2. ASSUME NEW g \in Heirs, NEW reach \in Reaches, Invite(g, reach)
      PROVE  (Made(h) => Made(h)') /\ (Dead(h) => Dead(h)')
  <2>1. CASE g = h
    BY <1>2, <2>1 DEF Invite, Made, Dead, DoorTypeOK, FreshRelation
  <2>2. CASE g # h
    BY <1>2, <2>2 DEF Invite, Made, Dead, DoorTypeOK
  <2> QED
    BY <2>1, <2>2
<1>3. ASSUME NEW g \in Heirs, Release(g)
      PROVE  (Made(h) => Made(h)') /\ (Dead(h) => Dead(h)')
  <2>1. CASE g = h
    <3>1. heirs'[h] = NoRelation /\ removed'[h] = KeptOf(heirs[h])
          /\ heirs[h].stage # "absent"
      BY <1>3, <2>1 DEF Release, DoorTypeOK
    <3> QED
      BY <3>1 DEF Made, Dead, NoRelation, KeptOf
  <2>2. CASE g # h
    BY <1>3, <2>2 DEF Release, Made, Dead, DoorTypeOK
  <2> QED
    BY <2>1, <2>2
<1>4. ASSUME NEW b \in Box(EdgesInReach), Arrive(b)
      PROVE  (Made(h) => Made(h)') /\ (Dead(h) => Dead(h)')
  <2>1. CASE Verdict(b) # "choice"
    BY <1>4, <2>1 DEF Arrive, doorVars, Made, Dead
  <2>2. CASE Verdict(b) = "choice"
    <3>1. b.head \in Heirs
      BY <2>2, ChoiceIsHeld
    <3>2. /\ heirs'[b.head].stage = "spent"
          /\ \A g \in Heirs \ {b.head} : heirs'[g] = heirs[g]
          /\ removed' = removed
      BY <1>4, <2>2, <3>1, ChoiceWrites, MovedIs
    <3> QED
      BY <3>1, <3>2 DEF Made, Dead
  <2> QED
    BY <2>1, <2>2
<1> QED
  BY <1>1, <1>2, <1>3, <1>4 DEF DoorNext

(* A party that did nothing, of whose asks no new one is under way, stays  *)
(* as it was while the door rests.                                         *)
LEMMA PartyRests ==
  ASSUME NEW q \in Parties, PartyInv(q),
         UNCHANGED << heirs, removed, honoured, carrier >>,
         st'[q] = st[q], dial'[q] = dial[q],
         \A a \in asks' : a.lid[1] = q => a \in asks,
         \A a \in late' : a.lid[1] = q => a \in late
  PROVE  PartyInv(q)'
<1>1. DialsTheLast(q)' /\ KindsTell(q)' /\ DoubtStandsStill(q)'
  BY DEF PartyInv, DialsTheLast, KindsTell, DoubtStandsStill, OnTheKnock
<1>2. KnowsItsFate(q)'
  BY DEF PartyInv, KnowsItsFate, Made, Dead, Delays, BoundBy
<1>3. InStep(q)'
  BY DEF PartyInv, InStep, Underway, BoundBy
<1>4. ObjectAwaits(q)'
  BY DEF PartyInv, ObjectAwaits, BoundBy
<1> QED
  BY <1>1, <1>2, <1>3, <1>4 DEF PartyInv

-----------------------------------------------------------------------------
(* A send starts.                                                          *)

(* What the ask leaves the standing: the knock again, the first knock, or  *)
(* a box sealed anew under the keys it stands on.                          *)
AsksAgain(s, t) ==
  /\ s.phase = "uncertain" /\ t.phase = "uncertain" /\ t.seq = s.seq
  /\ t.signer = s.signer /\ t.edge = s.edge
  /\ t.knock = s.knock /\ t.last = s.knock

AsksFirst(p, s, t) ==
  /\ s.phase = "fresh" /\ t.phase = "uncertain" /\ t.seq = 1
  /\ t.signer = Drawn(p, 1) /\ t.edge = KnockEdge(Drawn(p, 1))
  /\ t.knock = t.last /\ t.last.kind = "knock" /\ t.last.lid = Drawn(p, 1)
  /\ t.last.box.ct = Drawn(p, 1) /\ t.last.box.fault = "none"

AsksAnew(p, s, t) ==
  /\ s.phase \in {"uncertain", "bound"} /\ t.phase = s.phase
  /\ s.phase = "uncertain" => s.probeNext
  /\ t.seq = s.seq + 1 /\ t.signer = s.signer /\ t.edge = s.edge
  /\ t.knock = s.knock /\ t.last.kind # "knock"
  /\ t.last.lid = Drawn(p, t.seq)
  /\ t.last.box.ct = NoCt /\ t.last.box.fault = "none"
  /\ t.last.box.by = s.signer /\ t.last.box.edge = s.edge

LEMMA AsksAs ==
  ASSUME ExchangeInv, NEW p \in Parties, NEW unread \in BOOLEAN,
         StandingAsk(p, unread), NEW s, s = st[p], NEW t, t = st'[p]
  PROVE  AsksAgain(s, t) \/ AsksFirst(p, s, t) \/ AsksAnew(p, s, t)
<1> DEFINE sent == NextSent(p, unread)
<1>1. /\ s \in StandingFields /\ StandsAsSent(p)
      /\ t = AfterAsk(s, sent)
  BY DEF ExchangeInv, StandingAsk
<1>2. CASE Resends(p)
  <2>1. s.phase = "uncertain" /\ ~s.probeNext /\ sent = s.knock
    BY <1>2 DEF Resends, NextSent
  <2>2. t = [s EXCEPT !.probeNext = TRUE, !.last = s.knock]
    BY <1>1, <2>1 DEF AfterAsk
  <2> QED
    BY <1>1, <2>1, <2>2 DEF AsksAgain, StandingFields
<1>3. CASE ~Resends(p)
  <2> DEFINE n == s.seq + 1
  <2>1. sent = Sealed(p, unread) /\ s.seq < MaxAsks /\ sent \in Sent
    BY <1>3, SealedIsOwn DEF NextSent, StandingAsk
  <2>2. Drawn(p, n) # NoCt
    <3>1. n \in 1..MaxAsks
      BY <1>1, <2>1, StandingAssumption, BoxesAssumption DEF StandingFields
    <3> QED
      BY <3>1, DrawnIsALid, LidFacts
  <2>3. /\ sent.kind = KindOf[s.phase] /\ sent.lid = Drawn(p, n)
        /\ sent.box.by = s.signer /\ sent.box.next = Drawn(p, n)
        /\ sent.box.seq = n /\ sent.box.fault = "none"
        /\ sent.box.ct = IF s.phase = "fresh" THEN Drawn(p, n) ELSE NoCt
        /\ sent.box.edge = IF s.phase = "fresh" THEN KnockEdge(Drawn(p, n))
                                                ELSE s.edge
    BY <2>1, <2>2 DEF Sealed, SealAsk
  <2> HIDE DEF sent
  <2>4. CASE s.phase = "fresh"
    <3>1. n = 1
      BY <1>1, <2>4 DEF StandsAsSent, NotKnocked
    <3>2. t = [s EXCEPT !.seq = sent.box.seq, !.knock = sent, !.last = sent,
                  !.edge = sent.box.edge, !.signer = sent.box.next,
                  !.phase = "uncertain", !.probeNext = TRUE]
      BY <1>1, <2>4 DEF AfterAsk, AfterKnock
    <3>3. KindOf["fresh"] = "knock"
      BY DEF KindOf
    <3> QED
      BY <1>1, <2>3, <2>4, <3>1, <3>2, <3>3 DEF AsksFirst, StandingFields
  <2>5. CASE s.phase = "uncertain"
    <3>1. s.probeNext
      BY <1>3, <2>5 DEF Resends
    <3>2. t = [s EXCEPT !.seq = sent.box.seq, !.probeNext = FALSE, !.last = sent]
      BY <1>1, <2>5, <3>1 DEF AfterAsk
    <3>3. KindOf["uncertain"] = "probe"
      BY DEF KindOf
    <3>4. /\ t.phase = s.phase /\ t.seq = n /\ t.signer = s.signer
          /\ t.edge = s.edge /\ t.knock = s.knock /\ t.last = sent
      BY <1>1, <2>3, <3>2 DEF StandingFields
    <3> QED
      BY <2>3, <2>5, <3>1, <3>3, <3>4 DEF AsksAnew
  <2>6. CASE s.phase = "bound"
    <3>1. t = [s EXCEPT !.seq = sent.box.seq, !.last = sent]
      BY <1>1, <2>6 DEF AfterAsk
    <3>2. KindOf["bound"] = "ask"
      BY DEF KindOf
    <3>3. /\ t.phase = s.phase /\ t.seq = n /\ t.signer = s.signer
          /\ t.edge = s.edge /\ t.knock = s.knock /\ t.last = sent
      BY <1>1, <2>3, <3>1 DEF StandingFields
    <3> QED
      BY <2>3, <2>6, <3>2, <3>3 DEF AsksAnew
  <2> QED
    BY <1>1, <2>4, <2>5, <2>6 DEF StandingFields
<1> QED
  BY <1>2, <1>3

LEMMA StartKeepsOwn ==
  ASSUME SendInv, NEW p \in Parties, NEW unread \in BOOLEAN,
         SendStarts(p, unread), NEW a, a = AskOf(st'[p].last)
  PROVE  /\ PartyInv(p)' /\ st[p].seq <= st'[p].seq
         /\ Counted(a)' /\ a.lid[1] = p
<1> DEFINE h == Invitation[p]
<1> SUFFICES ASSUME NEW s, s = st[p], NEW t, t = st'[p]
             PROVE  /\ PartyInv(p)' /\ s.seq <= t.seq
                    /\ Counted(a)' /\ a.lid[1] = p
  OBVIOUS
<1>1. /\ PartyInv(p) /\ StandsAsSent(p) /\ ExchangeInv /\ s \in StandingFields
      /\ h \in Heirs
  BY StandingAssumption DEF SendInv, ExchangeInv
<1>2. /\ UNCHANGED << heirs, removed, honoured, carrier, late >>
      /\ asks' = asks \cup {a}
      /\ dial[p].stage = "idle"
      /\ dial'[p].stage = "asked" /\ dial'[p].ask = a
      /\ Made(h)
  BY DEF SendStarts, PartyAsks, SendInv, SendFields, Idle, Dialing, AskOf
<1>3. AsksAgain(s, t) \/ AsksFirst(p, s, t) \/ AsksAnew(p, s, t)
  BY <1>1, AsksAs DEF SendStarts, PartyAsks
<1>4. \A x \in asks : Counted(x) /\ OwnAsk(x) /\ x.lid \in Lids
  BY DEF SendInv, ExchangeInv, OwnAsk
<1>5. s.seq \in Nat
  BY <1>1, StandingAssumption, BoxesAssumption DEF StandingFields
<1>6. a.lid = t.last.lid /\ a.box = t.last.box
  BY DEF AskOf
<1>7. t.phase # "fresh" /\ s.seq <= t.seq
  BY <1>1, <1>3, <1>5 DEF StandsAsSent, NotKnocked, AsksAgain, AsksFirst, AsksAnew
<1>8. AsksAgain(s, t) => /\ a \in asks /\ a.lid = Drawn(p, 1) /\ a.box.ct # NoCt
                         /\ s.seq > 0
  <2> SUFFICES ASSUME AsksAgain(s, t)
               PROVE  /\ a \in asks /\ a.lid = Drawn(p, 1) /\ a.box.ct # NoCt
                      /\ s.seq > 0
    OBVIOUS
  <2>1. Knocked(p)
    BY <1>1 DEF AsksAgain, StandsAsSent
  <2>2. a \in asks /\ a.lid = Drawn(p, 1) /\ s.seq > 0
    BY <2>1 DEF Knocked, AsksAgain, AskOf
  <2>3. OwnAsk(a) /\ a.lid \in Lids /\ a.lid # NoCt /\ a.lid[2] = 1
    BY <1>4, <2>2, LidFacts DEF Drawn
  <2>4. IsKnock(a)
    BY <2>3 DEF OwnAsk, FollowsKnock
  <2> QED
    BY <2>2, <2>3, <2>4 DEF IsKnock
<1>9. AsksFirst(p, s, t) => /\ a.lid = Drawn(p, 1) /\ a.box.ct # NoCt
                            /\ a.box.fault = "none" /\ t.seq = 1 /\ s.seq = 0
  <2> SUFFICES ASSUME AsksFirst(p, s, t)
               PROVE  /\ a.lid = Drawn(p, 1) /\ a.box.ct # NoCt
                      /\ a.box.fault = "none" /\ t.seq = 1 /\ s.seq = 0
    OBVIOUS
  <2>1. Drawn(p, 1) # NoCt
    <3>1. 1 \in 1..MaxAsks
      BY StandingAssumption, BoxesAssumption
    <3> QED
      BY <3>1, DrawnIsALid, LidFacts
  <2> QED
    BY <1>1, <1>6, <2>1 DEF AsksFirst, StandsAsSent, NotKnocked
<1>10. AsksAnew(p, s, t) => /\ a.lid = Drawn(p, t.seq) /\ a.box.ct = NoCt
                            /\ a.box.fault = "none"
                            /\ a.box.by = s.signer /\ a.box.edge = s.edge
  BY <1>6 DEF AsksAnew
<1>11. a.lid[1] = p /\ a.lid[2] <= t.seq /\ a.box.fault = "none"
  <2>1. CASE AsksAgain(s, t)
    BY <1>4, <1>5, <1>8, <2>1 DEF Counted, AsksAgain, Drawn
  <2>2. CASE AsksFirst(p, s, t)
    BY <1>9, <2>2 DEF Drawn
  <2>3. CASE AsksAnew(p, s, t)
    BY <1>5, <1>10, <2>3 DEF Drawn, AsksAnew
  <2> QED
    BY <1>3, <2>1, <2>2, <2>3
<1>12. Counted(a)'
  BY <1>11 DEF Counted
<1>13. DialsTheLast(p)'
  <2>1. a.box.ct = NoCt => a.lid[2] = t.seq
    BY <1>3, <1>8, <1>9, <1>10 DEF Drawn
  <2> QED
    BY <1>2, <1>7, <2>1 DEF DialsTheLast
<1>14. KindsTell(p)'
  BY <1>1, <1>3, <1>6, <1>10
     DEF KindsTell, PartyInv, AsksAgain, AsksFirst, AsksAnew
<1>15. DoubtStandsStill(p)'
  <2> SUFFICES ASSUME t.phase = "uncertain"
               PROVE  /\ t.signer = Drawn(p, 1) /\ t.edge = KnockEdge(Drawn(p, 1))
                      /\ \A x \in asks \cup {a} :
                           x.lid[1] = p /\ x.box.ct = NoCt => OnTheKnock(x, p)
    BY <1>2 DEF DoubtStandsStill, OnTheKnock
  <2>1. s.phase = "uncertain" =>
          /\ s.signer = Drawn(p, 1) /\ s.edge = KnockEdge(Drawn(p, 1))
          /\ \A x \in asks : x.lid[1] = p /\ x.box.ct = NoCt => OnTheKnock(x, p)
    BY <1>1 DEF PartyInv, DoubtStandsStill
  <2>2. CASE AsksAgain(s, t)
    BY <1>8, <2>1, <2>2 DEF AsksAgain
  <2>3. CASE AsksFirst(p, s, t)
    <3>1. \A x \in asks : x.lid[1] # p
      BY <1>4, <1>9, <2>3, LidFacts DEF Counted
    <3> QED
      BY <1>9, <2>3, <3>1 DEF AsksFirst
  <2>4. CASE AsksAnew(p, s, t)
    BY <1>10, <2>1, <2>4 DEF AsksAnew, OnTheKnock
  <2> QED
    BY <1>3, <2>2, <2>3, <2>4
<1>16. KnowsItsFate(p)'
  <2>1. BoundBy(p) => s.phase # "fresh"
    BY <1>1 DEF PartyInv, KnowsItsFate
  <2>2. Delays /\ t.seq > 1 => Dead(h)
    <3> SUFFICES ASSUME Delays, t.seq > 1 PROVE Dead(h)
      OBVIOUS
    <3>1. Made(h) /\ (s.seq > 1 => Dead(h))
          /\ (s.phase = "uncertain" /\ s.probeNext => Dead(h))
      BY <1>1, <1>2 DEF PartyInv, KnowsItsFate
    <3>2. s.phase = "bound" => Dead(h)
      <4> SUFFICES ASSUME s.phase = "bound" PROVE Dead(h)
        OBVIOUS
      <4>1. honoured[h] # << >>
        BY DEF SendInv, ExchangeInv, BoundOnlyByOwnKnock, BoundBy
      <4>2. heirs[h].stage # "fresh"
        BY <1>1, <4>1 DEF ExchangeInv, DoorInv, StartsEmpty
      <4> QED
        BY <3>1, <4>2 DEF Dead
    <3> QED
      BY <1>3, <3>1, <3>2 DEF AsksAgain, AsksFirst, AsksAnew
  <2> QED
    BY <1>2, <1>7, <2>2 DEF KnowsItsFate, Made, Dead, BoundBy, Delays
<1>17. InStep(p)'
  <2>1. BoundBy(p) => s.phase # "fresh"
    BY <1>1 DEF PartyInv, KnowsItsFate
  <2>2. CASE BoundBy(p) /\ heirs[h].stage = "spent"
    <3>1. ~AsksFirst(p, s, t)
      BY <2>1, <2>2 DEF AsksFirst
    <3>2. t.signer = s.signer /\ t.edge = s.edge
      BY <1>3, <3>1 DEF AsksAgain, AsksAnew
    <3>3. a.box.ct = NoCt => a.box.by = s.signer /\ a.box.edge = s.edge
      BY <1>3, <1>8, <1>10, <3>1
    <3>4. \A x \in asks' : Underway(p, x)' => Underway(p, x) \/ x = a
      BY <1>2 DEF Underway
    <3>5. \A x \in asks : Underway(p, x) /\ x.lid[2] > heirs[h].high
                            /\ x.box.ct = NoCt =>
                          x.box.by = s.signer /\ x.box.edge = s.edge
      BY <1>1, <2>2 DEF PartyInv, InStep
    <3>6. /\ s.signer \in {heirs[h].H, heirs[h].V}
          /\ s.edge \in {heirs[h].O, heirs[h].F}
      BY <1>1, <2>2 DEF PartyInv, InStep
    <3> QED
      BY <1>2, <3>2, <3>3, <3>4, <3>5, <3>6 DEF InStep
  <2>3. CASE ~(BoundBy(p) /\ heirs[h].stage = "spent")
    BY <1>2, <2>3 DEF InStep, BoundBy
  <2> QED
    BY <2>2, <2>3
<1>18. ObjectAwaits(p)'
  BY <1>2 DEF ObjectAwaits
<1> QED
  BY <1>7, <1>11, <1>12, <1>13, <1>14, <1>15, <1>16, <1>17, <1>18 DEF PartyInv

LEMMA StartKeeps ==
  ASSUME SendInv, NEW p \in Parties, NEW unread \in BOOLEAN,
         SendStarts(p, unread), ExchangeInv'
  PROVE  /\ SendFields' /\ (\A a \in asks' : Counted(a)')
         /\ \A q \in Parties : PartyInv(q)'
<1> SUFFICES ASSUME NEW a, a = AskOf(st'[p].last)
             PROVE  /\ SendFields' /\ (\A x \in asks' : Counted(x)')
                    /\ \A q \in Parties : PartyInv(q)'
  OBVIOUS
<1>1. /\ UNCHANGED << heirs, removed, honoured, carrier, late, replies >>
      /\ asks' = asks \cup {a}
      /\ dial' = [dial EXCEPT ![p] = Dialing(1, a)]
      /\ \A q \in Parties \ {p} : st'[q] = st[q]
  BY DEF SendStarts, PartyAsks, StandingAsk, SendInv, ExchangeInv, AskOf
<1>2. PartyInv(p)' /\ st[p].seq <= st'[p].seq /\ Counted(a)' /\ a.lid[1] = p
  BY StartKeepsOwn
<1>3. /\ dial \in [Parties -> Dials]
      /\ dial'[p] = Dialing(1, a)
      /\ \A q \in Parties \ {p} : dial'[q] = dial[q]
  BY <1>1 DEF SendInv, SendFields
<1>4. SendFields'
  <2>1. a \in Asked
    <3>1. OwnAsk(a)
      BY <1>1 DEF ExchangeInv
    <3> QED
      BY <3>1 DEF OwnAsk, AskOf, Asked
  <2>2. Dialing(1, a) \in Dials
    BY <2>1 DEF Dialing, Dials
  <2>3. dial' \in [Parties -> Dials]
    BY <1>1, <1>3, <2>2
  <2>4. Dialing(1, a).stage = "asked" /\ Dialing(1, a).reply # Garbled
    BY DEF Dialing, Nothing, Garbled
  <2> HIDE DEF Dialing
  <2>5. \A q \in Parties :
          /\ dial'[q].stage = "answered" => dial'[q].reply \in replies \cup {Garbled}
          /\ dial'[q].reply = Garbled => "altered" \in carrier
    BY <1>3, <2>4 DEF SendInv, SendFields
  <2> QED
    BY <1>1, <2>3, <2>5 DEF SendInv, SendFields, OneWrong, Delays
<1>5. \A x \in asks' : Counted(x)'
  <2> SUFFICES ASSUME NEW x \in asks, x # a PROVE Counted(x)'
    BY <1>1, <1>2
  <2>1. Counted(x) /\ x.lid[1] \in Parties /\ x.lid[2] \in Nat
    BY DEF SendInv, ExchangeInv, OwnAsk, Lids
  <2>2. CASE x.lid[1] = p
    <3>1. st[p].seq \in Nat /\ st'[p].seq \in Nat
      BY StandingAssumption, BoxesAssumption
         DEF SendInv, ExchangeInv, StandingFields
    <3> QED
      BY <1>2, <2>1, <2>2, <3>1 DEF Counted
  <2>3. CASE x.lid[1] # p
    BY <1>1, <2>1, <2>3 DEF Counted
  <2> QED
    BY <2>2, <2>3
<1>6. \A q \in Parties \ {p} : PartyInv(q)'
  <2> SUFFICES ASSUME NEW q \in Parties \ {p} PROVE PartyInv(q)'
    OBVIOUS
  <2>1. PartyInv(q)
    BY DEF SendInv
  <2>2. st'[q] = st[q] /\ dial'[q] = dial[q]
    BY <1>1, <1>3
  <2>3. \A x \in asks' : x.lid[1] = q => x \in asks
    BY <1>1, <1>2
  <2> QED
    BY <1>1, <2>1, <2>2, <2>3, PartyRests
<1> QED
  BY <1>2, <1>4, <1>5, <1>6

-----------------------------------------------------------------------------
(* A send reads, gives up or is altered: the door rests.                   *)

(* What the reading leaves the standing.                                   *)
Moves(p, s, t) ==
  /\ dial[p].reply.text = "object" /\ dial[p].reply.lid = dial[p].ask.lid
  /\ t.phase = "bound" /\ t.seq = s.seq
  /\ t.knock = s.knock /\ t.last = s.last
  /\ t.signer = dial[p].ask.lid
  /\ t.edge = Follow(dial[p].ask.box.edge, dial[p].reply.agreement)

StaysPut(s, t) ==
  /\ t.phase \in {s.phase, "bound"} /\ t.seq = s.seq
  /\ t.knock = s.knock /\ t.last = s.last
  /\ t.signer = s.signer /\ t.edge = s.edge

LEMMA ReadsAs ==
  ASSUME SendInv, NEW p \in Parties, SendReads(p),
         NEW s, s = st[p], NEW t, t = st'[p]
  PROVE  Moves(p, s, t) \/ StaysPut(s, t)
<1> DEFINE reply == dial[p].reply
           kind == ReadKind(s.last, reply)
<1>1. /\ s \in StandingFields /\ t = AfterRead(s, reply)
      /\ reply \in replies \cup {Garbled, Nothing}
  BY DEF SendInv, ExchangeInv, SendReads, PartyReads, StandingRead, SendFields
<1>2. LET a == dial[p].ask
      IN /\ a.lid = s.last.lid /\ a.box = s.last.box
         /\ OwnAsk(a) /\ s.last \in Sent
  <2>1. dial[p].stage # "idle"
    BY DEF SendReads
  <2>2. s.last \in Sent
    BY <2>1, DialedIsOwn DEF SendInv, ExchangeInv, StandsAsSent, Knocked
  <2> QED
    BY <2>1, <2>2, DialedIsOwn
<1>3. CASE MovesOn(s, kind)
  <2>1. t = [s EXCEPT !.moved = s.last.box.seq, !.phase = "bound",
                      !.signer = s.last.box.next,
                      !.edge = Follow(s.last.box.edge, reply.agreement)]
    BY <1>1, <1>3 DEF AfterRead, AfterObject
  <2>2. reply.text = "object" /\ reply.lid = s.last.lid
    BY <1>1, <1>2, <1>3, ReadMeans DEF MovesOn, SendInv, ExchangeInv
  <2>3. s.last.box.next = s.last.lid
    BY <1>2 DEF OwnAsk
  <2>4. /\ t.phase = "bound" /\ t.seq = s.seq
        /\ t.knock = s.knock /\ t.last = s.last /\ t.signer = s.last.box.next
        /\ t.edge = Follow(s.last.box.edge, reply.agreement)
    BY <1>1, <2>1 DEF StandingFields
  <2> QED
    BY <1>2, <2>2, <2>3, <2>4 DEF Moves
<1>4. CASE ~MovesOn(s, kind)
  <2>1. \/ t = s \/ t = [s EXCEPT !.phase = "bound"]
        \/ \E x \in BOOLEAN : t = [s EXCEPT !.probeNext = x]
    BY <1>1, <1>4 DEF AfterRead
  <2> QED
    BY <1>1, <2>1 DEF StaysPut, StandingFields
<1> QED
  BY <1>3, <1>4

(* Whatever the dial becomes, the rest of the parties rest.                *)
LEMMA OthersRest ==
  ASSUME SendInv, NEW p \in Parties, NEW d \in Dials,
         UNCHANGED << heirs, removed, honoured, carrier, asks >>,
         \A q \in Parties \ {p} : st'[q] = st[q],
         dial' = [dial EXCEPT ![p] = d],
         \A a \in late' : a \in late \/ a.lid[1] = p
  PROVE  \A q \in Parties \ {p} : PartyInv(q)'
<1> SUFFICES ASSUME NEW q \in Parties \ {p} PROVE PartyInv(q)'
  OBVIOUS
<1>1. PartyInv(q)
  BY DEF SendInv
<1>2. dial'[q] = dial[q]
  BY DEF SendInv, SendFields
<1>3. \A a \in late' : a.lid[1] = q => a \in late
  OBVIOUS
<1> QED
  BY <1>1, <1>2, <1>3, PartyRests

LEMMA CountStays ==
  ASSUME SendInv, UNCHANGED asks,
         \A q \in Parties : st'[q].seq = st[q].seq
  PROVE  \A a \in asks' : Counted(a)'
<1> SUFFICES ASSUME NEW a \in asks PROVE Counted(a)'
  OBVIOUS
<1>1. Counted(a) /\ a.lid[1] \in Parties
  BY DEF SendInv, ExchangeInv, OwnAsk, Lids
<1> QED
  BY <1>1 DEF Counted

LEMMA IdleIsADial ==
  /\ Idle \in Dials /\ Idle.stage = "idle" /\ Idle.reply # Garbled
BY DEF Idle, Dials, Nothing, Garbled

LEMMA ReadKeepsSend ==
  ASSUME SendInv, NEW p \in Parties, SendReads(p)
  PROVE  /\ SendFields' /\ (\A a \in asks' : Counted(a)')
         /\ \A q \in Parties : PartyInv(q)'
<1> DEFINE h == Invitation[p]
<1> SUFFICES ASSUME NEW s, s = st[p], NEW t, t = st'[p]
             PROVE  /\ SendFields' /\ (\A a \in asks' : Counted(a)')
                    /\ \A q \in Parties : PartyInv(q)'
  OBVIOUS
<1>1. /\ UNCHANGED << heirs, removed, honoured, asks, replies, carrier, late >>
      /\ dial' = [dial EXCEPT ![p] = Idle]
      /\ \A q \in Parties \ {p} : st'[q] = st[q]
      /\ dial[p].stage = "answered"
  BY DEF SendReads, PartyReads, StandingRead, SendInv, ExchangeInv
<1>2. dial' \in [Parties -> Dials] /\ dial'[p] = Idle
      /\ \A q \in Parties \ {p} : dial'[q] = dial[q]
  BY <1>1, IdleIsADial DEF SendInv, SendFields
<1>3. PartyInv(p) /\ s.phase # "fresh"
  BY <1>1, DialedIsOwn DEF SendInv
<1>4. Moves(p, s, t) \/ StaysPut(s, t)
  BY ReadsAs
<1>5. t.seq = s.seq /\ t.phase \in {s.phase, "bound"}
      /\ t.knock = s.knock /\ t.last = s.last
  BY <1>4 DEF Moves, StaysPut
<1>6. SendFields'
  BY <1>1, <1>2, IdleIsADial DEF SendInv, SendFields, OneWrong, Delays
<1>7. \A a \in asks' : Counted(a)'
  BY <1>1, <1>5, CountStays
<1>8. \A q \in Parties \ {p} : PartyInv(q)'
  BY <1>1, OthersRest, IdleIsADial
<1>9. PartyInv(p)'
  <2>1. DialsTheLast(p)' /\ ObjectAwaits(p)'
    BY <1>2, IdleIsADial DEF DialsTheLast, ObjectAwaits
  <2>2. KindsTell(p)'
    BY <1>3, <1>5 DEF PartyInv, KindsTell
  <2>3. DoubtStandsStill(p)'
    <3>1. CASE Moves(p, s, t)
      BY <3>1 DEF Moves, DoubtStandsStill
    <3>2. CASE StaysPut(s, t)
      BY <1>1, <1>3, <3>2 DEF StaysPut, PartyInv, DoubtStandsStill, OnTheKnock
    <3> QED
      BY <1>4, <3>1, <3>2
  <2>4. KnowsItsFate(p)'
    <3>1. /\ Made(h) /\ (Delays => Dead(h))
      BY <1>1, <1>3 DEF PartyInv, KnowsItsFate
    <3>2. t.phase # "fresh"
      BY <1>3, <1>5
    <3> QED
      BY <1>1, <3>1, <3>2 DEF KnowsItsFate, Made, Dead, Delays, BoundBy
  <2>5. InStep(p)'
    <3>1. CASE BoundBy(p) /\ heirs[h].stage = "spent"
      <4>1. \A a : Underway(p, a)' => a \in late /\ a.lid[1] = p
        BY <1>1, <1>2, IdleIsADial DEF Underway
      <4>2. CASE Moves(p, s, t)
        <5>1. /\ heirs[h].high = dial[p].ask.lid[2]
              /\ dial[p].ask.lid \in {heirs[h].H, heirs[h].V}
              /\ heirs[h].F = Follow(dial[p].ask.box.edge, dial[p].reply.agreement)
              /\ \A a \in late : a.lid[1] = p => a.lid[2] <= heirs[h].high
          BY <1>1, <1>3, <3>1, <4>2 DEF Moves, PartyInv, ObjectAwaits
        <5>2. \A a \in late : a.lid[1] = p => ~(a.lid[2] > heirs[h].high)
          <6>1. heirs[h].high \in Nat
            BY StandingAssumption
               DEF SendInv, ExchangeInv, DoorInv, DoorTypeOK, Relation
          <6>2. \A a \in late : a.lid[2] \in Nat
            BY DEF SendInv, SendFields, ExchangeInv, OwnAsk, Lids
          <6> QED
            BY <5>1, <6>1, <6>2
        <5>3. t.signer = dial[p].ask.lid /\ t.edge = heirs[h].F
          BY <4>2, <5>1 DEF Moves
        <5> QED
          BY <1>1, <4>1, <5>1, <5>2, <5>3 DEF InStep
      <4>3. CASE StaysPut(s, t)
        <5>1. t.signer = s.signer /\ t.edge = s.edge
          BY <4>3 DEF StaysPut
        <5>2. \A a : Underway(p, a)' => Underway(p, a)
          BY <4>1 DEF Underway
        <5>3. /\ s.signer \in {heirs[h].H, heirs[h].V}
              /\ s.edge \in {heirs[h].O, heirs[h].F}
              /\ \A a \in asks : Underway(p, a) /\ a.lid[2] > heirs[h].high
                                   /\ a.box.ct = NoCt =>
                                 a.box.by = s.signer /\ a.box.edge = s.edge
          BY <1>3, <3>1 DEF PartyInv, InStep
        <5> QED
          BY <1>1, <5>1, <5>2, <5>3 DEF InStep
      <4> QED
        BY <1>4, <4>2, <4>3
    <3>2. CASE ~(BoundBy(p) /\ heirs[h].stage = "spent")
      BY <1>1, <3>2 DEF InStep, BoundBy
    <3> QED
      BY <3>1, <3>2
  <2> QED
    BY <2>1, <2>2, <2>3, <2>4, <2>5 DEF PartyInv
<1> QED
  BY <1>6, <1>7, <1>8, <1>9

LEMMA AltersKeepsSend ==
  ASSUME SendInv, NEW p \in Parties, CarrierAlters(p)
  PROVE  /\ SendFields' /\ (\A a \in asks' : Counted(a)')
         /\ \A q \in Parties : PartyInv(q)'
<1> DEFINE d == [dial[p] EXCEPT !.stage = "answered", !.reply = Garbled]
<1>1. /\ UNCHANGED << heirs, removed, honoured, st, asks, replies, carrier, late >>
      /\ dial' = [dial EXCEPT ![p] = d]
      /\ "altered" \in carrier /\ ~Delays
      /\ dial[p].stage # "idle" /\ dial[p] \in Dials
  BY DEF CarrierAlters, exchangeVars, SendInv, SendFields, OneWrong, Delays
<1>2. /\ d \in Dials /\ d.stage = "answered" /\ d.reply = Garbled
      /\ d.ask = dial[p].ask
  BY <1>1 DEF Dials
<1> HIDE DEF d
<1>3. dial' \in [Parties -> Dials] /\ dial'[p] = d
      /\ \A q \in Parties \ {p} : dial'[q] = dial[q]
  BY <1>1, <1>2 DEF SendInv, SendFields
<1>4. SendFields'
  BY <1>1, <1>2, <1>3 DEF SendInv, SendFields, OneWrong, Delays
<1>5. \A a \in asks' : Counted(a)'
  BY <1>1, CountStays
<1>6. \A q \in Parties \ {p} : PartyInv(q)'
  BY <1>1, <1>2, OthersRest
<1>7. PartyInv(p)'
  <2>1. PartyInv(p)
    BY DEF SendInv
  <2>2. DialsTheLast(p)'
    BY <1>1, <1>2, <1>3, <2>1 DEF PartyInv, DialsTheLast
  <2>3. KindsTell(p)' /\ DoubtStandsStill(p)'
    BY <1>1, <2>1 DEF PartyInv, KindsTell, DoubtStandsStill, OnTheKnock
  <2>4. KnowsItsFate(p)'
    BY <1>1, <2>1 DEF PartyInv, KnowsItsFate, Made, Dead, Delays, BoundBy
  <2>5. InStep(p)'
    BY <1>1, <1>2, <1>3, <2>1 DEF PartyInv, InStep, Underway, BoundBy
  <2>6. ObjectAwaits(p)'
    BY <1>2, <1>3 DEF ObjectAwaits, Garbled
  <2> QED
    BY <2>2, <2>3, <2>4, <2>5, <2>6 DEF PartyInv
<1> QED
  BY <1>4, <1>5, <1>6, <1>7

(* The next address is dialed, with the same bytes.                        *)
LEMMA RedialKeepsSend ==
  ASSUME SendInv, NEW p \in Parties, DialGivesUp(p), MoreAddresses(dial[p].at)
  PROVE  /\ SendFields' /\ (\A a \in asks' : Counted(a)')
         /\ \A q \in Parties : PartyInv(q)'
<1> DEFINE d == Dialing(dial[p].at + 1, dial[p].ask)
<1>1. /\ UNCHANGED << heirs, removed, honoured, st, asks, replies, carrier >>
      /\ dial' = [dial EXCEPT ![p] = d]
      /\ late' = late \/ (Delays /\ late' = late \cup {dial[p].ask})
      /\ dial[p].stage # "idle" /\ dial[p] \in Dials
  BY DEF DialGivesUp, exchangeVars, SendInv, SendFields, Delays
<1>2. dial[p].ask \in asks /\ dial[p].ask.lid[1] = p
  BY <1>1, DialedIsOwn
<1>3. /\ d \in Dials /\ d.stage = "asked" /\ d.reply # Garbled
      /\ d.ask = dial[p].ask
  BY <1>1 DEF Dials, Dialing, Nothing, Garbled
<1> HIDE DEF d
<1>4. dial' \in [Parties -> Dials] /\ dial'[p] = d
      /\ \A q \in Parties \ {p} : dial'[q] = dial[q]
  BY <1>1, <1>3 DEF SendInv, SendFields
<1>5. SendFields'
  <2>1. late' \subseteq asks' /\ (~Delays' => late' = {})
    BY <1>1, <1>2 DEF SendInv, SendFields, Delays
  <2>2. \A q \in Parties :
          /\ dial'[q].stage = "answered" => dial'[q].reply \in replies \cup {Garbled}
          /\ dial'[q].reply = Garbled => "altered" \in carrier
    BY <1>3, <1>4 DEF SendInv, SendFields
  <2> QED
    BY <1>1, <1>4, <2>1, <2>2 DEF SendInv, SendFields, OneWrong
<1>6. \A a \in asks' : Counted(a)'
  BY <1>1, CountStays
<1>7. \A q \in Parties \ {p} : PartyInv(q)'
  BY <1>1, <1>2, <1>3, OthersRest
<1>8. PartyInv(p)'
  <2>1. PartyInv(p)
    BY DEF SendInv
  <2>2. DialsTheLast(p)'
    BY <1>1, <1>3, <1>4, <2>1 DEF PartyInv, DialsTheLast
  <2>3. KindsTell(p)' /\ DoubtStandsStill(p)'
    BY <1>1, <2>1 DEF PartyInv, KindsTell, DoubtStandsStill, OnTheKnock
  <2>4. KnowsItsFate(p)'
    BY <1>1, <1>3, <1>4, <2>1 DEF PartyInv, KnowsItsFate, Made, Dead, Delays, BoundBy
  <2>5. InStep(p)'
    <3>1. \A a : Underway(p, a)' => Underway(p, a)
      BY <1>1, <1>3, <1>4 DEF Underway
    <3> QED
      BY <1>1, <2>1, <3>1 DEF PartyInv, InStep, BoundBy
  <2>6. ObjectAwaits(p)'
    BY <1>3, <1>4 DEF ObjectAwaits
  <2> QED
    BY <2>2, <2>3, <2>4, <2>5, <2>6 DEF PartyInv
<1> QED
  BY <1>5, <1>6, <1>7, <1>8

(* After the last address the send reads nothing, and moves nowhere; the   *)
(* knock that met nothing is what is sent next.                            *)
LEMMA LastKeepsSend ==
  ASSUME SendInv, NEW p \in Parties, DialGivesUp(p), ~MoreAddresses(dial[p].at)
  PROVE  /\ SendFields' /\ (\A a \in asks' : Counted(a)')
         /\ \A q \in Parties : PartyInv(q)'
<1> DEFINE h == Invitation[p]
<1> SUFFICES ASSUME NEW s, s = st[p], NEW t, t = st'[p]
             PROVE  /\ SendFields' /\ (\A a \in asks' : Counted(a)')
                    /\ \A q \in Parties : PartyInv(q)'
  OBVIOUS
<1>1. /\ UNCHANGED << heirs, removed, honoured, asks, replies, carrier >>
      /\ dial' = [dial EXCEPT ![p] = Idle]
      /\ late' = late \/ (Delays /\ late' = late \cup {dial[p].ask})
      /\ dial[p].stage # "idle"
      /\ s \in StandingFields
      /\ t = AfterRead(s, Nothing)
      /\ \A q \in Parties \ {p} : st'[q] = st[q]
  BY DEF DialGivesUp, PartyReads, StandingRead, SendInv, ExchangeInv, Delays
<1>2. /\ dial[p].ask \in asks /\ dial[p].ask.lid[1] = p
      /\ OwnAsk(dial[p].ask) /\ s.phase # "fresh"
      /\ dial[p].ask.box = s.last.box
  BY <1>1, DialedIsOwn
<1>3. dial' \in [Parties -> Dials] /\ dial'[p] = Idle
      /\ \A q \in Parties \ {p} : dial'[q] = dial[q]
  BY <1>1, IdleIsADial DEF SendInv, SendFields
<1>4. /\ t.phase = s.phase /\ t.seq = s.seq /\ t.signer = s.signer
      /\ t.edge = s.edge /\ t.knock = s.knock /\ t.last = s.last
      /\ s.last.kind = "knock" /\ s.phase = "uncertain" => ~t.probeNext
  <2>1. ReadKind(s.last, Nothing) = "nothing"
    BY DEF ReadKind
  <2>2. ~MovesOn(s, "nothing") /\ ~SettlesOn(s, "nothing")
    BY DEF MovesOn, SettlesOn, Words
  <2>3. t = IF s.last.kind = "knock" /\ s.phase = "uncertain"
              THEN [s EXCEPT !.probeNext = FALSE] ELSE s
    BY <1>1, <2>1, <2>2 DEF AfterRead
  <2> QED
    BY <1>1, <2>3 DEF StandingFields
<1>5. SendFields'
  <2>1. late' \subseteq asks' /\ (~Delays' => late' = {})
    BY <1>1, <1>2 DEF SendInv, SendFields, Delays
  <2>2. \A q \in Parties :
          /\ dial'[q].stage = "answered" => dial'[q].reply \in replies \cup {Garbled}
          /\ dial'[q].reply = Garbled => "altered" \in carrier
    BY <1>3, IdleIsADial DEF SendInv, SendFields
  <2> QED
    BY <1>1, <1>3, <2>1, <2>2 DEF SendInv, SendFields, OneWrong
<1>6. \A a \in asks' : Counted(a)'
  BY <1>1, <1>4, CountStays
<1>7. \A q \in Parties \ {p} : PartyInv(q)'
  BY <1>1, <1>2, IdleIsADial, OthersRest
<1>8. PartyInv(p)'
  <2>1. PartyInv(p)
    BY DEF SendInv
  <2>2. DialsTheLast(p)' /\ ObjectAwaits(p)'
    BY <1>3, IdleIsADial DEF DialsTheLast, ObjectAwaits
  <2>3. KindsTell(p)' /\ DoubtStandsStill(p)'
    BY <1>1, <1>4, <2>1 DEF PartyInv, KindsTell, DoubtStandsStill, OnTheKnock
  <2>4. KnowsItsFate(p)'
    <3>1. /\ Made(h) /\ (BoundBy(p) => s.phase # "fresh")
          /\ Delays /\ s.seq > 1 => Dead(h)
      BY <1>2, <2>1 DEF PartyInv, KnowsItsFate
    <3>2. t.phase = "uncertain" /\ t.probeNext => s.seq > 1
      <4> SUFFICES ASSUME s.phase = "uncertain", s.last.kind # "knock"
                   PROVE  s.seq > 1
        BY <1>4
      <4>1. dial[p].ask.box.ct = NoCt
        BY <1>2, <2>1 DEF PartyInv, KindsTell
      <4>2. dial[p].ask.lid[2] = s.seq
        BY <1>1, <2>1, <4>1 DEF PartyInv, DialsTheLast
      <4>3. FollowsKnock(dial[p].ask)
        <5>1. dial[p].ask.lid # NoCt
          BY <1>2, LidFacts DEF OwnAsk
        <5> QED
          BY <1>2, <4>1, <5>1 DEF OwnAsk, IsKnock
      <4> QED
        BY <4>2, <4>3 DEF FollowsKnock
    <3> QED
      BY <1>1, <1>2, <1>3, <1>4, <3>1, <3>2, IdleIsADial
         DEF KnowsItsFate, Made, Dead, Delays, BoundBy
  <2>5. InStep(p)'
    <3>1. \A a : Underway(p, a)' => Underway(p, a)
      BY <1>1, <1>3, IdleIsADial DEF Underway
    <3> QED
      BY <1>1, <1>4, <2>1, <3>1 DEF PartyInv, InStep, BoundBy
  <2> QED
    BY <2>2, <2>3, <2>4, <2>5 DEF PartyInv
<1> QED
  BY <1>5, <1>6, <1>7, <1>8

-----------------------------------------------------------------------------
(* An ask arrives: the door honours it as the knock that binds the heir,   *)
(* or as the next of the relation it bound, or not at all.                 *)

Honoured(a, now) ==
  /\ now.stage = "spent" /\ now.high = a.lid[2]
  /\ now.O = a.box.edge /\ a.lid \in {now.H, now.V}

Binds(a, rel, now) ==
  /\ rel.stage = "fresh" /\ IsKnock(a) /\ now.H = a.lid

Continues(a, rel, now) ==
  /\ rel.stage = "spent" /\ a.box.ct = NoCt
  /\ a.lid[2] > rel.high /\ a.box.by \in {now.H, now.V}

LEMMA ArriveSettles ==
  ASSUME SendInv, NEW a \in asks, AskArrives(a), Verdict(a.box) = "choice",
         NEW p, p = a.lid[1], NEW h, h = Invitation[p],
         NEW rel, rel = heirs[h], NEW now, now = heirs'[h]
  PROVE  /\ removed' = removed
         /\ \A g \in Heirs \ {h} : heirs'[g] = heirs[g] /\ honoured'[g] = honoured[g]
         /\ Honoured(a, now) /\ now.F = Follow(a.box.edge, NextAgreement(h))
         /\ BoundBy(p)'
         /\ \/ Binds(a, rel, now) /\ honoured[h] = << >>
            \/ Continues(a, rel, now) /\ BoundBy(p)
<1> DEFINE b == a.box
<1>1. /\ OwnAsk(a) /\ a.lid \in Lids /\ p \in Parties /\ h \in Heirs
      /\ b \in Box(Edge) /\ b.head = h /\ b.next = a.lid /\ b.seq = a.lid[2]
      /\ a.lid \notin Heirs /\ a.lid # NoKey
      /\ b.edge.root = Drawn(p, 1)
      /\ DoorTypeOK /\ Arrive(b)
  <2>1. OwnAsk(a) /\ DoorTypeOK /\ Arrive(b)
    BY DEF SendInv, ExchangeInv, DoorInv, AskArrives
  <2> QED
    BY <2>1, LidFacts, OwnRoot DEF OwnAsk
<1>2. b \in Box(EdgesInReach)
  BY <1>1, ChoiceInReach
<1>3. \/ rel.stage = "fresh" /\ b.by = h /\ Announces(b)
      \/ rel.stage = "spent" /\ ~Repeated(b) /\ SignedBy(b) # "nobody"
  BY <1>1, <1>2, ChoiceIsHeld DEF Held
<1>4. /\ now = Moved(rel, b, NextAgreement(h))
      /\ removed' = removed
      /\ \A g \in Heirs \ {h} : heirs'[g] = heirs[g] /\ honoured'[g] = honoured[g]
  BY <1>1, ChoiceWrites
<1>5. /\ now.stage = "spent" /\ now.high = a.lid[2]
      /\ now.O = b.edge /\ now.F = Follow(b.edge, NextAgreement(h))
  <2>1. now = Moved(rel, b, NextAgreement(h))
    BY <1>4
  <2>2. b.seq = a.lid[2]
    BY <1>1
  <2> HIDE DEF b
  <2>3. /\ now.stage = "spent" /\ now.high = b.seq
        /\ now.O = b.edge /\ now.F = Follow(b.edge, NextAgreement(h))
    BY <2>1 DEF Moved, StageAfter, OpenAfter, OfferedAfter
  <2> QED
    BY <2>2, <2>3
<1>6. now.H = HeldAfter(rel, b) /\ now.V = VouchedAfter(rel, b)
  <2>1. now = Moved(rel, b, NextAgreement(h))
    BY <1>4
  <2> HIDE DEF b
  <2> QED
    BY <2>1, MovedIs
<1>7. a.lid \in {now.H, now.V}
  <2>1. rel.stage # "fresh" => b.by \in {rel.H, rel.V}
    BY <1>1, <1>3 DEF SignedBy, KeysOf, Held, Kept
  <2>2. Announces(b) \/ b.by = a.lid
    BY <1>1 DEF Announces
  <2> HIDE DEF b
  <2> QED
    BY <1>1, <1>6, <2>1, <2>2 DEF HeldAfter, VouchedAfter
<1>8. ~Refused(b)
  BY DEF Verdict
<1>9. /\ honoured[h] \in Seq(Entry) /\ Logged(b) \in Entry
      /\ Logged(b).next = a.lid
      /\ honoured'[h] = Append(honoured[h], Logged(b))
  <2>1. Logged(b) \in Entry
    BY <1>1, BoxesAssumption DEF Logged, Entry, Box
  <2>2. honoured'[h] = Append(honoured[h], Logged(b))
    BY <1>1, ChoiceWrites
  <2> QED
    BY <1>1, <2>1, <2>2 DEF DoorTypeOK, Logged
<1>10. CASE rel.stage = "fresh"
  <2>1. honoured[h] = << >>
    BY <1>1, <1>10 DEF SendInv, ExchangeInv, DoorInv, StartsEmpty
  <2>2. IsKnock(a)
    <3>1. b.by = h
      BY <1>3, <1>10
    <3>2. \A m \in 1..MaxAsks : Drawn(p, m) \notin Heirs
      BY <1>1, DrawnIsALid, LidFacts
    <3> QED
      BY <1>1, <3>1, <3>2 DEF OwnAsk, FollowsKnock
  <2>3. a.lid = Drawn(p, 1)
    BY <1>1, <2>2, LidFacts DEF IsKnock
  <2>4. honoured'[h] # << >> /\ honoured'[h][1] = Logged(b)
    <3> HIDE DEF b
    <3> QED
      BY <1>9, <2>1, AppendEnds
  <2>5. BoundBy(p)'
    BY <1>9, <2>3, <2>4 DEF BoundBy
  <2>6. now.H = a.lid
    BY <1>1, <1>6, <1>10 DEF HeldAfter
  <2> QED
    BY <1>4, <1>5, <1>7, <1>10, <2>1, <2>2, <2>5, <2>6 DEF Honoured, Binds
<1>11. CASE rel.stage = "spent"
  <2>1. b.ct = NoCt /\ b.edge \in {rel.O, rel.F}
    BY <1>1, <1>8, <1>11 DEF Refused, Opens, Held, KeysOf, Kept
  <2>2. BoundBy(p)
    <3>1. Rooted(rel, h)
      BY <1>1 DEF SendInv, ExchangeInv
    <3> QED
      BY <1>1, <1>11, <2>1, <3>1 DEF Rooted, BoundBy
  <2>3. BoundBy(p)'
    <3> HIDE DEF b
    <3>1. honoured[h] # << >>
      BY <2>2 DEF BoundBy
    <3>2. honoured'[h] # << >> /\ honoured'[h][1] = honoured[h][1]
      <4>1. [ExchangeNext]_exchangeVars
        BY DEF ExchangeNext
      <4>2. DoorInv /\ [DoorNext]_doorVars
        BY <4>1, DoorSteps DEF SendInv, ExchangeInv
      <4> QED
        BY <1>1, <3>1, <4>2, LogsGrow
    <3> QED
      BY <2>2, <3>2 DEF BoundBy
  <2>4. b.by \in {now.H, now.V}
    <3>1. b.by \in {rel.H, rel.V}
      BY <1>1, <1>3, <1>11 DEF SignedBy, KeysOf, Held, Kept
    <3> HIDE DEF b
    <3> QED
      BY <1>6, <1>11, <3>1 DEF HeldAfter
  <2>5. a.lid[2] > rel.high
    <3>1. rel.high \in Nat /\ a.lid[2] \in Nat
      BY <1>1 DEF DoorTypeOK, Relation, Lids
    <3> QED
      BY <1>1, <1>3, <1>11, <3>1 DEF Repeated, Held
  <2> QED
    BY <1>4, <1>5, <1>7, <1>11, <2>1, <2>2, <2>3, <2>4, <2>5
       DEF Honoured, Continues
<1> QED
  BY <1>3, <1>10, <1>11

LEMMA ArriveRests ==
  ASSUME NEW a \in asks, AskArrives(a), Verdict(a.box) # "choice"
  PROVE  UNCHANGED << heirs, removed, honoured >>
BY DEF AskArrives, Arrive, doorVars

(* The standing of the holder is in step with what its ask made of the     *)
(* relation, and nobody else's is disturbed.                               *)
LEMMA ArriveKeepsInStep ==
  ASSUME SendInv, NEW a \in asks, AskArrives(a), Underway(a.lid[1], a),
         NEW q \in Parties, UNCHANGED << st, asks >>,
         \A x : Underway(q, x)' => Underway(q, x)
  PROVE  InStep(q)'
<1> DEFINE h == Invitation[q]
<1>1. /\ PartyInv(q) /\ h \in Heirs
  BY StandingAssumption DEF SendInv
<1>2. CASE Verdict(a.box) # "choice" \/ Invitation[a.lid[1]] # h
  <2>1. heirs'[h] = heirs[h] /\ honoured'[h] = honoured[h]
    <3>1. CASE Verdict(a.box) # "choice"
      BY <3>1, ArriveRests
    <3>2. CASE Verdict(a.box) = "choice"
      BY <1>1, <1>2, <3>2, ArriveSettles
    <3> QED
      BY <3>1, <3>2
  <2> QED
    BY <1>1, <2>1 DEF PartyInv, InStep, BoundBy
<1>3. CASE Verdict(a.box) = "choice" /\ Invitation[a.lid[1]] = h
  <2> SUFFICES ASSUME NEW p, p = a.lid[1], NEW rel, rel = heirs[h],
                      NEW now, now = heirs'[h]
               PROVE  InStep(q)'
    OBVIOUS
  <2>1. /\ Honoured(a, now) /\ BoundBy(p)'
        /\ \/ Binds(a, rel, now) /\ honoured[h] = << >>
           \/ Continues(a, rel, now) /\ BoundBy(p)
    BY <1>3, ArriveSettles
  <2>2. OwnAsk(a) /\ a.lid \in Lids /\ Counted(a) /\ p \in Parties
    BY LidFacts DEF SendInv, ExchangeInv, OwnAsk
  <2>3. BoundBy(q)' => q = p
    BY <1>3, <2>1 DEF BoundBy, Drawn
  <2> SUFFICES ASSUME q = p PROVE InStep(q)'
    BY <2>3 DEF InStep
  <2>4. CASE Binds(a, rel, now) /\ honoured[h] = << >>
    <3>1. st[p].phase # "fresh" /\ st[p].phase # "bound"
      <4>1. st[p].seq > 0
        BY <2>2, StandingAssumption, BoxesAssumption
           DEF Counted, Lids, SendInv, ExchangeInv, StandingFields
      <4>2. st[p].phase # "fresh"
        BY <2>2, <4>1 DEF SendInv, ExchangeInv, StandsAsSent, NotKnocked
      <4>3. st[p].phase # "bound"
        BY <2>4 DEF SendInv, ExchangeInv, BoundOnlyByOwnKnock, BoundBy
      <4> QED
        BY <4>2, <4>3
    <3>2. st[p].phase = "uncertain"
      BY <2>2, <3>1 DEF SendInv, ExchangeInv, StandingFields
    <3>3. /\ st[p].signer = Drawn(p, 1) /\ st[p].edge = KnockEdge(Drawn(p, 1))
          /\ \A x \in asks : x.lid[1] = p /\ x.box.ct = NoCt => OnTheKnock(x, p)
      BY <1>1, <3>2 DEF PartyInv, DoubtStandsStill
    <3>4. a.lid = Drawn(p, 1) /\ a.box.edge = KnockEdge(Drawn(p, 1))
      BY <2>2, <2>4, LidFacts DEF Binds, IsKnock
    <3>5. now.H = Drawn(p, 1) /\ now.O = KnockEdge(Drawn(p, 1))
      BY <2>1, <2>4, <3>4 DEF Binds, Honoured
    <3> QED
      BY <3>3, <3>5 DEF InStep, OnTheKnock, Underway
  <2>5. CASE Continues(a, rel, now) /\ BoundBy(p)
    <3>1. /\ st[p].signer \in {rel.H, rel.V} /\ st[p].edge \in {rel.O, rel.F}
          /\ \A x \in asks : Underway(p, x) /\ x.lid[2] > rel.high
                               /\ x.box.ct = NoCt =>
                             x.box.by = st[p].signer /\ x.box.edge = st[p].edge
      BY <1>1, <2>5 DEF PartyInv, InStep, Continues
    <3>2. a.box.by = st[p].signer /\ a.box.edge = st[p].edge
      BY <2>5, <3>1 DEF Continues
    <3>3. st[p].signer \in {now.H, now.V} /\ st[p].edge \in {now.O, now.F}
      BY <2>1, <2>5, <3>2 DEF Continues, Honoured
    <3>4. \A x \in asks : x.lid[2] > now.high => x.lid[2] > rel.high
      <4>1. now.high > rel.high /\ now.high \in Nat
        <5>1. now.high = a.lid[2] /\ a.lid[2] > rel.high
          BY <2>1, <2>5 DEF Continues, Honoured
        <5>2. a.lid[2] \in Nat
          BY <2>2 DEF Lids
        <5> QED
          BY <5>1, <5>2
      <4>2. rel.high \in Nat
        BY <1>1 DEF SendInv, ExchangeInv, DoorInv, DoorTypeOK, Relation
      <4>3. \A x \in asks : x.lid[2] \in Nat
        BY DEF SendInv, ExchangeInv, OwnAsk, Lids
      <4> QED
        BY <4>1, <4>2, <4>3
    <3> QED
      BY <3>1, <3>3, <3>4 DEF InStep
  <2> QED
    BY <2>1, <2>4, <2>5
<1> QED
  BY <1>2, <1>3

(* Whoever an ask comes to bind had asked it.                              *)
LEMMA BinderAsked ==
  ASSUME SendInv, NEW a \in asks, AskArrives(a), NEW q \in Parties, BoundBy(q)'
  PROVE  st[q].phase # "fresh"
<1> DEFINE h == Invitation[q]
<1>1. PartyInv(q) /\ h \in Heirs
  BY StandingAssumption DEF SendInv
<1>2. CASE BoundBy(q)
  BY <1>1, <1>2 DEF PartyInv, KnowsItsFate
<1>3. CASE ~BoundBy(q)
  <2>1. honoured'[h] # honoured[h]
    BY <1>3 DEF BoundBy
  <2>2. Verdict(a.box) = "choice"
    BY <2>1, ArriveRests
  <2>3. Invitation[a.lid[1]] = h /\ BoundBy(a.lid[1])'
    BY <1>1, <2>1, <2>2, ArriveSettles
  <2>4. q = a.lid[1]
    BY <2>3 DEF BoundBy, Drawn
  <2>5. OwnAsk(a) /\ Counted(a) /\ a.lid[2] \in Nat /\ a.lid[2] > 0
    BY StandingAssumption, BoxesAssumption
       DEF SendInv, ExchangeInv, OwnAsk, Lids
  <2>6. st[q].seq \in Nat
    BY StandingAssumption, BoxesAssumption
       DEF SendInv, ExchangeInv, StandingFields
  <2>7. st[q].seq # 0
    BY <2>4, <2>5, <2>6 DEF Counted
  <2> QED
    BY <2>7 DEF SendInv, ExchangeInv, StandsAsSent, NotKnocked
<1> QED
  BY <1>2, <1>3

(* An object still waits for whoever waited for one: only the holder's own *)
(* late asks could move the relation, and they are not above its number.   *)
LEMMA ArriveKeepsAwaiting ==
  ASSUME SendInv, NEW a \in asks, AskArrives(a), NEW q \in Parties,
         late' = late, dial'[q] = dial[q], a.lid[1] = q => a \in late
  PROVE  ObjectAwaits(q)'
<1> DEFINE h == Invitation[q]
<1>1. PartyInv(q) /\ h \in Heirs
  BY StandingAssumption DEF SendInv
<1>2. CASE Verdict(a.box) # "choice" \/ Invitation[a.lid[1]] # h
  <2>1. heirs'[h] = heirs[h] /\ honoured'[h] = honoured[h]
    <3>1. CASE Verdict(a.box) # "choice"
      BY <3>1, ArriveRests
    <3>2. CASE Verdict(a.box) = "choice"
      BY <1>1, <1>2, <3>2, ArriveSettles
    <3> QED
      BY <3>1, <3>2
  <2> QED
    BY <1>1, <2>1 DEF PartyInv, ObjectAwaits, BoundBy
<1>3. CASE Verdict(a.box) = "choice" /\ Invitation[a.lid[1]] = h
  <2> SUFFICES ASSUME dial[q].stage = "answered", dial[q].reply.text = "object",
                      dial[q].reply.lid = dial[q].ask.lid
               PROVE  FALSE
    BY DEF ObjectAwaits
  <2>1. BoundBy(q)
    <3>1. dial[q].reply \in replies
      BY DEF SendInv, SendFields, Garbled
    <3>2. dial[q].reply.lid[1] = q
      BY DialedIsOwn
    <3> QED
      BY <3>1, <3>2 DEF SendInv, ExchangeInv, SilenceToTheRest
  <2> SUFFICES ASSUME NEW p, p = a.lid[1], NEW rel, rel = heirs[h],
                      NEW now, now = heirs'[h]
               PROVE  FALSE
    OBVIOUS
  <2>2. \/ Binds(a, rel, now) /\ honoured[h] = << >>
        \/ Continues(a, rel, now) /\ BoundBy(p)
    BY <1>3, ArriveSettles
  <2>3. Continues(a, rel, now) /\ BoundBy(p)
    BY <2>1, <2>2 DEF BoundBy
  <2>4. q = p
    BY <1>3, <2>1, <2>3 DEF BoundBy, Drawn
  <2>5. a.lid[2] <= rel.high
    BY <1>1, <2>3, <2>4 DEF PartyInv, ObjectAwaits, Continues
  <2>6. rel.high \in Nat /\ a.lid[2] \in Nat
    BY <1>1 DEF SendInv, ExchangeInv, DoorInv, DoorTypeOK, Relation, OwnAsk, Lids
  <2> QED
    BY <2>3, <2>5, <2>6 DEF Continues
<1> QED
  BY <1>2, <1>3

LEMMA LateKeepsSend ==
  ASSUME SendInv, NEW a \in late, LateAskArrives(a)
  PROVE  /\ SendFields' /\ (\A x \in asks' : Counted(x)')
         /\ \A q \in Parties : PartyInv(q)'
<1>1. /\ UNCHANGED << st, asks, carrier, dial, late >>
      /\ replies \subseteq replies'
      /\ AskArrives(a) /\ a \in asks
  BY DEF LateAskArrives, AskArrives, SendInv, SendFields
<1>2. SendFields'
  BY <1>1 DEF SendInv, SendFields, OneWrong, Delays
<1>3. \A x \in asks' : Counted(x)'
  BY <1>1, CountStays
<1>4. ASSUME NEW q \in Parties
      PROVE  PartyInv(q)'
  <2>1. PartyInv(q) /\ Invitation[q] \in Heirs
    BY StandingAssumption DEF SendInv
  <2>2. DialsTheLast(q)' /\ KindsTell(q)' /\ DoubtStandsStill(q)'
    BY <1>1, <2>1 DEF PartyInv, DialsTheLast, KindsTell, DoubtStandsStill, OnTheKnock
  <2>3. KnowsItsFate(q)'
    <3>1. [DoorNext]_doorVars
      <4>1. [ExchangeNext]_exchangeVars
        BY <1>1 DEF ExchangeNext
      <4> QED
        BY <4>1, DoorSteps DEF SendInv, ExchangeInv
    <3>2. /\ Made(Invitation[q]) => Made(Invitation[q])'
          /\ Dead(Invitation[q]) => Dead(Invitation[q])'
      BY <2>1, <3>1, MadeStays DEF SendInv, ExchangeInv, DoorInv
    <3>3. BoundBy(q)' => st[q].phase # "fresh"
      BY <1>1, BinderAsked
    <3> QED
      BY <1>1, <2>1, <3>2, <3>3 DEF PartyInv, KnowsItsFate, Delays
  <2>4. InStep(q)'
    <3>1. \A x : Underway(q, x)' => Underway(q, x)
      BY <1>1 DEF Underway
    <3>2. Underway(a.lid[1], a)
      BY DEF Underway
    <3> QED
      BY <1>1, <3>1, <3>2, ArriveKeepsInStep
  <2>5. ObjectAwaits(q)'
    BY <1>1, ArriveKeepsAwaiting
  <2> QED
    BY <2>2, <2>3, <2>4, <2>5 DEF PartyInv
<1> QED
  BY <1>2, <1>3, <1>4

(* A knock that reaches a fresh heir binds it.                             *)
LEMMA KnockBinds ==
  ASSUME SendInv, NEW a \in asks, IsKnock(a), heirs[a.box.head].stage = "fresh"
  PROVE  Verdict(a.box) = "choice"
<1> DEFINE b == a.box
<1>1. /\ b.head \in Heirs /\ b.head # NoHeir /\ b.by = b.head
      /\ b.ct # NoCt /\ b.edge = KnockEdge(b.ct) /\ b.fault = "none"
      /\ b.next \notin {NoKey, b.head} /\ b.seq \in 1..MaxCount
  <2>1. OwnAsk(a) /\ Counted(a) /\ a.lid \in Lids
    BY DEF SendInv, ExchangeInv, OwnAsk
  <2>2. b.seq = 1 /\ 1 \in 1..MaxCount
    BY <2>1, BoxesAssumption DEF OwnAsk, IsKnock
  <2>3. /\ Invitation[a.lid[1]] \in Heirs /\ Invitation[a.lid[1]] # NoHeir
        /\ a.lid # Invitation[a.lid[1]] /\ a.lid # NoKey /\ a.lid # NoCt
    BY <2>1, LidFacts
  <2> QED
    BY <2>1, <2>2, <2>3 DEF OwnAsk, IsKnock, Counted
<1>2. Held(b, "fresh") /\ ~Held(b, "spent") /\ ~Kept(b)
  BY <1>1 DEF Held, Kept
<1> HIDE DEF b
<1>3. Opens(b) /\ PayloadReads(b) /\ SignedBy(b) = "heir" /\ Announces(b)
  BY <1>1, <1>2 DEF Opens, PayloadReads, SignedBy, Announces
<1>4. ~Refused(b)
  BY <1>1, <1>2, <1>3 DEF Refused
<1>5. Verdict(b) = "choice"
  BY <1>1, <1>2, <1>3, <1>4 DEF Verdict, Unannounced, Repeated
<1> QED
  BY <1>5 DEF b

LEMMA DialFate ==
  ASSUME SendInv, NEW p \in Parties, DialArrives(p), Delays
  PROVE  Dead(Invitation[p])'
<1> DEFINE h == Invitation[p]
           a == dial[p].ask
<1>1. /\ a \in asks /\ OwnAsk(a) /\ a.lid[1] = p /\ a.lid # NoCt
      /\ st[p].phase # "fresh" /\ AskArrives(a)
  BY DialedIsOwn, LidFacts DEF DialArrives
<1>2. PartyInv(p) /\ h \in Heirs /\ DoorTypeOK
  BY StandingAssumption DEF SendInv, ExchangeInv, DoorInv
<1>3. Made(h)
  BY <1>1, <1>2 DEF PartyInv, KnowsItsFate
<1>4. (Made(h) => Made(h)') /\ (Dead(h) => Dead(h)')
  <2>1. [ExchangeNext]_exchangeVars
    BY <1>1 DEF ExchangeNext
  <2>2. [DoorNext]_doorVars
    BY <2>1, DoorSteps DEF SendInv, ExchangeInv
  <2> QED
    BY <1>2, <2>2, MadeStays
<1>5. CASE Dead(h)
  BY <1>4, <1>5
<1>6. CASE ~Dead(h)
  <2>1. heirs[h].stage = "fresh" /\ ~(st[p].seq > 1)
    BY <1>2, <1>3, <1>6 DEF Dead, PartyInv, KnowsItsFate
  <2>2. IsKnock(a)
    <3>1. FollowsKnock(a) => a.lid[2] = st[p].seq /\ a.lid[2] > 1
      BY <1>2 DEF FollowsKnock, PartyInv, DialsTheLast, DialArrives
    <3> QED
      BY <1>1, <2>1, <3>1 DEF OwnAsk
  <2>3. a.box.head = h
    BY <1>1 DEF OwnAsk
  <2>4. Verdict(a.box) = "choice"
    BY <1>1, <2>1, <2>2, <2>3, KnockBinds
  <2>5. heirs'[h].stage = "spent"
    BY <1>1, <2>4, ArriveSettles DEF Honoured
  <2> QED
    BY <1>3, <1>4, <2>5 DEF Dead
<1> QED
  BY <1>5, <1>6

LEMMA DialAwaits ==
  ASSUME SendInv, NEW p \in Parties, DialArrives(p)
  PROVE  ObjectAwaits(p)'
<1> DEFINE h == Invitation[p]
<1> SUFFICES ASSUME NEW a, a = dial[p].ask, NEW r, r = ReplyTo(a),
                    NEW rel, rel = heirs[h], NEW now, now = heirs'[h],
                    r.text = "object"
             PROVE  /\ BoundBy(p)' /\ now.high = a.lid[2]
                    /\ a.lid \in {now.H, now.V}
                    /\ now.F = Follow(a.box.edge, r.agreement)
                    /\ \A x \in late : x.lid[1] = p => x.lid[2] <= now.high
  <2>1. dial'[p].ask = dial[p].ask /\ dial'[p].reply = ReplyTo(dial[p].ask)
        /\ late' = late
    BY DEF DialArrives, SendInv, SendFields, Dials
  <2> QED
    BY <2>1 DEF ObjectAwaits
<1>1. /\ a \in asks /\ OwnAsk(a) /\ a.lid \in Lids /\ a.lid[1] = p
      /\ AskArrives(a) /\ dial[p].stage # "idle"
  BY DialedIsOwn DEF DialArrives
<1>2. PartyInv(p) /\ h \in Heirs /\ a.box.head = h /\ h # NoHeir
  BY <1>1, LidFacts DEF SendInv, OwnAsk
<1>3. Verdict(a.box) = "choice"
  BY <1>2 DEF ReplyTo, ReplyText, Verdict
<1>4. r.agreement = NextAgreement(h)
  BY <1>2, <1>3 DEF ReplyTo
<1>5. /\ Honoured(a, now) /\ now.F = Follow(a.box.edge, NextAgreement(h))
      /\ BoundBy(p)'
      /\ \/ Binds(a, rel, now) /\ honoured[h] = << >>
         \/ Continues(a, rel, now) /\ BoundBy(p)
  BY <1>1, <1>3, ArriveSettles
<1>6. ASSUME NEW x \in late, x.lid[1] = p
      PROVE  x.lid[2] <= now.high
  <2>1. Delays /\ x \in asks /\ Counted(x) /\ x.lid[2] <= st[p].seq
    BY <1>6 DEF SendInv, SendFields, Counted
  <2>2. x.lid[2] \in Nat /\ st[p].seq \in Nat
    BY <2>1, StandingAssumption, BoxesAssumption
       DEF SendInv, ExchangeInv, OwnAsk, Lids, StandingFields
  <2>3. CASE Binds(a, rel, now)
    <3>1. a.lid[2] = 1
      BY <2>3 DEF Binds, IsKnock
    <3>2. ~(st[p].seq > 1)
      BY <1>2, <2>1, <2>3 DEF Binds, PartyInv, KnowsItsFate, Dead
    <3> QED
      BY <1>5, <2>1, <2>2, <3>1, <3>2 DEF Honoured
  <2>4. CASE Continues(a, rel, now)
    <3>1. a.lid[2] = st[p].seq
      BY <1>1, <1>2, <2>4 DEF Continues, PartyInv, DialsTheLast
    <3> QED
      BY <1>5, <2>1, <3>1 DEF Honoured
  <2> QED
    BY <1>5, <2>3, <2>4
<1> QED
  BY <1>4, <1>5, <1>6 DEF Honoured

LEMMA DialKeepsSend ==
  ASSUME SendInv, NEW p \in Parties, DialArrives(p), ExchangeInv'
  PROVE  /\ SendFields' /\ (\A x \in asks' : Counted(x)')
         /\ \A q \in Parties : PartyInv(q)'
<1> DEFINE a == dial[p].ask
           d == [dial[p] EXCEPT !.stage = "answered", !.reply = ReplyTo(a)]
<1>1. /\ UNCHANGED << st, asks, carrier, late >>
      /\ replies' = replies \cup {ReplyTo(a)}
      /\ dial' = [dial EXCEPT ![p] = d]
      /\ dial[p].stage = "asked" /\ dial[p] \in Dials
      /\ AskArrives(a)
  BY DEF DialArrives, AskArrives, SendInv, SendFields
<1>2. a \in asks /\ a.lid \in Lids /\ a.lid[1] = p
  BY <1>1, DialedIsOwn
<1>3. ReplyTo(a) \in Reply /\ ReplyTo(a) # Garbled
  <2>1. ReplyTo(a) \in Reply
    BY <1>1 DEF ExchangeInv
  <2>2. ReplyTo(a).lid = a.lid /\ a.lid # NoCt
    BY <1>2, LidFacts DEF ReplyTo
  <2> QED
    BY <2>1, <2>2 DEF Garbled
<1>4. /\ d \in Dials /\ d.stage = "answered" /\ d.reply = ReplyTo(a)
      /\ d.ask = a
  BY <1>1, <1>3 DEF Dials
<1> HIDE DEF d
<1>5. dial' \in [Parties -> Dials] /\ dial'[p] = d
      /\ \A q \in Parties \ {p} : dial'[q] = dial[q]
  BY <1>1, <1>4 DEF SendInv, SendFields
<1>6. SendFields'
  <2>1. \A q \in Parties :
          /\ dial'[q].stage = "answered" => dial'[q].reply \in replies' \cup {Garbled}
          /\ dial'[q].reply = Garbled => "altered" \in carrier
    BY <1>1, <1>3, <1>4, <1>5 DEF SendInv, SendFields
  <2> QED
    BY <1>1, <1>5, <2>1 DEF SendInv, SendFields, OneWrong, Delays
<1>7. \A x \in asks' : Counted(x)'
  BY <1>1, CountStays
<1>8. ASSUME NEW q \in Parties
      PROVE  PartyInv(q)'
  <2>1. PartyInv(q) /\ Invitation[q] \in Heirs
    BY StandingAssumption DEF SendInv
  <2>2. dial'[q].ask = dial[q].ask
        /\ (dial'[q].stage = "idle" <=> dial[q].stage = "idle")
    BY <1>1, <1>4, <1>5
  <2>3. DialsTheLast(q)' /\ KindsTell(q)' /\ DoubtStandsStill(q)'
    BY <1>1, <2>1, <2>2
       DEF PartyInv, DialsTheLast, KindsTell, DoubtStandsStill, OnTheKnock
  <2>4. KnowsItsFate(q)'
    <3>1. [DoorNext]_doorVars
      <4>1. [ExchangeNext]_exchangeVars
        BY <1>1, <1>2 DEF ExchangeNext
      <4> QED
        BY <4>1, DoorSteps DEF SendInv, ExchangeInv
    <3>2. /\ Made(Invitation[q]) => Made(Invitation[q])'
          /\ Dead(Invitation[q]) => Dead(Invitation[q])'
      BY <2>1, <3>1, MadeStays DEF SendInv, ExchangeInv, DoorInv
    <3>3. BoundBy(q)' => st[q].phase # "fresh"
      BY <1>1, <1>2, BinderAsked
    <3>4. Delays /\ q = p => Dead(Invitation[q])'
      BY DialFate
    <3>5. q # p => dial'[q] = dial[q]
      BY <1>5
    <3> QED
      BY <1>1, <2>1, <2>2, <3>2, <3>3, <3>4, <3>5
         DEF PartyInv, KnowsItsFate, Delays
  <2>5. InStep(q)'
    <3>1. \A x : Underway(q, x)' => Underway(q, x)
      BY <1>1, <2>2 DEF Underway
    <3>2. Underway(a.lid[1], a)
      BY <1>1, <1>2 DEF Underway
    <3> HIDE DEF a
    <3> QED
      BY <1>1, <1>2, <3>1, <3>2, ArriveKeepsInStep
  <2>6. ObjectAwaits(q)'
    <3>1. CASE q = p
      BY <3>1, DialAwaits
    <3>2. CASE q # p
      BY <1>1, <1>2, <1>5, <3>2, ArriveKeepsAwaiting
    <3> QED
      BY <3>1, <3>2
  <2> QED
    BY <2>3, <2>4, <2>5, <2>6 DEF PartyInv
<1> QED
  BY <1>6, <1>7, <1>8

-----------------------------------------------------------------------------
(* The ward's own steps, and all of them.                                  *)

LEMMA WardKeepsSend ==
  ASSUME SendInv, WardSteps
  PROVE  /\ SendFields' /\ (\A x \in asks' : Counted(x)')
         /\ \A q \in Parties : PartyInv(q)'
<1>1. UNCHANGED << st, asks, replies, carrier, dial, late, honoured >>
  BY DEF WardSteps, WardInvites, WardReleases, Invite, Release
<1>2. SendFields'
  BY <1>1 DEF SendInv, SendFields, OneWrong, Delays
<1>3. \A x \in asks' : Counted(x)'
  BY <1>1, CountStays
<1>4. [DoorNext]_doorVars
  BY DEF WardSteps, WardInvites, WardReleases, DoorNext
<1>5. \A h \in Heirs : heirs'[h].stage = "spent" => heirs'[h] = heirs[h]
  <2>1. ASSUME NEW g \in Heirs, NEW reach \in Reaches, Invite(g, reach)
        PROVE  \A h \in Heirs : heirs'[h].stage = "spent" => heirs'[h] = heirs[h]
    BY <2>1 DEF Invite, FreshRelation, SendInv, ExchangeInv, DoorInv, DoorTypeOK
  <2>2. ASSUME NEW g \in Heirs, Release(g)
        PROVE  \A h \in Heirs : heirs'[h].stage = "spent" => heirs'[h] = heirs[h]
    BY <2>2 DEF Release, NoRelation, SendInv, ExchangeInv, DoorInv, DoorTypeOK
  <2> QED
    BY <2>1, <2>2 DEF WardSteps, WardInvites, WardReleases
<1>6. ASSUME NEW q \in Parties
      PROVE  PartyInv(q)'
  <2>1. PartyInv(q) /\ Invitation[q] \in Heirs
    BY StandingAssumption DEF SendInv
  <2>2. DialsTheLast(q)' /\ KindsTell(q)' /\ DoubtStandsStill(q)'
    BY <1>1, <2>1 DEF PartyInv, DialsTheLast, KindsTell, DoubtStandsStill, OnTheKnock
  <2>3. KnowsItsFate(q)'
    <3>1. /\ Made(Invitation[q]) => Made(Invitation[q])'
          /\ Dead(Invitation[q]) => Dead(Invitation[q])'
      BY <1>4, <2>1, MadeStays DEF SendInv, ExchangeInv, DoorInv
    <3> QED
      BY <1>1, <2>1, <3>1 DEF PartyInv, KnowsItsFate, Delays, BoundBy
  <2>4. InStep(q)'
    BY <1>1, <1>5, <2>1 DEF PartyInv, InStep, Underway, BoundBy
  <2>5. ObjectAwaits(q)'
    BY <1>1, <1>5, <2>1 DEF PartyInv, ObjectAwaits, BoundBy
  <2> QED
    BY <2>2, <2>3, <2>4, <2>5 DEF PartyInv
<1> QED
  BY <1>2, <1>3, <1>6

LEMMA RestKeepsSend ==
  ASSUME SendInv, UNCHANGED sendVars
  PROVE  /\ SendFields' /\ (\A x \in asks' : Counted(x)')
         /\ \A q \in Parties : PartyInv(q)'
<1>1. UNCHANGED << heirs, removed, honoured, st, asks, replies, carrier,
                   dial, late >>
  BY DEF sendVars
<1>2. SendFields'
  BY <1>1 DEF SendInv, SendFields, OneWrong, Delays
<1>3. \A x \in asks' : Counted(x)'
  BY <1>1, CountStays
<1>4. ASSUME NEW q \in Parties PROVE PartyInv(q)'
  BY <1>1, PartyRests DEF SendInv
<1> QED
  BY <1>2, <1>3, <1>4

LEMMA SendInvNext ==
  ASSUME SendInv, [SendNext]_sendVars
  PROVE  SendInv'
<1>1. ExchangeInv' /\ SendKnown'
  BY SendSteps
<1> DEFINE Holds == /\ SendFields' /\ (\A x \in asks' : Counted(x)')
                   /\ \A q \in Parties : PartyInv(q)'
<1>2. Holds
  <2>1. CASE UNCHANGED sendVars
    BY <2>1, RestKeepsSend
  <2>2. CASE WardSteps
    BY <2>2, WardKeepsSend
  <2>3. ASSUME NEW p \in Parties, NEW unread \in UnreadArgs, SendStarts(p, unread)
        PROVE  Holds
    BY <1>1, <2>3, StartKeeps, SendAssumption
  <2>4. ASSUME NEW p \in Parties, DialArrives(p)
        PROVE  Holds
    BY <1>1, <2>4, DialKeepsSend
  <2>5. ASSUME NEW p \in Parties, SendReads(p)
        PROVE  Holds
    BY <2>5, ReadKeepsSend
  <2>6. ASSUME NEW p \in Parties, DialGivesUp(p)
        PROVE  Holds
    BY <2>6, RedialKeepsSend, LastKeepsSend
  <2>7. ASSUME NEW p \in Parties, CarrierAlters(p)
        PROVE  Holds
    BY <2>7, AltersKeepsSend
  <2>8. ASSUME NEW a \in late, LateAskArrives(a)
        PROVE  Holds
    BY <2>8, LateKeepsSend
  <2> HIDE DEF Holds
  <2> QED
    BY <2>1, <2>2, <2>3, <2>4, <2>5, <2>6, <2>7, <2>8 DEF SendNext
<1> QED
  BY <1>1, <1>2 DEF SendInv

LEMMA SendInvInit ==
  ASSUME \A c \in Carriers : ~({"late", "altered"} \subseteq c)
  PROVE  SendInit => SendInv
<1> SUFFICES ASSUME SendInit PROVE SendInv
  OBVIOUS
<1>1. ExchangeInv /\ SendKnown
  BY ExchangeInvInit DEF SendInit, SendKnown, Idle
<1>2. /\ dial \in [Parties -> Dials] /\ carrier \in Carriers
      /\ late = {} /\ asks = {}
      /\ \A p \in Parties : dial[p] = Idle
  BY IdleIsADial DEF SendInit, ExchangeInit
<1>3. SendFields
  BY <1>2, IdleIsADial DEF SendFields, OneWrong
<1>4. ASSUME NEW p \in Parties
      PROVE  PartyInv(p)
  <2>1. st[p].phase = "fresh" /\ st[p].seq = 0
    BY DEF SendInit, ExchangeInit, StandingInit
  <2>2. ~BoundBy(p)
    BY StandingAssumption DEF SendInit, ExchangeInit, DoorInit, BoundBy
  <2>3. dial[p].stage = "idle"
    BY <1>2, IdleIsADial
  <2>4. KnowsItsFate(p)
    BY <2>1, <2>2, <2>3 DEF KnowsItsFate
  <2> QED
    BY <2>1, <2>2, <2>3, <2>4
       DEF PartyInv, DialsTheLast, KindsTell, DoubtStandsStill, InStep, ObjectAwaits
<1> QED
  BY <1>1, <1>2, <1>3, <1>4 DEF SendInv

-----------------------------------------------------------------------------

(* Where a carrier may deliver late or alter, but none does both, the send *)
(* of the stand (ops.send) never leaves a bound standing under keys its    *)
(* door does not take, however many hold the invitation and wherever dials *)
(* fail: what the relation of a bound party admits is what it signs with.  *)
THEOREM BoundStaysAdmitted ==
  ASSUME \A c \in Carriers : ~({"late", "altered"} \subseteq c)
  PROVE  SendSpec => []BoundIsAdmitted
<1>1. SendInit => SendInv
  BY SendInvInit
<1>2. SendInv /\ [SendNext]_sendVars => SendInv'
  BY SendInvNext
<1>3. SendInv => BoundIsAdmitted
  BY DEF SendInv, PartyInv, InStep, ExchangeInv, BoundOnlyByOwnKnock,
         BoundIsAdmitted
<1> QED
  BY <1>1, <1>2, <1>3, PTL DEF SendSpec
=============================================================================
