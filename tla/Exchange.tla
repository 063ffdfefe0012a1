------------------------------ MODULE Exchange ------------------------------
(***************************************************************************)
(* Standings, a network and the door together, at the operations the       *)
(* harness offers: ask, arrive, read, invite, release.  Whatever was       *)
(* sealed may arrive at any time, any number of times or never, and        *)
(* whatever was answered may be handed to any standing, or something       *)
(* garbled, or nothing.                                                    *)
(***************************************************************************)
EXTENDS Door, Standing

CONSTANT Nobody     \* no party: the holder of an heir not yet bound

VARIABLES
  asks,      \* the boxes sealed: [lid, box]
  replies    \* the replies the door wrote

exchangeVars == << heirs, removed, honoured, st, asks, replies >>

ExchangeTypeOK ==
  /\ DoorTypeOK
  /\ \A p \in Parties :
       /\ st[p].phase \in {"fresh", "uncertain", "bound"}
       /\ st[p].signer \in Keys
       /\ st[p].edge \in Edge
       /\ st[p].seq \in 0..MaxAsks
       /\ st[p].moved \in 0..st[p].seq
       /\ st[p].phase # "fresh" => [lid |-> st[p].last.lid,
                                    box |-> st[p].last.box] \in asks
  /\ \A a \in asks : a.box \in Box(Edge) /\ a.lid \in Parties \X (1..MaxAsks)
  /\ replies \subseteq Reply

ExchangeInit ==
  /\ DoorInit
  /\ StandingInit
  /\ asks = {}
  /\ replies = {}

-----------------------------------------------------------------------------

Made(h) == heirs[h].stage # "absent" \/ removed[h].stage # "absent"

WardInvites(h, reach) ==
  /\ Invite(h, reach)
  /\ UNCHANGED << st, asks, replies >>

WardReleases(h) ==
  /\ Release(h)
  /\ UNCHANGED << st, asks, replies >>

PartyAsks(p, unread) ==
  /\ Made(Invitation[p])
  /\ StandingAsk(p, unread)
  /\ asks' = asks \cup {[lid |-> st'[p].last.lid, box |-> st'[p].last.box]}
  /\ UNCHANGED << heirs, removed, honoured, replies >>

(* The reply is written before the keys move; its agreement is the one the *)
(* edge key that follows is made with.                                     *)
ReplyTo(a) ==
  [lid |-> a.lid, text |-> ReplyText(a.box),
   agreement |-> IF Verdict(a.box) = "choice"
                   THEN NextAgreement(a.box.head) ELSE 0]

AskArrives(a) ==
  /\ Arrive(a.box)
  /\ replies' = replies \cup {ReplyTo(a)}
  /\ UNCHANGED << st, asks >>

PartyReads(p, reply) ==
  /\ StandingRead(p, reply)
  /\ UNCHANGED << heirs, removed, honoured, asks, replies >>

ExchangeNext ==
  \/ \E h \in Heirs, reach \in Reaches : WardInvites(h, reach)
  \/ \E h \in Heirs : WardReleases(h)
  \/ \E p \in Parties, unread \in BOOLEAN : PartyAsks(p, unread)
  \/ \E a \in asks : AskArrives(a)
  \/ \E p \in Parties, reply \in replies \cup {Garbled, Nothing} :
       PartyReads(p, reply)

ExchangeSpec == ExchangeInit /\ [][ExchangeNext]_exchangeVars

-----------------------------------------------------------------------------

(* The party whose knock bound the heir.                                   *)
BoundBy(p) ==
  LET log == honoured[Invitation[p]]
  IN log # << >> /\ log[1].next = Drawn(p, 1)

(* A standing takes its relation for bound only when its own knock is the  *)
(* one that bound the heir: with an invitation in two hands, one of the    *)
(* two at most is ever bound, whatever order asks and replies come in.     *)
BoundOnlyByOwnKnock ==
  \A p \in Parties : st[p].phase = "bound" => BoundBy(p)

(* A number a standing moved on is one the door honoured from it.          *)
MovedWasHonoured ==
  \A p \in Parties : st[p].moved > 0 =>
    \E i \in DOMAIN honoured[Invitation[p]] :
      LET e == honoured[Invitation[p]][i]
      IN e.seq = st[p].moved /\ e.next = Drawn(p, st[p].moved)

(* Strangers hear silence: a word or an object is said to no party but the *)
(* one whose knock bound the heir, and `unannounced' to nobody.            *)
SilenceToTheRest ==
  \A r \in replies :
    /\ r.text # "silence" => BoundBy(r.lid[1])
    /\ r.text # "unannounced"

(* A standing that has moved stands where the door can still meet it: the  *)
(* keys its next ask is made with are among those the door takes.          *)
BoundIsAdmitted ==
  \A p \in Parties :
    st[p].phase = "bound" /\ heirs[Invitation[p]].stage = "spent" =>
      LET rel == heirs[Invitation[p]]
      IN st[p].signer \in {rel.H, rel.V} /\ st[p].edge \in {rel.O, rel.F}

-----------------------------------------------------------------------------
(* The promise both ends keep, read off the relation and its history.      *)

StageOf(h) ==
  IF removed[h].stage # "absent" THEN "closed"
  ELSE CASE heirs[h].stage = "absent" -> "unmade"
         [] heirs[h].stage = "fresh" -> "open"
         [] heirs[h].stage = "spent" -> "bound"

HolderOf(h) ==
  IF honoured[h] = << >> THEN Nobody ELSE honoured[h][1].next[1]

CountOf(h) ==
  IF honoured[h] = << >> THEN 0 ELSE honoured[h][Len(honoured[h])].seq

Abstract == INSTANCE Promise WITH
  stage <- [h \in Heirs |-> StageOf(h)],
  holder <- [h \in Heirs |-> HolderOf(h)],
  count <- [h \in Heirs |-> CountOf(h)],
  learnt <- [p \in Parties |-> st[p].moved]

(* The harness, in whatever order it plays its boxes, keeps the promise.   *)
KeepsThePromise == Abstract!PromiseSpec
=============================================================================
