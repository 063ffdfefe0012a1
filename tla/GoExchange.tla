----------------------------- MODULE GoExchange -----------------------------
(***************************************************************************)
(* Go standings at a door: the operations invite, release, ask, send,      *)
(* arrive and read of the Go stand (examples/go/main.go).  Every operation *)
(* holds the kit's mutex while it touches a standing, and a send lets go   *)
(* of it between its seal and its read, so the sends of one relation run   *)
(* together.  Whatever was sealed may arrive at any time, any number of    *)
(* times or never, and whatever was answered may be handed to any send,    *)
(* or something garbled, or nothing.  The door is Door, which GoDoor       *)
(* implements.                                                             *)
(***************************************************************************)
EXTENDS Door, GoStanding

CONSTANTS
  Nobody,     \* no party: the holder of an heir not yet bound
  MaxFlight,  \* bound: sends of one party under way together
  MaxShared,  \* bound: how many boxes a party seals once another has sealed one
  UnreadArgs  \* do asks carry args the door's kit does not read?

ASSUME GoExchangeAssumption ==
  /\ MaxFlight \in Nat /\ MaxShared \in Nat
  /\ UnreadArgs \subseteq BOOLEAN

VARIABLES
  asks,      \* the boxes sealed: [lid, box]
  replies,   \* the replies the door wrote
  flight     \* party -> slot -> the Sent of a send under way, or NoSent

goExchangeVars == << heirs, removed, honoured, gs, asks, replies, flight >>

Slots == 1..MaxFlight

GoExchangeTypeOK ==
  /\ DoorTypeOK
  /\ \A p \in Parties :
       /\ gs[p].bound => gs[p].key \in Keys
       /\ gs[p].edge \in Edge
       /\ gs[p].seq \in 0..MaxAsks
       /\ gs[p].moved \in 0..gs[p].seq
       /\ gs[p].knock # NoSent => ~gs[p].bound
       /\ \A sent \in {flight[p][i] : i \in Slots}
                        \cup {gs[p].knock, gs[p].last} :
            sent # NoSent => [lid |-> sent.lid, box |-> sent.box] \in asks
  /\ \A a \in asks : a.box \in Box(Edge) /\ a.lid \in Parties \X (1..MaxAsks)
  /\ replies \subseteq Reply

GoExchangeInit ==
  /\ DoorInit
  /\ GoStandingInit
  /\ asks = {}
  /\ replies = {}
  /\ flight = [p \in Parties |-> [i \in Slots |-> NoSent]]

-----------------------------------------------------------------------------

Made(h) == heirs[h].stage # "absent" \/ removed[h].stage # "absent"

WardInvites(h, reach) ==
  /\ Invite(h, reach)
  /\ UNCHANGED << gs, asks, replies, flight >>

WardReleases(h) ==
  /\ Release(h)
  /\ UNCHANGED << gs, asks, replies, flight >>

WithinShare(p) ==
  \A q \in Parties \ {p} :
    gs[q].seq = 0 \/ (gs[p].seq < MaxShared /\ gs[q].seq <= MaxShared)

Sealing(p, unread, keeps) ==
  /\ Made(Invitation[p])
  /\ Resends(p) \/ WithinShare(p)
  /\ Seal(p, unread, keeps)
  /\ LET sent == NextSent(p, unread)
     IN asks' = asks \cup {[lid |-> sent.lid, box |-> sent.box]}
  /\ UNCHANGED << heirs, removed, honoured, replies >>

PartyAsks(p, unread) ==
  /\ Sealing(p, unread, TRUE)
  /\ UNCHANGED flight

Free(p, i) ==
  /\ flight[p][i] = NoSent
  /\ \A j \in 1..(i - 1) : flight[p][j] # NoSent

SendStarts(p, unread, i) ==
  /\ Free(p, i)
  /\ Sealing(p, unread, FALSE)
  /\ flight' = [flight EXCEPT ![p][i] = NextSent(p, unread)]

(* What the door answers, and the agreement the edge key that follows is   *)
(* made with.                                                              *)
ReplyTo(a) ==
  [lid |-> a.lid, text |-> ReplyText(a.box),
   agreement |-> IF Verdict(a.box) = "choice"
                   THEN NextAgreement(a.box.head) ELSE 0]

AskArrives(a) ==
  /\ Arrive(a.box)
  /\ replies' = replies \cup {ReplyTo(a)}
  /\ UNCHANGED << gs, asks, flight >>

SendReads(p, i, reply) ==
  /\ flight[p][i] # NoSent
  /\ ReadReply(p, flight[p][i], reply)
  /\ flight' = [flight EXCEPT ![p][i] = NoSent]
  /\ UNCHANGED << heirs, removed, honoured, asks, replies >>

(* With nothing kept to read, the reply is read as it is and no more.      *)
PartyReads(p, reply) ==
  /\ gs[p].last # NoSent
  /\ ReadLast(p, reply)
  /\ UNCHANGED << heirs, removed, honoured, asks, replies, flight >>

GoExchangeNext ==
  \/ \E h \in Heirs, reach \in Reaches : WardInvites(h, reach)
  \/ \E h \in Heirs : WardReleases(h)
  \/ \E p \in Parties, unread \in UnreadArgs :
       \/ PartyAsks(p, unread)
       \/ \E i \in Slots : SendStarts(p, unread, i)
  \/ \E a \in asks : AskArrives(a)
  \/ \E p \in Parties, reply \in replies \cup {Garbled, Nothing} :
       \/ PartyReads(p, reply)
       \/ \E i \in Slots : SendReads(p, i, reply)

GoExchangeSpec == GoExchangeInit /\ [][GoExchangeNext]_goExchangeVars

-----------------------------------------------------------------------------

BoundBy(p) ==
  LET log == honoured[Invitation[p]]
  IN log # << >> /\ log[1].next = Drawn(p, 1)

(* With an invitation in two hands and sends of each under way together, a *)
(* standing takes its relation for bound only when its own knock bound it. *)
BoundOnlyByOwnKnock ==
  \A p \in Parties : gs[p].bound => BoundBy(p)

(* A standing that has moved can be left behind only by an ask of its own: *)
(* while nothing above the number it moved on was honoured, the door takes *)
(* the keys its next ask is made with.                                     *)
AdmittedUnlessPassed ==
  \A p \in Parties :
    LET rel == heirs[Invitation[p]]
    IN gs[p].bound /\ rel.stage = "spent" /\ rel.high = gs[p].moved =>
         gs[p].key \in {rel.H, rel.V} /\ gs[p].edge \in {rel.O, rel.F}

-----------------------------------------------------------------------------
(* The promise, read off the relation and its history.                     *)

StageOf(h) ==
  IF removed[h].stage # "absent" THEN "closed"
  ELSE CASE heirs[h].stage = "absent" -> "unmade"
         [] heirs[h].stage = "fresh" -> "open"
         [] heirs[h].stage = "spent" -> "bound"

HolderOf(h) ==
  IF honoured[h] = << >> THEN Nobody ELSE honoured[h][1].next[1]

CountOf(h) ==
  IF honoured[h] = << >> THEN 0 ELSE honoured[h][Len(honoured[h])].seq

Abstract == INSTANCE Promise WITH
  stage <- [h \in Heirs |-> StageOf(h)],
  holder <- [h \in Heirs |-> HolderOf(h)],
  count <- [h \in Heirs |-> CountOf(h)],
  learnt <- [p \in Parties |-> gs[p].moved]

(* Sends that overlap keep the promise that sends one at a time keep.      *)
KeepsThePromise == Abstract!PromiseSpec
=============================================================================
