------------------------------ MODULE Standing ------------------------------
(***************************************************************************)
(* The standing side (class Standing of examples/javascript/lib/quo.js):   *)
(* what a party that holds an invitation seals next, and what it makes of  *)
(* the reply it is handed.  Every party here holds an invitation to some   *)
(* heir; an invitation is text, so two parties may hold the same one.      *)
(***************************************************************************)
EXTENDS Boxes

CONSTANTS
  Parties,     \* who knocks
  Invitation,  \* party -> the heir its invitation names
  MaxAsks      \* bound: how many boxes a party seals

(* What a party draws for its n-th box, the lid, the announced key and the *)
(* knock's secret alike, is named by the party and n.                      *)
Drawn(p, n) == << p, n >>

ASSUME StandingAssumption ==
  /\ Invitation \in [Parties -> Heirs]
  /\ MaxAsks \in 1..MaxCount
  /\ Parties \X (1..MaxAsks) \subseteq Secrets \cap (Keys \ Heirs)

VARIABLE st    \* party -> the fields of its Standing

NoSent == [kind |-> "none", lid |-> NoCt, box |-> NoCt]

(* The constructor: the heir's secret signs until the knock.               *)
StandingInit ==
  st = [p \in Parties |->
          [phase |-> "fresh", signer |-> Invitation[p], edge |-> ZERO32,
           seq |-> 0, moved |-> 0, probeNext |-> TRUE,
           knock |-> NoSent, last |-> NoSent]]

-----------------------------------------------------------------------------
(* ask: an uncertain standing alternates between a probe and the same      *)
(* knock again; every other ask is sealed anew and announces a fresh key.  *)

ResendsNever(p) == FALSE                                       \* mutant
Resends(p) == st[p].phase = "uncertain" /\ ~st[p].probeNext

KindOf == [fresh |-> "knock", uncertain |-> "probe", bound |-> "ask"]

Sealed(p, unread) ==
  LET n == st[p].seq + 1
      fresh == st[p].phase = "fresh"
  IN [kind |-> KindOf[st[p].phase],
      lid |-> Drawn(p, n),
      box |-> SealAsk(Invitation[p], IF fresh THEN Drawn(p, n) ELSE NoCt,
                      st[p].edge, st[p].signer, Drawn(p, n), n, unread)]

NextSent(p, unread) ==
  IF Resends(p) THEN st[p].knock ELSE Sealed(p, unread)

AfterKnockUnkept(s, sent) ==                                   \* mutant
  [s EXCEPT !.seq = sent.box.seq, !.last = sent,
            !.edge = sent.box.edge, !.signer = sent.box.next,
            !.phase = "uncertain", !.probeNext = TRUE]

(* After the knock the party's own key signs: the heir dies at the knock.  *)
AfterKnock(s, sent) ==
  [s EXCEPT !.seq = sent.box.seq, !.knock = sent, !.last = sent,
            !.edge = sent.box.edge, !.signer = sent.box.next,
            !.phase = "uncertain", !.probeNext = TRUE]

AfterAsk(s, sent) ==
  CASE s.phase = "fresh" -> AfterKnock(s, sent)
    [] s.phase = "uncertain" /\ ~s.probeNext ->
         [s EXCEPT !.probeNext = TRUE, !.last = sent]
    [] s.phase = "uncertain" /\ s.probeNext ->
         [s EXCEPT !.seq = sent.box.seq, !.probeNext = FALSE, !.last = sent]
    [] s.phase = "bound" ->
         [s EXCEPT !.seq = sent.box.seq, !.last = sent]

StandingAsk(p, unread) ==
  /\ Resends(p) \/ st[p].seq < MaxAsks
  /\ st' = [st EXCEPT ![p] = AfterAsk(@, NextSent(p, unread))]

-----------------------------------------------------------------------------
(* readReply: what bytes handed over as the reply read as.  A reply sealed *)
(* to another lid does not open.                                           *)

Reply == [lid : Parties \X (1..MaxAsks), agreement : Agreements,
          text : {"object", "silence", "removed", "unannounced", "repeated"}]

Nothing == [lid |-> NoCt, agreement |-> 0, text |-> "nothing"]
Garbled == [lid |-> NoCt, agreement |-> 0, text |-> "silence"]

ReadKindOfAnyLid(sent, reply) == reply.text                    \* mutant

ReadKind(sent, reply) ==
  IF reply = Nothing THEN "nothing"
  ELSE IF reply.lid # sent.lid THEN "silence"
  ELSE reply.text

Words == {"removed", "unannounced", "repeated"}

MovesOn(s, kind) == kind = "object" /\ s.last.box.seq > s.moved

SettlesOn(s, kind) == kind \in Words /\ s.last.kind = "probe"

AfterObjectCountsSealed(s, reply) ==                           \* mutant
  [s EXCEPT !.moved = s.seq, !.phase = "bound",
            !.signer = s.last.box.next,
            !.edge = Follow(s.last.box.edge, reply.agreement)]

AfterObject(s, reply) ==
  [s EXCEPT !.moved = s.last.box.seq, !.phase = "bound",
            !.signer = s.last.box.next,
            !.edge = Follow(s.last.box.edge, reply.agreement)]

(* read: the standing moves on an object, is settled by a word on a probe, *)
(* and knocks again at once only when the knock met nothing at all.        *)
AfterRead(s, reply) ==
  LET kind == ReadKind(s.last, reply)
  IN IF MovesOn(s, kind) THEN AfterObject(s, reply)
     ELSE IF SettlesOn(s, kind) THEN [s EXCEPT !.phase = "bound"]
     ELSE IF s.last.kind = "knock" /\ s.phase = "uncertain"
       THEN [s EXCEPT !.probeNext = (kind # "nothing")]
     ELSE s

StandingRead(p, reply) ==
  /\ st[p].last # NoSent
  /\ st' = [st EXCEPT ![p] = AfterRead(@, reply)]
=============================================================================
