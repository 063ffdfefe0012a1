----------------------------- MODULE GoStanding -----------------------------
(***************************************************************************)
(* The standing of the Go kit (type Standing of examples/go/asker.go).     *)
(* Where the JavaScript standing reads a reply against the last ask it     *)
(* sealed, this one reads it against the ask it was sent for, so asks of   *)
(* one relation may be under way together.  It keeps the knock until an    *)
(* object comes back, and a word settles nothing.                          *)
(***************************************************************************)
EXTENDS Boxes

CONSTANTS
  Parties,     \* who knocks
  Invitation,  \* party -> the heir its invitation names
  MaxAsks      \* bound: how many boxes a party seals

(* What a party draws for its n-th box, the lid, the announced key and the *)
(* knock's secret alike, is named by the party and n.                      *)
Drawn(p, n) == << p, n >>

ASSUME GoStandingAssumption ==
  /\ Invitation \in [Parties -> Heirs]
  /\ MaxAsks \in 1..MaxCount
  /\ Parties \X (1..MaxAsks) \subseteq Secrets \cap (Keys \ Heirs)

VARIABLE gs    \* party -> the fields of its Standing

(* A Sent: what a sealed ask keeps, to read its reply by.                  *)
NoSent == [isKnock |-> FALSE, lid |-> NoCt, box |-> NoCt]

GoStandingInit ==
  gs = [p \in Parties |->
          [bound |-> FALSE, key |-> NoKey, edge |-> ZERO32, seq |-> 0,
           moved |-> 0, knock |-> NoSent, probeNext |-> FALSE,
           last |-> NoSent]]

-----------------------------------------------------------------------------
(* Seal.                                                                   *)

(* The zero value of probeNext says so before the knock was ever answered: *)
(* a second ask sealed while the knock is under way is the knock again.    *)
ResendsNever(p) == FALSE                                       \* mutant
Resends(p) == ~gs[p].bound /\ gs[p].knock # NoSent /\ ~gs[p].probeNext

Probes(p) == ~gs[p].bound /\ gs[p].knock # NoSent /\ gs[p].probeNext

Signer(p) ==
  IF gs[p].bound THEN gs[p].key
  ELSE IF Probes(p) THEN gs[p].knock.box.next ELSE Invitation[p]

Under(p) == IF gs[p].bound THEN gs[p].edge ELSE gs[p].knock.box.edge

Sealed(p, unread) ==
  LET n == gs[p].seq + 1
      knocks == ~gs[p].bound /\ gs[p].knock = NoSent
  IN [isKnock |-> knocks, lid |-> Drawn(p, n),
      box |-> SealAsk(Invitation[p], IF knocks THEN Drawn(p, n) ELSE NoCt,
                      IF knocks THEN ZERO32 ELSE Under(p),
                      Signer(p), Drawn(p, n), n, unread)]

NextSent(p, unread) ==
  IF Resends(p) THEN gs[p].knock ELSE Sealed(p, unread)

AfterSeal(s, sent) ==
  [s EXCEPT !.seq = IF sent.box.seq > @ THEN sent.box.seq ELSE @,
            !.knock = IF sent.isKnock THEN sent ELSE @,
            !.probeNext = IF s.bound THEN @ ELSE sent = s.knock]

(* The op ask keeps what it sealed for the op read; the op send does not.  *)
Seal(p, unread, keeps) ==
  /\ Resends(p) \/ gs[p].seq < MaxAsks
  /\ LET sent == NextSent(p, unread)
     IN gs' = [gs EXCEPT ![p] =
                 [AfterSeal(gs[p], sent) EXCEPT
                    !.last = IF keeps THEN sent ELSE @]]

-----------------------------------------------------------------------------
(* ReadReply.                                                              *)

Reply == [lid : Parties \X (1..MaxAsks), agreement : Agreements,
          text : {"object", "silence", "removed", "unannounced", "repeated"}]

Nothing == [lid |-> NoCt, agreement |-> 0, text |-> "nothing"]
Garbled == [lid |-> NoCt, agreement |-> 0, text |-> "silence"]

ReadKindOfAnyLid(sent, reply) == reply.text                    \* mutant

ReadKind(sent, reply) ==
  IF reply = Nothing THEN "nothing"
  ELSE IF sent = NoSent \/ reply.lid # sent.lid THEN "silence"
  ELSE reply.text

MovesOnAny(s, sent, kind) == kind = "object"                   \* mutant
MovesOn(s, sent, kind) == kind = "object" /\ sent.box.seq > s.moved

MoveToKeepsKnock(s, sent, agreement) ==                        \* mutant
  [s EXCEPT !.moved = sent.box.seq, !.bound = TRUE,
            !.key = sent.box.next,
            !.edge = Follow(sent.box.edge, agreement)]

MoveToFromHere(s, sent, agreement) ==                          \* mutant
  [s EXCEPT !.moved = sent.box.seq, !.bound = TRUE,
            !.key = sent.box.next,
            !.edge = Follow(IF s.bound THEN s.edge ELSE sent.box.edge,
                            agreement),
            !.knock = NoSent]

MoveTo(s, sent, agreement) ==
  [s EXCEPT !.moved = sent.box.seq, !.bound = TRUE,
            !.key = sent.box.next,
            !.edge = Follow(sent.box.edge, agreement),
            !.knock = NoSent]

AfterRead(s, sent, reply) ==
  LET kind == ReadKind(sent, reply)
  IN IF MovesOn(s, sent, kind) THEN MoveTo(s, sent, reply.agreement)
     ELSE IF sent.isKnock /\ kind # "object"
       THEN [s EXCEPT !.probeNext = (kind # "nothing")]
     ELSE s

ReadReply(p, sent, reply) ==
  gs' = [gs EXCEPT ![p] = AfterRead(@, sent, reply)]

(* The op read answers for the ask kept by the op ask, once.               *)
ReadLast(p, reply) ==
  gs' = [gs EXCEPT ![p] =
           [AfterRead(@, gs[p].last, reply) EXCEPT !.last = NoSent]]
=============================================================================
