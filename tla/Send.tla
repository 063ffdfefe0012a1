-------------------------------- MODULE Send --------------------------------
(***************************************************************************)
(* The send operation of the JavaScript stand (ops.send of                 *)
(* examples/javascript/stand): on one relation one send at a time seals an *)
(* ask, dials the ward's addresses in order until one gives a reply, and   *)
(* reads it.  A dial that gets no answer in time reads as nothing, while   *)
(* the bytes it wrote may still be under way; and a carrier is nobody one  *)
(* trusts, so what it brings may be altered.                               *)
(***************************************************************************)
EXTENDS Exchange

CONSTANTS
  Addresses,    \* how many addresses a send dials: the route, or dialable(at)
  MaxFailures,  \* bound: dials given up and bytes altered, in all
  Carriers,     \* what the carriers may do, each a set of Wrongs
  UnreadArgs    \* do asks carry args the door's kit does not read?

(* An ask still arrives when its dial was given up, or what a carrier      *)
(* brings is altered on the way.                                           *)
Wrongs == {"late", "altered"}

ASSUME SendAssumption ==
  /\ Addresses \in Nat \ {0}
  /\ MaxFailures \in Nat
  /\ Carriers \subseteq SUBSET Wrongs
  /\ UnreadArgs \subseteq BOOLEAN

VARIABLES
  carrier,  \* what the carriers of this behaviour may do, one of Carriers
  dial,     \* party -> the send at the head of its chain
  late,     \* asks of dials given up, that may arrive any time from now on
  failures  \* how many dials failed

sendVars == << heirs, removed, honoured, st, asks, replies,
               carrier, dial, late, failures >>

Idle == [at |-> 0, stage |-> "idle", ask |-> NoCt, reply |-> Nothing]
Dialing(at, ask) == [at |-> at, stage |-> "asked", ask |-> ask,
                     reply |-> Nothing]

SendInit ==
  /\ ExchangeInit
  /\ carrier \in Carriers
  /\ dial = [p \in Parties |-> Idle]
  /\ late = {}
  /\ failures = 0

-----------------------------------------------------------------------------

Fails == failures < MaxFailures /\ failures' = failures + 1

SendStarts(p, unread) ==
  /\ dial[p] = Idle
  /\ PartyAsks(p, unread)
  /\ dial' = [dial EXCEPT ![p] =
                Dialing(1, [lid |-> st'[p].last.lid, box |-> st'[p].last.box])]
  /\ UNCHANGED << carrier, late, failures >>

(* The listener hands the box to the door and the reply to the dial.       *)
DialArrives(p) ==
  /\ dial[p].stage = "asked"
  /\ AskArrives(dial[p].ask)
  /\ dial' = [dial EXCEPT ![p].stage = "answered",
                          ![p].reply = ReplyTo(dial[p].ask)]
  /\ UNCHANGED << carrier, late, failures >>

SendReads(p) ==
  /\ dial[p].stage = "answered"
  /\ PartyReads(p, dial[p].reply)
  /\ dial' = [dial EXCEPT ![p] = Idle]
  /\ UNCHANGED << carrier, late, failures >>

(* The timer of a dial fires, or its connection closes: the next address   *)
(* is dialed with the same bytes, and after the last the send reads        *)
(* nothing.                                                                *)
MoreAddresses(at) == at < Addresses

DialGivesUp(p) ==
  /\ dial[p].stage \in {"asked", "answered"}
  /\ Fails
  /\ UNCHANGED carrier
  /\ late' = IF "late" \in carrier /\ dial[p].stage = "asked"
               THEN late \cup {dial[p].ask} ELSE late
  /\ IF MoreAddresses(dial[p].at)
       THEN /\ dial' = [dial EXCEPT ![p] =
                          Dialing(dial[p].at + 1, dial[p].ask)]
            /\ UNCHANGED exchangeVars
       ELSE /\ dial' = [dial EXCEPT ![p] = Idle]
            /\ PartyReads(p, Nothing)

(* An ask altered on its way meets a refusal, and a reply altered on its   *)
(* way does not open: silence either way, and the door never saw the ask.  *)
CarrierAlters(p) ==
  /\ "altered" \in carrier
  /\ dial[p].stage \in {"asked", "answered"}
  /\ dial[p].reply # Garbled
  /\ Fails
  /\ dial' = [dial EXCEPT ![p].stage = "answered", ![p].reply = Garbled]
  /\ UNCHANGED << exchangeVars, carrier, late >>

(* Nobody waits for the reply any more.                                    *)
LateAskArrives(ask) ==
  /\ AskArrives(ask)
  /\ UNCHANGED << carrier, dial, late, failures >>

WardSteps ==
  /\ \/ \E h \in Heirs, reach \in Reaches : WardInvites(h, reach)
     \/ \E h \in Heirs : WardReleases(h)
  /\ UNCHANGED << carrier, dial, late, failures >>

SendNext ==
  \/ WardSteps
  \/ \E p \in Parties, unread \in UnreadArgs : SendStarts(p, unread)
  \/ \E p \in Parties : DialArrives(p) \/ SendReads(p)
  \/ \E p \in Parties : DialGivesUp(p) \/ CarrierAlters(p)
  \/ \E ask \in late : LateAskArrives(ask)

SendSpec == SendInit /\ [][SendNext]_sendVars

(* The listener answers what reaches it, a reply that came is read, and    *)
(* whoever holds a relation in doubt goes on asking.                       *)
FairSendSpec ==
  /\ SendSpec
  /\ \A p \in Parties :
       /\ WF_sendVars(SendStarts(p, FALSE))
       /\ WF_sendVars(DialArrives(p))
       /\ WF_sendVars(SendReads(p))

-----------------------------------------------------------------------------

(* A knock is not left in doubt: once dials stop failing, the knock and    *)
(* the probe between them settle whether the heir is bound, wherever the   *)
(* failures fell.  A silent reach and a release end the question.          *)
Settles ==
  \A p \in Parties :
    LET h == Invitation[p]
    IN Made(h) ~> \/ st[p].phase = "bound"
                  \/ heirs[h].stage = "absent"
                  \/ heirs[h].reach = "silent"
                  \/ honoured[h] # << >> /\ ~BoundBy(p)
=============================================================================
