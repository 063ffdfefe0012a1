------------------------------- MODULE GoSend -------------------------------
(***************************************************************************)
(* The send operation of the Go stand (case "send" of examples/go/main.go, *)
(* carryFirst and carry of carrier.go): a goroutine carries the sealed ask *)
(* to the ward's addresses in order until one delivers, and reads what     *)
(* came back.  Nothing orders the sends of one relation.                   *)
(***************************************************************************)
EXTENDS GoExchange

CONSTANTS
  Addresses,    \* how many addresses a send dials: the route, or at
  MaxFailures,  \* bound: dials given up and bytes altered, in all
  Alterations   \* may a carrier alter what it brings?

ASSUME GoSendAssumption ==
  /\ Addresses \in Nat \ {0}
  /\ MaxFailures \in Nat
  /\ Alterations \in BOOLEAN

VARIABLES
  way,      \* party -> slot -> how far its dial is
  late,     \* asks of dials given up, that may arrive any time from now on
  failures  \* how many dials failed

goSendVars == << heirs, removed, honoured, gs, asks, replies, flight,
                 way, late, failures >>

NoWay == [at |-> 0, stage |-> "idle", reply |-> Nothing]
Dialing(at) == [at |-> at, stage |-> "asked", reply |-> Nothing]

GoSendInit ==
  /\ GoExchangeInit
  /\ way = [p \in Parties |-> [i \in Slots |-> NoWay]]
  /\ late = {}
  /\ failures = 0

-----------------------------------------------------------------------------

Fails == failures < MaxFailures /\ failures' = failures + 1

AskOf(p, i) == [lid |-> flight[p][i].lid, box |-> flight[p][i].box]

Goes(p, unread, i) ==
  /\ SendStarts(p, unread, i)
  /\ way' = [way EXCEPT ![p][i] = Dialing(1)]
  /\ UNCHANGED << late, failures >>

Arrives(p, i) ==
  /\ way[p][i].stage = "asked"
  /\ AskArrives(AskOf(p, i))
  /\ way' = [way EXCEPT ![p][i] =
               [at |-> @.at, stage |-> "answered", reply |-> ReplyTo(AskOf(p, i))]]
  /\ UNCHANGED << late, failures >>

Reads(p, i) ==
  /\ way[p][i].stage = "answered"
  /\ SendReads(p, i, way[p][i].reply)
  /\ way' = [way EXCEPT ![p][i] = NoWay]
  /\ UNCHANGED << late, failures >>

MoreAddresses(at) == at < Addresses

(* sendWait runs out, or the line closes: the next address, or nothing.    *)
GivesUp(p, i) ==
  /\ way[p][i].stage \in {"asked", "answered"}
  /\ Fails
  /\ late' = IF way[p][i].stage = "asked" THEN late \cup {AskOf(p, i)} ELSE late
  /\ IF MoreAddresses(way[p][i].at)
       THEN /\ way' = [way EXCEPT ![p][i] = Dialing(@.at + 1)]
            /\ UNCHANGED goExchangeVars
       ELSE /\ way' = [way EXCEPT ![p][i] = NoWay]
            /\ SendReads(p, i, Nothing)

Alters(p, i) ==
  /\ Alterations
  /\ way[p][i].stage \in {"asked", "answered"}
  /\ way[p][i].reply # Garbled
  /\ Fails
  /\ way' = [way EXCEPT ![p][i] =
               [at |-> @.at, stage |-> "answered", reply |-> Garbled]]
  /\ UNCHANGED << goExchangeVars, late >>

LateArrives(ask) ==
  /\ AskArrives(ask)
  /\ UNCHANGED << way, late, failures >>

WardSteps ==
  /\ \/ \E h \in Heirs, reach \in Reaches : WardInvites(h, reach)
     \/ \E h \in Heirs : WardReleases(h)
  /\ UNCHANGED << way, late, failures >>

GoSendNext ==
  \/ WardSteps
  \/ \E p \in Parties, unread \in UnreadArgs, i \in Slots : Goes(p, unread, i)
  \/ \E p \in Parties, i \in Slots : \/ Arrives(p, i) \/ Reads(p, i)
                                     \/ GivesUp(p, i) \/ Alters(p, i)
  \/ \E ask \in late : LateArrives(ask)

GoSendSpec == GoSendInit /\ [][GoSendNext]_goSendVars

(* A send is carried and read, and whoever holds the relation goes on      *)
(* sending.                                                                *)
FairGoSendSpec ==
  /\ GoSendSpec
  /\ \A p \in Parties :
       /\ WF_goSendVars(\E i \in Slots : Goes(p, FALSE, i))
       /\ \A i \in Slots :
            /\ WF_goSendVars(Arrives(p, i))
            /\ WF_goSendVars(Reads(p, i))

-----------------------------------------------------------------------------

Quiet(p) == \A i \in Slots : flight[p][i] = NoSent

(* While nothing was lost, sends that overlapped leave the relation where  *)
(* the next send is admitted, in whatever order they were read.            *)
QuietIsAdmitted ==
  \A p \in Parties :
    LET rel == heirs[Invitation[p]]
    IN failures = 0 /\ gs[p].bound /\ rel.stage = "spent" /\ Quiet(p) =>
         gs[p].key \in {rel.H, rel.V} /\ gs[p].edge \in {rel.O, rel.F}

(* The knock in doubt is settled, though a word settles nothing here, and  *)
(* though the knock and its probe may be under way together.               *)
Settles ==
  \A p \in Parties :
    LET h == Invitation[p]
    IN Made(h) ~> \/ gs[p].bound
                  \/ heirs[h].stage = "absent"
                  \/ heirs[h].reach = "silent"
                  \/ honoured[h] # << >> /\ ~BoundBy(p)
=============================================================================
