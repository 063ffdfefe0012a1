-------------------------------- MODULE Door --------------------------------
(***************************************************************************)
(* A ward and its door (class Ward of examples/javascript/lib/quo.js).     *)
(* The ward makes heirs and releases them; the door takes any box anyone   *)
(* sends, answers it always, and moves the relation of a held heir exactly *)
(* when the ask is a choice.  The environment of this module is everyone:  *)
(* any box under any edge key that could open something here.              *)
(***************************************************************************)
EXTENDS Boxes

CONSTANT ZeroAnswers       \* does something answer the zero head?

ASSUME DoorAssumption == ZeroAnswers \in BOOLEAN

VARIABLES
  heirs,     \* Ward.heirs: heir -> its relation, or NoRelation
  removed,   \* Ward.removed: heir -> the keys kept of it, or NoRelation
  honoured   \* history: heir -> the asks honoured, in order

doorVars == << heirs, removed, honoured >>

Reaches == {"answers", "silent"}

Relation ==
  [stage : {"absent", "fresh", "spent"}, H : Keys \cup {NoKey},
   V : Keys \cup {NoKey}, O : Edge, F : Edge, high : Nat, reach : Reaches]

NoRelation ==
  [stage |-> "absent", H |-> NoKey, V |-> NoKey, O |-> ZERO32, F |-> ZERO32,
   high |-> 0, reach |-> "silent"]

FreshRelation(reach) ==
  [stage |-> "fresh", H |-> NoKey, V |-> NoKey, O |-> ZERO32, F |-> ZERO32,
   high |-> 0, reach |-> reach]

KeptOf(rel) ==
  [stage |-> rel.stage, H |-> rel.H, V |-> rel.V, O |-> rel.O, F |-> rel.F,
   high |-> 0, reach |-> "silent"]

Entry == [seq : Nat, by : Keys, next : Keys \cup {NoKey}, edge : Edge]

DoorTypeOK ==
  /\ heirs \in [Heirs -> Relation]
  /\ removed \in [Heirs -> Relation]
  /\ honoured \in [Heirs -> Seq(Entry)]
  /\ \A h \in Heirs : heirs[h].stage = "spent" => heirs[h].H \in Keys

DoorInit ==
  /\ heirs = [h \in Heirs |-> NoRelation]
  /\ removed = [h \in Heirs |-> NoRelation]
  /\ honoured = [h \in Heirs |-> << >>]

-----------------------------------------------------------------------------
(* The ward's own operations.                                              *)

(* An heir is drawn once: a drawn key is held or was released.             *)
Invite(h, reach) ==
  /\ heirs[h].stage = "absent"
  /\ removed[h].stage = "absent"
  /\ heirs' = [heirs EXCEPT ![h] = FreshRelation(reach)]
  /\ UNCHANGED << removed, honoured >>

ReleaseForgetsHalf(h) ==                                      \* mutant
  /\ heirs[h].stage # "absent"
  /\ removed' = [removed EXCEPT ![h] = KeptOf(heirs[h])]
  /\ UNCHANGED << heirs, honoured >>

(* What is kept of a relation stopped while fresh is null: no keys.        *)
Release(h) ==
  /\ heirs[h].stage # "absent"
  /\ heirs' = [heirs EXCEPT ![h] = NoRelation]
  /\ removed' = [removed EXCEPT ![h] = KeptOf(heirs[h])]
  /\ UNCHANGED honoured

-----------------------------------------------------------------------------
(* The door's judgment of a box, case by case.                             *)

Held(b, stage) == b.head \in Heirs /\ heirs[b.head].stage = stage
Kept(b) == /\ b.head \in Heirs
           /\ heirs[b.head].stage = "absent"
           /\ removed[b.head].stage = "spent"

(* The keys the relation of a spent or a kept head is judged by.           *)
KeysOf(b) == IF Kept(b) THEN removed[b.head] ELSE heirs[b.head]

(* The body opens.  Only a fresh heir's box is read past a ciphertext.     *)
Opens(b) ==
  /\ b.fault # "seal"
  /\ IF Held(b, "fresh")
       THEN b.ct # NoCt /\ b.edge = KnockEdge(b.ct)
       ELSE /\ b.ct = NoCt
            /\ IF Held(b, "spent") \/ Kept(b)
                 THEN b.edge \in {KeysOf(b).O, KeysOf(b).F}
                 ELSE b.edge = ZERO32

(* judgePayload: cases 2 and 3.                                            *)
PayloadReads(b) == b.fault # "payload" /\ b.seq \in 1..MaxCount

(* Which of the admitted keys signed it, when one did.                     *)
SignedBy(b) ==
  IF Held(b, "fresh")
    THEN IF b.by = b.head THEN "heir" ELSE "nobody"
    ELSE IF b.by = KeysOf(b).H THEN "H"
         ELSE IF b.by = KeysOf(b).V THEN "V" ELSE "nobody"

AnnouncesTheHeir(b) == b.next \notin {NoKey, b.by}             \* mutant
Announces(b) == b.next \notin {NoKey, b.head, b.by}

Refused(b) ==
  \/ ~Opens(b)
  \/ ~PayloadReads(b)
  \/ b.fault = "signature"
  \/ b.head = NoHeir /\ ~ZeroAnswers
  \/ b.head # NoHeir /\ \/ ~Held(b, "fresh") /\ ~Held(b, "spent") /\ ~Kept(b)
                        \/ SignedBy(b) = "nobody"

UnannouncedBinds(b) == FALSE                                  \* mutant
Unannounced(b) == Held(b, "fresh") /\ ~Announces(b)

RepeatedBelow(b) == Held(b, "spent") /\ b.seq < heirs[b.head].high \* mutant
Repeated(b) == Held(b, "spent") /\ b.seq <= heirs[b.head].high

Verdict(b) ==
  IF Refused(b) THEN "silence"
  ELSE IF b.head = NoHeir THEN "zero"
  ELSE IF Kept(b) THEN "removed"
  ELSE IF Unannounced(b) THEN "unannounced"
  ELSE IF Repeated(b) THEN "repeated"
  ELSE "choice"

(* What the reply says.  A silent reach answers a choice with silence.     *)
ReplyText(b) ==
  CASE Verdict(b) = "zero" -> IF b.unread THEN "silence" ELSE "object"
    [] Verdict(b) = "choice" ->
         IF heirs[b.head].reach = "silent" \/ b.unread
           THEN "silence" ELSE "object"
    [] OTHER -> Verdict(b)

-----------------------------------------------------------------------------
(* A choice moves the relation, whatever the reach answered: the tables of *)
(* the move, column by column.                                             *)

HeldAfter(rel, b) ==
  IF rel.stage = "fresh" THEN b.next
  ELSE IF b.by = rel.H THEN rel.H ELSE rel.V

VouchedAfterKept(rel, b) ==                                    \* mutant
  IF rel.stage = "fresh" THEN NoKey
  ELSE IF Announces(b) THEN b.next ELSE rel.V

VouchedAfter(rel, b) ==
  IF rel.stage = "fresh" THEN NoKey
  ELSE IF Announces(b) THEN b.next
  ELSE IF b.by = rel.H THEN rel.V ELSE NoKey

OpenAfterFollows(rel, b) == rel.F                              \* mutant
OpenAfter(rel, b) == b.edge

OfferedAfterOpen(rel, b, agreement) == Follow(rel.O, agreement) \* mutant
OfferedAfter(rel, b, agreement) == Follow(b.edge, agreement)

StageAfterUnspent(rel) == rel.stage                            \* mutant
StageAfter(rel) == "spent"

Moved(rel, b, agreement) ==
  [stage |-> StageAfter(rel),
   H |-> HeldAfter(rel, b), V |-> VouchedAfter(rel, b),
   O |-> OpenAfter(rel, b), F |-> OfferedAfter(rel, b, agreement),
   high |-> b.seq, reach |-> rel.reach]

(* The agreement of a reply is drawn: named by the moves made so far.      *)
NextAgreement(h) == Len(honoured[h]) + 1

Logged(b) == [seq |-> b.seq, by |-> b.by, next |-> b.next, edge |-> b.edge]

Arrive(b) ==
  IF Verdict(b) = "choice"
    THEN /\ heirs' = [heirs EXCEPT ![b.head] =
                        Moved(@, b, NextAgreement(b.head))]
         /\ honoured' = [honoured EXCEPT ![b.head] = Append(@, Logged(b))]
         /\ UNCHANGED removed
    ELSE UNCHANGED doorVars

-----------------------------------------------------------------------------
(* Everyone.  A box under an edge key not listed opens nothing.            *)

EdgesInReach ==
  {ZERO32} \cup {KnockEdge(ss) : ss \in Secrets}
           \cup UNION {{heirs[h].O, heirs[h].F, removed[h].O, removed[h].F} :
                          h \in Heirs}

DoorNext ==
  \/ \E h \in Heirs, reach \in Reaches : Invite(h, reach)
  \/ \E h \in Heirs : Release(h)
  \/ \E b \in Box(EdgesInReach) : Arrive(b)

DoorSpec == DoorInit /\ [][DoorNext]_doorVars

-----------------------------------------------------------------------------
(* What the door promises about each relation, whoever sends what.         *)

(* A number is honoured once: the numbers of the asks honoured climb, so a *)
(* box that comes again, early or late, moves nothing (case 11 of arrive). *)
NumbersClimb ==
  \A h \in Heirs : \A j \in DOMAIN honoured[h] : \A i \in 1..(j - 1) :
    honoured[h][i].seq < honoured[h][j].seq

(* The heir signs the first ask honoured and never another: no announce    *)
(* brings the heir's key back as an admitted key of its own relation.      *)
HeirDiesAtItsKnock ==
  \A h \in Heirs : \A i \in DOMAIN honoured[h] :
    (honoured[h][i].by = h) <=> (i = 1)

(* The asks honoured stand on one chain of edge keys: each is sealed under *)
(* the key of the one before or under what that one's reply made of it, so *)
(* an edge key that was passed never opens an honoured ask again.          *)
OneChain ==
  \A h \in Heirs : \A j \in DOMAIN honoured[h] :
    j > 1 => honoured[h][j].edge \in
               {honoured[h][j - 1].edge, Follow(honoured[h][j - 1].edge, j - 1)}

(* Who signed last, by the history alone: the key of the last ask, or the  *)
(* key the knock announced.                                                *)
LastSigner(log) ==
  IF Len(log) = 1 THEN log[1].next ELSE log[Len(log)].by

(* The keys announced after the knock that no later announcement replaced  *)
(* and no later ask took up: at most one.                                  *)
Waiting(h, log) ==
  {log[i].next : i \in {i \in 2..Len(log) :
     /\ log[i].next \notin {NoKey, h, log[i].by}
     /\ \A k \in (i + 1)..Len(log) :
          /\ log[k].next \in {NoKey, h, log[k].by}
          /\ log[k].by # log[i].next}}

(* The keys a held, spent relation admits are what its history says: the   *)
(* last signer and the one announced key still waiting, if there is one.   *)
AdmitsByHistory ==
  \A h \in Heirs : heirs[h].stage = "spent" =>
    /\ heirs[h].H = LastSigner(honoured[h])
    /\ {heirs[h].V} \ {NoKey} = Waiting(h, honoured[h])

(* Release is for good: the heir is not made again, and nothing sent to it *)
(* is honoured from then on.                                               *)
ReleasedForGood ==
  [][\A h \in Heirs : removed[h].stage # "absent" =>
       /\ heirs'[h] = NoRelation
       /\ removed'[h] = removed[h]
       /\ honoured'[h] = honoured[h]]_doorVars
=============================================================================
