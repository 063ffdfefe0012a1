------------------------------- MODULE GoDoor -------------------------------
(***************************************************************************)
(* The ward and the door of the Go kit (examples/go/ward.go, door.go).     *)
(* Where the JavaScript ward moves a relation from one map to another when *)
(* it lets an heir go, this one keeps every heir it ever made in one map,  *)
(* flags it, and leaves its keys where they are; a second map has the      *)
(* heirs held by the names the ward was given, and a name may be used      *)
(* again.  Kit.Arrive, Invite and Release hold one mutex, so each is one   *)
(* step.                                                                   *)
(***************************************************************************)
EXTENDS Boxes

CONSTANTS
  ZeroAnswers,   \* does the ward have a reach of its own?
  Names          \* the names an heir may be given

VARIABLES
  byPK,      \* Ward.byPK: heir -> Heir, or Unmade
  named,     \* Ward.heirs: name -> heir, or NoHeir
  honoured   \* history: heir -> the asks honoured, in order

goVars == << byPK, named, honoured >>

Reaches == {"answers", "silent"}

GoHeir ==
  [made : BOOLEAN, spent : BOOLEAN, removed : BOOLEAN,
   held : Keys \cup {NoKey}, vouched : Keys \cup {NoKey},
   open : Edge, offered : Edge, highest : Nat, reach : Reaches]

NewHeir(reach) ==
  [made |-> TRUE, spent |-> FALSE, removed |-> FALSE,
   held |-> NoKey, vouched |-> NoKey, open |-> ZERO32, offered |-> ZERO32,
   highest |-> 0, reach |-> reach]

Unmade ==
  [made |-> FALSE, spent |-> FALSE, removed |-> FALSE,
   held |-> NoKey, vouched |-> NoKey, open |-> ZERO32, offered |-> ZERO32,
   highest |-> 0, reach |-> "silent"]

GoEntry == [seq : Nat, by : Keys, next : Keys \cup {NoKey}, edge : Edge]

GoTypeOK ==
  /\ byPK \in [Heirs -> GoHeir]
  /\ named \in [Names -> Heirs \cup {NoHeir}]
  /\ honoured \in [Heirs -> Seq(GoEntry)]
  /\ \A h \in Heirs : byPK[h].spent => byPK[h].held \in Keys

GoInit ==
  /\ byPK = [h \in Heirs |-> Unmade]
  /\ named = [n \in Names |-> NoHeir]
  /\ honoured = [h \in Heirs |-> << >>]

-----------------------------------------------------------------------------

InviteUnderAnyName(n, h, reach) ==                             \* mutant
  /\ ~byPK[h].made
  /\ named' = [named EXCEPT ![n] = h]
  /\ byPK' = [byPK EXCEPT ![h] = NewHeir(reach)]
  /\ UNCHANGED honoured

GoInvite(n, h, reach) ==
  /\ named[n] = NoHeir
  /\ ~byPK[h].made
  /\ named' = [named EXCEPT ![n] = h]
  /\ byPK' = [byPK EXCEPT ![h] = NewHeir(reach)]
  /\ UNCHANGED honoured

ReleasedForgotten(heir) == Unmade                              \* mutant

Released(heir) ==
  [made |-> heir.made, spent |-> heir.spent, removed |-> TRUE,
   held |-> heir.held, vouched |-> heir.vouched, open |-> heir.open,
   offered |-> heir.offered, highest |-> heir.highest, reach |-> heir.reach]

GoRelease(n) ==
  /\ named[n] # NoHeir
  /\ named' = [named EXCEPT ![n] = NoHeir]
  /\ byPK' = [byPK EXCEPT ![named[n]] = Released(@)]
  /\ UNCHANGED honoured

-----------------------------------------------------------------------------
(* judge.                                                                  *)

HeldOrKeptAlways(b) == b.head \in Heirs /\ byPK[b.head].made   \* mutant

(* held: the door holds the heir, or stopped while it was spent.           *)
HeldOrKept(b) ==
  /\ b.head \in Heirs
  /\ byPK[b.head].made
  /\ ~byPK[b.head].removed \/ byPK[b.head].spent

Spent(b) == byPK[b.head].spent

BodyOpens(b) ==
  /\ b.fault # "seal"
  /\ IF HeldOrKept(b) /\ ~Spent(b)
       THEN b.ct # NoCt /\ b.edge = KnockEdge(b.ct)
       ELSE /\ b.ct = NoCt
            /\ IF HeldOrKept(b)
                 THEN b.edge \in {byPK[b.head].open, byPK[b.head].offered}
                 ELSE b.edge = ZERO32

WellFormed(b) == b.fault # "payload" /\ b.seq \in 1..MaxCount

Admitted(b) ==
  IF ~Spent(b) THEN b.by = b.head
  ELSE \/ b.by = byPK[b.head].held
       \/ byPK[b.head].vouched # NoKey /\ b.by = byPK[b.head].vouched

Stranger(b) ==
  \/ ~BodyOpens(b)
  \/ ~WellFormed(b)
  \/ b.fault = "signature"
  \/ IF b.head = NoHeir THEN ~ZeroAnswers ELSE ~HeldOrKept(b) \/ ~Admitted(b)

NewKeyOrNull(b) == b.next \notin {b.head, b.by}                \* mutant
NewKey(b) == b.next \notin {NoKey, b.head, b.by}

GoVerdict(b) ==
  IF Stranger(b) THEN "silence"
  ELSE IF b.head = NoHeir THEN "zero"
  ELSE IF byPK[b.head].removed THEN "removed"
  ELSE IF ~Spent(b) /\ ~NewKey(b) THEN "unannounced"
  ELSE IF Spent(b) /\ b.seq <= byPK[b.head].highest THEN "repeated"
  ELSE "choice"

(* replyText writes an object only when Parse reads it.  A reach that      *)
(* gives the args back gives their bytes, and Parse refuses in them what   *)
(* the payload's own reading had passed over: a key twice among the args'  *)
(* own keys.  Such args are what is unread here.                           *)
GoReplyText(b) ==
  CASE GoVerdict(b) = "zero" -> IF b.unread THEN "silence" ELSE "object"
    [] GoVerdict(b) = "choice" ->
         IF byPK[b.head].reach = "silent" \/ b.unread
           THEN "silence" ELSE "object"
    [] OTHER -> GoVerdict(b)

HoldsAfterKept(heir, b) ==                                     \* mutant
  IF ~heir.spent THEN b.next ELSE heir.held

(* The key that signed is the key held from now on.                        *)
HoldsAfter(heir, b) == IF ~heir.spent THEN b.next ELSE b.by

VouchesAfter(heir, b) ==
  IF ~heir.spent THEN NoKey
  ELSE IF NewKey(b) THEN b.next
  ELSE IF heir.vouched # NoKey /\ b.by = heir.vouched THEN NoKey
  ELSE heir.vouched

Honours(heir, b, agreement) ==
  [made |-> TRUE, spent |-> TRUE, removed |-> FALSE,
   held |-> HoldsAfter(heir, b), vouched |-> VouchesAfter(heir, b),
   open |-> b.edge, offered |-> Follow(b.edge, agreement),
   highest |-> b.seq, reach |-> heir.reach]

GoArrive(b) ==
  IF GoVerdict(b) = "choice"
    THEN /\ byPK' = [byPK EXCEPT ![b.head] =
                       Honours(@, b, Len(honoured[b.head]) + 1)]
         /\ honoured' = [honoured EXCEPT ![b.head] =
              Append(@, [seq |-> b.seq, by |-> b.by, next |-> b.next,
                         edge |-> b.edge])]
         /\ UNCHANGED named
    ELSE UNCHANGED goVars

GoEdgesInReach ==
  {ZERO32} \cup {KnockEdge(ss) : ss \in Secrets}
           \cup UNION {{byPK[h].open, byPK[h].offered} : h \in Heirs}

GoNext ==
  \/ \E n \in Names, h \in Heirs, reach \in Reaches : GoInvite(n, h, reach)
  \/ \E n \in Names : GoRelease(n)
  \/ \E b \in Box(GoEdgesInReach) : GoArrive(b)

GoSpec == GoInit /\ [][GoNext]_goVars

-----------------------------------------------------------------------------

(* Every heir made and not let go has one name, and a name leads to no     *)
(* other: a name used again never lets go of an heir made before.          *)
NamesLeadToTheHeld ==
  \A h \in Heirs :
    LET names == {n \in Names : named[n] = h}
    IN IF byPK[h].made /\ ~byPK[h].removed
         THEN \E n \in names : names = {n}
         ELSE names = {}

(* The two maps of the JavaScript ward, read off the one map here.         *)
StageIn(heir) == IF heir.spent THEN "spent" ELSE "fresh"

Nothing0 == [stage |-> "absent", H |-> NoKey, V |-> NoKey, O |-> ZERO32,
             F |-> ZERO32, high |-> 0, reach |-> "silent"]

HeirsOf ==
  [h \in Heirs |->
     IF ~byPK[h].made \/ byPK[h].removed THEN Nothing0
     ELSE [stage |-> StageIn(byPK[h]), H |-> byPK[h].held,
           V |-> byPK[h].vouched, O |-> byPK[h].open, F |-> byPK[h].offered,
           high |-> byPK[h].highest, reach |-> byPK[h].reach]]

RemovedOf ==
  [h \in Heirs |->
     IF ~byPK[h].removed THEN Nothing0
     ELSE [stage |-> StageIn(byPK[h]), H |-> byPK[h].held,
           V |-> byPK[h].vouched, O |-> byPK[h].open, F |-> byPK[h].offered,
           high |-> 0, reach |-> "silent"]]

Doors == INSTANCE Door WITH heirs <- HeirsOf, removed <- RemovedOf

(* The Go door and the JavaScript door are one door to whoever asks: the   *)
(* same boxes are honoured and the same keys admitted after them.          *)
IsTheDoor == Doors!DoorSpec

(* And they say the same: every box, in every state, hears the same reply. *)
SaysTheSame ==
  \A b \in Box(GoEdgesInReach) : GoReplyText(b) = Doors!ReplyText(b)

(* ANSWERS.md of the Go kit: whatever its args, JSON by the grammar, with  *)
(* keys repeated in them or not, an ask honoured by a reach that echoes is *)
(* answered with them.  (Not what the code does: replyText answers args    *)
(* with a repeated key by silence, and the relation moves all the same.)   *)
EchoesWhatItIsGiven ==
  \A b \in Box(GoEdgesInReach) :
    GoVerdict(b) = "choice" /\ byPK[b.head].reach = "answers" =>
      GoReplyText(b) = "object"
=============================================================================
