------------------------------ MODULE Session ------------------------------
(***************************************************************************)
(* A session of the verifier at a kit's door (class Session and the run of *)
(* verifier/verify.js).  Each scenario has a stand program of its own; the *)
(* verifier seals a box, waits for the reply, judges it and follows in its *)
(* own books the move it takes the door to have made.  The kit is right,   *)
(* or wrong in a way the verifier's tests or its manual name.              *)
(***************************************************************************)
EXTENDS Door, Scenarios, Play

VARIABLES
  rel,      \* heir -> the relation as the verifier holds it
  flight    \* what is under way: records [box, lid, reply]

sessionVars == << rel, flight >>

Key(h, who) == << who, h >>
HeirOf(h) == IF h = 0 THEN NoHeir ELSE Key(h, "heir")

(* Every heir, key and secret a script names is one, and its numbers are   *)
(* counted to the end.                                                     *)
ASSUME SessionAssumption ==
  /\ \A h \in 1..10 : Key(h, "heir") \in Heirs
  /\ \A h \in 0..10 : /\ \A who \in {"K1", "K2", "K3", "new"} : Key(h, who) \in Keys
                      /\ \A ct \in {"ct", "ct1", "ct2", "alien"} : Key(h, ct) \in Secrets
  /\ MaxCount >= 78

NoStep == [next |-> "none", ct |-> "none"]

(* What invite puts down for a new heir.                                   *)
Unknocked ==
  [state |-> "fresh", H |-> NoKey, V |-> NoKey, O |-> ZERO32, F |-> ZERO32,
   E |-> ZERO32, highest |-> 0, edges |-> << >>, lost |-> NoStep]

Awaited == [kind |-> "awaited", agreement |-> 0]

SessionInit ==
  /\ rel = [h \in Heirs |-> Unknocked]
  /\ flight = << >>

Plays(op) == /\ scene \in DOMAIN Script
             /\ phase = "play" /\ flight = << >>
             /\ at <= Len(Script[scene]) /\ Script[scene][at].op = op
Now == Script[scene][at]

-----------------------------------------------------------------------------
(* resolve and ask: the box a step stands for.                             *)

Signer(step) ==
  LET r == rel[HeirOf(step.heir)]
  IN CASE step.signer = "H" -> r.H
       [] step.signer = "V" -> r.V
       [] step.signer = "lost" -> Key(step.heir, r.lost.next)
       [] OTHER -> Key(step.heir, step.signer)

(* The first edge key passed that is neither open nor offered now.         *)
Stale(r) ==
  LET passed == {i \in DOMAIN r.edges : r.edges[i] \notin {r.O, r.F}}
  IN r.edges[CHOOSE i \in passed : \A j \in passed : i <= j]

(* An heir knocks with one ciphertext, but for the two knocks at once.     *)
CtOf(step) == IF step.ct \in {"ct1", "ct2"} THEN step.ct ELSE "ct"

EdgeUnder(step) ==
  LET r == rel[HeirOf(step.heir)]
  IN CASE step.under = "O" -> r.O
       [] step.under = "F" -> r.F
       [] step.under = "E" -> KnockEdge(Key(step.heir, CtOf(step)))
       [] step.under = "zero" -> ZERO32
       [] step.under = "stale" -> Stale(r)
       [] step.under = "lost" -> KnockEdge(Key(step.heir, r.lost.ct))
       [] step.under = "rand" -> KnockEdge(Key(0, "ct"))

NextKey(step) ==
  CASE step.next = "null" -> NoKey
    [] step.next = "self" -> Signer(step)
    [] OTHER -> Key(step.heir, step.next)

SealedFor(step, read) ==
  [SealAsk(HeirOf(step.heir),
           IF step.ct = "none" THEN NoCt ELSE Key(step.heir, step.ct),
           ZERO32, Signer(step), NextKey(step), step.seq, ~read)
     EXCEPT !.edge = EdgeUnder(step), !.fault = step.fault]

Sent(step, read) ==
  [box |-> SealedFor(step, read), lid |-> step.lid, reply |-> Awaited]

(* A key the relation does not hold has no hex to write.                   *)
Throws(step) == step.op = "ask" /\ Signer(step) = NoKey

SessionAsks ==
  /\ Plays("ask")
  /\ ~Throws(Now)
  /\ \E read \in Now.reads : flight' = << Sent(Now, read) >>
  /\ UNCHANGED << doorVars, playVars, rel >>

SessionAsksTwice ==
  /\ Plays("together")
  /\ flight' = [i \in 1..2 |-> Sent(Now.pair[i], TRUE)]
  /\ UNCHANGED << doorVars, playVars, rel >>

-----------------------------------------------------------------------------
(* The kit's stand: its door takes a box and its reply comes back, the way *)
(* the kit at hand answers.                                                *)

Mute == kit \in {"silent", "nothing"}

Text(b) ==
  CASE kit = "silent" -> "silence"
    [] kit = "nothing" -> "nothing"
    [] kit = "short" /\ ReplyText(b) = "silence" -> "invalid"
    [] OTHER -> ReplyText(b)

(* open: what the reply is to the verifier.                                *)
Opened(b, lid) ==
  [kind |-> IF ~lid /\ Text(b) = "silence" THEN "sealed" ELSE Text(b),
   agreement |-> IF b.head \in Heirs THEN NextAgreement(b.head) ELSE 0]

StandArrives(i) ==
  /\ alive
  /\ phase = "play"
  /\ flight[i].reply = Awaited
  /\ flight' = [flight EXCEPT ![i].reply = Opened(flight[i].box, flight[i].lid)]
  /\ IF Mute THEN UNCHANGED doorVars ELSE Arrive(flight[i].box)
  /\ UNCHANGED << playVars, rel >>

(* carryLine: an answer that is not there in time is nothing, whether the  *)
(* door took the ask or has yet to.                                        *)
LineIsLate(arrived) ==
  /\ scene = "carried"
  /\ alive
  /\ flight # << >> /\ flight[1].reply = Awaited
  /\ flight' = [flight EXCEPT ![1].reply.kind = "nothing"]
  /\ late' = TRUE
  /\ IF arrived THEN Arrive(flight[1].box) ELSE UNCHANGED doorVars
  /\ UNCHANGED << scene, kit, at, failed, phase, alive, rel >>

-----------------------------------------------------------------------------
(* judge, and the move the verifier follows.                               *)

Fits(want, kind) ==
  CASE kind = "nothing" -> TRUE
    [] want = "stranger" -> kind \in {"silence", "sealed"}
    [] want = "answer" -> kind = "object"
    [] want = "below" -> kind \in {"object", "silence", "repeated"}
    [] want = "chosen" -> kind \in {"object", "silence"}
    [] want = "removed" -> kind \in {"removed", "silence"}
    [] OTHER -> kind = want

TakesUnread(want, kind) == kind = "invalid" \/ Fits(want, kind)   \* mutant
Takes(want, kind) == kind # "invalid" /\ Fits(want, kind)

MovesOnAnObject(step, kind) ==                                 \* mutant
  /\ step.heir # 0
  /\ step.want \in {"answer", "silence", "chosen"}
  /\ kind = "object"

Moves(step, kind) ==
  /\ step.heir # 0
  /\ step.want \in {"answer", "silence", "chosen"}
  /\ kind \in {"object", "silence"}

Announced(step) ==
  IF step.next \in {"null", "self", "heir", step.signer} THEN NoKey
  ELSE Key(step.heir, step.next)

FirstMove(r, step, agreement) ==
  LET E == KnockEdge(Key(step.heir, CtOf(step)))
  IN [r EXCEPT !.state = "spent", !.H = Announced(step), !.V = NoKey,
               !.O = E, !.F = Follow(E, agreement), !.highest = step.seq]

LaterMoveKeepsV(r, step, edge, agreement) ==                   \* mutant
  [r EXCEPT !.V = IF Announced(step) # NoKey THEN Announced(step) ELSE r.V,
            !.H = IF step.signer = "H" THEN r.H ELSE r.V,
            !.edges = @ \o << r.O, r.F >>,
            !.O = edge, !.F = Follow(edge, agreement),
            !.highest = IF step.seq > @ THEN step.seq ELSE @]

LaterMove(r, step, edge, agreement) ==
  LET byH == step.signer = "H"
  IN [r EXCEPT !.V = IF Announced(step) # NoKey THEN Announced(step)
                     ELSE IF byH THEN r.V ELSE NoKey,
               !.H = IF byH THEN r.H ELSE r.V,
               !.edges = @ \o << r.O, r.F >>,
               !.O = edge, !.F = Follow(edge, agreement),
               !.highest = IF step.seq > @ THEN step.seq ELSE @]

MoveOf(r, step, sent) ==
  IF r.state = "fresh" THEN FirstMove(r, step, sent.reply.agreement)
  ELSE LaterMove(r, step, sent.box.edge, sent.reply.agreement)

Answered == flight # << >> /\ \A i \in DOMAIN flight : flight[i].reply # Awaited

(* One reply is judged; a knock that had to bind and did not is the end of *)
(* the scenario, and what hangs on an object is left out without one.      *)
SessionJudges ==
  /\ phase = "play"
  /\ Answered
  /\ Now.op = "ask"
  /\ LET sent == flight[1]
         kind == sent.reply.kind
         h == HeirOf(Now.heir)
     IN /\ rel' = IF Moves(Now, kind)
                    THEN [rel EXCEPT ![h] = MoveOf(@, Now, sent)] ELSE rel
        /\ IF Now.binds /\ rel'[h].state # "spent"
             THEN Breaks({"end"} \cup IF Takes(Now.want, kind) THEN {} ELSE {"check"})
             ELSE Goes({Takes(Now.want, kind)},
                       1 + IF kind = "object" THEN 0 ELSE Now.skips)
  /\ flight' = << >>
  /\ UNCHANGED doorVars

(* Of two replies at one moment, one object at most.                       *)
SessionJudgesTwo ==
  /\ phase = "play"
  /\ Answered
  /\ Now.op = "together"
  /\ LET h == HeirOf(Now.heir)
         kind == [i \in 1..2 |-> flight[i].reply.kind]
         objects == {i \in 1..2 : kind[i] = "object"}
         beside == \A i \in 1..2 : kind[i] \in {"object", "nothing", Now.other}
     IN IF \E i \in 1..2 : objects = {i}
          THEN LET won == CHOOSE i \in 1..2 : objects = {i}
               IN /\ rel' = [rel EXCEPT ![h] =
                       [MoveOf(@, Now.pair[won], flight[won]) EXCEPT
                          !.lost = [next |-> Now.pair[3 - won].next,
                                    ct |-> Now.pair[3 - won].ct]]]
                  /\ Goes({beside}, 1)
          ELSE /\ Goes({objects = {} /\ beside}, 1 + Now.skips)
               /\ UNCHANGED rel
  /\ flight' = << >>
  /\ UNCHANGED doorVars

-----------------------------------------------------------------------------
(* The other steps.                                                        *)

SessionInvites ==
  /\ Plays("invite")
  /\ alive
  /\ Invite(HeirOf(Now.heir), Now.reach)
  /\ Goes({}, 1)
  /\ UNCHANGED sessionVars

SessionReleases ==
  /\ Plays("release")
  /\ alive
  /\ LET h == HeirOf(Now.heir)
         held == heirs[h].stage # "absent"
     IN /\ IF held THEN Release(h) ELSE UNCHANGED doorVars
        /\ Goes({held = Now.wants}, 1)
  /\ UNCHANGED sessionVars

(* The verifier's own books, looked at in the middle of a scenario.        *)
SessionLooks ==
  /\ Plays("model")
  /\ LET r == rel[HeirOf(Now.heir)]
     IN Goes({r.H = (IF Now.key = "null" THEN NoKey ELSE Key(Now.heir, Now.key)),
              r.V = NoKey}, 1)
  /\ UNCHANGED << doorVars, sessionVars >>

GivesUpAtExit ==                                               \* mutant
  /\ scene \in DOMAIN Script
  /\ phase = "play"
  /\ at <= Len(Script[scene])
  /\ ~alive
  /\ flight # << >> => ~Answered
  /\ Breaks({"given up"})
  /\ flight' = << >>
  /\ UNCHANGED << doorVars, rel >>

(* A stand that exited, or gives no answer within the wait, fails what was *)
(* asked of it; the scenario goes no further.                              *)
SessionGivesUp ==
  /\ scene \in DOMAIN Script
  /\ phase = "play"
  /\ at <= Len(Script[scene])
  /\ \/ flight # << >> /\ ~Answered
     \/ flight = << >> /\ ~alive /\ Now.op # "model"
  /\ Breaks({"given up"})
  /\ flight' = << >>
  /\ UNCHANGED << doorVars, rel >>

SessionThrows ==
  /\ Plays("ask")
  /\ Throws(Now)
  /\ Breaks({"end"})
  /\ UNCHANGED << doorVars, sessionVars >>

SessionEnds ==
  /\ flight = << >>
  /\ scene \in DOMAIN Script
  /\ PlayEnds(Len(Script[scene]))
  /\ UNCHANGED << doorVars, sessionVars >>

SessionMoves ==
  \/ SessionAsks \/ SessionAsksTwice \/ SessionJudges \/ SessionJudgesTwo
  \/ SessionInvites \/ SessionReleases \/ SessionLooks
  \/ SessionGivesUp \/ SessionThrows \/ SessionEnds

StandMoves ==
  \/ \E i \in DOMAIN flight : StandArrives(i)
  \/ \E arrived \in BOOLEAN : LineIsLate(arrived)

-----------------------------------------------------------------------------

(* The kits the verifier's tests spoil are failed, and for what is wrong   *)
(* with them: one a byte short to strangers in the checks on what it says  *)
(* to strangers, whenever it came that far, one that says more on stdout   *)
(* than its answers in the check on that.                                  *)
FailsAWrongKit ==
  phase = "done" =>
    /\ kit = "stray" => Failures({"stray"}) # {}
    /\ kit = "short" =>
         \A i \in 1..(at - 1) :
           Script[scene][i].op = "ask" =>
             (Script[scene][i].want = "stranger" <=> << "check", i >> \in failed)

(* The verifier's books are the door's: what it derived from its own asks  *)
(* and the replies to them is the relation the door holds, or kept of one  *)
(* it released.                                                            *)
TracksTheDoor ==
  kit = "right" /\ ~late /\ scene \in DOMAIN Script /\ flight = << >>
    /\ phase = "play" =>
    \A h \in Heirs :
      LET door == IF heirs[h].stage = "absent" THEN removed[h] ELSE heirs[h]
          mine == rel[h]
      IN IF mine.state = "fresh" THEN door.stage \in {"absent", "fresh"}
         ELSE /\ << mine.H, mine.V, mine.O, mine.F >> =
                   << door.H, door.V, door.O, door.F >>
              /\ heirs[h].stage = "spent" => mine.highest = door.high
=============================================================================
