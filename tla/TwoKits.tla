------------------------------ MODULE TwoKits ------------------------------
(***************************************************************************)
(* One kit's asker at another kit's door, with the verifier between them   *)
(* (class Pass and twoKits of verifier/carried.js).  The verifier catches  *)
(* each ask and delivers it once, late, twice, altered, out of order or    *)
(* never, and holds what the asker then reads against what SPEC.md lets it *)
(* read.                                                                   *)
(***************************************************************************)
EXTENDS Door, Standing, Play

VARIABLES
  caught,      \* what the second kit sent and has read no reply to, or NoSent
  forwarded,   \* how often the first kit was given it
  answer,      \* the first kit's last reply
  heldBack     \* the ask kept to be delivered out of order, or NoSent

passVars == << caught, forwarded, answer, heldBack >>

(* A pass: the deliveries of an ask, whether the last one's reply is sent  *)
(* back, and what the second kit may read.                                 *)
Pass(p, deliver, replies, wants) ==
  [op |-> "pass", who |-> p, deliver |-> deliver, replies |-> replies,
   wants |-> wants, binds |-> FALSE, keeps |-> FALSE]

straight(p) == Pass(p, << "as is" >>, TRUE, {"object"})
knocks(p) == [straight(p) EXCEPT !.binds = TRUE]
neverBack(p, deliver) == Pass(p, deliver, FALSE, {"nothing"})
Twice == << "as is", "as is" >>

Routed(p) == [op |-> "invites", who |-> p]
Redelivered == [op |-> "redelivers"]

throughAt(p) == << Routed(p), straight(p), straight(p) >>

plain == << Routed("r1"), knocks("r1"), straight("r1") >> \o throughAt("r3")

faults ==
  << Routed("r1"), knocks("r1"), straight("r1"),
     Pass("r1", << "as is" >>, TRUE, {"object", "nothing"}),
     Pass("r1", Twice, TRUE, {"repeated", "nothing"}),
     Pass("r1", << "altered" >>, TRUE, {"silence", "nothing"}),
     [neverBack("r1", << >>) EXCEPT !.keeps = TRUE],
     straight("r1"), Redelivered, straight("r1"),
     neverBack("r1", << >>), straight("r1"),
     neverBack("r1", << "as is" >>), straight("r1"),
     Routed("r2"), Pass("r2", Twice, TRUE, {"silence", "nothing"}) >>
  \o throughAt("r3")

Passes == [plain |-> plain, faults |-> faults]

-----------------------------------------------------------------------------

PassInit ==
  /\ caught = NoSent
  /\ forwarded = 0
  /\ answer = Nothing
  /\ heldBack = NoSent

PassNow == Passes[scene][at]
PassPlays(op) == /\ scene \in DOMAIN Passes /\ phase = "play" /\ alive
                 /\ at <= Len(Passes[scene]) /\ Passes[scene][at].op = op

(* The first kit invites, and the second is told where the proxy is.       *)
PassInvites ==
  /\ PassPlays("invites")
  /\ Invite(Invitation[PassNow.who], "answers")
  /\ Goes({}, 1)
  /\ UNCHANGED << st, passVars >>

(* catchSend.                                                              *)
SecondSends ==
  /\ PassPlays("pass")
  /\ caught = NoSent
  /\ StandingAsk(PassNow.who, FALSE)
  /\ caught' = NextSent(PassNow.who, FALSE)
  /\ forwarded' = 0
  /\ answer' = Nothing
  /\ UNCHANGED << doorVars, playVars, heldBack >>

AnswerTo(sent, b) ==
  [lid |-> IF ReplyText(b) = "silence" THEN NoCt ELSE sent.lid,
   agreement |-> NextAgreement(b.head), text |-> ReplyText(b)]

(* forward.                                                                *)
FirstArrives ==
  /\ PassPlays("pass")
  /\ caught # NoSent
  /\ forwarded < Len(PassNow.deliver)
  /\ LET b == IF PassNow.deliver[forwarded + 1] = "altered"
                THEN [caught.box EXCEPT !.fault = "seal"] ELSE caught.box
     IN Arrive(b) /\ answer' = AnswerTo(caught, b)
  /\ forwarded' = forwarded + 1
  /\ UNCHANGED << playVars, st, caught, heldBack >>

(* pass and reads.  The second kit may have stopped waiting by itself, and *)
(* has read nothing then.                                                  *)
SecondReads(timed) ==
  /\ PassPlays("pass")
  /\ caught # NoSent
  /\ forwarded = Len(PassNow.deliver)
  /\ timed => ~late       \* bound: it stops waiting too early once
  /\ LET reply == IF timed \/ ~PassNow.replies THEN Nothing ELSE answer
         kind == ReadKind(caught, reply)
     IN /\ StandingRead(PassNow.who, reply)
        /\ IF PassNow.binds /\ kind # "object"
             THEN Breaks(IF timed THEN {"given up"} ELSE {"check", "end"})
             ELSE GoesLate({kind \in PassNow.wants}, 1,
                           timed /\ "nothing" \notin PassNow.wants)
  /\ caught' = NoSent
  /\ heldBack' = IF PassNow.keeps THEN caught ELSE heldBack
  /\ UNCHANGED << doorVars, forwarded, answer >>

(* The ask held back comes to the door after a later one; that it is       *)
(* answered at all is what is checked.                                     *)
PassRedelivers ==
  /\ PassPlays("redelivers")
  /\ Arrive(heldBack.box)
  /\ Goes({ReplyText(heldBack.box) # "nothing"}, 1)
  /\ UNCHANGED << st, passVars >>

PassGivesUp ==
  /\ scene \in DOMAIN Passes
  /\ phase = "play"
  /\ at <= Len(Passes[scene])
  /\ Breaks({"given up"})
  /\ UNCHANGED << doorVars, st, passVars >>

PassEnds ==
  /\ scene \in DOMAIN Passes
  /\ PlayEnds(Len(Passes[scene]))
  /\ UNCHANGED << doorVars, st, passVars >>

PassMoves ==
  \/ PassInvites \/ SecondSends \/ FirstArrives
  \/ \E timed \in BOOLEAN : SecondReads(timed)
  \/ PassRedelivers \/ PassGivesUp \/ PassEnds
=============================================================================
