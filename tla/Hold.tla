-------------------------------- MODULE Hold --------------------------------
(***************************************************************************)
(* The kit as a dialer (classes Dial and AtDial of verifier/carried.js,    *)
(* class Hold of verifier/hold.js).  The verifier asks the kit's program   *)
(* to send, and waits at a listener of its own for the ask; an ask goes to *)
(* whichever wait is under way, and one nobody waits for is answered with  *)
(* nothing.  The ask, the program's own answer and a timer race for the    *)
(* wait, and the ask of a send given up may still be under way.            *)
(***************************************************************************)
EXTENDS AskerRun

VARIABLES
  waiter,     \* Hold.waiter: is an ask waited for?
  sends,      \* asks no hold has got: [turn, who, to, sent], NoSent until sealed
  unwaited,   \* did an ask come to the first address that nobody waited for?
  reached     \* Dial.reached

holdVars == << waiter, sends, unwaited, reached >>

HoldInit ==
  /\ waiter = FALSE
  /\ sends = {}
  /\ unwaited = FALSE
  /\ reached = FALSE

(* The address the kit is to go by, and the verifier waits at.             *)
Told == {i \in DOMAIN Lists[scene] : i <= at /\ Lists[scene][i].op = "routes"}
Address == Lists[scene][CHOOSE i \in Told : \A j \in Told : j <= i].to

SendNow == {s \in sends : s.turn = at}

(* seal and nextAsk: the request goes out and the wait begins.  The request *)
(* to a program that exited fails, and its wait runs out.                  *)
DialSends ==
  /\ scene \in DOMAIN Lists \ {"asker"}
  /\ phase = "play" /\ at <= Len(Lists[scene]) /\ Turn.op = "asks"
  /\ ~waiter
  /\ waiter' = TRUE
  /\ sends' = sends \cup
       IF alive THEN {[turn |-> at, who |-> Turn.who, to |-> Address,
                       sent |-> NoSent]} ELSE {}
  /\ UNCHANGED << playVars, st, askerVars, unwaited, reached >>

(* The kit's own step, an earlier send's among them.                       *)
KitSeals(s) ==
  /\ alive
  /\ s.sent = NoSent
  /\ StandingAsk(s.who, FALSE)
  /\ sends' = (sends \ {s}) \cup
       {[s EXCEPT !.sent = NextSent(s.who, FALSE), !.to = Address]}
  /\ UNCHANGED << playVars, askerVars, waiter, unwaited, reached >>

Awaits(s) == waiter /\ s.to = Address

(* accept: the ask that comes goes to the wait under way there, whose ever *)
(* it is.  (bound: the ask that was waited for then does not come.)        *)
HoldTakes(s) ==
  /\ s.sent # NoSent
  /\ phase = "play"
  /\ sends' = IF Awaits(s) THEN {} ELSE sends \ {s}
  /\ IF Awaits(s)
       THEN /\ TakesApart(Turn.who, s.sent)
            /\ waiter' = FALSE /\ reached' = TRUE
            /\ UNCHANGED unwaited
       ELSE /\ unwaited' = (unwaited \/ s.to = "first")
            /\ UNCHANGED << playVars, taken, waiter, reached >>
  /\ UNCHANGED << st, mints >>

(* Where the wait ends without its ask, the relation is given up; the ask  *)
(* may come later yet.  (bound: one such ask is followed.)                 *)
WaitIsOver(oks, tooLate) ==
  /\ waiter
  /\ waiter' = FALSE
  /\ \/ ~late /\ UNCHANGED sends
     \/ sends' = sends \ SendNow
  /\ GoesLate(oks, Left, tooLate)
  /\ UNCHANGED << askerVars, unwaited, reached >>

(* missed: a kit need not go by the addresses in an invitation.            *)
Missed == scene = "through" /\ Turn.who = "r1" /\ ~reached

(* The program answers that it read nothing before its ask was here.       *)
KitStops(s) ==
  /\ phase = "play"
  /\ alive
  /\ s \in SendNow /\ s.sent # NoSent
  /\ StandingRead(s.who, Nothing)
  /\ IF Missed THEN WaitIsOver({}, FALSE) /\ sends' = sends \ SendNow
     ELSE WaitIsOver({FALSE}, TRUE)

(* The timer of nextAsk.                                                   *)
HoldTimer ==
  /\ phase = "play"
  /\ WaitIsOver({FALSE}, TRUE)
  /\ UNCHANGED st

(* hold.unwaited, looked at after the second route.                        *)
HoldCounts ==
  /\ scene \in DOMAIN Lists \ {"asker"}
  /\ phase = "play" /\ at <= Len(Lists[scene]) /\ Turn.op = "counts"
  /\ Goes({~unwaited}, 1)
  /\ UNCHANGED << st, askerVars, holdVars >>

HoldMoves == DialSends \/ HoldTimer \/ HoldCounts
KitDials == \E s \in sends : KitSeals(s) \/ HoldTakes(s) \/ KitStops(s)
=============================================================================
