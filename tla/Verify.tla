------------------------------- MODULE Verify -------------------------------
(***************************************************************************)
(* The verifier's whole run (verifier/verify.js and verifier/carried.js):  *)
(* its scenarios at a kit's door, with a kit's asker, between two kits and *)
(* over the channel, one at a time.                                        *)
(***************************************************************************)
EXTENDS Session, Hold, TwoKits, Harness

vars == << doorVars, st, playVars, sessionVars, askerVars, holdVars, passVars,
           harnessVars >>

SCENARIOS == DOMAIN Script \cup DOMAIN Lists \cup DOMAIN Passes \cup {"harness"}

VerifyInit ==
  /\ DoorInit /\ StandingInit /\ PlayInit(SCENARIOS)
  /\ SessionInit /\ AskerInit /\ HoldInit /\ PassInit /\ HarnessInit

DoorScenario(moves) ==
  moves /\ UNCHANGED << st, askerVars, holdVars, passVars, harnessVars >>
DialScenario(moves) ==
  moves /\ UNCHANGED << doorVars, sessionVars, passVars, harnessVars >>
AskerScenario(moves) == DialScenario(moves /\ UNCHANGED holdVars)
PassScenario(moves) ==
  moves /\ UNCHANGED << sessionVars, askerVars, holdVars, harnessVars >>
HarnessScenario(moves) ==
  moves /\ UNCHANGED << doorVars, st, sessionVars, askerVars, holdVars, passVars >>
AnyScenario(moves) ==
  HarnessScenario(moves /\ UNCHANGED harnessVars)

(* The verifier's own steps, its timers among them.                        *)
VerifierMoves ==
  \/ DoorScenario(SessionMoves)
  \/ AskerScenario(AskerMoves)
  \/ DialScenario(HoldMoves)
  \/ PassScenario(PassMoves)
  \/ HarnessScenario(HarnessMoves)
  \/ AnyScenario(PlayCloses(~stray))

VerifyNext ==
  \/ VerifierMoves
  \/ DoorScenario(StandMoves)
  \/ DialScenario(KitDials)
  \/ HarnessScenario(\E n \in wire : StandSays(n))
  \/ AnyScenario(givenUp = {} /\ StandDies)     \* bound: one of the two

VerifySpec == VerifyInit /\ [][VerifyNext]_vars

(* What the verifier waits for it comes to give up, what it can do without *)
(* the kit it comes to do, and a scenario at its end it comes to close; a  *)
(* kit need never answer.                                                  *)
VerifierEnds ==
  \/ DoorScenario(SessionMoves)
  \/ AskerScenario(AskerGivesUp \/ AskerEnds)
  \/ DialScenario(HoldMoves)
  \/ PassScenario(PassGivesUp \/ PassEnds)
  \/ HarnessScenario(HarnessMoves)
  \/ AnyScenario(PlayCloses(~stray))

FairVerifySpec == VerifySpec /\ WF_vars(VerifierEnds)

-----------------------------------------------------------------------------

(* A kit that does what SPEC.md says fails no check and lets every         *)
(* scenario run to its end, whatever it chooses where the choice is its    *)
(* own, and even when it dies on the way: what it did was right.  Only an  *)
(* answer that comes too late may make it look wrong.                      *)
PassesARightKit ==
  kit \in {"right", "door"} /\ ~late =>
    /\ Failures({"check", "end"}) = {}
    /\ alive => ~stray

(* A scenario ends, whatever the program does or leaves undone.            *)
EndsEveryScenario == <>(phase = "done")

(* Did nothing but the kit's replies decide the verdict?                   *)
Undisturbed == phase = "done" /\ alive /\ ~late /\ Failures({"given up"}) = {}

(* A mute kit fails, each of the two in its own way, where VERIFIER.md has *)
(* both pass.  Nothing is accepted as the reply to any ask, but no knock   *)
(* is taken to have bound by it: bind ends every scenario that has one.    *)
(* Silence moves the verifier's books, so bind ends no scenario; but judge *)
(* fails it wherever the reach of the heir gives an object.                *)
FailsAMuteKit ==
  Undisturbed =>
    /\ kit = "nothing" =>
         /\ Failures({"check"}) = {}
         /\ Failures({"end"}) # {} <=>
              \E i \in DOMAIN Script[scene] :
                Script[scene][i].op = "ask" /\ Script[scene][i].binds
    /\ kit = "silent" => Failures({"end"}) = {} /\ Failures({"check"}) # {}
=============================================================================
