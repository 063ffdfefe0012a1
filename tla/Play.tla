-------------------------------- MODULE Play --------------------------------
(***************************************************************************)
(* The run of the verifier (verify and class Verifier of                   *)
(* verifier/verify.js): each scenario is played to a stand program of its  *)
(* own and is closed after it, however it ended; what failed on the way is *)
(* recorded with the step it failed at.  The program may exit by itself at *)
(* any moment.                                                             *)
(***************************************************************************)
EXTENDS Naturals

CONSTANT Kits    \* the kits judged: of "right", "door" (with no asking side), "short",
               \* "stray", "silent" and "nothing"

ASSUME PlayAssumption ==
  Kits \subseteq {"right", "door", "short", "stray", "silent", "nothing"}

VARIABLES
  scene,    \* the scenario played
  kit,      \* the kit it is played against
  at,       \* the step it stands at
  failed,   \* the checks that failed, with the step each failed at
  phase,    \* "play", "closing" or "done"
  alive,    \* has the stand program not exited by itself?
  late      \* history: did an answer come after a wait that had to bring it?

playVars == << scene, kit, at, failed, phase, alive, late >>

(* The scenarios the tests play to a kit they spoil, those that tell a kit *)
(* with no asking side from one that has it, and for a mute kit those that *)
(* have it answer arrivals.                                                *)
Asking == {"asker", "dialer", "posts", "through", "plain", "faults"}
PlayedTo(scenes) ==
  LET arriving == scenes \ (Asking \cup {"harness"})
  IN [short |-> {"strangers"}, stray |-> {"size"},
      door |-> {"asker", "dialer", "harness"}, right |-> scenes,
      silent |-> arriving, nothing |-> arriving]

PlayInit(scenes) ==
  /\ kit \in Kits
  /\ scene \in scenes \cap PlayedTo(scenes)[kit]
  /\ at = 1
  /\ failed = {}
  /\ phase = "play"
  /\ alive = TRUE
  /\ late = FALSE

(* A check that failed.                                                    *)
Record(what, ok) == IF ok THEN {} ELSE {<< what, at >>}
Failures(kinds) == {f \in failed : f[1] \in kinds}

(* The checks of a step, and the step after it.                            *)
GoesLate(oks, steps, tooLate) ==
  /\ failed' = failed \cup UNION {Record("check", ok) : ok \in oks}
  /\ at' = at + steps
  /\ late' = (late \/ tooLate)
  /\ UNCHANGED << scene, kit, phase, alive >>

Goes(oks, steps) == GoesLate(oks, steps, FALSE)

(* A throw: the scenario goes no further.                                  *)
Breaks(whats) ==
  /\ failed' = failed \cup UNION {Record(what, FALSE) : what \in whats}
  /\ phase' = "closing"
  /\ UNCHANGED << scene, kit, at, alive, late >>

PlayEnds(length) ==
  /\ phase = "play"
  /\ at > length
  /\ phase' = "closing"
  /\ UNCHANGED << scene, kit, at, failed, alive, late >>

(* close, and the two checks after it: the exit, with a program that does  *)
(* not end killed for it, and what else stood on stdout.                   *)
PlayCloses(clean) ==
  /\ phase = "closing"
  /\ \E zero \in BOOLEAN :
       failed' = failed \cup Record("exit", alive \/ zero)
                        \cup Record("stray", clean /\ kit # "stray")
  /\ phase' = "done"
  /\ UNCHANGED << scene, kit, at, alive, late >>

StandDies ==
  /\ alive
  /\ phase # "done"
  /\ alive' = FALSE
  /\ UNCHANGED << scene, kit, at, failed, phase, late >>
=============================================================================
