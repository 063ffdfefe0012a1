-------------------------------- MODULE Dial --------------------------------
(***************************************************************************)
(* What any carrier gives whoever dials it: one ask goes out, the far door *)
(* takes it at most once, and the dial ends once, with what came back or   *)
(* with nothing.  A dial that ended with nothing may still be taken later, *)
(* and bytes nobody answered may come back in a reply's place.  This is    *)
(* the carrier Send stands on.                                             *)
(***************************************************************************)
CONSTANT Asks     \* the asks dialed, one dial each

VARIABLES
  outcome,   \* ask -> "idle", "asked", "reply", "forged" or "nothing"
  taken      \* the asks the far door has judged

dialVars == << outcome, taken >>

DialInit ==
  /\ outcome = [a \in Asks |-> "idle"]
  /\ taken = {}

Begin(a) ==
  /\ outcome[a] = "idle"
  /\ outcome' = [outcome EXCEPT ![a] = "asked"]
  /\ UNCHANGED taken

Take(a) ==
  /\ outcome[a] # "idle"
  /\ a \notin taken
  /\ taken' = taken \cup {a}
  /\ UNCHANGED outcome

Return(a) ==
  /\ outcome[a] = "asked"
  /\ a \in taken
  /\ outcome' = [outcome EXCEPT ![a] = "reply"]
  /\ UNCHANGED taken

Forge(a) ==
  /\ outcome[a] = "asked"
  /\ outcome' = [outcome EXCEPT ![a] = "forged"]
  /\ UNCHANGED taken

(* One closing connection ends every dial that waits on it at once.        *)
GiveUp(some) ==
  /\ some # {}
  /\ \A a \in some : outcome[a] = "asked"
  /\ outcome' = [a \in Asks |-> IF a \in some THEN "nothing" ELSE outcome[a]]
  /\ UNCHANGED taken

DialNext ==
  \/ \E a \in Asks : Begin(a) \/ Take(a) \/ Return(a) \/ Forge(a)
  \/ \E some \in SUBSET Asks : GiveUp(some)

DialSpec == DialInit /\ [][DialNext]_dialVars
=============================================================================
