------------------------------ MODULE MCGoDoor ------------------------------
(* GoDoor on two heirs and two names, with every box anyone could send it. *)
EXTENDS GoDoor, TLC

(* The bound: one heir whose reach answers, over all the numbers there     *)
(* are, or any heirs with at most one ask honoured for each.  The second   *)
(* is where names are given again.                                         *)
Within ==
  \/ \E h \in Heirs : /\ byPK[h].reach = "answers"
                      /\ \A g \in Heirs \ {h} : ~byPK[g].made
  \/ \A h \in Heirs : Len(honoured[h]) <= 1 /\ byPK[h].highest <= 1

MCGoSpec == GoInit /\ [][GoNext /\ Within']_goVars

GoSymmetry ==
  Permutations(Heirs) \cup Permutations(Keys \ Heirs) \cup Permutations(Names)
=============================================================================
