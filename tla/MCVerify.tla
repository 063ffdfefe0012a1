------------------------------ MODULE MCVerify ------------------------------
(* The verifier's scenarios, all of them, against each kit.                 *)
EXTENDS Verify

(* Every heir, key and party a script or a list names.                      *)
Played == 1..10
KeyNames == {"heir", "H", "V", "K1", "K2", "K3", "new"}
CtNames == {"ct", "ct1", "ct2", "alien"}
Names == {"r1", "r2", "r3", "r4", "r5", "r6"}
Asks == 60
Drawings == Names \X (1..Asks)
Minting == [p \in Names |-> << "minted", p >>]
AllHeirs == ({"heir"} \X Played) \cup {Minting[p] : p \in Names}
AllKeys == AllHeirs \cup Drawings \cup (KeyNames \X (Played \cup {0}))
AllSecrets == Drawings \cup (CtNames \X (Played \cup {0}))

(* TLC evaluates a definition such as AllHeirs once, and what a .cfg gives  *)
(* a constant each time it meets the constant.                              *)
MCHeirs == AllHeirs
MCKeys == AllKeys
MCSecrets == AllSecrets
MCParties == Names
MCAsks == Asks
MCInvitation == Minting
=============================================================================
