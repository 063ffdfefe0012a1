------------------------------ MODULE MCGoSend ------------------------------
(* GoSend on one heir and one party with two sends under way together.     *)
EXTENDS GoSend

CONSTANTS h1

MCInvitation == [p \in Parties |-> h1]
MCDrawn == Parties \X (1..MaxAsks)
MCKeys == Heirs \cup MCDrawn
=============================================================================
