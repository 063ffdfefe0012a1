---------------------------- MODULE MCGoExchange ----------------------------
(* GoExchange on one heir whose invitation is in two hands.                *)
EXTENDS GoExchange, TLC

CONSTANTS h1

MCInvitation == [p \in Parties |-> h1]
MCDrawn == Parties \X (1..MaxAsks)
MCKeys == Heirs \cup MCDrawn

PartySymmetry == Permutations(Parties)
=============================================================================
