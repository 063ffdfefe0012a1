----------------------------- MODULE MCExchange -----------------------------
(* Exchange on one heir whose invitation is in two hands.                  *)
EXTENDS Exchange, TLC

CONSTANTS h1

MCInvitation == [p \in Parties |-> h1]
MCDrawn == Parties \X (1..MaxAsks)
MCKeys == Heirs \cup MCDrawn

PartySymmetry == Permutations(Parties)
=============================================================================
