------------------------------- MODULE MCSend -------------------------------
(* Send on one heir and one party, deep enough to move, fail and recover.  *)
EXTENDS Send

CONSTANTS h1

MCInvitation == [p \in Parties |-> h1]
MCDrawn == Parties \X (1..MaxAsks)
MCKeys == Heirs \cup MCDrawn
=============================================================================
