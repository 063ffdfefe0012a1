------------------------------- MODULE Boxes -------------------------------
(***************************************************************************)
(* What a box is to the rest of the protocol, with the cryptography        *)
(* abstracted (examples/javascript/lib/box.js).  An ask's box names the    *)
(* head it is for, carries the knock's ciphertext or none, and has a body  *)
(* sealed under one edge key; a reply's box opens with the secret of the   *)
(* lid it was sealed to and with no other.  A secret, a key and a lid are  *)
(* values drawn once, so two draws never collide.  An edge key is the      *)
(* chain of what was hashed into it: the secret of the knock, then one     *)
(* agreement for each move.  HKDF is taken to be injective.                *)
(***************************************************************************)
EXTENDS Naturals, Sequences

CONSTANTS
  Heirs,    \* the heir keys a ward can draw
  Keys,     \* every signing key, the heirs' among them
  Secrets,  \* the secrets a knock can encapsulate for the ward's lock
  NoHeir,   \* the zero head
  NoKey,    \* null, where a key may stand
  NoCt,     \* no ciphertext in the box: anything but a knock
  MaxCount  \* the largest number an ask may carry (2^53 - 1 in the code)

ASSUME BoxesAssumption ==
  /\ Heirs \subseteq Keys
  /\ NoHeir \notin Keys
  /\ NoKey \notin Keys
  /\ NoCt \notin Secrets
  /\ MaxCount \in Nat \ {0}

-----------------------------------------------------------------------------
(* Edge keys.                                                              *)

Agreements == Nat
Edge == [root : Secrets \cup {NoCt}, moves : Seq(Agreements)]

ZERO32 == [root |-> NoCt, moves |-> << >>]   \* the zero edge key
KnockEdge(ss) == [root |-> ss, moves |-> << >>]
Follow(edge, agreement) ==
  [root |-> edge.root, moves |-> Append(edge.moves, agreement)]

-----------------------------------------------------------------------------
(* An ask's box.  A box has at most one fault: its lid or its sealed head  *)
(* does not read ("seal"), its payload is no value or lacks a field that   *)
(* an ask has ("payload"), or its signature does not verify ("signature"). *)
(* `unread` marks args the door's kit does not read.                       *)

Faults == {"none", "seal", "payload", "signature"}

Box(edges) ==
  [head : Heirs \cup {NoHeir}, ct : Secrets \cup {NoCt}, edge : edges,
   by : Keys, next : Keys \cup {NoKey}, seq : 0..(MaxCount + 1),
   fault : Faults, unread : BOOLEAN]

(* sealAsk: `ct` not NoCt makes the box a knock, and its edge key is then  *)
(* the knock's.                                                            *)
SealAsk(head, ct, edge, by, next, seq, unread) ==
  [head |-> head, ct |-> ct,
   edge |-> IF ct # NoCt THEN KnockEdge(ct) ELSE edge,
   by |-> by, next |-> next, seq |-> seq, fault |-> "none",
   unread |-> unread]
=============================================================================
