------------------------------ MODULE Promise ------------------------------
(***************************************************************************)
(* What the two ends of Quo promise each other about an heir, with no box, *)
(* key or reply in sight: an heir offered is bound by one party and once,  *)
(* each number is honoured once and in climbing order, a party learns only *)
(* of numbers honoured from its own relation, and what is closed stays     *)
(* closed.  Exchange implements it.                                        *)
(***************************************************************************)
EXTENDS Naturals

CONSTANTS Heirs, Parties, Invitation, Nobody, MaxCount

VARIABLES
  stage,   \* heir -> "unmade", "open", "bound" or "closed"
  holder,  \* heir -> the party that bound it, or Nobody
  count,   \* heir -> the highest number honoured
  learnt   \* party -> the highest number it knows was honoured

promiseVars == << stage, holder, count, learnt >>

PromiseInit ==
  /\ stage = [h \in Heirs |-> "unmade"]
  /\ holder = [h \in Heirs |-> Nobody]
  /\ count = [h \in Heirs |-> 0]
  /\ learnt = [p \in Parties |-> 0]

Offer(h) ==
  /\ stage[h] = "unmade"
  /\ stage' = [stage EXCEPT ![h] = "open"]
  /\ UNCHANGED << holder, count, learnt >>

Bind(p, n) ==
  LET h == Invitation[p]
  IN /\ stage[h] = "open"
     /\ stage' = [stage EXCEPT ![h] = "bound"]
     /\ holder' = [holder EXCEPT ![h] = p]
     /\ count' = [count EXCEPT ![h] = n]
     /\ UNCHANGED learnt

Honour(h, n) ==
  /\ stage[h] = "bound"
  /\ n > count[h]
  /\ count' = [count EXCEPT ![h] = n]
  /\ UNCHANGED << stage, holder, learnt >>

Learn(p, n) ==
  /\ holder[Invitation[p]] = p
  /\ learnt[p] < n
  /\ n <= count[Invitation[p]]
  /\ learnt' = [learnt EXCEPT ![p] = n]
  /\ UNCHANGED << stage, holder, count >>

Close(h) ==
  /\ stage[h] \in {"open", "bound"}
  /\ stage' = [stage EXCEPT ![h] = "closed"]
  /\ UNCHANGED << holder, count, learnt >>

PromiseNext ==
  \/ \E h \in Heirs : Offer(h) \/ Close(h)
  \/ \E p \in Parties, n \in 1..MaxCount : Bind(p, n) \/ Learn(p, n)
  \/ \E h \in Heirs, n \in 1..MaxCount : Honour(h, n)

PromiseSpec == PromiseInit /\ [][PromiseNext]_promiseVars
=============================================================================
