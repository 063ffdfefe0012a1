----------------------------- MODULE DoorProofs -----------------------------
(***************************************************************************)
(* What Door promises, proved for any number of heirs, keys and secrets,   *)
(* and for whatever boxes arrive.                                          *)
(***************************************************************************)
EXTENDS Door, TLAPS

-----------------------------------------------------------------------------
(* The ends of a sequence one longer.                                      *)

LEMMA AppendEnds ==
  ASSUME NEW S, NEW s \in Seq(S), NEW e \in S
  PROVE  /\ Append(s, e) # << >> /\ Append(s, e)[Len(Append(s, e))] = e
         /\ Len(s) + 1 \in DOMAIN Append(s, e) /\ Append(s, e)[Len(s) + 1] = e
         /\ s # << >> => Append(s, e)[1] = s[1]
         /\ s = << >> => Append(s, e)[1] = e
<1>1. /\ Len(Append(s, e)) = Len(s) + 1 /\ Len(s) \in Nat
      /\ Append(s, e)[Len(s) + 1] = e
      /\ DOMAIN Append(s, e) = 1..(Len(s) + 1)
  OBVIOUS
<1>2. s # << >> => Len(s) > 0 /\ 1 \in 1..Len(s)
  OBVIOUS
<1>3. \A i \in 1..Len(s) : Append(s, e)[i] = s[i]
  OBVIOUS
<1>4. Append(s, e) # << >>
  <2>1. Append(s, e) = << >> => Len(Append(s, e)) = 0
    OBVIOUS
  <2> QED
    BY <1>1, <2>1
<1>5. Append(s, e)[Len(Append(s, e))] = e
  BY <1>1
<1>6. s # << >> => Append(s, e)[1] = s[1]
  BY <1>2, <1>3
<1>7. s = << >> => Append(s, e)[1] = e
  <2>1. s = << >> => Len(s) = 0
    OBVIOUS
  <2> QED
    BY <1>1, <2>1
<1>8. Len(s) + 1 \in DOMAIN Append(s, e)
  BY <1>1
<1> QED
  BY <1>1, <1>4, <1>5, <1>6, <1>7, <1>8

-----------------------------------------------------------------------------
(* Edge keys and moves.                                                    *)

LEMMA FollowType ==
  ASSUME NEW e \in Edge, NEW a \in Nat
  PROVE  Follow(e, a) \in Edge
BY DEF Follow, Edge, Agreements

LEMMA KnockEdgeType ==
  ASSUME NEW ss \in Secrets
  PROVE  KnockEdge(ss) \in Edge
BY DEF KnockEdge, Edge, Agreements

LEMMA ZeroEdgeType == ZERO32 \in Edge
BY DEF ZERO32, Edge, Agreements

LEMMA ReachIsTyped ==
  ASSUME DoorTypeOK
  PROVE  EdgesInReach \subseteq Edge
<1>1. \A h \in Heirs : /\ heirs[h].O \in Edge /\ heirs[h].F \in Edge
                       /\ removed[h].O \in Edge /\ removed[h].F \in Edge
  BY DEF DoorTypeOK, Relation
<1> QED
  BY <1>1, KnockEdgeType, ZeroEdgeType DEF EdgesInReach

(* A box honoured is for a held heir, and a key it moves to is a key.      *)
LEMMA ChoiceIsHeld ==
  ASSUME NEW b \in Box(EdgesInReach), Verdict(b) = "choice"
  PROVE  /\ b.head \in Heirs
         /\ \/ Held(b, "fresh") /\ b.by = b.head /\ Announces(b)
            \/ Held(b, "spent") /\ ~Repeated(b) /\ SignedBy(b) # "nobody"
BY DEF Verdict, Refused, Kept, Held, Unannounced, SignedBy, Box

(* What a relation is after a move, field by field.                        *)
LEMMA MovedIs ==
  ASSUME NEW rel, NEW b, NEW agreement, NEW moved,
         moved = Moved(rel, b, agreement)
  PROVE  /\ moved.stage = "spent" /\ moved.high = b.seq
         /\ moved.O = b.edge /\ moved.F = Follow(b.edge, agreement)
         /\ moved.O.root = b.edge.root /\ moved.F.root = b.edge.root
         /\ moved.H = HeldAfter(rel, b) /\ moved.V = VouchedAfter(rel, b)
BY DEF Moved, StageAfter, OpenAfter, OfferedAfter, Follow

(* What honouring a box writes.                                            *)
LEMMA ChoiceWrites ==
  ASSUME DoorTypeOK, NEW b, Verdict(b) = "choice", Arrive(b),
         NEW h \in Heirs, b.head = h
  PROVE  /\ heirs'[h] = Moved(heirs[h], b, NextAgreement(h))
         /\ honoured'[h] = Append(honoured[h], Logged(b))
         /\ removed' = removed
         /\ \A f \in Heirs \ {h} : heirs'[f] = heirs[f] /\ honoured'[f] = honoured[f]
<1>1. /\ heirs' = [heirs EXCEPT ![h] = Moved(heirs[h], b, NextAgreement(h))]
      /\ honoured' = [honoured EXCEPT ![h] = Append(honoured[h], Logged(b))]
      /\ removed' = removed
  BY DEF Arrive
<1>2. DOMAIN heirs = Heirs /\ DOMAIN honoured = Heirs
  BY DEF DoorTypeOK
<1> QED
  BY <1>1, <1>2

LEMMA MovedType ==
  ASSUME NEW rel \in Relation, NEW b \in Box(Edge), NEW a \in Nat,
         \/ rel.stage = "fresh" /\ b.next \in Keys
         \/ rel.stage = "spent" /\ rel.H \in Keys /\ b.by \in {rel.H, rel.V}
  PROVE  Moved(rel, b, a) \in Relation /\ Moved(rel, b, a).H \in Keys
<1>1. Follow(b.edge, a) \in Edge
  BY FollowType DEF Box
<1>2. b.by \in Keys /\ b.next \in Keys \cup {NoKey} /\ b.edge \in Edge
      /\ b.seq \in Nat
  BY BoxesAssumption DEF Box
<1>3. HeldAfter(rel, b) \in Keys
  BY <1>2 DEF HeldAfter
<1>4. VouchedAfter(rel, b) \in Keys \cup {NoKey}
  BY <1>2 DEF VouchedAfter, Relation
<1> QED
  BY <1>1, <1>2, <1>3, <1>4
  DEF Moved, Relation, OpenAfter, OfferedAfter, StageAfter

-----------------------------------------------------------------------------
(* Type correctness.                                                       *)

LEMMA TypeInit == DoorInit => DoorTypeOK
BY ZeroEdgeType DEF DoorInit, DoorTypeOK, NoRelation, Relation, Reaches, Entry

LEMMA TypeInvite ==
  ASSUME DoorTypeOK, NEW h \in Heirs, NEW reach \in Reaches, Invite(h, reach)
  PROVE  DoorTypeOK'
<1>1. FreshRelation(reach) \in Relation
  BY ZeroEdgeType DEF FreshRelation, Relation
<1>2. FreshRelation(reach).stage = "fresh"
  BY DEF FreshRelation
<1> QED
  BY <1>1, <1>2 DEF DoorTypeOK, Invite

LEMMA TypeRelease ==
  ASSUME DoorTypeOK, NEW h \in Heirs, Release(h)
  PROVE  DoorTypeOK'
<1>1. NoRelation \in Relation /\ NoRelation.stage = "absent"
  BY ZeroEdgeType DEF NoRelation, Relation, Reaches
<1>2. KeptOf(heirs[h]) \in Relation
  BY DEF DoorTypeOK, KeptOf, Relation, Reaches
<1> QED
  BY <1>1, <1>2 DEF DoorTypeOK, Release

LEMMA TypeArrive ==
  ASSUME DoorTypeOK, NEW b \in Box(EdgesInReach), Arrive(b)
  PROVE  DoorTypeOK'
<1>1. CASE Verdict(b) # "choice"
  BY <1>1 DEF Arrive, doorVars, DoorTypeOK
<1>2. CASE Verdict(b) = "choice"
  <2> DEFINE rel == heirs[b.head]
  <2>1. b \in Box(Edge)
    BY ReachIsTyped DEF Box
  <2>2. /\ b.head \in Heirs
        /\ \/ Held(b, "fresh") /\ b.by = b.head /\ Announces(b)
           \/ Held(b, "spent") /\ ~Repeated(b) /\ SignedBy(b) # "nobody"
    BY <1>2, ChoiceIsHeld
  <2>3. rel \in Relation /\ (rel.stage = "spent" => rel.H \in Keys)
    BY <2>2 DEF DoorTypeOK
  <2>4. NextAgreement(b.head) \in Nat
    BY <2>2 DEF DoorTypeOK, NextAgreement
  <2>5. \/ rel.stage = "fresh" /\ b.next \in Keys
        \/ rel.stage = "spent" /\ rel.H \in Keys /\ b.by \in {rel.H, rel.V}
    BY <2>1, <2>2, <2>3
    DEF Held, Announces, SignedBy, KeysOf, Kept, Box
  <2>6. /\ Moved(rel, b, NextAgreement(b.head)) \in Relation
        /\ Moved(rel, b, NextAgreement(b.head)).H \in Keys
    BY <2>1, <2>3, <2>4, <2>5, MovedType
  <2>7. Logged(b) \in Entry
    BY <2>1, BoxesAssumption DEF Logged, Entry, Box
  <2>8. /\ heirs' = [heirs EXCEPT ![b.head] =
                       Moved(rel, b, NextAgreement(b.head))]
        /\ honoured' = [honoured EXCEPT ![b.head] =
                          Append(honoured[b.head], Logged(b))]
        /\ removed' = removed
    BY <1>2 DEF Arrive
  <2> HIDE DEF rel
  <2>9. heirs' \in [Heirs -> Relation]
    BY <2>2, <2>6, <2>8 DEF DoorTypeOK
  <2>10. honoured' \in [Heirs -> Seq(Entry)]
    BY <2>2, <2>7, <2>8 DEF DoorTypeOK
  <2>11. \A h \in Heirs : heirs'[h].stage = "spent" => heirs'[h].H \in Keys
    BY <2>2, <2>6, <2>8 DEF DoorTypeOK
  <2> QED
    BY <2>8, <2>9, <2>10, <2>11 DEF DoorTypeOK
<1> QED
  BY <1>1, <1>2

LEMMA TypeNext ==
  ASSUME DoorTypeOK, [DoorNext]_doorVars
  PROVE  DoorTypeOK'
<1>1. CASE UNCHANGED doorVars
  BY <1>1 DEF doorVars, DoorTypeOK
<1>2. CASE DoorNext
  BY <1>2, TypeInvite, TypeRelease, TypeArrive DEF DoorNext
<1> QED
  BY <1>1, <1>2

(* Every relation the ward holds or keeps has keys, edge keys and a number *)
(* of the right kind, and a spent one has a key: none was bound to null.   *)
THEOREM DoorTyped == DoorSpec => []DoorTypeOK
<1> QED
  BY TypeInit, TypeNext, PTL DEF DoorSpec

-----------------------------------------------------------------------------
(* The relation and its history.                                           *)

(* What a relation keeps of its history: the last number, the edge keys of *)
(* the last ask, and that neither key it admits is the heir's own.         *)
KeepsTrack(h) ==
  heirs[h].stage = "spent" =>
    LET n == Len(honoured[h])
    IN /\ n > 0
       /\ heirs[h].high = honoured[h][n].seq
       /\ heirs[h].O = honoured[h][n].edge
       /\ heirs[h].F = Follow(honoured[h][n].edge, n)
       /\ heirs[h].H # h
       /\ heirs[h].V # h

(* An heir that binds nothing yet has no history, and what is removed is   *)
(* not held.                                                               *)
StartsEmpty(h) ==
  /\ heirs[h].stage = "fresh" => honoured[h] = << >>
  /\ heirs[h].stage # "absent" => removed[h].stage = "absent"
  /\ heirs[h].stage = "absent" /\ removed[h].stage = "absent" =>
       honoured[h] = << >>

DoorInv ==
  /\ DoorTypeOK
  /\ \A h \in Heirs : KeepsTrack(h) /\ StartsEmpty(h)
  /\ NumbersClimb
  /\ HeirDiesAtItsKnock
  /\ OneChain

LEMMA InvInit == DoorInit => DoorInv
<1> SUFFICES ASSUME DoorInit PROVE DoorInv
  OBVIOUS
<1>1. DoorTypeOK
  BY TypeInit
<1>2. \A h \in Heirs : heirs[h].stage = "absent" /\ removed[h].stage = "absent"
                       /\ honoured[h] = << >>
  BY DEF DoorInit, NoRelation
<1> QED
  BY <1>1, <1>2 DEF DoorInv, KeepsTrack, StartsEmpty, NumbersClimb,
                    HeirDiesAtItsKnock, OneChain

(* The three promises speak of the history alone.                          *)
LEMMA HistoryAlone ==
  ASSUME NumbersClimb, HeirDiesAtItsKnock, OneChain, UNCHANGED honoured
  PROVE  NumbersClimb' /\ HeirDiesAtItsKnock' /\ OneChain'
BY DEF NumbersClimb, HeirDiesAtItsKnock, OneChain

LEMMA InvInvite ==
  ASSUME DoorInv, NEW h \in Heirs, NEW reach \in Reaches, Invite(h, reach)
  PROVE  DoorInv'
<1>1. DoorTypeOK'
  BY TypeInvite DEF DoorInv
<1>2. NumbersClimb' /\ HeirDiesAtItsKnock' /\ OneChain'
  BY HistoryAlone DEF DoorInv, Invite
<1>3. heirs'[h].stage = "fresh"
      /\ \A g \in Heirs \ {h} : heirs'[g] = heirs[g]
  BY DEF DoorInv, DoorTypeOK, Invite, FreshRelation
<1>4. \A g \in Heirs : KeepsTrack(g)' /\ StartsEmpty(g)'
  BY <1>3 DEF DoorInv, KeepsTrack, StartsEmpty, Invite
<1> QED
  BY <1>1, <1>2, <1>4 DEF DoorInv

LEMMA InvRelease ==
  ASSUME DoorInv, NEW h \in Heirs, Release(h)
  PROVE  DoorInv'
<1>1. DoorTypeOK'
  BY TypeRelease DEF DoorInv
<1>2. NumbersClimb' /\ HeirDiesAtItsKnock' /\ OneChain'
  BY HistoryAlone DEF DoorInv, Release
<1>3. /\ heirs'[h].stage = "absent"
      /\ removed'[h].stage # "absent"
      /\ \A g \in Heirs \ {h} : heirs'[g] = heirs[g] /\ removed'[g] = removed[g]
  BY DEF DoorInv, DoorTypeOK, Release, NoRelation, KeptOf
<1>4. \A g \in Heirs : KeepsTrack(g)' /\ StartsEmpty(g)'
  BY <1>3 DEF DoorInv, KeepsTrack, StartsEmpty, Release
<1> QED
  BY <1>1, <1>2, <1>4 DEF DoorInv

(* An honoured ask: how it stands to the history before it.                *)
LEMMA ChoiceExtends ==
  ASSUME DoorInv, NEW b \in Box(EdgesInReach), Verdict(b) = "choice"
  PROVE  LET h == b.head
             n == Len(honoured[h])
         IN /\ h \in Heirs
            /\ n = 0 <=> heirs[h].stage = "fresh"
            /\ n = 0 <=> b.by = h
            /\ n > 0 => /\ honoured[h][n].seq < b.seq
                        /\ b.edge \in {honoured[h][n].edge,
                                       Follow(honoured[h][n].edge, n)}
            /\ removed[h].stage = "absent"
<1>1. /\ b.head \in Heirs
      /\ \/ Held(b, "fresh") /\ b.by = b.head /\ Announces(b)
         \/ Held(b, "spent") /\ ~Repeated(b) /\ SignedBy(b) # "nobody"
  BY ChoiceIsHeld
<1>2. KeepsTrack(b.head) /\ StartsEmpty(b.head)
  BY <1>1 DEF DoorInv
<1>3. CASE Held(b, "fresh")
  BY <1>1, <1>2, <1>3 DEF Held, StartsEmpty, SignedBy
<1>4. CASE Held(b, "spent") /\ ~Repeated(b) /\ SignedBy(b) # "nobody"
  <2>1. b.by \in {heirs[b.head].H, heirs[b.head].V}
    BY <1>4 DEF SignedBy, Held, KeysOf, Kept
  <2>2. b.edge \in {heirs[b.head].O, heirs[b.head].F}
    BY <1>4 DEF Verdict, Refused, Opens, Held, KeysOf, Kept
  <2>3. b.seq > heirs[b.head].high
    <3>1. b.seq \in Nat /\ heirs[b.head].high \in Nat
      BY <1>1, BoxesAssumption DEF Box, DoorInv, DoorTypeOK, Relation
    <3> QED
      BY <1>4, <3>1 DEF Repeated
  <2> QED
    BY <1>1, <1>2, <1>4, <2>1, <2>2, <2>3 DEF Held, KeepsTrack, StartsEmpty
<1> QED
  BY <1>1, <1>3, <1>4

LEMMA InvChoice ==
  ASSUME DoorInv, NEW b \in Box(EdgesInReach), Verdict(b) = "choice", Arrive(b)
  PROVE  DoorInv'
<1> DEFINE h == b.head
           n == Len(honoured[h])
           e == Logged(b)
<1>1. DoorTypeOK'
  BY TypeArrive DEF DoorInv
<1>2. /\ h \in Heirs
      /\ n = 0 <=> heirs[h].stage = "fresh"
      /\ n = 0 <=> b.by = h
      /\ n > 0 => /\ honoured[h][n].seq < b.seq
                  /\ b.edge \in {honoured[h][n].edge,
                                 Follow(honoured[h][n].edge, n)}
      /\ removed[h].stage = "absent"
  BY ChoiceExtends
<1>3. honoured[h] \in Seq(Entry) /\ n \in Nat /\ e \in Entry
  <2>1. b \in Box(Edge)
    BY ReachIsTyped DEF DoorInv, Box
  <2>2. e \in Entry
    BY <2>1, BoxesAssumption DEF Logged, Entry, Box
  <2>3. honoured[h] \in Seq(Entry)
    BY <1>2 DEF DoorInv, DoorTypeOK
  <2> QED
    BY <2>2, <2>3
<1>4. /\ heirs'[h] = Moved(heirs[h], b, n + 1)
      /\ honoured'[h] = Append(honoured[h], e)
      /\ removed' = removed
      /\ \A g \in Heirs \ {h} : heirs'[g] = heirs[g] /\ honoured'[g] = honoured[g]
  BY <1>2 DEF Arrive, NextAgreement, DoorInv, DoorTypeOK
<1>5. /\ Len(honoured'[h]) = n + 1
      /\ honoured'[h][n + 1] = e
      /\ \A i \in 1..n : honoured[h][i] \in Entry
                        /\ honoured'[h][i] = honoured[h][i]
      /\ DOMAIN honoured'[h] = 1..(n + 1)
      /\ DOMAIN honoured[h] = 1..n
  BY <1>3, <1>4
<1>6. e.seq = b.seq /\ e.by = b.by /\ e.edge = b.edge
  BY DEF Logged
<1> HIDE DEF h, n, e
<1>7. NumbersClimb'
  <2>1. \A j \in 1..n : \A i \in 1..(j - 1) :
          honoured[h][i].seq < honoured[h][j].seq
    BY <1>2, <1>5 DEF DoorInv, NumbersClimb
  <2>2. \A i \in 1..n : honoured[h][i].seq \in Nat
    BY <1>5 DEF Entry
  <2>3. b.seq \in Nat
    BY BoxesAssumption DEF Box
  <2>4. \A i \in 1..n : honoured[h][i].seq < b.seq
    BY <1>2, <1>3, <2>1, <2>2, <2>3
  <2>5. \A j \in 1..(n + 1) : \A i \in 1..(j - 1) :
          honoured'[h][i].seq < honoured'[h][j].seq
    <3> SUFFICES ASSUME NEW j \in 1..(n + 1), NEW i \in 1..(j - 1)
                 PROVE  honoured'[h][i].seq < honoured'[h][j].seq
      OBVIOUS
    <3>1. i \in 1..n /\ honoured'[h][i] = honoured[h][i]
      BY <1>3, <1>5
    <3>2. CASE j = n + 1
      BY <1>5, <1>6, <2>4, <3>1, <3>2
    <3>3. CASE j # n + 1
      <4>1. j \in 1..n /\ honoured'[h][j] = honoured[h][j]
        BY <1>3, <1>5, <3>3
      <4> QED
        BY <2>1, <3>1, <4>1
    <3> QED
      BY <3>2, <3>3
  <2> QED
    BY <1>4, <1>5, <2>5 DEF DoorInv, NumbersClimb
<1>8. HeirDiesAtItsKnock'
  <2>1. \A i \in 1..n : (honoured[h][i].by = h) <=> (i = 1)
    BY <1>2, <1>5 DEF DoorInv, HeirDiesAtItsKnock
  <2>2. \A i \in 1..(n + 1) : (honoured'[h][i].by = h) <=> (i = 1)
    BY <1>2, <1>3, <1>5, <1>6, <2>1
  <2> QED
    BY <1>4, <1>5, <2>2, SMTT(30) DEF DoorInv, HeirDiesAtItsKnock
<1>9. OneChain'
  <2>1. \A j \in 1..n : j > 1 =>
          honoured[h][j].edge \in {honoured[h][j - 1].edge,
                                  Follow(honoured[h][j - 1].edge, j - 1)}
    BY <1>2, <1>5 DEF DoorInv, OneChain
  <2>2. \A j \in 1..(n + 1) : j > 1 =>
          honoured'[h][j].edge \in {honoured'[h][j - 1].edge,
                                   Follow(honoured'[h][j - 1].edge, j - 1)}
    <3> SUFFICES ASSUME NEW j \in 1..(n + 1), j > 1
                 PROVE  honoured'[h][j].edge \in
                          {honoured'[h][j - 1].edge,
                           Follow(honoured'[h][j - 1].edge, j - 1)}
      OBVIOUS
    <3>1. j - 1 \in 1..n /\ honoured'[h][j - 1] = honoured[h][j - 1]
      BY <1>3, <1>5
    <3>2. CASE j = n + 1
      BY <1>2, <1>3, <1>5, <1>6, <3>1, <3>2
    <3>3. CASE j \in 1..n
      BY <1>5, <2>1, <3>1, <3>3
    <3> QED
      BY <1>3, <3>2, <3>3
  <2> QED
    BY <1>4, <1>5, <2>2 DEF DoorInv, OneChain
<1>10. \A g \in Heirs : KeepsTrack(g)' /\ StartsEmpty(g)'
  <2>1. \A g \in Heirs \ {h} : KeepsTrack(g)' /\ StartsEmpty(g)'
    BY <1>4 DEF DoorInv, KeepsTrack, StartsEmpty
  <2>2. StartsEmpty(h)'
    BY <1>2, <1>4 DEF StartsEmpty, Moved, StageAfter
  <2>3. /\ heirs'[h].high = e.seq
        /\ heirs'[h].O = e.edge
        /\ heirs'[h].F = Follow(e.edge, n + 1)
    BY <1>4, <1>6 DEF Moved, OpenAfter, OfferedAfter
  <2>4. heirs'[h].H # h /\ heirs'[h].V # h
    <3>1. CASE heirs[h].stage = "fresh"
      <4>1. Announces(b)
        BY <3>1, ChoiceIsHeld DEF Held, h
      <4>2. h # NoKey
        BY <1>2, BoxesAssumption
      <4> QED
        BY <1>4, <3>1, <4>1, <4>2
        DEF Moved, HeldAfter, VouchedAfter, Announces, h
    <3>2. CASE heirs[h].stage = "spent"
      <4>1. heirs[h].H # h /\ heirs[h].V # h /\ h # NoKey
        BY <1>2, <3>2, BoxesAssumption DEF DoorInv, KeepsTrack
      <4>2. Announces(b) => b.next # h
        BY DEF Announces, h
      <4> QED
        BY <1>4, <3>2, <4>1, <4>2 DEF Moved, HeldAfter, VouchedAfter
    <3> QED
      BY <3>1, <3>2, ChoiceIsHeld DEF Held, h
  <2>5. KeepsTrack(h)'
    BY <1>3, <1>5, <2>3, <2>4 DEF KeepsTrack
  <2> QED
    BY <2>1, <2>2, <2>5
<1> QED
  BY <1>1, <1>7, <1>8, <1>9, <1>10 DEF DoorInv

LEMMA InvNext ==
  ASSUME DoorInv, [DoorNext]_doorVars
  PROVE  DoorInv'
<1>1. CASE UNCHANGED doorVars
  <2>1. DoorTypeOK'
    BY <1>1, TypeNext DEF DoorInv
  <2>2. NumbersClimb' /\ HeirDiesAtItsKnock' /\ OneChain'
    BY <1>1, HistoryAlone DEF DoorInv, doorVars
  <2>3. \A g \in Heirs : KeepsTrack(g)' /\ StartsEmpty(g)'
    BY <1>1 DEF DoorInv, KeepsTrack, StartsEmpty, doorVars
  <2> QED
    BY <2>1, <2>2, <2>3 DEF DoorInv
<1>2. ASSUME NEW b \in Box(EdgesInReach), Arrive(b)
      PROVE  DoorInv'
  <2>1. CASE Verdict(b) = "choice"
    BY <1>2, <2>1, InvChoice
  <2>2. CASE Verdict(b) # "choice"
    BY <1>1, <1>2, <2>2 DEF Arrive
  <2> QED
    BY <2>1, <2>2
<1>3. CASE DoorNext
  BY <1>2, <1>3, InvInvite, InvRelease DEF DoorNext
<1> QED
  BY <1>1, <1>3

(* Whatever box is honoured is sealed under an edge key in reach.          *)
LEMMA ChoiceInReach ==
  ASSUME NEW b \in Box(Edge), Verdict(b) = "choice"
  PROVE  b \in Box(EdgesInReach)
<1>1. b.edge \in EdgesInReach
  <2>1. ~Refused(b) /\ b.head # NoHeir /\ ~Kept(b)
    BY DEF Verdict
  <2>2. b.head \in Heirs
    BY <2>1 DEF Box
  <2>3. CASE Held(b, "fresh")
    <3>1. b.ct \in Secrets /\ b.edge = KnockEdge(b.ct)
      BY <2>1, <2>3 DEF Refused, Opens, Box
    <3> QED
      BY <3>1 DEF EdgesInReach
  <2>4. CASE ~Held(b, "fresh")
    <3>1. Held(b, "spent")
      BY <2>1, <2>4 DEF Refused
    <3>2. b.edge \in {heirs[b.head].O, heirs[b.head].F}
      BY <2>1, <2>4, <3>1 DEF Refused, Opens, KeysOf
    <3> QED
      BY <2>2, <3>2 DEF EdgesInReach
  <2> QED
    BY <2>3, <2>4
<1> QED
  BY <1>1 DEF Box

(* What was honoured stays in the history, at its place.                   *)
LEMMA LogsGrow ==
  ASSUME DoorInv, [DoorNext]_doorVars, NEW h \in Heirs
  PROVE  /\ \A i \in DOMAIN honoured[h] : i \in DOMAIN honoured'[h]
                                         /\ honoured'[h][i] = honoured[h][i]
         /\ honoured[h] # << >> => honoured'[h] # << >>
                                   /\ honoured'[h][1] = honoured[h][1]
<1>1. honoured[h] \in Seq(Entry)
  BY DEF DoorInv, DoorTypeOK
<1>2. honoured' = honoured \/ \E b \in Box(EdgesInReach) :
        /\ b.head \in Heirs
        /\ Logged(b) \in Entry
        /\ honoured' = [honoured EXCEPT ![b.head] = Append(@, Logged(b))]
  <2>1. ASSUME NEW b \in Box(EdgesInReach), Arrive(b), Verdict(b) = "choice"
        PROVE  b.head \in Heirs /\ Logged(b) \in Entry
    <3>1. b \in Box(Edge)
      BY ReachIsTyped DEF DoorInv, Box
    <3> QED
      BY <2>1, <3>1, ChoiceIsHeld, BoxesAssumption DEF Logged, Entry, Box
  <2> QED
    BY <2>1 DEF DoorNext, doorVars, Invite, Release, Arrive
<1>3. ASSUME NEW b \in Box(EdgesInReach), b.head \in Heirs, Logged(b) \in Entry,
             honoured' = [honoured EXCEPT ![b.head] = Append(@, Logged(b))]
      PROVE  \/ honoured'[h] = honoured[h]
             \/ honoured'[h] = Append(honoured[h], Logged(b))
  BY <1>3 DEF DoorInv, DoorTypeOK
<1>4. honoured'[h] = honoured[h]
      \/ \E e \in Entry : honoured'[h] = Append(honoured[h], e)
  BY <1>2, <1>3
<1> QED
  BY <1>1, <1>4

THEOREM DoorInductive == DoorSpec => []DoorInv
<1> QED
  BY InvInit, InvNext, PTL DEF DoorSpec

(* No number is honoured twice on one relation: whatever is replayed,      *)
(* reordered or sent by whomever, the numbers honoured only climb.         *)
THEOREM HonouredOnce == DoorSpec => []NumbersClimb
<1>1. DoorInv => NumbersClimb
  BY DEF DoorInv
<1> QED
  BY <1>1, DoorInductive, PTL

(* The heir's key signs the knock that binds and nothing after it.         *)
THEOREM HeirSignsOnce == DoorSpec => []HeirDiesAtItsKnock
<1>1. DoorInv => HeirDiesAtItsKnock
  BY DEF DoorInv
<1> QED
  BY <1>1, DoorInductive, PTL

(* The asks honoured of one relation stand on one chain of edge keys.      *)
THEOREM HonouredOnOneChain == DoorSpec => []OneChain
<1>1. DoorInv => OneChain
  BY DEF DoorInv
<1> QED
  BY <1>1, DoorInductive, PTL

(* A released heir is never made again and never honoured again.           *)
THEOREM ReleaseIsFinal == DoorSpec => ReleasedForGood
<1> DEFINE Final == \A h \in Heirs : removed[h].stage # "absent" =>
                      /\ heirs'[h] = NoRelation
                      /\ removed'[h] = removed[h]
                      /\ honoured'[h] = honoured[h]
           Gone == \A h \in Heirs : removed[h].stage # "absent" =>
                     heirs[h] = NoRelation
<1>1. DoorInit => Gone
  BY DEF DoorInit
<1>2. DoorInv /\ Gone /\ [DoorNext]_doorVars => Gone' /\ [Final]_doorVars
  <2> SUFFICES ASSUME DoorInv, Gone, DoorNext
               PROVE  Gone' /\ Final
    BY DEF doorVars
  <2>1. DoorTypeOK
    BY DEF DoorInv
  <2>2. ASSUME NEW h \in Heirs, NEW reach \in Reaches, Invite(h, reach)
        PROVE  Gone' /\ Final
    BY <2>1, <2>2 DEF Invite, DoorTypeOK
  <2>3. ASSUME NEW h \in Heirs, Release(h)
        PROVE  Gone' /\ Final
    <3>1. removed[h].stage = "absent"
      BY <2>3 DEF Release, NoRelation
    <3> QED
      BY <2>1, <2>3, <3>1 DEF Release, DoorTypeOK
  <2>4. ASSUME NEW b \in Box(EdgesInReach), Arrive(b)
        PROVE  Gone' /\ Final
    <3>1. CASE Verdict(b) = "choice"
      <4>1. b.head \in Heirs /\ removed[b.head].stage = "absent"
        BY <3>1, ChoiceExtends
      <4> QED
        BY <2>1, <2>4, <3>1, <4>1 DEF Arrive, DoorTypeOK
    <3>2. CASE Verdict(b) # "choice"
      BY <2>4, <3>2 DEF Arrive, doorVars
    <3> QED
      BY <3>1, <3>2
  <2> QED
    BY <2>2, <2>3, <2>4 DEF DoorNext
<1> QED
  BY <1>1, <1>2, DoorInductive, PTL DEF DoorSpec, ReleasedForGood

-----------------------------------------------------------------------------
(* The keys a relation admits.                                             *)

(* Does an ask announce a key for the heir h?                              *)
AnnouncedIn(h, e) == e.next \notin {NoKey, h, e.by}

(* One more ask: its own announcement is all that waits, or, without one,  *)
(* what waited does, but for a key the ask took up.                        *)
LEMMA WaitingAppend ==
  ASSUME NEW h, NEW log \in Seq(Entry), Len(log) > 0, NEW e \in Entry
  PROVE  Waiting(h, Append(log, e)) =
           IF AnnouncedIn(h, e) THEN {e.next} ELSE Waiting(h, log) \ {e.by}
<1> DEFINE n == Len(log)
           more == Append(log, e)
           Waits(l, i) ==
             /\ l[i].next \notin {NoKey, h, l[i].by}
             /\ \A k \in (i + 1)..Len(l) :
                  /\ l[k].next \in {NoKey, h, l[k].by}
                  /\ l[k].by # l[i].next
<1>1. /\ n \in Nat /\ n > 0 /\ Len(more) = n + 1
      /\ more[n + 1] = e
      /\ \A i \in 1..n : more[i] = log[i]
  OBVIOUS
<1>2. /\ Waiting(h, log) = {log[i].next : i \in {i \in 2..n : Waits(log, i)}}
      /\ Waiting(h, more) =
           {more[i].next : i \in {i \in 2..Len(more) : Waits(more, i)}}
  BY DEF Waiting
<1>3. Waits(more, n + 1) <=> AnnouncedIn(h, e)
  BY <1>1 DEF AnnouncedIn
<1>4. ASSUME NEW i \in 2..n
      PROVE  Waits(more, i) <=>
               Waits(log, i) /\ ~AnnouncedIn(h, e) /\ e.by # log[i].next
  <2>1. more[i] = log[i]
    BY <1>1
  <2>2. ASSUME NEW k PROVE k \in (i + 1)..(n + 1) <=> k \in (i + 1)..n \/ k = n + 1
    BY <1>1
  <2>3. \A k \in (i + 1)..n : more[k] = log[k]
    BY <1>1
  <2> QED
    BY <1>1, <2>1, <2>2, <2>3 DEF AnnouncedIn
<1>5. \A i : i \in 2..(n + 1) <=> i \in 2..n \/ i = n + 1
  BY <1>1
<1> HIDE DEF n, more, Waits
<1>6. CASE AnnouncedIn(h, e)
  <2>1. {i \in 2..Len(more) : Waits(more, i)} = {n + 1}
    BY <1>1, <1>3, <1>4, <1>5, <1>6
  <2> QED
    BY <1>1, <1>2, <1>6, <2>1 DEF more
<1>7. CASE ~AnnouncedIn(h, e)
  <2>1. {i \in 2..Len(more) : Waits(more, i)} =
          {i \in 2..n : Waits(log, i) /\ e.by # log[i].next}
    BY <1>1, <1>3, <1>4, <1>5, <1>7
  <2>2. \A i \in 2..n : more[i].next = log[i].next
    BY <1>1
  <2>3. Waiting(h, more) =
          {log[i].next : i \in {i \in 2..n : Waits(log, i) /\ e.by # log[i].next}}
    BY <1>2, <2>1, <2>2
  <2> QED
    BY <1>2, <1>7, <2>3 DEF more
<1> QED
  BY <1>6, <1>7

(* The last signer holds the relation.                                     *)
LEMMA LastSignerAppend ==
  ASSUME NEW log \in Seq(Entry), NEW e \in Entry
  PROVE  LastSigner(Append(log, e)) = IF Len(log) = 0 THEN e.next ELSE e.by
BY DEF LastSigner

(* With the history's word for it, that the two keys admitted are two.     *)
AdmitsTwo ==
  \A h \in Heirs : heirs[h].stage = "spent" => heirs[h].V # heirs[h].H

LEMMA AdmitsChoice ==
  ASSUME DoorInv, AdmitsByHistory, AdmitsTwo,
         NEW b \in Box(EdgesInReach), Verdict(b) = "choice", Arrive(b)
  PROVE  AdmitsByHistory' /\ AdmitsTwo'
<1> DEFINE h == b.head
           log == honoured[h]
           rel == heirs[h]
           e == Logged(b)
<1>1. /\ h \in Heirs
      /\ Len(log) = 0 <=> rel.stage = "fresh"
      /\ \/ Held(b, "fresh") /\ b.by = h /\ Announces(b)
         \/ Held(b, "spent") /\ SignedBy(b) # "nobody"
  BY ChoiceIsHeld, ChoiceExtends
<1>2. log \in Seq(Entry) /\ rel \in Relation
  BY <1>1 DEF DoorInv, DoorTypeOK
<1>3. b.by \in Keys /\ b.next \in Keys \cup {NoKey} /\ h # NoKey
  BY <1>1, BoxesAssumption DEF Box
<1>4. e \in Entry
  <2>1. b \in Box(Edge)
    BY ReachIsTyped DEF DoorInv, Box
  <2> QED
    BY <2>1, BoxesAssumption DEF Logged, Entry, Box
<1>5. /\ e.by = b.by /\ e.next = b.next
      /\ AnnouncedIn(h, e) <=> Announces(b)
  BY DEF Logged, AnnouncedIn, Announces
<1>6. /\ heirs'[h] = Moved(rel, b, NextAgreement(h))
      /\ honoured'[h] = Append(log, e)
      /\ \A g \in Heirs \ {h} : heirs'[g] = heirs[g] /\ honoured'[g] = honoured[g]
  BY <1>1 DEF Arrive, DoorInv, DoorTypeOK
<1>7. /\ heirs'[h].H = HeldAfter(rel, b)
      /\ heirs'[h].V = VouchedAfter(rel, b)
  BY <1>6 DEF Moved
<1>8. Held(b, "spent") => b.by = rel.H \/ b.by = rel.V
  BY <1>1 DEF SignedBy, Held, KeysOf, Kept
<1>9. /\ Held(b, "fresh") <=> rel.stage = "fresh"
      /\ Held(b, "spent") <=> rel.stage = "spent"
  BY <1>1 DEF Held
<1> HIDE DEF h, log, rel, e
<1>10. CASE rel.stage = "fresh"
  <2>1. b.next \notin {NoKey, h, b.by}
    BY <1>1, <1>9, <1>10 DEF Announces, h
  <2>2. heirs'[h].H = b.next /\ heirs'[h].V = NoKey
    BY <1>7, <1>10 DEF HeldAfter, VouchedAfter
  <2>3. Len(honoured'[h]) = 1 /\ honoured'[h][1] = e
    BY <1>1, <1>2, <1>4, <1>6, <1>10
  <2>4. LastSigner(honoured'[h]) = b.next
    BY <1>5, <2>3 DEF LastSigner
  <2>5. Waiting(h, honoured'[h]) = {}
    BY <2>3 DEF Waiting
  <2> QED
    BY <1>6, <2>1, <2>2, <2>4, <2>5 DEF AdmitsByHistory, AdmitsTwo
<1>11. CASE rel.stage = "spent"
  <2>1. /\ rel.H = LastSigner(log)
        /\ {rel.V} \ {NoKey} = Waiting(h, log)
        /\ rel.V # rel.H
    BY <1>1, <1>11 DEF AdmitsByHistory, AdmitsTwo, rel, log
  <2>2. Len(log) > 0
    BY <1>1, <1>2, <1>11
  <2>3. LastSigner(honoured'[h]) = b.by
    BY <1>2, <1>4, <1>5, <1>6, <2>2, LastSignerAppend
  <2>4. heirs'[h].H = b.by
    BY <1>7, <1>8, <1>9, <1>11 DEF HeldAfter
  <2>5. Waiting(h, honoured'[h]) =
          IF Announces(b) THEN {b.next} ELSE Waiting(h, log) \ {b.by}
    <3>1. Waiting(h, Append(log, e)) =
            IF AnnouncedIn(h, e) THEN {e.next} ELSE Waiting(h, log) \ {e.by}
      BY <1>2, <1>4, <2>2, WaitingAppend
    <3> QED
      BY <1>5, <1>6, <3>1
  <2>6. heirs'[h].V = IF Announces(b) THEN b.next
                      ELSE IF b.by = rel.H THEN rel.V ELSE NoKey
    BY <1>7, <1>11 DEF VouchedAfter
  <2>7. Announces(b) => b.next # NoKey /\ b.next # b.by
    BY DEF Announces
  <2>8. b.by # NoKey
    BY <1>3, BoxesAssumption
  <2>9. {heirs'[h].V} \ {NoKey} = Waiting(h, honoured'[h])
    <3>1. CASE Announces(b)
      BY <2>5, <2>6, <2>7, <3>1
    <3>2. CASE ~Announces(b) /\ b.by = rel.H
      BY <2>1, <2>5, <2>6, <3>2
    <3>3. CASE ~Announces(b) /\ b.by # rel.H
      <4>1. Waiting(h, log) \ {b.by} = {}
        BY <1>8, <1>9, <1>11, <2>1, <3>3
      <4> QED
        BY <2>5, <2>6, <3>3, <4>1
    <3> QED
      BY <3>1, <3>2, <3>3
  <2>10. heirs'[h].V # heirs'[h].H
    BY <2>1, <2>4, <2>6, <2>7, <2>8
  <2> QED
    BY <1>6, <2>3, <2>4, <2>9, <2>10 DEF AdmitsByHistory, AdmitsTwo
<1> QED
  BY <1>1, <1>9, <1>10, <1>11

LEMMA AdmitsNext ==
  ASSUME DoorInv, AdmitsByHistory, AdmitsTwo, [DoorNext]_doorVars
  PROVE  AdmitsByHistory' /\ AdmitsTwo'
<1>1. CASE UNCHANGED doorVars
  BY <1>1 DEF doorVars, AdmitsByHistory, AdmitsTwo
<1>2. ASSUME NEW h \in Heirs, NEW reach \in Reaches, Invite(h, reach)
      PROVE  AdmitsByHistory' /\ AdmitsTwo'
  BY <1>2 DEF DoorInv, DoorTypeOK, Invite, FreshRelation, AdmitsByHistory, AdmitsTwo
<1>3. ASSUME NEW h \in Heirs, Release(h)
      PROVE  AdmitsByHistory' /\ AdmitsTwo'
  BY <1>3 DEF DoorInv, DoorTypeOK, Release, NoRelation, AdmitsByHistory, AdmitsTwo
<1>4. ASSUME NEW b \in Box(EdgesInReach), Arrive(b)
      PROVE  AdmitsByHistory' /\ AdmitsTwo'
  <2>1. CASE Verdict(b) = "choice"
    BY <1>4, <2>1, AdmitsChoice
  <2>2. CASE Verdict(b) # "choice"
    BY <1>1, <1>4, <2>2 DEF Arrive
  <2> QED
    BY <2>1, <2>2
<1> QED
  BY <1>1, <1>2, <1>3, <1>4 DEF DoorNext

(* A held relation admits the key that signed last and the one announced   *)
(* key no later ask replaced or took up, and no other key ever.            *)
THEOREM AdmitsWhatItWasTold == DoorSpec => []AdmitsByHistory
<1>1. DoorInit => AdmitsByHistory /\ AdmitsTwo
  BY DEF DoorInit, NoRelation, AdmitsByHistory, AdmitsTwo
<1> QED
  BY <1>1, AdmitsNext, DoorInductive, PTL DEF DoorSpec
=============================================================================
