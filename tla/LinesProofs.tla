------------------------------ MODULE LinesProofs ------------------------------
(***************************************************************************)
(* The connections of the two carriers that hold one, proved for any       *)
(* number of asks and connections and whatever frames a listener sends:    *)
(* no dial is forgotten or settled by another's frame, one connection      *)
(* stands at most, and both are carriers as Dial describes one.            *)
(***************************************************************************)
EXTENDS Lines, FiniteSetTheorems, TLAPS

-----------------------------------------------------------------------------
(* The inductive invariant.                                                *)

DialFields ==
  [state : {"idle", "waiting", "done"}, got : Asks \cup {Forged, NoConn},
   on : Nat, id : Nat]

Entries == [id : Nat, ask : Asks]
AskFrames == [kind : {"ASK"}, id : Nat, about : Asks]
AnyFrames == [kind : Kinds, id : Ids, about : Asks \cup {Forged}]

Dialed(a) == dials[a].state # "idle"
DialedOn(c) == {a \in Asks : Dialed(a) /\ dials[a].on = c}

(* The ask went out on this connection under this id.                      *)
WentOut(a, c, id) == Dialed(a) /\ dials[a].on = c /\ dials[a].id = id

(* The frames that may be on their way: asks under their own ids, and, of  *)
(* the replies, those to an ask that was taken, under that ask's id.       *)
Outgoing(c) == {f \in AskFrames : WentOut(f.about, c, f.id)}
Incoming(c) ==
  {f \in AnyFrames : f.kind = "REPLY" /\ f.about # Forged =>
                       f.about \in taken /\ WentOut(f.about, c, f.id)}

LinesFields ==
  /\ carrier \in {"tcp", "ws"}
  /\ opened \in 0..MaxConns
  /\ current \in Conns \cup {NoConn}
  /\ pending \in [Conns -> SUBSET Entries]
  /\ next \in [Conns -> Nat]
  /\ sock \in [Conns -> {"none", "opening", "open", "destroyed", "aborted", "closed"}]
  /\ events \in [Conns -> 0..2]
  /\ held \in [Conns -> Seq(AskFrames)]
  /\ up \in [Conns -> Seq(AskFrames)]
  /\ down \in [Conns -> Seq(AnyFrames)]
  /\ dials \in [Asks -> DialFields]
  /\ taken \subseteq Asks
  /\ rogue \in 0..MaxRogue

(* Ids are counted per connection and never given twice.                   *)
IdsCounted ==
  /\ \A c \in Conns : next[c] = Cardinality(DialedOn(c)) + 1
  /\ \A a \in Asks : Dialed(a) =>
       /\ dials[a].on \in 1..opened
       /\ dials[a].id > 0 /\ dials[a].id < next[dials[a].on]
  /\ \A a, b \in Asks :
       Dialed(a) /\ Dialed(b) /\ dials[a].on = dials[b].on
                 /\ dials[a].id = dials[b].id => a = b

(* The pending map of a connection holds the asks that wait on it, each    *)
(* under its own id.                                                       *)
PendingExactly ==
  \A c \in Conns : \A p \in Entries :
    p \in pending[c] <=> /\ dials[p.ask].state = "waiting"
                         /\ WentOut(p.ask, c, p.id)

FramesMeant ==
  \A c \in Conns : /\ \A i \in 1..Len(held[c]) : held[c][i] \in Outgoing(c)
                   /\ \A i \in 1..Len(up[c]) : up[c][i] \in Outgoing(c)
                   /\ \A i \in 1..Len(down[c]) : down[c][i] \in Incoming(c)

HeldWhileOpening ==
  \A c \in Conns : held[c] # << >> => carrier = "ws" /\ sock[c] # "open"

Standing(c) == sock[c] \in {"opening", "open", "destroyed", "aborted"}

OneStands ==
  \A c \in Conns : /\ Standing(c) <=> current = c
                   /\ sock[c] = "none" <=> c > opened
                   /\ sock[c] = "closed" => pending[c] = {}

(* A dial that ended with a reply got its own, to an ask that was taken.   *)
GotItsOwn ==
  \A a \in Asks : /\ dials[a].got \in {NoConn, Forged, a}
                  /\ dials[a].got = a => a \in taken

LinesInv ==
  /\ LinesFields
  /\ IdsCounted
  /\ PendingExactly
  /\ FramesMeant
  /\ HeldWhileOpening
  /\ OneStands
  /\ GotItsOwn

(* What holds of every frame of a line holds after one is put on it, taken *)
(* off it, or a whole line is put behind it.                               *)
LEMMA AllOfLine ==
  ASSUME NEW S, NEW T, NEW s \in Seq(S), \A i \in 1..Len(s) : s[i] \in T
  PROVE  /\ \A e \in S : e \in T =>
              \A i \in 1..Len(Append(s, e)) : Append(s, e)[i] \in T
         /\ s # << >> => /\ Head(s) \in S /\ Head(s) \in T
                         /\ Tail(s) \in Seq(S)
                         /\ \A i \in 1..Len(Tail(s)) : Tail(s)[i] \in T
         /\ \A t \in Seq(S) : (\A i \in 1..Len(t) : t[i] \in T) =>
              \A i \in 1..Len(s \o t) : (s \o t)[i] \in T
<1>1. ASSUME NEW e \in S, e \in T, NEW i \in 1..Len(Append(s, e))
      PROVE  Append(s, e)[i] \in T
  <2>1. Len(Append(s, e)) = Len(s) + 1 /\ Len(s) \in Nat
    OBVIOUS
  <2>2. CASE i = Len(s) + 1
    BY <1>1, <2>1, <2>2
  <2>3. CASE i # Len(s) + 1
    BY <1>1, <2>1, <2>3
  <2> QED
    BY <2>2, <2>3
<1>2. ASSUME s # << >>
      PROVE  /\ Head(s) \in S /\ Head(s) \in T
             /\ Tail(s) \in Seq(S)
             /\ \A i \in 1..Len(Tail(s)) : Tail(s)[i] \in T
  <2>1. Len(s) \in Nat /\ Len(s) > 0 /\ Head(s) = s[1]
    BY <1>2
  <2>2. /\ Len(Tail(s)) = Len(s) - 1
        /\ \A i \in 1..Len(Tail(s)) : Tail(s)[i] = s[i + 1] /\ i + 1 \in 1..Len(s)
    BY <1>2, <2>1
  <2> QED
    BY <1>2, <2>1, <2>2
<1>3. ASSUME NEW t \in Seq(S), \A i \in 1..Len(t) : t[i] \in T,
             NEW i \in 1..Len(s \o t)
      PROVE  (s \o t)[i] \in T
  <2>1. Len(s \o t) = Len(s) + Len(t) /\ Len(s) \in Nat /\ Len(t) \in Nat
    OBVIOUS
  <2>2. CASE i <= Len(s)
    BY <2>1, <2>2
  <2>3. CASE i > Len(s)
    <3>1. (s \o t)[i] = t[i - Len(s)] /\ i - Len(s) \in 1..Len(t)
      BY <2>1, <2>3
    <3> QED
      BY <1>3, <3>1
  <2> QED
    BY <2>1, <2>2, <2>3
<1> QED
  BY <1>1, <1>2, <1>3

LEMMA ConnFacts ==
  /\ Conns \subseteq Nat /\ Conns = 1..MaxConns /\ MaxConns \in Nat
  /\ NoConn \notin Conns /\ NoConn # Forged
  /\ NoConn \notin Asks /\ Forged \notin Asks
BY LinesAssumption DEF Conns

(* Of all asks no more than there are were dialed on a connection, and of  *)
(* those before an ask is dialed one fewer.                                *)
LEMMA DialedAreFew ==
  ASSUME NEW c \in Conns
  PROVE  /\ IsFiniteSet(DialedOn(c))
         /\ Cardinality(DialedOn(c)) \in Nat /\ Cardinality(Asks) \in Nat
         /\ Cardinality(DialedOn(c)) <= Cardinality(Asks)
         /\ \A a \in Asks \ DialedOn(c) :
              Cardinality(DialedOn(c)) + 1 <= Cardinality(Asks)
<1>1. IsFiniteSet(Asks) /\ DialedOn(c) \subseteq Asks
  BY LinesAssumption DEF DialedOn
<1>2. /\ IsFiniteSet(DialedOn(c))
      /\ Cardinality(DialedOn(c)) <= Cardinality(Asks)
  BY <1>1, FS_Subset
<1>3. Cardinality(DialedOn(c)) \in Nat /\ Cardinality(Asks) \in Nat
  BY <1>1, <1>2, FS_CardinalityType
<1>4. ASSUME NEW a \in Asks \ DialedOn(c)
      PROVE  Cardinality(DialedOn(c)) + 1 <= Cardinality(Asks)
  <2>1. DialedOn(c) \cup {a} \subseteq Asks
    BY <1>1
  <2>2. Cardinality(DialedOn(c) \cup {a}) <= Cardinality(Asks)
    BY <1>1, <2>1, FS_Subset
  <2>3. Cardinality(DialedOn(c) \cup {a}) = Cardinality(DialedOn(c)) + 1
    BY <1>2, FS_AddElement
  <2> QED
    BY <2>2, <2>3
<1> QED
  BY <1>2, <1>3, <1>4

LEMMA IdIsAnId ==
  ASSUME LinesFields, IdsCounted, NEW a \in Asks, Dialed(a)
  PROVE  dials[a].id \in Ids /\ dials[a].on \in Conns
<1>1. dials[a].on \in Conns /\ dials[a].id \in Nat
  <2>1. dials[a] \in DialFields /\ dials[a].on \in 1..opened /\ opened \in 0..MaxConns
    BY DEF LinesFields, IdsCounted
  <2> QED
    BY <2>1, ConnFacts DEF DialFields
<1>2. /\ dials[a].id > 0
      /\ dials[a].id < Cardinality(DialedOn(dials[a].on)) + 1
  BY <1>1 DEF IdsCounted
<1> QED
  BY <1>1, <1>2, DialedAreFew DEF Ids

LEMMA ResolveFields ==
  ASSUME LinesFields, NEW a \in Asks, NEW got \in Asks \cup {Forged, NoConn}
  PROVE  /\ Resolve(a, got) \in DialFields
         /\ Resolve(a, got).state = "done" /\ Resolve(a, got).got = got
         /\ Resolve(a, got).on = dials[a].on /\ Resolve(a, got).id = dials[a].id
BY DEF LinesFields, DialFields, Resolve

(* A step that begins no dial leaves ids, and what may be on its way.      *)
LEMMA IdsRest ==
  ASSUME IdsCounted, UNCHANGED << next, opened >>, taken \subseteq taken',
         \A a \in Asks : /\ dials'[a].on = dials[a].on
                         /\ dials'[a].id = dials[a].id
                         /\ Dialed(a)' <=> Dialed(a)
  PROVE  /\ IdsCounted'
         /\ \A c : /\ Outgoing(c)' = Outgoing(c)
                   /\ Incoming(c) \subseteq Incoming(c)'
<1>1. \A c \in Conns : DialedOn(c)' = DialedOn(c)
  BY DEF DialedOn
<1>2. \A a \in Asks : \A c, id : WentOut(a, c, id)' <=> WentOut(a, c, id)
  BY DEF WentOut
<1>3. \A c : Outgoing(c)' = Outgoing(c)
  BY <1>2 DEF Outgoing, AskFrames
<1>4. \A c : Incoming(c) \subseteq Incoming(c)'
  BY <1>2 DEF Incoming, AnyFrames
<1>5. IdsCounted'
  <2>1. \A a \in Asks : Dialed(a)' =>
          /\ dials'[a].on \in 1..opened'
          /\ dials'[a].id > 0 /\ dials'[a].id < next'[dials'[a].on]
    BY DEF IdsCounted
  <2>2. \A c \in Conns : next'[c] = Cardinality(DialedOn(c))' + 1
    BY <1>1 DEF IdsCounted
  <2>3. \A a, b \in Asks :
          Dialed(a)' /\ Dialed(b)' /\ dials'[a].on = dials'[b].on
                     /\ dials'[a].id = dials'[b].id => a = b
    BY DEF IdsCounted
  <2> QED
    BY <2>1, <2>2, <2>3 DEF IdsCounted
<1> QED
  BY <1>3, <1>4, <1>5

LEMMA LinesInvInit == LinesInit => LinesInv
<1> SUFFICES ASSUME LinesInit PROVE LinesInv
  OBVIOUS
<1>1. \A a \in Asks : /\ dials[a] \in DialFields /\ dials[a].state = "idle"
                      /\ dials[a].got = NoConn
  BY DEF LinesInit, NoDial, DialFields
<1>2. \A a \in Asks : ~Dialed(a)
  BY <1>1 DEF Dialed
<1>3. LinesFields
  BY <1>1, ConnFacts, LinesAssumption DEF LinesInit, LinesFields
<1>4. IdsCounted
  <2>1. \A c \in Conns : DialedOn(c) = {}
    BY <1>2 DEF DialedOn
  <2>2. \A c \in Conns : Cardinality(DialedOn(c)) = 0
    BY <2>1, FS_EmptySet
  <2> QED
    BY <1>2, <2>2 DEF LinesInit, IdsCounted
<1>5. PendingExactly
  BY <1>1 DEF LinesInit, PendingExactly, Entries
<1>6. FramesMeant /\ HeldWhileOpening
  BY DEF LinesInit, FramesMeant, HeldWhileOpening
<1>7. OneStands
  BY ConnFacts DEF LinesInit, OneStands, Standing
<1> QED
  BY <1>1, <1>3, <1>4, <1>5, <1>6, <1>7, ConnFacts DEF LinesInv, GotItsOwn

-----------------------------------------------------------------------------
(* A dial begins.                                                          *)

LEMMA AsksKeeps ==
  ASSUME LinesInv, NEW a \in Asks, DialerAsks(a),
         NEW c, c = Connection, NEW id, id = NextId(c)
  PROVE  LinesInv'
<1> DEFINE frame == FrameOf("ASK", id, a)
<1>1. /\ dials[a] = NoDial /\ c \in Conns /\ current' = c
      /\ IF current = NoConn
           THEN opened' = c /\ sock' = [sock EXCEPT ![c] = Opening]
           ELSE UNCHANGED << opened, sock >>
      /\ next' = [next EXCEPT ![c] = @ + 1]
      /\ pending' = [pending EXCEPT ![c] = @ \cup {[id |-> id, ask |-> a]}]
      /\ dials' = [dials EXCEPT ![a] =
                     [state |-> "waiting", got |-> NoConn, on |-> c, id |-> id]]
      /\ up' = IF sock'[c] = "open" THEN [up EXCEPT ![c] = Append(@, frame)] ELSE up
      /\ held' = IF carrier = "ws" /\ sock'[c] # "open"
                   THEN [held EXCEPT ![c] = Append(@, frame)] ELSE held
      /\ UNCHANGED << carrier, events, down, taken, rogue >>
  BY DEF DialerAsks
<1>2. ~Dialed(a) /\ c \in Nat /\ id \in Nat /\ next[c] = id /\ id > 0
      /\ opened \in Nat
  <2>1. next[c] = Cardinality(DialedOn(c)) + 1
    BY <1>1 DEF LinesInv, IdsCounted
  <2> QED
    BY <1>1, <2>1, DialedAreFew, ConnFacts
    DEF Dialed, NoDial, NextId, LinesInv, LinesFields
<1>3. /\ current = NoConn => c = opened + 1
      /\ current # NoConn => c = current
  BY DEF Connection
<1>4. frame \in AskFrames /\ [id |-> id, ask |-> a] \in Entries
      /\ frame.about = a /\ frame.id = id
  BY <1>2 DEF FrameOf, AskFrames, Entries
<1> HIDE DEF frame
<1>5. LinesFields'
  <2>1. dials' \in [Asks -> DialFields]
    BY <1>1, <1>2 DEF LinesInv, LinesFields, DialFields
  <2>2. up' \in [Conns -> Seq(AskFrames)] /\ held' \in [Conns -> Seq(AskFrames)]
    BY <1>1, <1>4 DEF LinesInv, LinesFields
  <2>3. pending' \in [Conns -> SUBSET Entries] /\ next' \in [Conns -> Nat]
    BY <1>1, <1>2, <1>4, SMTT(30) DEF LinesInv, LinesFields
  <2>4. /\ opened' \in 0..MaxConns
        /\ sock' \in [Conns -> {"none", "opening", "open", "destroyed", "aborted", "closed"}]
    <3>1. CASE current = NoConn
      <4>1. opened' = c /\ sock' = [sock EXCEPT ![c] = Opening]
        BY <1>1, <3>1
      <4>2. Opening \in {"open", "opening"} /\ c \in 0..MaxConns
        BY <1>1, ConnFacts DEF Opening
      <4> QED
        BY <4>1, <4>2 DEF LinesInv, LinesFields
    <3>2. CASE current # NoConn
      BY <1>1, <3>2 DEF LinesInv, LinesFields
    <3> QED
      BY <3>1, <3>2
  <2> QED
    BY <1>1, <2>1, <2>2, <2>3, <2>4 DEF LinesInv, LinesFields
<1>6. /\ Dialed(a)' /\ dials'[a].on = c /\ dials'[a].id = id
      /\ dials'[a].state = "waiting" /\ dials'[a].got = NoConn
      /\ \A b \in Asks \ {a} : dials'[b] = dials[b]
      /\ \A b \in Asks \ {a} : Dialed(b)' <=> Dialed(b)
  BY <1>1 DEF LinesInv, LinesFields, Dialed
<1>7. /\ \A d, i : WentOut(a, d, i)' <=> d = c /\ i = id
      /\ \A d, i : ~WentOut(a, d, i)
      /\ \A b \in Asks \ {a} : \A d, i : WentOut(b, d, i)' <=> WentOut(b, d, i)
  BY <1>2, <1>6 DEF WentOut
<1>8. \A d : Outgoing(d) \subseteq Outgoing(d)' /\ Incoming(d) \subseteq Incoming(d)'
  BY <1>1, <1>7 DEF Outgoing, Incoming, AskFrames, AnyFrames
<1>9. frame \in Outgoing(c)'
  BY <1>4, <1>7 DEF Outgoing
<1>10. opened' \in Nat /\ opened <= opened' /\ c <= opened' /\ c > 0
  <2>1. opened \in Nat /\ c > 0 /\ c \in Nat
    BY <1>1, <1>2, ConnFacts
  <2>2. CASE current = NoConn
    BY <1>1, <1>3, <2>1, <2>2
  <2>3. CASE current # NoConn
    <3>1. c = current /\ sock[c] # "none"
      BY <1>1, <1>3, <2>3 DEF LinesInv, OneStands, Standing
    <3>2. ~(c > opened)
      BY <1>1, <3>1 DEF LinesInv, OneStands
    <3> QED
      BY <1>1, <2>1, <2>3, <3>2
  <2> QED
    BY <2>2, <2>3
<1>11. IdsCounted'
  <2>1. /\ DialedOn(c)' = DialedOn(c) \cup {a}
        /\ \A d \in Conns \ {c} : DialedOn(d)' = DialedOn(d)
    BY <1>6, <1>2 DEF DialedOn
  <2>2. Cardinality(DialedOn(c) \cup {a}) = Cardinality(DialedOn(c)) + 1
    BY <1>1, <1>2, DialedAreFew, FS_AddElement DEF DialedOn
  <2>3. \A d \in Conns : next'[d] = Cardinality(DialedOn(d)') + 1
    BY <1>1, <2>1, <2>2 DEF LinesInv, LinesFields, IdsCounted
  <2>4. \A b \in Asks : Dialed(b)' =>
       /\ dials'[b].on \in 1..opened'
       /\ dials'[b].id > 0 /\ dials'[b].id < next'[dials'[b].on]
    <3> SUFFICES ASSUME NEW b \in Asks, Dialed(b)'
                 PROVE  /\ dials'[b].on \in 1..opened'
                        /\ dials'[b].id > 0 /\ dials'[b].id < next'[dials'[b].on]
      OBVIOUS
    <3>1. CASE b = a
      BY <1>1, <1>2, <1>6, <1>10, <3>1 DEF LinesInv, LinesFields
    <3>2. CASE b # a
      <4>1. /\ dials[b].on \in 1..opened
            /\ dials[b].id > 0 /\ dials[b].id < next[dials[b].on]
        BY <1>6, <3>2 DEF LinesInv, IdsCounted
      <4>2. dials[b].on \in Conns /\ dials[b].id \in Nat
        BY <1>6, <3>2, IdIsAnId DEF LinesInv, Ids
      <4>3. /\ dials[b].on = c => next'[dials[b].on] = next[dials[b].on] + 1
            /\ dials[b].on # c => next'[dials[b].on] = next[dials[b].on]
            /\ next[dials[b].on] \in Nat
        BY <1>1, <4>2 DEF LinesInv, LinesFields
      <4> QED
        BY <1>2, <1>6, <1>10, <3>2, <4>1, <4>2, <4>3
    <3> QED
      BY <3>1, <3>2
  <2>5. \A b, d \in Asks :
          Dialed(b)' /\ Dialed(d)' /\ dials'[b].on = dials'[d].on
                     /\ dials'[b].id = dials'[d].id => b = d
    <3>1. \A b \in Asks \ {a} : Dialed(b) /\ dials[b].on = c => dials[b].id # id
      <4> SUFFICES ASSUME NEW b \in Asks, Dialed(b), dials[b].on = c, dials[b].id = id
                   PROVE  FALSE
        OBVIOUS
      <4>1. dials[b].id < next[c]
        BY DEF LinesInv, IdsCounted
      <4> QED
        BY <1>2, <4>1
    <3> QED
      BY <1>6, <3>1 DEF LinesInv, IdsCounted
  <2> QED
    BY <2>3, <2>4, <2>5 DEF IdsCounted
<1>12. PendingExactly'
  <2> SUFFICES ASSUME NEW d \in Conns, NEW p \in Entries
               PROVE  p \in pending'[d] <=> /\ dials'[p.ask].state = "waiting"
                                            /\ WentOut(p.ask, d, p.id)'
    BY DEF PendingExactly
  <2>1. p.ask \in Asks /\ p = [id |-> p.id, ask |-> p.ask]
    BY DEF Entries
  <2>2. p \in pending[d] <=> dials[p.ask].state = "waiting" /\ WentOut(p.ask, d, p.id)
    BY DEF LinesInv, PendingExactly
  <2>3. p \in pending'[d] <=> \/ p \in pending[d]
                              \/ d = c /\ p = [id |-> id, ask |-> a]
    BY <1>1 DEF LinesInv, LinesFields
  <2>4. CASE p.ask = a
    <3>1. p = [id |-> id, ask |-> a] <=> p.id = id
      BY <2>1, <2>4
    <3> QED
      BY <1>6, <1>7, <2>2, <2>3, <2>4, <3>1
  <2>5. CASE p.ask # a
    BY <1>6, <1>7, <2>1, <2>2, <2>3, <2>5
  <2> QED
    BY <2>4, <2>5
<1>13. FramesMeant'
  <2> SUFFICES ASSUME NEW d \in Conns
               PROVE  /\ \A i \in 1..Len(held'[d]) : held'[d][i] \in Outgoing(d)'
                      /\ \A i \in 1..Len(up'[d]) : up'[d][i] \in Outgoing(d)'
                      /\ \A i \in 1..Len(down'[d]) : down'[d][i] \in Incoming(d)'
    BY DEF FramesMeant
  <2>1. /\ held'[d] = held[d] \/ (d = c /\ held'[d] = Append(held[d], frame))
        /\ up'[d] = up[d] \/ (d = c /\ up'[d] = Append(up[d], frame))
        /\ down'[d] = down[d]
    BY <1>1 DEF LinesInv, LinesFields
  <2>2. held[d] \in Seq(AskFrames) /\ up[d] \in Seq(AskFrames)
    BY DEF LinesInv, LinesFields
  <2>3. /\ \A i \in 1..Len(held[d]) : held[d][i] \in Outgoing(d)
        /\ \A i \in 1..Len(up[d]) : up[d][i] \in Outgoing(d)
        /\ \A i \in 1..Len(down[d]) : down[d][i] \in Incoming(d)
    BY DEF LinesInv, FramesMeant
  <2>4. \A i \in 1..Len(held'[d]) : held'[d][i] \in Outgoing(d)'
    <3>1. \A i \in 1..Len(held[d]) : held[d][i] \in Outgoing(d)'
      BY <1>8, <2>3
    <3>2. d = c => \A i \in 1..Len(Append(held[d], frame)) :
                     Append(held[d], frame)[i] \in Outgoing(d)'
      BY <1>4, <1>9, <2>2, <3>1, AllOfLine
    <3> QED
      BY <2>1, <3>1, <3>2
  <2>5. \A i \in 1..Len(up'[d]) : up'[d][i] \in Outgoing(d)'
    <3>1. \A i \in 1..Len(up[d]) : up[d][i] \in Outgoing(d)'
      BY <1>8, <2>3
    <3>2. d = c => \A i \in 1..Len(Append(up[d], frame)) :
                     Append(up[d], frame)[i] \in Outgoing(d)'
      BY <1>4, <1>9, <2>2, <3>1, AllOfLine
    <3> QED
      BY <2>1, <3>1, <3>2
  <2>6. \A i \in 1..Len(down'[d]) : down'[d][i] \in Incoming(d)'
    BY <1>8, <2>1, <2>3
  <2> QED
    BY <2>4, <2>5, <2>6
<1>14. HeldWhileOpening'
  BY <1>1, <1>3, ConnFacts DEF LinesInv, LinesFields, HeldWhileOpening, OneStands,
      Standing, Opening
<1>15. OneStands'
  <2>1. CASE current = NoConn
    <3>1. /\ c = opened + 1 /\ opened' = c /\ current' = c
          /\ sock'[c] \in {"open", "opening"}
          /\ \A d \in Conns \ {c} : sock'[d] = sock[d]
          /\ \A d \in Conns \ {c} : pending'[d] = pending[d]
      BY <1>1, <1>3, <2>1 DEF LinesInv, LinesFields, Opening
    <3>2. \A d \in Conns : d \in Nat
      BY ConnFacts
    <3>3. \A d \in Conns \ {c} : d > opened' <=> d > opened
      BY <1>2, <3>1, <3>2
    <3> QED
      BY <1>2, <2>1, <3>1, <3>2, <3>3, ConnFacts DEF LinesInv, OneStands, Standing
  <2>2. CASE current # NoConn
    <3>1. c = current /\ current' = c /\ opened' = opened /\ sock' = sock
          /\ Standing(c)
          /\ \A d \in Conns \ {c} : pending'[d] = pending[d]
      BY <1>1, <1>3, <2>2 DEF LinesInv, LinesFields, OneStands
    <3> QED
      BY <2>2, <3>1 DEF LinesInv, OneStands, Standing
  <2> QED
    BY <2>1, <2>2
<1>16. GotItsOwn'
  BY <1>1, <1>6, ConnFacts DEF LinesInv, GotItsOwn
<1> QED
  BY <1>5, <1>11, <1>12, <1>13, <1>14, <1>15, <1>16 DEF LinesInv

-----------------------------------------------------------------------------
(* Dials end.                                                              *)

(* What a step that begins no dial does to the dials: those that wait may  *)
(* end, with nothing, something forged or their own reply.                 *)
Ends(a) == /\ dials[a].state = "waiting"
           /\ \E got \in {NoConn, Forged, a} :
                /\ dials'[a] = Resolve(a, got)
                /\ got = a => a \in taken

DialsOnlyEnd ==
  /\ dials' \in [Asks -> DialFields]
  /\ \A a \in Asks : dials'[a] = dials[a] \/ Ends(a)
  /\ UNCHANGED << next, opened >>
  /\ taken \subseteq taken'

(* And to the pending maps: exactly the entries of those go.               *)
PendingFollows ==
  /\ pending' \in [Conns -> SUBSET Entries]
  /\ \A c \in Conns : \A p \in Entries :
       p \in pending'[c] <=> p \in pending[c] /\ ~Ends(p.ask)

LEMMA EndsMeans ==
  ASSUME LinesFields, NEW a \in Asks, Ends(a)
  PROVE  /\ dials[a].state = "waiting" /\ dials'[a].state = "done"
         /\ dials'[a].got \in {NoConn, Forged, a}
         /\ dials'[a].got = a => a \in taken
         /\ dials'[a].on = dials[a].on /\ dials'[a].id = dials[a].id
         /\ dials'[a] \in DialFields
<1>1. PICK got \in {NoConn, Forged, a} :
        dials'[a] = Resolve(a, got) /\ (got = a => a \in taken)
  BY DEF Ends
<1>2. got \in Asks \cup {Forged, NoConn}
  BY <1>1
<1> QED
  BY <1>1, <1>2, ResolveFields DEF Ends

LEMMA EndsKeep ==
  ASSUME LinesInv, DialsOnlyEnd
  PROVE  /\ IdsCounted' /\ GotItsOwn'
         /\ \A c : Outgoing(c)' = Outgoing(c) /\ Incoming(c) \subseteq Incoming(c)'
         /\ PendingFollows => PendingExactly'
<1>1. \A a \in Asks :
        /\ dials'[a].on = dials[a].on
        /\ dials'[a].id = dials[a].id
        /\ Dialed(a)' <=> Dialed(a)
        /\ dials'[a].got \in {NoConn, Forged, a}
        /\ dials'[a].got = a => a \in taken
        /\ dials'[a].state = "waiting" <=> dials[a].state = "waiting" /\ ~Ends(a)
  <2> TAKE a \in Asks
  <2>1. CASE Ends(a)
    BY <2>1, EndsMeans DEF LinesInv, Dialed
  <2>2. CASE ~Ends(a)
    <3>1. dials'[a] = dials[a]
      BY <2>2 DEF DialsOnlyEnd
    <3>2. dials[a].got \in {NoConn, Forged, a} /\ (dials[a].got = a => a \in taken)
      BY DEF LinesInv, GotItsOwn
    <3> QED
      BY <2>2, <3>1, <3>2 DEF Dialed
  <2> QED
    BY <2>1, <2>2
<1>2. UNCHANGED << next, opened >> /\ taken \subseteq taken'
  BY DEF DialsOnlyEnd
<1>3. /\ IdsCounted'
      /\ \A c : Outgoing(c)' = Outgoing(c) /\ Incoming(c) \subseteq Incoming(c)'
  BY <1>1, <1>2, IdsRest DEF LinesInv
<1>4. ASSUME PendingFollows PROVE PendingExactly'
  <2> SUFFICES ASSUME NEW c \in Conns, NEW p \in Entries
               PROVE  p \in pending'[c] <=> /\ dials'[p.ask].state = "waiting"
                                            /\ WentOut(p.ask, c, p.id)'
    BY DEF PendingExactly
  <2>1. p.ask \in Asks
    BY DEF Entries
  <2>2. p \in pending'[c] <=> p \in pending[c] /\ ~Ends(p.ask)
    BY <1>4 DEF PendingFollows
  <2>3. p \in pending[c] <=> dials[p.ask].state = "waiting" /\ WentOut(p.ask, c, p.id)
    BY DEF LinesInv, PendingExactly
  <2>4. WentOut(p.ask, c, p.id)' <=> WentOut(p.ask, c, p.id)
    BY <1>1, <2>1 DEF WentOut
  <2> QED
    BY <1>1, <2>1, <2>2, <2>3, <2>4
<1> QED
  BY <1>1, <1>2, <1>3, <1>4 DEF GotItsOwn

(* A pending entry is the only one of its id, and the only one of its ask. *)
LEMMA EntryIsTheAsks ==
  ASSUME LinesInv, NEW c \in Conns, NEW p \in pending[c]
  PROVE  /\ p \in Entries /\ p.ask \in Asks
         /\ p = [id |-> dials[p.ask].id, ask |-> p.ask]
         /\ dials[p.ask].state = "waiting" /\ dials[p.ask].on = c
         /\ Dialed(p.ask)
         /\ \A d \in Conns : \A q \in pending[d] :
              (q.ask = p.ask \/ (d = c /\ q.id = p.id)) => (q = p /\ d = c)
<1>1. \A d \in Conns : \A q \in pending[d] :
        /\ q \in Entries /\ q.ask \in Asks
        /\ q = [id |-> dials[q.ask].id, ask |-> q.ask]
        /\ dials[q.ask].state = "waiting" /\ dials[q.ask].on = d
        /\ Dialed(q.ask)
  <2> SUFFICES ASSUME NEW d \in Conns, NEW q \in pending[d]
               PROVE  /\ q \in Entries /\ q.ask \in Asks
                      /\ q = [id |-> dials[q.ask].id, ask |-> q.ask]
                      /\ dials[q.ask].state = "waiting" /\ dials[q.ask].on = d
                      /\ Dialed(q.ask)
    OBVIOUS
  <2>1. q \in Entries
    BY DEF LinesInv, LinesFields
  <2>2. dials[q.ask].state = "waiting" /\ WentOut(q.ask, d, q.id)
    BY <2>1 DEF LinesInv, PendingExactly
  <2>3. q = [id |-> q.id, ask |-> q.ask] /\ q.ask \in Asks
    BY <2>1 DEF Entries
  <2> QED
    BY <2>1, <2>2, <2>3 DEF WentOut, Dialed
<1>2. ASSUME NEW d \in Conns, NEW q \in pending[d],
             q.ask = p.ask \/ (d = c /\ q.id = p.id)
      PROVE  q = p /\ d = c
  <2>1. CASE q.ask = p.ask
    BY <1>1, <2>1
  <2>2. CASE d = c /\ q.id = p.id
    <3>1. dials[q.ask].id = q.id /\ dials[p.ask].id = p.id
      BY <1>1
    <3>2. q.ask = p.ask
      BY <1>1, <2>2, <3>1 DEF LinesInv, IdsCounted
    <3> QED
      BY <1>1, <3>2
  <2> QED
    BY <1>2, <2>1, <2>2
<1> QED
  BY <1>1, <1>2

(* A connection's lines, taken one by one.                                 *)
LEMMA LinesOf ==
  ASSUME LinesInv, NEW c \in Conns
  PROVE  /\ held[c] \in Seq(AskFrames) /\ up[c] \in Seq(AskFrames)
         /\ down[c] \in Seq(AnyFrames)
         /\ \A i \in 1..Len(held[c]) : held[c][i] \in Outgoing(c)
         /\ \A i \in 1..Len(up[c]) : up[c][i] \in Outgoing(c)
         /\ \A i \in 1..Len(down[c]) : down[c][i] \in Incoming(c)
BY DEF LinesInv, LinesFields, FramesMeant

LEMMA NothingEnds ==
  ASSUME LinesInv, UNCHANGED << dials, next, opened >>, taken \subseteq taken'
  PROVE  DialsOnlyEnd
BY DEF LinesInv, LinesFields, DialsOnlyEnd

LEMMA PendingRests ==
  ASSUME LinesInv, UNCHANGED << dials, pending >>
  PROVE  PendingFollows
<1>1. \A a \in Asks : ~Ends(a)
  <2> SUFFICES ASSUME NEW a \in Asks, Ends(a) PROVE FALSE
    OBVIOUS
  <2>1. dials[a].state = "waiting" /\ dials'[a].state = "done"
    BY EndsMeans DEF LinesInv
  <2> QED
    BY <2>1
<1> QED
  BY <1>1 DEF PendingFollows, LinesInv, LinesFields, Entries

LEMMA OpensKeeps ==
  ASSUME LinesInv, NEW c \in Conns, LineOpens(c)
  PROVE  LinesInv'
<1>1. /\ sock[c] = "opening"
      /\ UNCHANGED << carrier, current, opened, pending, next, events, down, dials,
                      taken, rogue >>
  BY DEF LineOpens
<1>2. /\ \/ sock' = [sock EXCEPT ![c] = "open"]
         \/ sock' = [sock EXCEPT ![c] = "destroyed"]
      /\ \A d \in Conns \ {c} : held'[d] = held[d] /\ up'[d] = up[d] /\ sock'[d] = sock[d]
      /\ \/ /\ sock'[c] = "open"
            /\ up'[c] = up[c] \o held[c] /\ held'[c] = << >>
         \/ /\ sock'[c] = "destroyed"
            /\ up'[c] = up[c] /\ held'[c] = held[c]
  BY DEF LineOpens, LinesInv, LinesFields
<1>3. /\ IdsCounted' /\ GotItsOwn' /\ PendingExactly'
      /\ \A d : Outgoing(d)' = Outgoing(d) /\ Incoming(d) \subseteq Incoming(d)'
  BY <1>1, NothingEnds, PendingRests, EndsKeep
<1>4. LinesFields'
  <2>1. held' \in [Conns -> Seq(AskFrames)] /\ up' \in [Conns -> Seq(AskFrames)]
    <3>1. up[c] \o held[c] \in Seq(AskFrames) /\ << >> \in Seq(AskFrames)
      BY LinesOf
    <3>2. /\ up' = [up EXCEPT ![c] = up[c] \o held[c]] \/ up' = up
          /\ held' = [held EXCEPT ![c] = << >>] \/ held' = held
      BY DEF LineOpens
    <3> QED
      BY <3>1, <3>2 DEF LinesInv, LinesFields
  <2> QED
    BY <1>1, <1>2, <2>1 DEF LinesInv, LinesFields
<1>5. FramesMeant'
  <2> SUFFICES ASSUME NEW d \in Conns
               PROVE  /\ \A i \in 1..Len(held'[d]) : held'[d][i] \in Outgoing(d)'
                      /\ \A i \in 1..Len(up'[d]) : up'[d][i] \in Outgoing(d)'
                      /\ \A i \in 1..Len(down'[d]) : down'[d][i] \in Incoming(d)'
    BY DEF FramesMeant
  <2>1. \A i \in 1..Len(up[d] \o held[d]) : (up[d] \o held[d])[i] \in Outgoing(d)
    BY LinesOf, AllOfLine
  <2>2. /\ held'[d] = held[d] \/ held'[d] = << >>
        /\ up'[d] = up[d] \/ up'[d] = up[d] \o held[d]
        /\ down'[d] = down[d]
    BY <1>1, <1>2
  <2>3. \A i \in 1..Len(held'[d]) : held'[d][i] \in Outgoing(d)'
    BY <1>3, <2>2, LinesOf
  <2>4. \A i \in 1..Len(up'[d]) : up'[d][i] \in Outgoing(d)'
    BY <1>3, <2>1, <2>2, LinesOf
  <2>5. \A i \in 1..Len(down'[d]) : down'[d][i] \in Incoming(d)'
    BY <1>3, <2>2, LinesOf
  <2> QED
    BY <2>3, <2>4, <2>5
<1>6. HeldWhileOpening'
  BY <1>1, <1>2 DEF LinesInv, HeldWhileOpening
<1>7. OneStands'
  BY <1>1, <1>2 DEF LinesInv, OneStands, Standing
<1> QED
  BY <1>3, <1>4, <1>5, <1>6, <1>7 DEF LinesInv

(* What the asks that waited to be written were dialed for.                *)
LEMMA HeldAsks ==
  ASSUME LinesInv, NEW c \in Conns
  PROVE  \A a \in HeldOn(c) : a \in Asks /\ Dialed(a) /\ dials[a].on = c
<1> SUFFICES ASSUME NEW a \in HeldOn(c)
             PROVE  a \in Asks /\ Dialed(a) /\ dials[a].on = c
  OBVIOUS
<1>1. DOMAIN held[c] = 1..Len(held[c])
  BY LinesOf
<1>2. PICK i \in 1..Len(held[c]) : a = held[c][i].about
  BY <1>1 DEF HeldOn
<1>3. held[c][i] \in Outgoing(c)
  BY LinesOf
<1> QED
  BY <1>2, <1>3 DEF Outgoing, AskFrames, WentOut

LEMMA RefusesKeeps ==
  ASSUME LinesInv, NEW c \in Conns, LineRefuses(c)
  PROVE  LinesInv' /\ DialsOnlyEnd
<1>1. /\ sock[c] = "destroyed"
      /\ held' = [held EXCEPT ![c] = << >>]
      /\ pending' = [pending EXCEPT ![c] = {p \in @ : p.ask \notin HeldOn(c)}]
      /\ \A a \in Asks : dials'[a] =
           IF a \in HeldOn(c) /\ dials[a].state = "waiting" THEN Resolve(a, NoConn)
           ELSE dials[a]
      /\ UNCHANGED << carrier, current, opened, next, sock, events, up, down, taken,
                      rogue >>
  BY DEF LineRefuses
<1>2. \A a \in Asks : Ends(a) <=> a \in HeldOn(c) /\ dials[a].state = "waiting"
  <2> SUFFICES ASSUME NEW a \in Asks
               PROVE  Ends(a) <=> a \in HeldOn(c) /\ dials[a].state = "waiting"
    OBVIOUS
  <2>1. Ends(a) => dials[a].state = "waiting" /\ dials'[a].state = "done"
    BY EndsMeans DEF LinesInv
  <2> QED
    BY <1>1, <2>1, ConnFacts DEF Ends
<1>3. DialsOnlyEnd
  <2>1. \A a \in Asks : dials'[a] \in DialFields
    BY <1>1, <1>2, EndsMeans DEF LinesInv, LinesFields
  <2>2. dials' \in [Asks -> DialFields]
    BY <2>1 DEF LineRefuses
  <2> QED
    BY <1>1, <1>2, <2>2 DEF DialsOnlyEnd
<1>4. PendingFollows
  <2>1. pending' \in [Conns -> SUBSET Entries]
    BY <1>1 DEF LinesInv, LinesFields
  <2> SUFFICES ASSUME NEW d \in Conns, NEW p \in Entries
               PROVE  p \in pending'[d] <=> p \in pending[d] /\ ~Ends(p.ask)
    BY <2>1 DEF PendingFollows
  <2>2. p.ask \in Asks
    BY DEF Entries
  <2>3. CASE d = c
    <3>1. pending'[c] = {q \in pending[c] : q.ask \notin HeldOn(c)}
      BY <1>1 DEF LinesInv, LinesFields
    <3>2. p \in pending[c] => dials[p.ask].state = "waiting"
      BY EntryIsTheAsks
    <3> QED
      BY <1>2, <2>2, <2>3, <3>1, <3>2
  <2>4. CASE d # c
    <3>1. p \in pending[d] => p.ask \notin HeldOn(c)
      BY <2>4, EntryIsTheAsks, HeldAsks
    <3> QED
      BY <1>1, <1>2, <2>2, <2>4, <3>1 DEF LinesInv, LinesFields
  <2> QED
    BY <2>3, <2>4
<1>5. /\ IdsCounted' /\ GotItsOwn' /\ PendingExactly'
      /\ \A d : Outgoing(d)' = Outgoing(d) /\ Incoming(d) \subseteq Incoming(d)'
  BY <1>3, <1>4, EndsKeep
<1>6. \A d \in Conns : held'[d] = held[d] \/ held'[d] = << >>
  BY <1>1 DEF LinesInv, LinesFields
<1>7. LinesFields'
  <2>1. held' \in [Conns -> Seq(AskFrames)]
    BY <1>1 DEF LinesInv, LinesFields
  <2> QED
    BY <1>1, <1>3, <1>4, <2>1 DEF LinesInv, LinesFields, DialsOnlyEnd, PendingFollows
<1>8. FramesMeant'
  <2> SUFFICES ASSUME NEW d \in Conns
               PROVE  /\ \A i \in 1..Len(held'[d]) : held'[d][i] \in Outgoing(d)'
                      /\ \A i \in 1..Len(up'[d]) : up'[d][i] \in Outgoing(d)'
                      /\ \A i \in 1..Len(down'[d]) : down'[d][i] \in Incoming(d)'
    BY DEF FramesMeant
  <2> QED
    BY <1>1, <1>5, <1>6, LinesOf
<1>9. HeldWhileOpening'
  BY <1>1, <1>6 DEF LinesInv, HeldWhileOpening
<1>10. OneStands'
  BY <1>1 DEF LinesInv, LinesFields, OneStands, Standing
<1> QED
  BY <1>3, <1>5, <1>7, <1>8, <1>9, <1>10 DEF LinesInv

(* The dialer reads: at most the one dial that the frame names ends.       *)
LEMMA ReadsKeeps ==
  ASSUME LinesInv, NEW c \in Conns, DialerReads(c)
  PROVE  /\ LinesInv' /\ DialsOnlyEnd
         /\ \A a, b \in Asks : Ends(a) /\ Ends(b) => a = b
<1> SUFFICES ASSUME NEW frame, frame = Head(down[c]),
                    NEW mine,
                    mine = IF frame.kind = "ASK" THEN {} ELSE WaitingOn(c, frame.id)
             PROVE  /\ LinesInv' /\ DialsOnlyEnd
                    /\ \A a, b \in Asks : Ends(a) /\ Ends(b) => a = b
  OBVIOUS
<1>1. /\ sock[c] = "open" /\ down[c] # << >>
      /\ down' = [down EXCEPT ![c] = Tail(@)]
      /\ pending' = [pending EXCEPT ![c] = @ \ mine]
      /\ dials' = [a \in Asks |->
             IF \E p \in mine : p.ask = a THEN Resolve(a, GotOf(frame))
             ELSE dials[a]]
      /\ UNCHANGED << carrier, current, opened, next, sock, events, held, up, taken,
                      rogue >>
  BY DEF DialerReads
<1>2. frame \in AnyFrames /\ frame \in Incoming(c)
  BY <1>1, LinesOf, AllOfLine
<1>3. \A p \in mine : /\ p \in pending[c] /\ p.id = frame.id
                      /\ frame.kind \in {"REPLY", "NOTHING"}
  BY <1>2 DEF WaitingOn, AnyFrames, Kinds
<1>4. ASSUME NEW p \in mine
      PROVE  /\ GotOf(frame) \in {NoConn, Forged, p.ask}
             /\ GotOf(frame) = p.ask => p.ask \in taken
  <2>1. p.ask \in Asks /\ Dialed(p.ask) /\ dials[p.ask].on = c
        /\ dials[p.ask].id = frame.id
    <3>1. p = [id |-> dials[p.ask].id, ask |-> p.ask]
      BY <1>3, EntryIsTheAsks
    <3> QED
      BY <1>3, <3>1, EntryIsTheAsks
  <2>2. CASE frame.kind = "REPLY" /\ frame.about # Forged
    <3>1. frame.about \in taken /\ WentOut(frame.about, c, frame.id)
          /\ frame.about \in Asks
      BY <1>2, <2>2 DEF Incoming, AnyFrames
    <3>2. frame.about = p.ask
      BY <2>1, <3>1 DEF WentOut, LinesInv, IdsCounted
    <3> QED
      BY <2>2, <3>1, <3>2 DEF GotOf
  <2>3. CASE ~(frame.kind = "REPLY" /\ frame.about # Forged)
    BY <2>1, <2>3, ConnFacts DEF GotOf
  <2> QED
    BY <2>2, <2>3
<1>5. \A a \in Asks : Ends(a) <=> \E p \in mine : p.ask = a
  <2> SUFFICES ASSUME NEW a \in Asks
               PROVE  Ends(a) <=> \E p \in mine : p.ask = a
    OBVIOUS
  <2>1. ASSUME NEW p \in mine, p.ask = a PROVE Ends(a)
    <3>1. dials'[a] = Resolve(a, GotOf(frame)) /\ dials[a].state = "waiting"
      BY <1>1, <1>3, <2>1, EntryIsTheAsks
    <3> QED
      BY <1>4, <2>1, <3>1 DEF Ends
  <2>2. ASSUME ~\E p \in mine : p.ask = a PROVE ~Ends(a)
    <3>1. dials'[a] = dials[a]
      BY <1>1, <2>2
    <3> QED
      BY <3>1, EndsMeans DEF LinesInv
  <2> QED
    BY <2>1, <2>2
<1>6. \A a, b \in Asks : Ends(a) /\ Ends(b) => a = b
  BY <1>3, <1>5, EntryIsTheAsks
<1>7. DialsOnlyEnd
  <2>1. \A a \in Asks : dials'[a] = dials[a] \/ Ends(a)
    BY <1>1, <1>5
  <2>2. \A a \in Asks : dials'[a] \in DialFields
    BY <2>1, EndsMeans DEF LinesInv, LinesFields
  <2>3. dials' \in [Asks -> DialFields]
    BY <1>1, <2>2
  <2> QED
    BY <1>1, <2>1, <2>3 DEF DialsOnlyEnd
<1>8. PendingFollows
  <2>1. pending' \in [Conns -> SUBSET Entries]
    BY <1>1 DEF LinesInv, LinesFields
  <2> SUFFICES ASSUME NEW d \in Conns, NEW p \in Entries
               PROVE  p \in pending'[d] <=> p \in pending[d] /\ ~Ends(p.ask)
    BY <2>1 DEF PendingFollows
  <2>2. p.ask \in Asks
    BY DEF Entries
  <2>3. p \in pending[d] => (Ends(p.ask) <=> d = c /\ p \in mine)
    BY <1>3, <1>5, <2>2, EntryIsTheAsks
  <2> QED
    BY <1>1, <1>3, <2>3 DEF LinesInv, LinesFields
<1>9. /\ IdsCounted' /\ GotItsOwn' /\ PendingExactly'
      /\ \A d : Outgoing(d)' = Outgoing(d) /\ Incoming(d) \subseteq Incoming(d)'
  BY <1>7, <1>8, EndsKeep
<1>10. Tail(down[c]) \in Seq(AnyFrames)
       /\ \A i \in 1..Len(Tail(down[c])) : Tail(down[c])[i] \in Incoming(c)
  BY <1>1, LinesOf, AllOfLine
<1>11. LinesFields'
  <2>1. down' \in [Conns -> Seq(AnyFrames)]
    BY <1>1, <1>10 DEF LinesInv, LinesFields
  <2> QED
    BY <1>1, <1>7, <1>8, <2>1 DEF LinesInv, LinesFields, DialsOnlyEnd, PendingFollows
<1>12. FramesMeant'
  <2> SUFFICES ASSUME NEW d \in Conns
               PROVE  /\ \A i \in 1..Len(held'[d]) : held'[d][i] \in Outgoing(d)'
                      /\ \A i \in 1..Len(up'[d]) : up'[d][i] \in Outgoing(d)'
                      /\ \A i \in 1..Len(down'[d]) : down'[d][i] \in Incoming(d)'
    BY DEF FramesMeant
  <2>1. down'[d] = down[d] \/ (d = c /\ down'[d] = Tail(down[d]))
    BY <1>1 DEF LinesInv, LinesFields
  <2>2. \A i \in 1..Len(down'[d]) : down'[d][i] \in Incoming(d)'
    BY <1>9, <1>10, <2>1, LinesOf
  <2> QED
    BY <1>1, <1>9, <2>2, LinesOf
<1>13. HeldWhileOpening' /\ OneStands'
  BY <1>1 DEF LinesInv, LinesFields, HeldWhileOpening, OneStands, Standing
<1> QED
  BY <1>6, <1>7, <1>9, <1>11, <1>12, <1>13 DEF LinesInv

LEMMA TimerKeeps ==
  ASSUME LinesInv, NEW a \in Asks, TimerFires(a)
  PROVE  /\ LinesInv' /\ DialsOnlyEnd
         /\ \A b \in Asks : Ends(b) => b = a
<1> SUFFICES ASSUME NEW c, c = dials[a].on,
                    NEW mine, mine = WaitingOn(c, dials[a].id)
             PROVE  /\ LinesInv' /\ DialsOnlyEnd
                    /\ \A b \in Asks : Ends(b) => b = a
  OBVIOUS
<1>1. /\ dials[a].state = "waiting"
      /\ pending' = [pending EXCEPT ![c] = @ \ mine]
      /\ dials' = [dials EXCEPT ![a] = Resolve(a, NoConn)]
      /\ UNCHANGED << carrier, current, opened, next, sock, events, held, up, down,
                      taken, rogue >>
  BY DEF TimerFires
<1>2. /\ dials'[a] = Resolve(a, NoConn)
      /\ \A b \in Asks \ {a} : dials'[b] = dials[b]
  BY <1>1 DEF LinesInv, LinesFields
<1>3. Ends(a) /\ \A b \in Asks : Ends(b) => b = a
  <2>1. \A b \in Asks : Ends(b) => dials'[b] # dials[b]
    BY EndsMeans DEF LinesInv
  <2> QED
    BY <1>1, <1>2, <2>1, ConnFacts DEF Ends
<1>4. DialsOnlyEnd
  <2>1. dials'[a] \in DialFields
    BY <1>3, EndsMeans DEF LinesInv
  <2>2. dials' \in [Asks -> DialFields]
    BY <1>1, <1>2, <2>1 DEF LinesInv, LinesFields
  <2> QED
    BY <1>1, <1>2, <1>3, <2>2 DEF DialsOnlyEnd
<1>5. c \in Conns /\ Dialed(a)
  BY <1>1, IdIsAnId DEF LinesInv, Dialed
<1>6. PendingFollows
  <2>1. pending' \in [Conns -> SUBSET Entries]
    BY <1>1 DEF LinesInv, LinesFields
  <2> SUFFICES ASSUME NEW d \in Conns, NEW p \in Entries
               PROVE  p \in pending'[d] <=> p \in pending[d] /\ ~Ends(p.ask)
    BY <2>1 DEF PendingFollows
  <2>2. p.ask \in Asks /\ p = [id |-> p.id, ask |-> p.ask]
    BY DEF Entries
  <2>3. p \in pending[d] => (p.ask = a <=> d = c /\ p \in mine)
    <3>1. ASSUME p \in pending[d], p.ask = a PROVE d = c /\ p \in mine
      <4>1. p = [id |-> dials[a].id, ask |-> a] /\ dials[a].on = d
        BY <3>1, EntryIsTheAsks
      <4> QED
        BY <3>1, <4>1 DEF WaitingOn
    <3>2. ASSUME p \in pending[d], d = c, p \in mine PROVE p.ask = a
      <4>1. p = [id |-> dials[p.ask].id, ask |-> p.ask] /\ dials[p.ask].on = c
            /\ Dialed(p.ask)
        BY <3>2, EntryIsTheAsks
      <4>2. dials[p.ask].id = dials[a].id
        BY <3>2, <4>1 DEF WaitingOn
      <4> QED
        BY <1>5, <2>2, <4>1, <4>2 DEF LinesInv, IdsCounted
    <3> QED
      BY <3>1, <3>2
  <2>4. \/ d = c /\ pending'[d] = pending[d] \ mine
        \/ d # c /\ pending'[d] = pending[d]
    BY <1>1 DEF LinesInv, LinesFields
  <2> QED
    BY <1>3, <2>2, <2>3, <2>4
<1>7. /\ IdsCounted' /\ GotItsOwn' /\ PendingExactly'
      /\ \A d : Outgoing(d)' = Outgoing(d) /\ Incoming(d) \subseteq Incoming(d)'
  BY <1>4, <1>6, EndsKeep
<1>8. LinesFields'
  BY <1>1, <1>4, <1>6 DEF LinesInv, LinesFields, DialsOnlyEnd, PendingFollows
<1>9. FramesMeant'
  BY <1>1, <1>7 DEF LinesInv, FramesMeant
<1>10. HeldWhileOpening' /\ OneStands'
  BY <1>1 DEF LinesInv, LinesFields, HeldWhileOpening, OneStands, Standing
<1> QED
  BY <1>3, <1>4, <1>7, <1>8, <1>9, <1>10 DEF LinesInv

LEMMA ClosesKeeps ==
  ASSUME LinesInv, NEW c \in Conns, SocketCloses(c)
  PROVE  LinesInv' /\ DialsOnlyEnd
<1>1. /\ sock[c] # "none"
      /\ events[c] < (IF carrier = "tcp" THEN 2 ELSE 1)
      /\ events' = [events EXCEPT ![c] = @ + 1]
      /\ sock' = [sock EXCEPT ![c] = "closed"]
      /\ held' = [held EXCEPT ![c] = << >>]
      /\ current' = IF current = c THEN NoConn ELSE current
      /\ dials' = [a \in Asks |->
           IF \E p \in pending[c] : p.ask = a THEN Resolve(a, NoConn) ELSE dials[a]]
      /\ pending' = [pending EXCEPT ![c] = {}]
      /\ UNCHANGED << carrier, opened, next, up, down, taken, rogue >>
  BY DEF SocketCloses, CurrentAfterClose
<1>2. \A a \in Asks : Ends(a) <=> \E p \in pending[c] : p.ask = a
  <2> SUFFICES ASSUME NEW a \in Asks
               PROVE  Ends(a) <=> \E p \in pending[c] : p.ask = a
    OBVIOUS
  <2>1. ASSUME NEW p \in pending[c], p.ask = a PROVE Ends(a)
    <3>1. dials'[a] = Resolve(a, NoConn) /\ dials[a].state = "waiting"
      BY <1>1, <2>1, EntryIsTheAsks
    <3> QED
      BY <3>1, ConnFacts DEF Ends
  <2>2. ASSUME ~\E p \in pending[c] : p.ask = a PROVE ~Ends(a)
    <3>1. dials'[a] = dials[a]
      BY <1>1, <2>2
    <3> QED
      BY <3>1, EndsMeans DEF LinesInv
  <2> QED
    BY <2>1, <2>2
<1>3. DialsOnlyEnd
  <2>1. \A a \in Asks : dials'[a] = dials[a] \/ Ends(a)
    BY <1>1, <1>2
  <2>2. \A a \in Asks : dials'[a] \in DialFields
    BY <2>1, EndsMeans DEF LinesInv, LinesFields
  <2>3. dials' \in [Asks -> DialFields]
    BY <1>1, <2>2
  <2> QED
    BY <1>1, <2>1, <2>3 DEF DialsOnlyEnd
<1>4. PendingFollows
  <2>1. pending' \in [Conns -> SUBSET Entries]
    BY <1>1 DEF LinesInv, LinesFields
  <2> SUFFICES ASSUME NEW d \in Conns, NEW p \in Entries
               PROVE  p \in pending'[d] <=> p \in pending[d] /\ ~Ends(p.ask)
    BY <2>1 DEF PendingFollows
  <2>2. p.ask \in Asks
    BY DEF Entries
  <2>3. p \in pending[d] => (Ends(p.ask) <=> d = c)
    BY <1>2, <2>2, EntryIsTheAsks
  <2>4. \/ d = c /\ pending'[d] = {}
        \/ d # c /\ pending'[d] = pending[d]
    BY <1>1 DEF LinesInv, LinesFields
  <2> QED
    BY <2>3, <2>4
<1>5. /\ IdsCounted' /\ GotItsOwn' /\ PendingExactly'
      /\ \A d : Outgoing(d)' = Outgoing(d) /\ Incoming(d) \subseteq Incoming(d)'
  BY <1>3, <1>4, EndsKeep
<1>6. \A d \in Conns : /\ held'[d] = held[d] \/ held'[d] = << >>
                       /\ d = c => held'[d] = << >>
  BY <1>1 DEF LinesInv, LinesFields
<1>7. LinesFields'
  <2>1. held' \in [Conns -> Seq(AskFrames)]
    BY <1>1 DEF LinesInv, LinesFields
  <2>2. events' \in [Conns -> 0..2]
    <3>1. events[c] \in 0..2 /\ events[c] < 2
      BY <1>1 DEF LinesInv, LinesFields
    <3>2. events[c] + 1 \in 0..2
      BY <3>1
    <3> QED
      BY <1>1, <3>2 DEF LinesInv, LinesFields
  <2>3. current' \in Conns \cup {NoConn}
    BY <1>1 DEF LinesInv, LinesFields
  <2>4. sock' \in [Conns -> {"none", "opening", "open", "destroyed", "aborted", "closed"}]
    BY <1>1 DEF LinesInv, LinesFields
  <2> QED
    BY <1>1, <1>3, <1>4, <2>1, <2>2, <2>3, <2>4
    DEF LinesInv, LinesFields, DialsOnlyEnd, PendingFollows
<1>8. FramesMeant'
  <2> SUFFICES ASSUME NEW d \in Conns
               PROVE  /\ \A i \in 1..Len(held'[d]) : held'[d][i] \in Outgoing(d)'
                      /\ \A i \in 1..Len(up'[d]) : up'[d][i] \in Outgoing(d)'
                      /\ \A i \in 1..Len(down'[d]) : down'[d][i] \in Incoming(d)'
    BY DEF FramesMeant
  <2> QED
    BY <1>1, <1>5, <1>6, LinesOf
<1>9. \A d \in Conns \ {c} : sock'[d] = sock[d] /\ pending'[d] = pending[d]
  BY <1>1 DEF LinesInv, LinesFields
<1>10. sock'[c] = "closed" /\ pending'[c] = {} /\ c # NoConn
  BY <1>1, ConnFacts DEF LinesInv, LinesFields
<1>11. HeldWhileOpening'
  BY <1>1, <1>6, <1>9 DEF LinesInv, HeldWhileOpening
<1>12. OneStands'
  <2> SUFFICES ASSUME NEW d \in Conns
               PROVE  /\ Standing(d)' <=> current' = d
                      /\ sock'[d] = "none" <=> d > opened'
                      /\ sock'[d] = "closed" => pending'[d] = {}
    BY DEF OneStands
  <2>1. d # NoConn
    BY ConnFacts
  <2>2. CASE d = c
    BY <1>1, <1>10, <2>1, <2>2 DEF LinesInv, OneStands, Standing
  <2>3. CASE d # c
    BY <1>1, <1>9, <2>1, <2>3 DEF LinesInv, OneStands, Standing
  <2> QED
    BY <2>2, <2>3
<1> QED
  BY <1>3, <1>5, <1>7, <1>8, <1>11, <1>12 DEF LinesInv

LEMMA DestroyedKeeps ==
  ASSUME LinesInv, NEW c \in Conns, SocketDestroyed(c)
  PROVE  LinesInv'
<1>1. /\ sock[c] \in {"opening", "open"}
      /\ sock' = [sock EXCEPT ![c] = IF @ = "open" THEN "destroyed" ELSE "aborted"]
      /\ UNCHANGED << carrier, current, opened, pending, next, events, held, up, down,
                      dials, taken, rogue >>
  BY DEF SocketDestroyed
<1>2. /\ IdsCounted' /\ GotItsOwn' /\ PendingExactly'
      /\ \A d : Outgoing(d)' = Outgoing(d) /\ Incoming(d) \subseteq Incoming(d)'
  BY <1>1, NothingEnds, PendingRests, EndsKeep
<1>3. LinesFields'
  BY <1>1 DEF LinesInv, LinesFields
<1>4. FramesMeant'
  BY <1>1, <1>2 DEF LinesInv, FramesMeant
<1>5. /\ \A d \in Conns \ {c} : sock'[d] = sock[d]
      /\ sock'[c] \in {"destroyed", "aborted"}
  BY <1>1 DEF LinesInv, LinesFields
<1>6. HeldWhileOpening'
  BY <1>1, <1>5 DEF LinesInv, HeldWhileOpening
<1>7. OneStands'
  BY <1>1, <1>5 DEF LinesInv, OneStands, Standing
<1> QED
  BY <1>2, <1>3, <1>4, <1>6, <1>7 DEF LinesInv

-----------------------------------------------------------------------------
(* The listener answers.                                                   *)

(* What a listener puts on the line, for an ask it read.                   *)
LEMMA AnswerKeeps ==
  ASSUME LinesInv, NEW c \in Conns, NEW frame \in AnyFrames,
         down' = [down EXCEPT ![c] = Append(@, frame)],
         frame \in Incoming(c)',
         \A d \in Conns : up'[d] = up[d] \/ (up[d] # << >> /\ up'[d] = Tail(up[d])),
         up' \in [Conns -> Seq(AskFrames)],
         taken \subseteq taken', taken' \subseteq Asks, rogue' \in 0..MaxRogue,
         UNCHANGED << carrier, current, opened, pending, next, sock, events, held, dials >>
  PROVE  LinesInv'
<1>1. /\ IdsCounted' /\ GotItsOwn' /\ PendingExactly'
      /\ \A d : Outgoing(d)' = Outgoing(d) /\ Incoming(d) \subseteq Incoming(d)'
  BY NothingEnds, PendingRests, EndsKeep
<1>2. LinesFields'
  <2>1. down' \in [Conns -> Seq(AnyFrames)]
    BY DEF LinesInv, LinesFields
  <2> QED
    BY <2>1 DEF LinesInv, LinesFields
<1>3. FramesMeant'
  <2> SUFFICES ASSUME NEW d \in Conns
               PROVE  /\ \A i \in 1..Len(held'[d]) : held'[d][i] \in Outgoing(d)'
                      /\ \A i \in 1..Len(up'[d]) : up'[d][i] \in Outgoing(d)'
                      /\ \A i \in 1..Len(down'[d]) : down'[d][i] \in Incoming(d)'
    BY DEF FramesMeant
  <2>1. down'[d] = down[d] \/ (d = c /\ down'[d] = Append(down[d], frame))
    BY DEF LinesInv, LinesFields
  <2>2. \A i \in 1..Len(down[d]) : down[d][i] \in Incoming(d)'
    BY <1>1, LinesOf
  <2>3. d = c => \A i \in 1..Len(Append(down[d], frame)) :
                   Append(down[d], frame)[i] \in Incoming(d)'
    BY <2>2, LinesOf, AllOfLine
  <2>4. \A i \in 1..Len(down'[d]) : down'[d][i] \in Incoming(d)'
    BY <2>1, <2>2, <2>3
  <2>5. up[d] # << >> => \A i \in 1..Len(Tail(up[d])) : Tail(up[d])[i] \in Outgoing(d)
    BY LinesOf, AllOfLine
  <2>6. \A i \in 1..Len(up'[d]) : up'[d][i] \in Outgoing(d)'
    BY <1>1, <2>5, LinesOf
  <2> QED
    BY <1>1, <2>4, <2>6, LinesOf
<1>4. HeldWhileOpening' /\ OneStands'
  BY DEF LinesInv, HeldWhileOpening, OneStands, Standing
<1> QED
  BY <1>1, <1>2, <1>3, <1>4 DEF LinesInv

LEMMA ListenerKeeps ==
  ASSUME LinesInv, NEW c \in Conns, ListenerReads(c)
  PROVE  /\ LinesInv' /\ dials' = dials
         /\ taken' = taken
            \/ \E a \in Asks : Dialed(a) /\ taken' = taken \cup {a}
<1> SUFFICES ASSUME NEW frame, frame = Head(up[c])
             PROVE  /\ LinesInv' /\ dials' = dials
                    /\ taken' = taken
                       \/ \E a \in Asks : Dialed(a) /\ taken' = taken \cup {a}
  OBVIOUS
<1>1. /\ up[c] # << >>
      /\ up' = [up EXCEPT ![c] = Tail(@)]
      /\ UNCHANGED << carrier, current, opened, pending, next, sock, events, held, dials,
                      rogue >>
  BY DEF ListenerReads
<1>2. /\ frame \in Outgoing(c) /\ Tail(up[c]) \in Seq(AskFrames)
      /\ frame.about \in Asks /\ WentOut(frame.about, c, frame.id)
      /\ Dialed(frame.about) /\ frame.id \in Ids
  <2>1. frame \in Outgoing(c) /\ Tail(up[c]) \in Seq(AskFrames)
    BY <1>1, LinesOf, AllOfLine
  <2>2. frame.about \in Asks /\ WentOut(frame.about, c, frame.id)
    BY <2>1 DEF Outgoing, AskFrames
  <2> QED
    BY <2>1, <2>2, IdIsAnId DEF WentOut, LinesInv
<1>3. /\ \A d \in Conns : up'[d] = up[d] \/ (up[d] # << >> /\ up'[d] = Tail(up[d]))
      /\ up' \in [Conns -> Seq(AskFrames)]
  BY <1>1, <1>2 DEF LinesInv, LinesFields
<1>4. WentOut(frame.about, c, frame.id)' /\ rogue' \in 0..MaxRogue
  BY <1>1, <1>2 DEF WentOut, Dialed, LinesInv, LinesFields
<1>5. CASE /\ taken' = taken \cup {frame.about}
           /\ down' = [down EXCEPT ![c] =
                          Append(@, FrameOf("REPLY", frame.id, frame.about))]
  <2>1. FrameOf("REPLY", frame.id, frame.about) \in AnyFrames
    BY <1>2 DEF FrameOf, AnyFrames, Kinds
  <2>2. FrameOf("REPLY", frame.id, frame.about) \in Incoming(c)'
    BY <1>4, <1>5, <2>1 DEF Incoming, FrameOf
  <2>3. taken \subseteq taken' /\ taken' \subseteq Asks
    BY <1>2, <1>5 DEF LinesInv, LinesFields
  <2>4. LinesInv'
    BY <1>1, <1>3, <1>4, <1>5, <2>1, <2>2, <2>3, AnswerKeeps
  <2> QED
    BY <1>1, <1>2, <1>5, <2>4
<1>6. CASE /\ down' = [down EXCEPT ![c] =
                          Append(@, FrameOf("NOTHING", frame.id, Forged))]
           /\ taken' = taken
  <2>1. FrameOf("NOTHING", frame.id, Forged) \in AnyFrames
    BY <1>2 DEF FrameOf, AnyFrames, Kinds
  <2>2. FrameOf("NOTHING", frame.id, Forged) \in Incoming(c)'
    BY <2>1 DEF Incoming, FrameOf
  <2>3. taken \subseteq taken' /\ taken' \subseteq Asks
    BY <1>6 DEF LinesInv, LinesFields
  <2>4. LinesInv'
    BY <1>1, <1>3, <1>4, <1>6, <2>1, <2>2, <2>3, AnswerKeeps
  <2> QED
    BY <1>1, <1>6, <2>4
<1> QED
  BY <1>5, <1>6 DEF ListenerReads

LEMMA RogueKeeps ==
  ASSUME LinesInv, NEW c \in Conns, NEW kind \in Kinds, NEW id \in Ids,
         RogueFrame(c, kind, id)
  PROVE  LinesInv'
<1>1. /\ down' = [down EXCEPT ![c] = Append(@, FrameOf(kind, id, Forged))]
      /\ rogue' = rogue + 1 /\ rogue < MaxRogue
      /\ UNCHANGED << carrier, current, opened, pending, next, sock, events, held, up,
                      dials, taken >>
  BY DEF RogueFrame
<1>2. FrameOf(kind, id, Forged) \in AnyFrames
  BY DEF FrameOf, AnyFrames
<1>3. FrameOf(kind, id, Forged) \in Incoming(c)'
  BY <1>2 DEF Incoming, FrameOf
<1>4. rogue' \in 0..MaxRogue
  BY <1>1, LinesAssumption DEF LinesInv, LinesFields
<1>5. up' \in [Conns -> Seq(AskFrames)] /\ taken' \subseteq Asks
  BY <1>1 DEF LinesInv, LinesFields
<1> QED
  BY <1>1, <1>2, <1>3, <1>4, <1>5, AnswerKeeps

-----------------------------------------------------------------------------
(* The invariant holds.                                                    *)

LEMMA LinesInvNext ==
  ASSUME LinesInv, [LinesNext]_linesVars
  PROVE  LinesInv'
<1>1. CASE UNCHANGED linesVars
  <2>1. /\ IdsCounted' /\ GotItsOwn' /\ PendingExactly'
        /\ \A d : Outgoing(d)' = Outgoing(d) /\ Incoming(d) \subseteq Incoming(d)'
    BY <1>1, NothingEnds, PendingRests, EndsKeep DEF linesVars
  <2>2. FramesMeant'
    BY <1>1, <2>1 DEF linesVars, LinesInv, FramesMeant
  <2> QED
    BY <1>1, <2>1, <2>2
    DEF linesVars, LinesInv, LinesFields, HeldWhileOpening, OneStands, Standing
<1>2. ASSUME NEW a \in Asks, DialerAsks(a) PROVE LinesInv'
  BY <1>2, AsksKeeps
<1>3. ASSUME NEW a \in Asks, TimerFires(a) PROVE LinesInv'
  BY <1>3, TimerKeeps
<1>4. ASSUME NEW c \in Conns,
             \/ LineOpens(c) \/ LineRefuses(c)
             \/ DialerReads(c) \/ ListenerReads(c)
             \/ SocketDestroyed(c) \/ SocketCloses(c)
      PROVE  LinesInv'
  BY <1>4, OpensKeeps, RefusesKeeps, ReadsKeeps, ListenerKeeps, DestroyedKeeps,
     ClosesKeeps
<1>5. ASSUME NEW c \in Conns, NEW kind \in Kinds, NEW id \in Ids,
             RogueFrame(c, kind, id)
      PROVE  LinesInv'
  BY <1>5, RogueKeeps
<1> QED
  BY <1>1, <1>2, <1>3, <1>4, <1>5 DEF LinesNext

THEOREM LinesInductive == LinesSpec => []LinesInv
<1> QED
  BY LinesInvInit, LinesInvNext, PTL DEF LinesSpec

(* Every field keeps its kind: no id is given that a dialer of so many     *)
(* asks could not have counted to, and only a line that is not open yet,   *)
(* or never opens, holds frames back.                                      *)
THEOREM LinesTyped == LinesSpec => []LinesTypeOK
<1>1. LinesInv => LinesTypeOK
  <2> SUFFICES ASSUME LinesInv PROVE LinesTypeOK
    OBVIOUS
  <2>1. LinesFields /\ IdsCounted
    BY DEF LinesInv
  <2>2. pending \in [Conns -> SUBSET [id : Ids, ask : Asks]]
    <3>1. ASSUME NEW c \in Conns, NEW p \in pending[c]
          PROVE  p \in [id : Ids, ask : Asks]
      BY <2>1, EntryIsTheAsks, IdIsAnId
    <3> QED
      BY <2>1, <3>1 DEF LinesFields
  <2>3. next \in [Conns -> 1..(Cardinality(Asks) + 1)]
    <3>1. \A c \in Conns : next[c] \in 1..(Cardinality(Asks) + 1)
      BY <2>1, DialedAreFew DEF IdsCounted
    <3> QED
      BY <2>1, <3>1 DEF LinesFields
  <2>4. ASSUME NEW c \in Conns, NEW i \in DOMAIN up[c]
        PROVE  up[c][i] \in [kind : {"ASK"}, id : Ids, about : Asks]
    <3>1. up[c][i] \in Outgoing(c)
      BY <2>4, LinesOf
    <3>2. /\ up[c][i] \in AskFrames
          /\ WentOut(up[c][i].about, c, up[c][i].id)
      BY <3>1 DEF Outgoing
    <3>3. up[c][i].id \in Ids
      BY <2>1, <3>2, IdIsAnId DEF WentOut, AskFrames
    <3> QED
      BY <3>2, <3>3 DEF AskFrames
  <2>5. ASSUME NEW c \in Conns, NEW i \in DOMAIN down[c]
        PROVE  down[c][i] \in [kind : Kinds, id : Ids, about : Asks \cup {Forged}]
    <3>1. down[c][i] \in Incoming(c)
      BY <2>5, LinesOf
    <3> QED
      BY <3>1 DEF Incoming, AnyFrames
  <2>6. \A a \in Asks :
          /\ dials[a].state \in {"idle", "waiting", "done"}
          /\ dials[a].got \in Asks \cup {Forged, NoConn}
          /\ dials[a].state # "idle" => dials[a].on \in Conns /\ dials[a].id \in Ids
    BY <2>1, IdIsAnId DEF LinesFields, DialFields, Dialed
  <2> QED
    BY <2>1, <2>2, <2>3, <2>4, <2>5, <2>6
    DEF LinesInv, LinesFields, HeldWhileOpening, LinesTypeOK
<1> QED
  BY <1>1, LinesInductive, PTL

(* A dial that waits stands in the pending map of its connection alone,    *)
(* under an id no other of that map has, and a dial that ended in none: a  *)
(* reply, the timer and a close each take out what they settle, and no     *)
(* frame settles the dial of another.                                      *)
THEOREM WaitingStandsPending == LinesSpec => []WaitingIsPending
<1>1. LinesInv => WaitingIsPending
  <2> SUFFICES ASSUME LinesInv, NEW a \in Asks,
                      NEW places, places = {c \in Conns : \E p \in pending[c] : p.ask = a}
               PROVE  IF dials[a].state = "waiting"
                        THEN /\ places = {dials[a].on}
                             /\ WaitingOn(dials[a].on, dials[a].id) =
                                  {[id |-> dials[a].id, ask |-> a]}
                        ELSE places = {}
    BY DEF WaitingIsPending
  <2>1. \A c \in places : dials[a].state = "waiting" /\ c = dials[a].on
    BY EntryIsTheAsks
  <2>2. CASE dials[a].state = "waiting"
    <3> DEFINE c == dials[a].on
               own == [id |-> dials[a].id, ask |-> a]
    <3>1. c \in Conns /\ own \in Entries /\ WentOut(a, c, own.id)
      <4>1. Dialed(a) /\ dials[a] \in DialFields
        BY <2>2 DEF Dialed, LinesInv, LinesFields
      <4> QED
        BY <4>1, IdIsAnId DEF LinesInv, DialFields, Entries, WentOut
    <3>2. own \in pending[c]
      BY <2>2, <3>1 DEF LinesInv, PendingExactly
    <3>3. own.id = dials[a].id /\ own.ask = a
      OBVIOUS
    <3> HIDE DEF c, own
    <3>4. WaitingOn(c, own.id) = {own}
      BY <3>1, <3>2, EntryIsTheAsks DEF WaitingOn
    <3>5. places = {c}
      BY <2>1, <3>1, <3>2, <3>3 DEF c
    <3> QED
      BY <2>2, <3>3, <3>4, <3>5 DEF c, own
  <2>3. CASE dials[a].state # "waiting"
    BY <2>1, <2>3
  <2> QED
    BY <2>2, <2>3
<1> QED
  BY <1>1, LinesInductive, PTL

(* The late second event of a socket that was replaced takes nothing from  *)
(* its successor: at most one connection stands, and it is the one asks    *)
(* are written to.                                                         *)
THEOREM OneStandsAtMost == LinesSpec => []OneConnection
<1>1. LinesInv => OneConnection
  BY DEF LinesInv, OneStands, Standing, OneConnection
<1> QED
  BY <1>1, LinesInductive, PTL

-----------------------------------------------------------------------------
(* The connections are a carrier.                                          *)

LEMMA OutcomeIs ==
  ASSUME NEW a \in Asks
  PROVE  /\ dials[a].state = "idle" => OutcomeOf(a) = "idle"
         /\ dials[a].state = "waiting" => OutcomeOf(a) = "asked"
         /\ dials'[a].state = "idle" => OutcomeOf(a)' = "idle"
         /\ dials'[a].state = "waiting" => OutcomeOf(a)' = "asked"
         /\ dials'[a].state = "done" =>
              /\ dials'[a].got = NoConn => OutcomeOf(a)' = "nothing"
              /\ dials'[a].got = Forged => OutcomeOf(a)' = "forged"
              /\ dials'[a].got = a => OutcomeOf(a)' = "reply"
BY ConnFacts DEF OutcomeOf

LEMMA EndsOutcome ==
  ASSUME LinesInv, DialsOnlyEnd, NEW a \in Asks
  PROVE  /\ ~Ends(a) => OutcomeOf(a)' = OutcomeOf(a)
         /\ Ends(a) => /\ OutcomeOf(a) = "asked"
                       /\ dials'[a].got = NoConn => OutcomeOf(a)' = "nothing"
                       /\ dials'[a].got = Forged => OutcomeOf(a)' = "forged"
                       /\ dials'[a].got = a => OutcomeOf(a)' = "reply" /\ a \in taken
                       /\ dials'[a].got \in {NoConn, Forged, a}
<1>1. ASSUME ~Ends(a) PROVE OutcomeOf(a)' = OutcomeOf(a)
  <2>1. dials'[a] = dials[a]
    BY <1>1 DEF DialsOnlyEnd
  <2> QED
    BY <2>1 DEF OutcomeOf
<1>2. ASSUME Ends(a)
      PROVE  /\ dials[a].state = "waiting" /\ dials'[a].state = "done"
             /\ dials'[a].got \in {NoConn, Forged, a}
             /\ dials'[a].got = a => a \in taken
  BY <1>2, EndsMeans DEF LinesInv
<1> QED
  BY <1>1, <1>2, OutcomeIs

(* Dials that all end with nothing are given up together.                  *)
LEMMA AllGiveUp ==
  ASSUME LinesInv, DialsOnlyEnd, UNCHANGED taken,
         \A a \in Asks : Ends(a) => dials'[a].got = NoConn
  PROVE  [Carrier!DialNext]_(Carrier!dialVars)
<1> SUFFICES ASSUME NEW some, some = {a \in Asks : Ends(a)}
             PROVE  [Carrier!DialNext]_(Carrier!dialVars)
  OBVIOUS
<1>1. \A a \in Asks : OutcomeOf(a)' = IF a \in some THEN "nothing" ELSE OutcomeOf(a)
  BY EndsOutcome
<1>2. \A a \in some : a \in Asks /\ OutcomeOf(a) = "asked"
  BY EndsOutcome
<1>3. CASE some = {}
  <2>1. \A a \in Asks : OutcomeOf(a)' = OutcomeOf(a)
    BY <1>1, <1>3
  <2> QED
    BY <2>1 DEF Carrier!dialVars
<1>4. CASE some # {}
  <2>1. Carrier!GiveUp(some)
    BY <1>1, <1>2, <1>4 DEF Carrier!GiveUp
  <2> QED
    BY <2>1 DEF Carrier!DialNext
<1> QED
  BY <1>3, <1>4

LEMMA BeginsDial ==
  ASSUME LinesInv, NEW a \in Asks, DialerAsks(a)
  PROVE  Carrier!Begin(a)
<1>1. /\ dials[a].state = "idle" /\ dials'[a].state = "waiting" /\ taken' = taken
      /\ \A b \in Asks \ {a} : dials'[b] = dials[b]
  BY DEF DialerAsks, NoDial, LinesInv, LinesFields
<1>2. OutcomeOf(a) = "idle" /\ OutcomeOf(a)' = "asked"
  BY <1>1, OutcomeIs
<1>3. \A b \in Asks \ {a} : OutcomeOf(b)' = OutcomeOf(b)
  BY <1>1 DEF OutcomeOf
<1> QED
  BY <1>1, <1>2, <1>3 DEF Carrier!Begin

LEMMA TakesAsk ==
  ASSUME LinesInv, NEW c \in Conns, ListenerReads(c)
  PROVE  [Carrier!DialNext]_(Carrier!dialVars)
<1>1. \A b \in Asks : OutcomeOf(b)' = OutcomeOf(b)
  BY ListenerKeeps DEF OutcomeOf
<1>2. CASE taken' = taken
  BY <1>1, <1>2 DEF Carrier!dialVars
<1>3. ASSUME NEW a \in Asks, Dialed(a), taken' = taken \cup {a}, a \notin taken
      PROVE  [Carrier!DialNext]_(Carrier!dialVars)
  <2>1. OutcomeOf(a) # "idle"
    <3>1. CASE dials[a].state = "waiting"
      BY <3>1, OutcomeIs
    <3>2. CASE dials[a].state = "done"
      BY <3>2 DEF OutcomeOf
    <3> QED
      BY <1>3, <3>1, <3>2 DEF Dialed, LinesInv, LinesFields, DialFields
  <2>2. Carrier!Take(a)
    BY <1>1, <1>3, <2>1 DEF Carrier!Take
  <2> QED
    BY <2>2 DEF Carrier!DialNext
<1> QED
  BY <1>2, <1>3, ListenerKeeps

LEMMA ReadsEndOne ==
  ASSUME LinesInv, NEW c \in Conns, DialerReads(c)
  PROVE  [Carrier!DialNext]_(Carrier!dialVars)
<1>1. DialsOnlyEnd /\ taken' = taken
  BY ReadsKeeps DEF DialerReads
<1>2. ASSUME NEW a \in Asks, Ends(a), dials'[a].got # NoConn
      PROVE  Carrier!Return(a) \/ Carrier!Forge(a)
  <2>1. \A b \in Asks \ {a} : OutcomeOf(b)' = OutcomeOf(b)
    BY <1>1, <1>2, ReadsKeeps, EndsOutcome
  <2>2. OutcomeOf(a) = "asked" /\ dials'[a].got \in {Forged, a}
    BY <1>1, <1>2, EndsOutcome
  <2>3. CASE dials'[a].got = Forged
    <3>1. OutcomeOf(a)' = "forged"
      BY <1>1, <1>2, <2>3, EndsOutcome
    <3> QED
      BY <1>1, <2>1, <2>2, <3>1 DEF Carrier!Forge
  <2>4. CASE dials'[a].got = a
    <3>1. OutcomeOf(a)' = "reply" /\ a \in taken
      BY <1>1, <1>2, <2>4, EndsOutcome
    <3> QED
      BY <1>1, <2>1, <2>2, <3>1 DEF Carrier!Return
  <2> QED
    BY <2>2, <2>3, <2>4
<1> QED
  BY <1>1, <1>2, AllGiveUp DEF Carrier!DialNext

LEMMA CarrierSteps ==
  ASSUME LinesInv, [LinesNext]_linesVars
  PROVE  [Carrier!DialNext]_(Carrier!dialVars)
<1>1. ASSUME UNCHANGED << dials, next, opened, taken >>
      PROVE  [Carrier!DialNext]_(Carrier!dialVars)
  BY <1>1 DEF Carrier!dialVars, OutcomeOf
<1>2. CASE UNCHANGED linesVars
  BY <1>1, <1>2 DEF linesVars
<1>3. ASSUME NEW a \in Asks, DialerAsks(a) PROVE Carrier!DialNext
  BY <1>3, BeginsDial DEF Carrier!DialNext
<1>4. ASSUME NEW a \in Asks, TimerFires(a)
      PROVE  [Carrier!DialNext]_(Carrier!dialVars)
  <2>1. DialsOnlyEnd /\ taken' = taken /\ \A b \in Asks : Ends(b) => b = a
    BY <1>4, TimerKeeps DEF TimerFires
  <2>2. dials'[a].got = NoConn
    BY <1>4, ResolveFields DEF TimerFires, LinesInv, LinesFields
  <2> QED
    BY <2>1, <2>2, AllGiveUp
<1>5. ASSUME NEW c \in Conns, LineRefuses(c)
      PROVE  [Carrier!DialNext]_(Carrier!dialVars)
  <2>1. DialsOnlyEnd /\ taken' = taken
    BY <1>5, RefusesKeeps DEF LineRefuses
  <2>2. \A b \in Asks : dials'[b] = Resolve(b, NoConn) \/ dials'[b] = dials[b]
    BY <1>5 DEF LineRefuses
  <2> QED
    BY <2>1, <2>2, AllGiveUp, ResolveFields, EndsMeans DEF LinesInv
<1>6. ASSUME NEW c \in Conns, SocketCloses(c)
      PROVE  [Carrier!DialNext]_(Carrier!dialVars)
  <2>1. DialsOnlyEnd /\ taken' = taken
    BY <1>6, ClosesKeeps DEF SocketCloses
  <2>2. \A b \in Asks : dials'[b] = Resolve(b, NoConn) \/ dials'[b] = dials[b]
    BY <1>6 DEF SocketCloses
  <2> QED
    BY <2>1, <2>2, AllGiveUp, ResolveFields, EndsMeans DEF LinesInv
<1>7. ASSUME NEW c \in Conns, LineOpens(c) \/ SocketDestroyed(c)
      PROVE  [Carrier!DialNext]_(Carrier!dialVars)
  BY <1>1, <1>7 DEF LineOpens, SocketDestroyed
<1>8. ASSUME NEW c \in Conns, NEW kind \in Kinds, NEW id \in Ids,
             RogueFrame(c, kind, id)
      PROVE  [Carrier!DialNext]_(Carrier!dialVars)
  BY <1>1, <1>8 DEF RogueFrame
<1> QED
  BY <1>2, <1>3, <1>4, <1>5, <1>6, <1>7, <1>8, ReadsEndOne, TakesAsk DEF LinesNext

(* Whatever comes back late, twice or forged, and however connections open *)
(* and close under the asks, each dial ends once, with the reply to its    *)
(* own ask, taken before, with what a foreign listener made up, or with    *)
(* nothing.                                                                *)
THEOREM LinesAreACarrier == LinesSpec => IsACarrier
<1>1. LinesInit => Carrier!DialInit
  <2> SUFFICES ASSUME LinesInit PROVE Carrier!DialInit
    OBVIOUS
  <2>1. \A a \in Asks : OutcomeOf(a) = "idle"
    BY OutcomeIs DEF LinesInit, NoDial
  <2> QED
    BY <2>1 DEF LinesInit, Carrier!DialInit
<1>2. LinesInv /\ [LinesNext]_linesVars => [Carrier!DialNext]_(Carrier!dialVars)
  BY CarrierSteps
<1> QED
  BY <1>1, <1>2, LinesInductive, PTL DEF LinesSpec, IsACarrier, Carrier!DialSpec
=============================================================================
