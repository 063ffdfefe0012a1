----------------------------- MODULE GoCarrierProofs -----------------------------
(***************************************************************************)
(* The Go kit's lines, proved for any number of asks and lines and for     *)
(* whatever frames a listener sends: each channel is in one hand and no    *)
(* goroutine panics on it, no ask is forgotten, one line stands at most,   *)
(* and the lines are a carrier as Dial describes one.                      *)
(***************************************************************************)
EXTENDS GoCarrier, FiniteSetTheorems, TLAPS

-----------------------------------------------------------------------------
(* The inductive invariant.                                                *)

Entries == [id : Nat, ask : Asks]
AskFrames == [kind : {"ASK"}, id : Nat, about : Asks]
AnyFrames == [kind : Kinds, id : Nat, about : Asks \cup {Forged}]

CarryFields ==
  [at : {"called", "reach", "register", "send", "wait", "forget", "shut", "done"},
   on : Lines \cup {NoLine}, id : Nat, got : Asks \cup {NoAsk, Forged}]

ReaderFields ==
  [at : {"none", "read", "hold", "shut", "done"}, to : Asks \cup {NoAsk},
   frame : AnyFrames \cup {NoFrame}]

GoCarrierFields ==
  /\ stands \in Lines \cup {NoLine}
  /\ dmu \in Asks \cup {NoAsk}
  /\ opened \in 0..MaxLines
  /\ conn \in [Lines -> {"none", "open", "broken", "closed"}]
  /\ closed \in [Lines -> BOOLEAN]
  /\ nextID \in [Lines -> Nat]
  /\ waiting \in [Lines -> SUBSET Entries]
  /\ reader \in [Lines -> ReaderFields]
  /\ chan \in [Asks -> AnyFrames \cup {NoFrame, Shut}]
  /\ carry \in [Asks -> CarryFields]
  /\ up \in [Lines -> Seq(AskFrames)]
  /\ down \in [Lines -> Seq(AnyFrames)]
  /\ serving \in [Lines -> SUBSET AskFrames]
  /\ taken \subseteq Asks

(* Whoever dials holds the lock, and dials because no line stands; of the  *)
(* lines dialed all but the last were shut, and a line is shut after its   *)
(* socket.                                                                 *)
LockHeld ==
  /\ \A a \in Asks : At(a, "reach") <=> dmu = a
  /\ dmu # NoAsk => ~Stands
LastStands ==
  /\ IF opened = 0 THEN stands = NoLine ELSE stands = opened
  /\ \A c \in Lines : /\ conn[c] = "none" <=> c > opened
                      /\ conn[c] # "none" /\ ~closed[c] => stands = c
                      /\ closed[c] => conn[c] = "closed"
                      /\ reader[c].at = "shut" => conn[c] = "closed"
  /\ \A a \in Asks : At(a, "shut") => conn[carry[a].on] = "closed"

(* An ask that was registered keeps its line and its id, which is no other *)
(* ask's.                                                                  *)
Registered(a) == carry[a].id > 0
WentOut(a, c, id) == Registered(a) /\ carry[a].on = c /\ carry[a].id = id

IdsCounted ==
  /\ \A a \in Asks :
       /\ ~At(a, "done") => (Registered(a) <=> ~At(a, "called") /\ ~At(a, "reach")
                                               /\ ~At(a, "register"))
       /\ At(a, "register") => carry[a].on \in 1..opened
       /\ Registered(a) => /\ carry[a].on \in 1..opened
                           /\ carry[a].id <= nextID[carry[a].on]
       /\ ~Registered(a) => chan[a] = NoFrame
  /\ \A a, b \in Asks :
       Registered(a) /\ Registered(b) /\ carry[a].on = carry[b].on
                     /\ carry[a].id = carry[b].id => a = b

(* The map of a line holds asks that went out on it, each once under its   *)
(* own id, with an empty channel, and of a line that was shut nobody; a    *)
(* reader holds the channel of one that is in no map.                      *)
Holds(c, a) == reader[c].at = "hold" /\ reader[c].to = a
EntryOf(a) == [id |-> carry[a].id, ask |-> a]

InMaps ==
  \A c \in Lines : \A w \in waiting[c] :
    /\ WentOut(w.ask, c, w.id) /\ ~At(w.ask, "done")
    /\ chan[w.ask] = NoFrame
    /\ ~closed[c]

(* A frame may end the ask that went out under its id: a reply that was    *)
(* not made up is to that ask, which was taken.                            *)
Outgoing(c) == {f \in AskFrames : WentOut(f.about, c, f.id)}
Incoming(c) ==
  {f \in AnyFrames : f.kind = "REPLY" /\ f.about # Forged =>
                       f.about \in taken /\ WentOut(f.about, c, f.id)}

InHands ==
  \A c \in Lines : reader[c].at = "hold" =>
    /\ reader[c].to \in Asks
    /\ WentOut(reader[c].to, c, reader[c].frame.id)
    /\ reader[c].frame \in Incoming(c)
    /\ chan[reader[c].to] = NoFrame
    /\ \A w \in waiting[c] : w.ask # reader[c].to

Remembered ==
  \A a \in Asks : (At(a, "send") \/ At(a, "wait")) /\ chan[a] = NoFrame =>
    EntryOf(a) \in waiting[carry[a].on] \/ Holds(carry[a].on, a)

FramesMeant ==
  \A c \in Lines : /\ \A i \in 1..Len(up[c]) : up[c][i] \in Outgoing(c)
                   /\ serving[c] \subseteq Outgoing(c)
                   /\ \A i \in 1..Len(down[c]) : down[c][i] \in Incoming(c)

(* What an ask finds in its channel, and ends with, is its own.            *)
GotItsOwn ==
  \A a \in Asks :
    /\ chan[a] \in AnyFrames => GotOf(chan[a]) \in {NoAsk, Forged, a}
                                /\ (GotOf(chan[a]) = a => a \in taken)
    /\ carry[a].got \in {NoAsk, Forged, a}
    /\ carry[a].got = a => a \in taken

GoCarrierInv ==
  /\ GoCarrierFields
  /\ LockHeld /\ LastStands
  /\ IdsCounted
  /\ InMaps /\ InHands /\ Remembered
  /\ FramesMeant
  /\ GotItsOwn

-----------------------------------------------------------------------------
(* Constants, carries and frames.                                          *)

LEMMA LineFacts ==
  /\ Lines = 1..MaxLines /\ Lines \subseteq Nat /\ MaxLines \in Nat
  /\ NoLine \notin Lines /\ NoLine \notin Nat
  /\ NoAsk # Forged /\ NoAsk \notin Asks /\ Forged \notin Asks
  /\ NoFrame # Shut /\ NoFrame \notin AnyFrames /\ Shut \notin AnyFrames
  /\ Ids \subseteq Nat
<1>1. Cardinality(Asks) \in Nat
  BY GoCarrierAssumption, FS_CardinalityType
<1> QED
  BY <1>1, GoCarrierAssumption DEF Lines, AnyFrames, Ids

(* One goroutine of carry goes on, and the others stay where they are.     *)
LEMMA GoesOn ==
  ASSUME carry \in [Asks -> CarryFields], NEW a \in Asks, NEW stage,
         stage \in {"called", "reach", "register", "send", "wait", "forget",
                    "shut", "done"},
         Goes(a, stage)
  PROVE  /\ carry' \in [Asks -> CarryFields]
         /\ carry'[a].at = stage /\ carry'[a].on = carry[a].on
         /\ carry'[a].id = carry[a].id /\ carry'[a].got = carry[a].got
         /\ \A b \in Asks \ {a} : carry'[b] = carry[b]
<1>1. carry' = [carry EXCEPT ![a] = [carry[a] EXCEPT !.at = stage]]
  BY DEF Goes
<1>2. carry[a] \in CarryFields
  OBVIOUS
<1> QED
  BY <1>1, <1>2 DEF CarryFields

LEMMA EndsHere ==
  ASSUME carry \in [Asks -> CarryFields], NEW a \in Asks,
         NEW got \in Asks \cup {NoAsk, Forged}, Ends(a, got)
  PROVE  /\ carry' \in [Asks -> CarryFields]
         /\ carry'[a].at = "done" /\ carry'[a].on = carry[a].on
         /\ carry'[a].id = carry[a].id /\ carry'[a].got = got
         /\ \A b \in Asks \ {a} : carry'[b] = carry[b]
<1>1. carry' = [carry EXCEPT ![a] = [carry[a] EXCEPT !.at = "done", !.got = got]]
  BY DEF Ends
<1>2. carry[a] \in CarryFields
  OBVIOUS
<1> QED
  BY <1>1, <1>2 DEF CarryFields

(* What holds of every frame of a line holds after one is put on it or     *)
(* taken off it.                                                           *)
LEMMA AllOfLine ==
  ASSUME NEW S, NEW T, NEW s \in Seq(S), \A i \in 1..Len(s) : s[i] \in T
  PROVE  /\ \A e \in S : e \in T =>
              \A i \in 1..Len(Append(s, e)) : Append(s, e)[i] \in T
         /\ s # << >> => /\ Head(s) \in S /\ Head(s) \in T
                         /\ Tail(s) \in Seq(S)
                         /\ \A i \in 1..Len(Tail(s)) : Tail(s)[i] \in T
<1>1. ASSUME NEW e \in S, e \in T, NEW i \in 1..Len(Append(s, e))
      PROVE  Append(s, e)[i] \in T
  <2>1. Len(Append(s, e)) = Len(s) + 1 /\ Len(s) \in Nat
    OBVIOUS
  <2>2. CASE i = Len(s) + 1
    BY <1>1, <2>1, <2>2
  <2>3. CASE i # Len(s) + 1
    BY <1>1, <2>1, <2>3
  <2> QED
    BY <2>2, <2>3
<1>2. ASSUME s # << >>
      PROVE  /\ Head(s) \in S /\ Head(s) \in T
             /\ Tail(s) \in Seq(S)
             /\ \A i \in 1..Len(Tail(s)) : Tail(s)[i] \in T
  <2>1. Len(s) \in Nat /\ Len(s) > 0 /\ Head(s) = s[1]
    BY <1>2
  <2>2. /\ Len(Tail(s)) = Len(s) - 1
        /\ \A i \in 1..Len(Tail(s)) : Tail(s)[i] = s[i + 1] /\ i + 1 \in 1..Len(s)
    BY <1>2, <2>1
  <2> QED
    BY <1>2, <2>1, <2>2
<1> QED
  BY <1>1, <1>2

LEMMA GoCarrierInvInit == GoCarrierInit => GoCarrierInv
<1> SUFFICES ASSUME GoCarrierInit PROVE GoCarrierInv
  OBVIOUS
<1>1. \A a \in Asks : /\ carry[a] \in CarryFields /\ carry[a].at = "called"
                      /\ carry[a].id = 0 /\ carry[a].got = NoAsk
  BY DEF GoCarrierInit, Called, CarryFields
<1>2. \A c \in Lines : reader[c] \in ReaderFields /\ reader[c].at = "none"
  BY DEF GoCarrierInit, NotReading, ReaderFields
<1>3. GoCarrierFields
  <2>1. carry \in [Asks -> CarryFields] /\ reader \in [Lines -> ReaderFields]
    BY <1>1, <1>2 DEF GoCarrierInit
  <2>2. /\ stands \in Lines \cup {NoLine} /\ dmu \in Asks \cup {NoAsk}
        /\ opened \in 0..MaxLines
    BY LineFacts DEF GoCarrierInit
  <2>3. /\ conn \in [Lines -> {"none", "open", "broken", "closed"}]
        /\ closed \in [Lines -> BOOLEAN] /\ nextID \in [Lines -> Nat]
        /\ waiting \in [Lines -> SUBSET Entries]
        /\ chan \in [Asks -> AnyFrames \cup {NoFrame, Shut}]
    BY DEF GoCarrierInit
  <2>4. /\ up \in [Lines -> Seq(AskFrames)] /\ down \in [Lines -> Seq(AnyFrames)]
        /\ serving \in [Lines -> SUBSET AskFrames] /\ taken \subseteq Asks
    BY DEF GoCarrierInit
  <2> QED
    BY <2>1, <2>2, <2>3, <2>4 DEF GoCarrierFields
<1>4. LockHeld /\ LastStands
  <2>1. LockHeld
    BY <1>1, LineFacts DEF GoCarrierInit, LockHeld, At, Stands
  <2>2. \A c \in Lines : c > 0 /\ conn[c] = "none" /\ closed[c] = FALSE
    BY LineFacts DEF GoCarrierInit
  <2>3. stands = NoLine /\ opened = 0
    BY DEF GoCarrierInit
  <2>4. \A a \in Asks : ~At(a, "shut")
    BY <1>1 DEF At
  <2> QED
    BY <1>2, <2>1, <2>2, <2>3, <2>4 DEF LastStands
<1>5. IdsCounted
  BY <1>1 DEF GoCarrierInit, IdsCounted, Registered, At
<1>6. InMaps /\ InHands /\ Remembered
  BY <1>1, <1>2 DEF GoCarrierInit, InMaps, InHands, Remembered, At
<1>7. FramesMeant
  BY DEF GoCarrierInit, FramesMeant
<1>8. GotItsOwn
  BY <1>1, LineFacts DEF GoCarrierInit, GotItsOwn
<1> QED
  BY <1>3, <1>4, <1>5, <1>6, <1>7, <1>8 DEF GoCarrierInv

-----------------------------------------------------------------------------
(* What each step changes.                                                 *)

LEMMA TakesLineIs ==
  ASSUME GoCarrierInv, NEW a \in Asks, TakesLine(a)
  PROVE  /\ GoCarrierFields'
         /\ At(a, "called") /\ dmu = NoAsk
         /\ \/ /\ Stands /\ dmu' = dmu /\ carry'[a].at = "register"
               /\ carry'[a].on = stands
            \/ ~Stands /\ dmu' = a /\ carry'[a].at = "reach"
         /\ carry'[a].id = carry[a].id /\ carry'[a].got = carry[a].got
         /\ \A b \in Asks \ {a} : carry'[b] = carry[b]
         /\ UNCHANGED << stands, opened, lineVars, chan, farVars >>
<1>1. /\ GoCarrierFields /\ At(a, "called") /\ dmu = NoAsk
      /\ UNCHANGED << stands, opened, lineVars, chan, farVars >>
  BY DEF TakesLine, GoCarrierInv
<1>2. CASE Stands
  <2>1. /\ carry' = [carry EXCEPT ![a] = [carry[a] EXCEPT !.at = "register",
                                                         !.on = stands]]
        /\ dmu' = dmu
    BY <1>2 DEF TakesLine
  <2>2. carry[a] \in CarryFields /\ stands \in Lines
    BY <1>1, <1>2 DEF GoCarrierFields, Stands
  <2>3. /\ carry' \in [Asks -> CarryFields]
        /\ carry'[a].at = "register" /\ carry'[a].on = stands
        /\ carry'[a].id = carry[a].id /\ carry'[a].got = carry[a].got
        /\ \A b \in Asks \ {a} : carry'[b] = carry[b]
    BY <1>1, <2>1, <2>2 DEF GoCarrierFields, CarryFields
  <2> QED
    BY <1>1, <1>2, <2>1, <2>3 DEF GoCarrierFields, lineVars, farVars
<1>3. CASE ~Stands
  <2>1. dmu' = a /\ Goes(a, "reach")
    BY <1>3 DEF TakesLine
  <2>2. /\ carry' \in [Asks -> CarryFields]
        /\ carry'[a].at = "reach" /\ carry'[a].on = carry[a].on
        /\ carry'[a].id = carry[a].id /\ carry'[a].got = carry[a].got
        /\ \A b \in Asks \ {a} : carry'[b] = carry[b]
    BY <1>1, <2>1, GoesOn DEF GoCarrierFields
  <2> QED
    BY <1>1, <1>3, <2>1, <2>2 DEF GoCarrierFields, lineVars, farVars
<1> QED
  BY <1>2, <1>3

LEMMA ReachesIs ==
  ASSUME GoCarrierInv, NEW a \in Asks, Reaches(a), NEW c, c = opened + 1
  PROVE  /\ GoCarrierFields' /\ c \in Lines /\ At(a, "reach")
         /\ opened' = c /\ stands' = c /\ dmu' = NoAsk
         /\ conn' = [conn EXCEPT ![c] = "open"]
         /\ reader' = [reader EXCEPT ![c] = Reading]
         /\ carry'[a].at = "register" /\ carry'[a].on = c
         /\ carry'[a].id = carry[a].id /\ carry'[a].got = carry[a].got
         /\ \A b \in Asks \ {a} : carry'[b] = carry[b]
         /\ UNCHANGED << closed, nextID, waiting, chan, farVars >>
<1>1. /\ GoCarrierFields /\ At(a, "reach") /\ opened < MaxLines
      /\ opened' = c /\ stands' = c /\ dmu' = NoAsk
      /\ conn' = [conn EXCEPT ![c] = "open"]
      /\ reader' = [reader EXCEPT ![c] = Reading]
      /\ carry' = [carry EXCEPT ![a] = [carry[a] EXCEPT !.at = "register",
                                                       !.on = c]]
      /\ UNCHANGED << closed, nextID, waiting, chan, farVars >>
  BY DEF Reaches, GoCarrierInv
<1>2. c \in Lines /\ c \in 0..MaxLines
  BY <1>1, LineFacts DEF GoCarrierFields
<1>3. carry[a] \in CarryFields
  BY <1>1 DEF GoCarrierFields
<1>4. /\ carry' \in [Asks -> CarryFields]
      /\ carry'[a].at = "register" /\ carry'[a].on = c
      /\ carry'[a].id = carry[a].id /\ carry'[a].got = carry[a].got
      /\ \A b \in Asks \ {a} : carry'[b] = carry[b]
  BY <1>1, <1>2, <1>3 DEF GoCarrierFields, CarryFields
<1>5. Reading \in ReaderFields
  BY DEF Reading, ReaderFields
<1>6. /\ conn' \in [Lines -> {"none", "open", "broken", "closed"}]
      /\ reader' \in [Lines -> ReaderFields]
  BY <1>1, <1>2, <1>5 DEF GoCarrierFields
<1> QED
  BY <1>1, <1>2, <1>4, <1>6 DEF GoCarrierFields, farVars

LEMMA RegistersIs ==
  ASSUME GoCarrierInv, NEW a \in Asks, Registers(a), NEW c, c = carry[a].on
  PROVE  /\ GoCarrierFields' /\ c \in Lines /\ At(a, "register")
         /\ IF closed[c]
              THEN /\ carry'[a].at = "done" /\ carry'[a].got = NoAsk
                   /\ carry'[a].id = carry[a].id
                   /\ UNCHANGED << nextID, waiting >>
              ELSE /\ carry'[a].at = "send" /\ carry'[a].got = carry[a].got
                   /\ carry'[a].id = nextID[c] + 1
                   /\ nextID' = [nextID EXCEPT ![c] = nextID[c] + 1]
                   /\ waiting' = [waiting EXCEPT ![c] =
                        {w \in waiting[c] : w.id # nextID[c] + 1}
                          \cup {[id |-> nextID[c] + 1, ask |-> a]}]
         /\ carry'[a].on = c
         /\ \A b \in Asks \ {a} : carry'[b] = carry[b]
         /\ UNCHANGED << dialVars, conn, closed, reader, chan, farVars >>
<1>1. /\ GoCarrierFields /\ At(a, "register") /\ carry[a] \in CarryFields
      /\ UNCHANGED << dialVars, conn, closed, reader, chan, farVars >>
      /\ IF closed[c]
           THEN Ends(a, NoAsk) /\ UNCHANGED << nextID, waiting >>
           ELSE /\ nextID' = [nextID EXCEPT ![c] = nextID[c] + 1]
                /\ waiting' = [waiting EXCEPT ![c] =
                     {w \in waiting[c] : w.id # nextID[c] + 1}
                       \cup {[id |-> nextID[c] + 1, ask |-> a]}]
                /\ carry' = [carry EXCEPT ![a] = [carry[a] EXCEPT !.at = "send",
                                                     !.id = nextID[c] + 1]]
  BY DEF Registers, IsShut, NextID, GoCarrierInv, GoCarrierFields
<1>2. c \in Lines /\ nextID[c] + 1 \in Nat
  <2>1. c \in 1..opened /\ opened \in 0..MaxLines
    BY <1>1 DEF GoCarrierInv, GoCarrierFields, IdsCounted
  <2>2. c \in Lines
    BY <2>1, LineFacts
  <2> QED
    BY <1>1, <2>2 DEF GoCarrierFields
<1>3. CASE closed[c]
  <2>1. /\ carry' \in [Asks -> CarryFields]
        /\ carry'[a].at = "done" /\ carry'[a].on = carry[a].on
        /\ carry'[a].id = carry[a].id /\ carry'[a].got = NoAsk
        /\ \A b \in Asks \ {a} : carry'[b] = carry[b]
    BY <1>1, <1>3, EndsHere DEF GoCarrierFields
  <2> QED
    BY <1>1, <1>2, <1>3, <2>1 DEF GoCarrierFields, dialVars, farVars
<1>4. CASE ~closed[c]
  <2> DEFINE id == nextID[c] + 1
  <2>1. /\ nextID' = [nextID EXCEPT ![c] = id]
        /\ waiting' = [waiting EXCEPT ![c] =
             {w \in waiting[c] : w.id # id} \cup {[id |-> id, ask |-> a]}]
        /\ carry' = [carry EXCEPT ![a] = [carry[a] EXCEPT !.at = "send", !.id = id]]
    BY <1>1, <1>4
  <2>2. id \in Nat
    BY <1>2
  <2> HIDE DEF id
  <2>3. /\ carry' \in [Asks -> CarryFields]
        /\ carry'[a].at = "send" /\ carry'[a].on = c
        /\ carry'[a].id = id /\ carry'[a].got = carry[a].got
        /\ \A b \in Asks \ {a} : carry'[b] = carry[b]
    BY <1>1, <2>1, <2>2 DEF GoCarrierFields, CarryFields
  <2>4. [id |-> id, ask |-> a] \in Entries
    BY <2>2 DEF Entries
  <2>5. waiting' \in [Lines -> SUBSET Entries] /\ nextID' \in [Lines -> Nat]
    BY <1>1, <1>2, <2>1, <2>2, <2>4 DEF GoCarrierFields
  <2> QED
    BY <1>1, <1>2, <1>4, <2>1, <2>3, <2>5
    DEF GoCarrierFields, dialVars, farVars, id
<1> QED
  BY <1>3, <1>4

(* The goroutine of one ask is at another stage, on the line and under the *)
(* id it had.                                                              *)
NowAt(a, stage, got) ==
  /\ carry'[a].at = stage /\ carry'[a].got = got
  /\ carry'[a].on = carry[a].on /\ carry'[a].id = carry[a].id
  /\ \A b \in Asks \ {a} : carry'[b] = carry[b]

(* A line that is shut: everyone in its map is told.                       *)
Told(c) ==
  /\ closed'[c] = TRUE /\ waiting'[c] = {}
  /\ \A d \in Lines \ {c} : closed'[d] = closed[d] /\ waiting'[d] = waiting[d]
  /\ \A a \in Asks : IF \E w \in waiting[c] : w.ask = a
                       THEN chan'[a] = Shut ELSE chan'[a] = chan[a]

LEMMA TellsFields ==
  ASSUME GoCarrierFields, NEW c \in Lines, TellsAll(c)
  PROVE  /\ closed' \in [Lines -> BOOLEAN]
         /\ waiting' \in [Lines -> SUBSET Entries]
         /\ chan' \in [Asks -> AnyFrames \cup {NoFrame, Shut}]
         /\ Told(c)
<1>1. /\ closed' = [closed EXCEPT ![c] = TRUE]
      /\ waiting' = [waiting EXCEPT ![c] = {}]
      /\ chan' = [a \in Asks |->
           IF \E w \in waiting[c] : w.ask = a THEN Shut ELSE chan[a]]
  BY DEF TellsAll
<1>2. closed' \in [Lines -> BOOLEAN] /\ waiting' \in [Lines -> SUBSET Entries]
  BY <1>1 DEF GoCarrierFields
<1>3. chan' \in [Asks -> AnyFrames \cup {NoFrame, Shut}]
  BY <1>1 DEF GoCarrierFields
<1>4. /\ closed'[c] = TRUE
      /\ \A d \in Lines \ {c} : closed'[d] = closed[d]
  BY <1>1 DEF GoCarrierFields
<1>5. /\ waiting'[c] = {}
      /\ \A d \in Lines \ {c} : waiting'[d] = waiting[d]
  BY <1>1 DEF GoCarrierFields
<1>6. \A a \in Asks : IF \E w \in waiting[c] : w.ask = a
                        THEN chan'[a] = Shut ELSE chan'[a] = chan[a]
  BY <1>1
<1> QED
  BY <1>2, <1>3, <1>4, <1>5, <1>6 DEF Told

LEMMA OnALine ==
  ASSUME GoCarrierInv, NEW a \in Asks,
         At(a, "send") \/ At(a, "wait") \/ At(a, "forget") \/ At(a, "shut")
  PROVE  /\ Registered(a) /\ carry[a].on \in Lines /\ carry[a].on \in 1..opened
         /\ carry[a].id \in Nat
<1>1. Registered(a)
  BY DEF GoCarrierInv, IdsCounted, At
<1>2. carry[a].on \in 1..opened /\ opened \in 0..MaxLines /\ carry[a] \in CarryFields
  BY <1>1 DEF GoCarrierInv, IdsCounted, GoCarrierFields
<1> QED
  BY <1>1, <1>2, LineFacts DEF CarryFields

(* The steps of carry that leave every line and channel as they were.      *)
LEMMA CarryGoesOn ==
  ASSUME GoCarrierInv, NEW a \in Asks,
         ReachFails(a) \/ TimesOut(a)
  PROVE  /\ GoCarrierFields' /\ dmu' \in {dmu, NoAsk}
         /\ ReachFails(a) => /\ At(a, "reach") /\ dmu' = NoAsk
                             /\ NowAt(a, "done", NoAsk)
         /\ TimesOut(a) => /\ At(a, "wait") /\ dmu' = dmu
                           /\ NowAt(a, "forget", carry[a].got)
         /\ UNCHANGED << stands, opened, lineVars, chan, farVars >>
<1>1. GoCarrierFields /\ NoAsk \in Asks \cup {NoAsk}
  BY DEF GoCarrierInv
<1>2. CASE ReachFails(a)
  <2>1. /\ Ends(a, NoAsk) /\ dmu' = NoAsk /\ At(a, "reach")
        /\ UNCHANGED << stands, opened, lineVars, chan, farVars >>
    BY <1>2 DEF ReachFails
  <2>2. carry' \in [Asks -> CarryFields] /\ NowAt(a, "done", NoAsk)
    BY <1>1, <2>1, EndsHere DEF GoCarrierFields, NowAt
  <2>3. ~TimesOut(a)
    BY <2>1 DEF TimesOut, At
  <2> QED
    BY <1>1, <2>1, <2>2, <2>3 DEF GoCarrierFields, lineVars, farVars
<1>3. CASE TimesOut(a)
  <2>1. /\ Goes(a, "forget") /\ At(a, "wait")
        /\ UNCHANGED << dialVars, lineVars, chan, farVars >>
    BY <1>3 DEF TimesOut
  <2>2. carry' \in [Asks -> CarryFields] /\ NowAt(a, "forget", carry[a].got)
    BY <1>1, <2>1, GoesOn DEF GoCarrierFields, NowAt
  <2>3. ~ReachFails(a)
    BY <2>1 DEF ReachFails, At
  <2> QED
    BY <1>1, <2>1, <2>2, <2>3 DEF GoCarrierFields, dialVars, lineVars, farVars
<1> QED
  BY <1>2, <1>3

LEMMA SendsIs ==
  ASSUME GoCarrierInv, NEW a \in Asks, Sends(a), NEW c, c = carry[a].on
  PROVE  /\ GoCarrierFields' /\ At(a, "send") /\ c \in Lines
         /\ NowAt(a, "wait", carry[a].got)
         /\ FrameOf("ASK", carry[a].id, a) \in AskFrames
         /\ \A d \in Lines \ {c} : up'[d] = up[d]
         /\ \/ up'[c] = up[c]
            \/ up'[c] = Append(up[c], FrameOf("ASK", carry[a].id, a))
         /\ UNCHANGED << dialVars, lineVars, chan, down, serving, taken, rogue >>
<1>1. /\ GoCarrierFields /\ At(a, "send") /\ Goes(a, "wait")
      /\ \/ up' = [up EXCEPT ![c] = Append(up[c], FrameOf("ASK", carry[a].id, a))]
         \/ up' = up
      /\ UNCHANGED << dialVars, lineVars, chan, down, serving, taken, rogue >>
  BY DEF Sends, GoCarrierInv
<1>2. c \in Lines /\ carry[a].id \in Nat
  BY <1>1, OnALine
<1>3. carry' \in [Asks -> CarryFields] /\ NowAt(a, "wait", carry[a].got)
  BY <1>1, GoesOn DEF GoCarrierFields, NowAt
<1> DEFINE frame == FrameOf("ASK", carry[a].id, a)
<1>4. frame \in AskFrames
  BY <1>2 DEF FrameOf, AskFrames
<1>5. up' = up \/ up' = [up EXCEPT ![c] = Append(up[c], frame)]
  BY <1>1
<1> HIDE DEF frame
<1>6. up \in [Lines -> Seq(AskFrames)] /\ Append(up[c], frame) \in Seq(AskFrames)
  BY <1>1, <1>2, <1>4 DEF GoCarrierFields
<1>7. /\ up' \in [Lines -> Seq(AskFrames)]
      /\ \A d \in Lines \ {c} : up'[d] = up[d]
      /\ up'[c] = up[c] \/ up'[c] = Append(up[c], frame)
  BY <1>2, <1>5, <1>6
<1> QED
  BY <1>1, <1>2, <1>3, <1>4, <1>7 DEF GoCarrierFields, dialVars, lineVars, frame

LEMMA SendFailsIs ==
  ASSUME GoCarrierInv, NEW a \in Asks, SendFails(a), NEW c, c = carry[a].on
  PROVE  /\ GoCarrierFields' /\ At(a, "send") /\ c \in Lines
         /\ NowAt(a, "shut", carry[a].got)
         /\ conn[c] # "none" /\ conn' = [conn EXCEPT ![c] = "closed"]
         /\ UNCHANGED << dialVars, closed, nextID, waiting, reader, chan, farVars >>
<1>1. /\ GoCarrierFields /\ At(a, "send") /\ Goes(a, "shut") /\ conn[c] # "none"
      /\ conn' = [conn EXCEPT ![c] = "closed"]
      /\ UNCHANGED << dialVars, closed, nextID, waiting, reader, chan, farVars >>
  BY DEF SendFails, GoCarrierInv
<1>2. c \in Lines
  BY <1>1, OnALine
<1>3. carry' \in [Asks -> CarryFields] /\ NowAt(a, "shut", carry[a].got)
  BY <1>1, GoesOn DEF GoCarrierFields, NowAt
<1>4. conn' \in [Lines -> {"none", "open", "broken", "closed"}]
  BY <1>1, <1>2 DEF GoCarrierFields
<1> QED
  BY <1>1, <1>2, <1>3, <1>4 DEF GoCarrierFields, dialVars, farVars

LEMMA CarryShutsIs ==
  ASSUME GoCarrierInv, NEW a \in Asks, CarryShuts(a), NEW c, c = carry[a].on
  PROVE  /\ GoCarrierFields' /\ At(a, "shut") /\ c \in Lines
         /\ NowAt(a, "done", NoAsk) /\ Told(c)
         /\ UNCHANGED << dialVars, conn, nextID, reader, farVars >>
<1>1. /\ GoCarrierFields /\ At(a, "shut") /\ Ends(a, NoAsk) /\ TellsAll(c)
      /\ UNCHANGED << dialVars, conn, nextID, reader, farVars >>
  BY DEF CarryShuts, GoCarrierInv
<1>2. c \in Lines
  BY <1>1, OnALine
<1>3. carry' \in [Asks -> CarryFields] /\ NowAt(a, "done", NoAsk)
  BY <1>1, EndsHere DEF GoCarrierFields, NowAt
<1> QED
  BY <1>1, <1>2, <1>3, TellsFields DEF GoCarrierFields, dialVars, farVars

LEMMA ReceivesIs ==
  ASSUME GoCarrierInv, NEW a \in Asks, Receives(a)
  PROVE  /\ GoCarrierFields' /\ At(a, "wait") /\ chan[a] # NoFrame
         /\ NowAt(a, "done", IF chan[a] = Shut THEN NoAsk ELSE GotOf(chan[a]))
         /\ chan[a] = Shut => chan' = chan
         /\ chan[a] # Shut => /\ chan[a] \in AnyFrames
                              /\ chan' = [chan EXCEPT ![a] = NoFrame]
         /\ UNCHANGED << dialVars, lineVars, farVars >>
<1> DEFINE got == IF chan[a] = Shut THEN NoAsk ELSE GotOf(chan[a])
<1>1. /\ GoCarrierFields /\ At(a, "wait") /\ chan[a] # NoFrame /\ Ends(a, got)
      /\ UNCHANGED << dialVars, lineVars, farVars >>
      /\ chan' = IF chan[a] = Shut THEN chan ELSE [chan EXCEPT ![a] = NoFrame]
  BY DEF Receives, GoCarrierInv
<1>2. chan[a] # Shut => chan[a] \in AnyFrames
  BY <1>1 DEF GoCarrierFields
<1>3. got \in Asks \cup {NoAsk, Forged}
  BY <1>2 DEF GotOf, AnyFrames
<1>4. carry' \in [Asks -> CarryFields] /\ NowAt(a, "done", got)
  BY <1>1, <1>3, EndsHere DEF GoCarrierFields, NowAt
<1>5. chan' \in [Asks -> AnyFrames \cup {NoFrame, Shut}]
  BY <1>1 DEF GoCarrierFields
<1> QED
  BY <1>1, <1>2, <1>4, <1>5 DEF GoCarrierFields, dialVars, lineVars, farVars

LEMMA ForgetsIs ==
  ASSUME GoCarrierInv, NEW a \in Asks, Forgets(a), NEW c, c = carry[a].on
  PROVE  /\ GoCarrierFields' /\ At(a, "forget") /\ c \in Lines
         /\ NowAt(a, "done", NoAsk)
         /\ waiting'[c] = {w \in waiting[c] : w.id # carry[a].id}
         /\ \A d \in Lines \ {c} : waiting'[d] = waiting[d]
         /\ UNCHANGED << dialVars, conn, closed, nextID, reader, chan, farVars >>
<1>1. /\ GoCarrierFields /\ At(a, "forget") /\ Ends(a, NoAsk)
      /\ waiting' = [waiting EXCEPT ![c] = {w \in waiting[c] : w.id # carry[a].id}]
      /\ UNCHANGED << dialVars, conn, closed, nextID, reader, chan, farVars >>
  BY DEF Forgets, GoCarrierInv
<1>2. c \in Lines
  BY <1>1, OnALine
<1>3. carry' \in [Asks -> CarryFields] /\ NowAt(a, "done", NoAsk)
  BY <1>1, EndsHere DEF GoCarrierFields, NowAt
<1>4. /\ waiting' \in [Lines -> SUBSET Entries]
      /\ waiting'[c] = {w \in waiting[c] : w.id # carry[a].id}
      /\ \A d \in Lines \ {c} : waiting'[d] = waiting[d]
  BY <1>1, <1>2 DEF GoCarrierFields
<1> QED
  BY <1>1, <1>2, <1>3, <1>4 DEF GoCarrierFields, dialVars, farVars

(* The steps of a line's reader and of the far end.                        *)
LEMMA ReadsFrameIs ==
  ASSUME GoCarrierInv, NEW c \in Lines, ReadsFrame(c),
         NEW frame, frame = Head(down[c])
  PROVE  /\ GoCarrierFields' /\ reader[c].at = "read" /\ down[c] # << >>
         /\ frame \in AnyFrames
         /\ \A d \in Lines \ {c} : /\ down'[d] = down[d] /\ reader'[d] = reader[d]
                                   /\ waiting'[d] = waiting[d]
         /\ down'[c] = Tail(down[c])
         /\ \/ reader'[c] = Reading /\ waiting'[c] = waiting[c]
            \/ \E w \in waiting[c] :
                 /\ w.id = frame.id
                 /\ reader'[c] = [at |-> "hold", to |-> w.ask, frame |-> frame]
                 /\ \A v \in waiting[c] : v \in waiting'[c] <=> v.id # frame.id
         /\ waiting'[c] \subseteq waiting[c]
         /\ UNCHANGED << dialVars, conn, closed, nextID, chan, carry,
                         up, serving, taken, rogue >>
<1> SUFFICES ASSUME NEW found,
                    found = IF frame.kind = "ASK" THEN {}
                            ELSE {w \in waiting[c] : w.id = frame.id},
                    NEW w, w = CHOOSE v \in found : TRUE,
                    NEW r, r = IF found = {} THEN Reading
                               ELSE [at |-> "hold", to |-> w.ask, frame |-> frame]
             PROVE  /\ GoCarrierFields' /\ reader[c].at = "read" /\ down[c] # << >>
                    /\ frame \in AnyFrames
                    /\ \A d \in Lines \ {c} :
                         /\ down'[d] = down[d] /\ reader'[d] = reader[d]
                         /\ waiting'[d] = waiting[d]
                    /\ down'[c] = Tail(down[c])
                    /\ \/ reader'[c] = Reading /\ waiting'[c] = waiting[c]
                       \/ \E v \in waiting[c] :
                            /\ v.id = frame.id
                            /\ reader'[c] = [at |-> "hold", to |-> v.ask,
                                             frame |-> frame]
                            /\ \A x \in waiting[c] :
                                 x \in waiting'[c] <=> x.id # frame.id
                    /\ waiting'[c] \subseteq waiting[c]
                    /\ UNCHANGED << dialVars, conn, closed, nextID, chan, carry,
                                    up, serving, taken, rogue >>
  OBVIOUS
<1>1. /\ GoCarrierFields /\ reader[c].at = "read" /\ down[c] # << >>
      /\ down' = [down EXCEPT ![c] = Tail(down[c])]
      /\ waiting' = [waiting EXCEPT ![c] = waiting[c] \ found]
      /\ reader' = [reader EXCEPT ![c] = r]
      /\ UNCHANGED << dialVars, conn, closed, nextID, chan, carry,
                      up, serving, taken, rogue >>
  BY DEF ReadsFrame, WaitingAfter, GoCarrierInv
<1>2. down[c] \in Seq(AnyFrames)
  BY <1>1 DEF GoCarrierFields
<1>3. frame \in AnyFrames /\ Tail(down[c]) \in Seq(AnyFrames)
  BY <1>1, <1>2
<1>4. found \subseteq waiting[c] /\ (found # {} => w \in found)
  OBVIOUS
<1>5. waiting[c] \subseteq Entries
  BY <1>1 DEF GoCarrierFields
<1>6. r \in ReaderFields
  <2>1. CASE found = {}
    BY <2>1 DEF Reading, ReaderFields
  <2>2. CASE found # {}
    BY <1>3, <1>4, <1>5, <2>2 DEF Entries, ReaderFields
  <2> QED
    BY <2>1, <2>2
<1>7. /\ down' \in [Lines -> Seq(AnyFrames)] /\ down'[c] = Tail(down[c])
      /\ \A d \in Lines \ {c} : down'[d] = down[d]
  BY <1>1, <1>3 DEF GoCarrierFields
<1>8. /\ waiting' \in [Lines -> SUBSET Entries]
      /\ waiting'[c] = waiting[c] \ found
      /\ \A d \in Lines \ {c} : waiting'[d] = waiting[d]
  BY <1>1 DEF GoCarrierFields
<1>9. /\ reader' \in [Lines -> ReaderFields] /\ reader'[c] = r
      /\ \A d \in Lines \ {c} : reader'[d] = reader[d]
  BY <1>1, <1>6 DEF GoCarrierFields
<1>10. GoCarrierFields'
  BY <1>1, <1>7, <1>8, <1>9 DEF GoCarrierFields, dialVars
<1>11. CASE found = {}
  BY <1>1, <1>3, <1>7, <1>8, <1>9, <1>10, <1>11
<1>12. CASE found # {}
  <2>1. w \in waiting[c] /\ w.id = frame.id
    BY <1>4, <1>12
  <2>2. reader'[c] = [at |-> "hold", to |-> w.ask, frame |-> frame]
    BY <1>9, <1>12
  <2>3. \A x \in waiting[c] : x \in waiting'[c] <=> x.id # frame.id
    BY <1>8, <1>12
  <2>4. waiting'[c] \subseteq waiting[c]
    BY <1>8
  <2> QED
    BY <1>1, <1>3, <1>7, <1>8, <1>9, <1>10, <2>1, <2>2, <2>3, <2>4
<1> QED
  BY <1>11, <1>12

LEMMA HandsOverIs ==
  ASSUME GoCarrierInv, NEW c \in Lines, HandsOver(c),
         NEW a, a = reader[c].to, NEW frame, frame = reader[c].frame
  PROVE  /\ GoCarrierFields' /\ reader[c].at = "hold"
         /\ a \in Asks /\ frame \in AnyFrames /\ chan[a] = NoFrame
         /\ chan'[a] = frame /\ \A b \in Asks \ {a} : chan'[b] = chan[b]
         /\ reader'[c] = Reading
         /\ \A d \in Lines \ {c} : reader'[d] = reader[d]
         /\ UNCHANGED << dialVars, conn, closed, nextID, waiting, carry, farVars >>
<1>1. /\ GoCarrierFields /\ reader[c].at = "hold" /\ chan[a] = NoFrame
      /\ chan' = [chan EXCEPT ![a] = frame]
      /\ reader' = [reader EXCEPT ![c] = Reading]
      /\ UNCHANGED << dialVars, conn, closed, nextID, waiting, carry, farVars >>
  BY DEF HandsOver, GoCarrierInv
<1>2. a \in Asks /\ frame \in AnyFrames
  BY <1>1 DEF GoCarrierInv, InHands, Incoming
<1>3. Reading \in ReaderFields
  BY DEF Reading, ReaderFields
<1>4. /\ chan' \in [Asks -> AnyFrames \cup {NoFrame, Shut}]
      /\ chan'[a] = frame /\ \A b \in Asks \ {a} : chan'[b] = chan[b]
      /\ reader' \in [Lines -> ReaderFields] /\ reader'[c] = Reading
      /\ \A d \in Lines \ {c} : reader'[d] = reader[d]
  BY <1>1, <1>2, <1>3 DEF GoCarrierFields
<1> QED
  BY <1>1, <1>2, <1>4 DEF GoCarrierFields, dialVars, farVars

LEMMA ReaderFailsIs ==
  ASSUME GoCarrierInv, NEW c \in Lines, ReaderFails(c)
  PROVE  /\ GoCarrierFields' /\ reader[c].at = "read" /\ reader'[c].at = "shut"
         /\ conn[c] # "none" /\ conn' = [conn EXCEPT ![c] = "closed"]
         /\ \A d \in Lines \ {c} : reader'[d] = reader[d]
         /\ UNCHANGED << dialVars, closed, nextID, waiting, chan, carry, farVars >>
<1>1. /\ GoCarrierFields /\ reader[c].at = "read" /\ conn[c] # "none"
      /\ conn' = [conn EXCEPT ![c] = "closed"]
      /\ reader' = [reader EXCEPT ![c] = [reader[c] EXCEPT !.at = "shut"]]
      /\ UNCHANGED << dialVars, closed, nextID, waiting, chan, carry, farVars >>
  BY DEF ReaderFails, GoCarrierInv
<1>2. reader[c] \in ReaderFields
  BY <1>1 DEF GoCarrierFields
<1>3. /\ reader' \in [Lines -> ReaderFields] /\ reader'[c].at = "shut"
      /\ \A d \in Lines \ {c} : reader'[d] = reader[d]
  BY <1>1, <1>2 DEF GoCarrierFields, ReaderFields
<1>4. conn' \in [Lines -> {"none", "open", "broken", "closed"}]
  BY <1>1 DEF GoCarrierFields
<1> QED
  BY <1>1, <1>3, <1>4 DEF GoCarrierFields, dialVars, farVars

LEMMA ReaderShutsIs ==
  ASSUME GoCarrierInv, NEW c \in Lines, ReaderShuts(c)
  PROVE  /\ GoCarrierFields' /\ reader[c].at = "shut" /\ reader'[c].at = "done"
         /\ \A d \in Lines \ {c} : reader'[d] = reader[d]
         /\ Told(c)
         /\ UNCHANGED << dialVars, conn, nextID, carry, farVars >>
<1> SUFFICES ASSUME NEW r, r = [NotReading EXCEPT !.at = "done"]
             PROVE  /\ GoCarrierFields' /\ reader[c].at = "shut"
                    /\ reader'[c].at = "done"
                    /\ \A d \in Lines \ {c} : reader'[d] = reader[d]
                    /\ Told(c)
                    /\ UNCHANGED << dialVars, conn, nextID, carry, farVars >>
  OBVIOUS
<1>1. /\ GoCarrierFields /\ reader[c].at = "shut" /\ TellsAll(c)
      /\ reader' = [reader EXCEPT ![c] = r]
      /\ UNCHANGED << dialVars, conn, nextID, carry, farVars >>
  BY DEF ReaderShuts, GoCarrierInv
<1>2. r \in ReaderFields /\ r.at = "done"
  BY DEF NotReading, ReaderFields
<1>3. /\ reader' \in [Lines -> ReaderFields] /\ reader'[c].at = "done"
      /\ \A d \in Lines \ {c} : reader'[d] = reader[d]
  BY <1>1, <1>2 DEF GoCarrierFields
<1> QED
  BY <1>1, <1>3, TellsFields DEF GoCarrierFields, dialVars, farVars

LEMMA ListenerReadsIs ==
  ASSUME GoCarrierInv, NEW c \in Lines, ListenerReads(c)
  PROVE  /\ GoCarrierFields' /\ up[c] # << >>
         /\ up'[c] = Tail(up[c]) /\ serving'[c] = serving[c] \cup {Head(up[c])}
         /\ \A d \in Lines \ {c} : up'[d] = up[d] /\ serving'[d] = serving[d]
         /\ UNCHANGED << dialVars, lineVars, chan, carry, down, taken, rogue >>
<1>1. /\ GoCarrierFields /\ up[c] # << >>
      /\ up' = [up EXCEPT ![c] = Tail(up[c])]
      /\ serving' = [serving EXCEPT ![c] = serving[c] \cup {Head(up[c])}]
      /\ UNCHANGED << dialVars, lineVars, chan, carry, down, taken, rogue >>
  BY DEF ListenerReads, GoCarrierInv
<1>2. up[c] \in Seq(AskFrames)
  BY <1>1 DEF GoCarrierFields
<1>3. Head(up[c]) \in AskFrames /\ Tail(up[c]) \in Seq(AskFrames)
  BY <1>1, <1>2
<1>4. /\ up' \in [Lines -> Seq(AskFrames)] /\ up'[c] = Tail(up[c])
      /\ \A d \in Lines \ {c} : up'[d] = up[d]
  BY <1>1, <1>3 DEF GoCarrierFields
<1>5. /\ serving' \in [Lines -> SUBSET AskFrames]
      /\ serving'[c] = serving[c] \cup {Head(up[c])}
      /\ \A d \in Lines \ {c} : serving'[d] = serving[d]
  BY <1>1, <1>3 DEF GoCarrierFields
<1> QED
  BY <1>1, <1>4, <1>5 DEF GoCarrierFields, dialVars, lineVars

(* A frame of the far end goes onto the line.                              *)
LEMMA ComesDown ==
  ASSUME GoCarrierFields, NEW c \in Lines, NEW frame \in AnyFrames,
         down' = [down EXCEPT ![c] = Append(down[c], frame)]
  PROVE  /\ down' \in [Lines -> Seq(AnyFrames)]
         /\ down'[c] = Append(down[c], frame)
         /\ \A d \in Lines \ {c} : down'[d] = down[d]
<1>1. down \in [Lines -> Seq(AnyFrames)]
  BY DEF GoCarrierFields
<1>2. Append(down[c], frame) \in Seq(AnyFrames)
  BY <1>1
<1> QED
  BY <1>1, <1>2

LEMMA ListenerAnswersIs ==
  ASSUME GoCarrierInv, NEW c \in Lines, NEW ask \in serving[c],
         ListenerAnswers(c, ask)
  PROVE  /\ GoCarrierFields' /\ ask \in AskFrames
         /\ serving'[c] = serving[c] \ {ask}
         /\ \A d \in Lines \ {c} : down'[d] = down[d] /\ serving'[d] = serving[d]
         /\ \E frame \in AnyFrames :
              /\ down'[c] = Append(down[c], frame)
              /\ \/ taken' = taken /\ frame.kind = "NOTHING"
                 \/ taken' = taken \cup {ask.about} /\ frame.id = ask.id
                    /\ frame.about = ask.about
         /\ UNCHANGED << dialVars, lineVars, chan, carry, up, rogue >>
<1>1. /\ GoCarrierFields /\ ask \in AskFrames
      /\ serving' = [serving EXCEPT ![c] = serving[c] \ {ask}]
      /\ UNCHANGED << dialVars, lineVars, chan, carry, up, rogue >>
  BY DEF ListenerAnswers, GoCarrierInv, GoCarrierFields
<1>2. /\ serving' \in [Lines -> SUBSET AskFrames]
      /\ serving'[c] = serving[c] \ {ask}
      /\ \A d \in Lines \ {c} : serving'[d] = serving[d]
  BY <1>1 DEF GoCarrierFields
<1>3. \E frame \in AnyFrames :
        /\ down' = [down EXCEPT ![c] = Append(down[c], frame)]
        /\ \/ taken' = taken /\ frame.kind = "NOTHING"
           \/ taken' = taken \cup {ask.about} /\ frame.id = ask.id
              /\ frame.about = ask.about
  <2>1. CASE /\ taken' = taken \cup {ask.about}
             /\ down' = [down EXCEPT ![c] =
                           Append(down[c], FrameOf("REPLY", ask.id, ask.about))]
    <3>1. FrameOf("REPLY", ask.id, ask.about) \in AnyFrames
      BY <1>1 DEF FrameOf, AnyFrames, AskFrames, Kinds
    <3>2. /\ FrameOf("REPLY", ask.id, ask.about).id = ask.id
          /\ FrameOf("REPLY", ask.id, ask.about).about = ask.about
      BY DEF FrameOf
    <3> QED
      BY <2>1, <3>1, <3>2
  <2>2. CASE /\ taken' = taken
             /\ down' = [down EXCEPT ![c] =
                           Append(down[c], FrameOf("NOTHING", ask.id, Forged))]
    <3>1. FrameOf("NOTHING", ask.id, Forged) \in AnyFrames
      BY <1>1 DEF FrameOf, AnyFrames, AskFrames, Kinds
    <3>2. FrameOf("NOTHING", ask.id, Forged).kind = "NOTHING"
      BY DEF FrameOf
    <3> QED
      BY <2>2, <3>1, <3>2
  <2> QED
    BY <2>1, <2>2 DEF ListenerAnswers
<1>4. PICK frame \in AnyFrames :
        /\ down' = [down EXCEPT ![c] = Append(down[c], frame)]
        /\ \/ taken' = taken /\ frame.kind = "NOTHING"
           \/ taken' = taken \cup {ask.about} /\ frame.id = ask.id
              /\ frame.about = ask.about
  BY <1>3
<1>5. /\ down' \in [Lines -> Seq(AnyFrames)]
      /\ down'[c] = Append(down[c], frame)
      /\ \A d \in Lines \ {c} : down'[d] = down[d]
  BY <1>1, <1>4, ComesDown
<1>6. taken' \subseteq Asks
  BY <1>1, <1>4 DEF GoCarrierFields, AskFrames
<1> QED
  BY <1>1, <1>2, <1>4, <1>5, <1>6 DEF GoCarrierFields, dialVars, lineVars

LEMMA RogueFrameIs ==
  ASSUME GoCarrierInv, NEW c \in Lines, NEW kind \in Kinds, NEW id \in Ids,
         RogueFrame(c, kind, id), NEW frame, frame = FrameOf(kind, id, Forged)
  PROVE  /\ GoCarrierFields'
         /\ frame \in AnyFrames /\ frame.about = Forged
         /\ down'[c] = Append(down[c], frame)
         /\ \A d \in Lines \ {c} : down'[d] = down[d]
         /\ UNCHANGED << dialVars, lineVars, chan, carry, up, serving, taken >>
<1>1. /\ GoCarrierFields
      /\ down' = [down EXCEPT ![c] = Append(down[c], frame)]
      /\ UNCHANGED << dialVars, lineVars, chan, carry, up, serving, taken >>
  BY DEF RogueFrame, GoCarrierInv
<1>2. frame \in AnyFrames /\ frame.about = Forged
  BY LineFacts DEF FrameOf, AnyFrames
<1>3. /\ down' \in [Lines -> Seq(AnyFrames)]
      /\ down'[c] = Append(down[c], frame)
      /\ \A d \in Lines \ {c} : down'[d] = down[d]
  BY <1>1, <1>2, ComesDown
<1> QED
  BY <1>1, <1>2, <1>3 DEF GoCarrierFields, dialVars, lineVars

LEMMA LineBreaksIs ==
  ASSUME GoCarrierInv, NEW c \in Lines, LineBreaks(c)
  PROVE  /\ GoCarrierFields' /\ conn[c] = "open"
         /\ conn' = [conn EXCEPT ![c] = "broken"]
         /\ UNCHANGED << dialVars, closed, nextID, waiting, reader, chan, carry,
                         farVars >>
BY DEF LineBreaks, GoCarrierInv, GoCarrierFields, dialVars, farVars

-----------------------------------------------------------------------------
(* The lock and the line that stands.                                      *)

LEMMA LockKeeps ==
  ASSUME GoCarrierInv, [GoCarrierNext]_goCarrierVars
  PROVE  LockHeld'
<1>1. /\ LockHeld /\ LastStands /\ NoAsk \notin Asks
      /\ stands \in Lines \cup {NoLine} /\ dmu \in Asks \cup {NoAsk}
      /\ closed \in [Lines -> BOOLEAN]
  BY LineFacts DEF GoCarrierInv, GoCarrierFields
<1>2. ASSUME dmu' = dmu, stands' = stands,
             \A c \in Lines : closed[c] => closed'[c],
             \A b \in Asks : At(b, "reach")' <=> At(b, "reach")
      PROVE  LockHeld'
  BY <1>1, <1>2 DEF LockHeld, Stands
<1>3. CASE UNCHANGED goCarrierVars
  BY <1>2, <1>3 DEF goCarrierVars, dialVars, lineVars, At
<1>4. ASSUME NEW a \in Asks, TakesLine(a)
      PROVE  LockHeld'
  <2>1. /\ \/ Stands /\ dmu' = dmu /\ carry'[a].at = "register"
           \/ ~Stands /\ dmu' = a /\ carry'[a].at = "reach"
        /\ \A b \in Asks \ {a} : carry'[b] = carry[b]
        /\ At(a, "called") /\ dmu = NoAsk /\ UNCHANGED << stands, closed >>
    BY <1>4, TakesLineIs DEF lineVars
  <2> QED
    BY <1>1, <2>1 DEF LockHeld, At, Stands
<1>5. ASSUME NEW a \in Asks, Reaches(a)
      PROVE  LockHeld'
  <2>1. /\ carry'[a].at = "register" /\ dmu' = NoAsk /\ At(a, "reach")
        /\ \A b \in Asks \ {a} : carry'[b] = carry[b]
    BY <1>5, ReachesIs
  <2> QED
    BY <1>1, <2>1 DEF LockHeld, At
<1>6. ASSUME NEW a \in Asks, ReachFails(a)
      PROVE  LockHeld'
  <2>1. NowAt(a, "done", NoAsk) /\ dmu' = NoAsk /\ At(a, "reach")
    BY <1>6, CarryGoesOn
  <2> QED
    BY <1>1, <2>1 DEF LockHeld, At, NowAt
<1>7. ASSUME NEW a \in Asks, Registers(a)
      PROVE  LockHeld'
  <2>1. /\ carry'[a].at # "reach" /\ At(a, "register")
        /\ \A b \in Asks \ {a} : carry'[b] = carry[b]
        /\ UNCHANGED << dmu, stands, closed >>
    BY <1>7, RegistersIs DEF dialVars
  <2> QED
    BY <1>2, <2>1 DEF At
<1>8. ASSUME NEW a \in Asks, NEW stage, NEW got, NowAt(a, stage, got),
             stage # "reach", ~At(a, "reach"), UNCHANGED << dmu, stands >>,
             \A c \in Lines : closed[c] => closed'[c]
      PROVE  LockHeld'
  BY <1>2, <1>8 DEF NowAt, At
<1>9. ASSUME NEW a \in Asks, TimesOut(a) \/ Sends(a) \/ SendFails(a) \/ Receives(a)
                             \/ Forgets(a) \/ CarryShuts(a)
      PROVE  LockHeld'
  <2>1. UNCHANGED << dmu, stands >>
    BY <1>9 DEF TimesOut, Sends, SendFails, Receives, Forgets, CarryShuts, dialVars
  <2>2. CASE TimesOut(a) \/ Sends(a) \/ SendFails(a) \/ Receives(a) \/ Forgets(a)
    <3>1. closed' = closed
      BY <2>2 DEF TimesOut, Sends, SendFails, Receives, Forgets, lineVars
    <3>2. \E stage, got : NowAt(a, stage, got) /\ stage # "reach" /\ ~At(a, "reach")
      <4>1. ~At(a, "reach")
        BY <2>2 DEF TimesOut, Sends, SendFails, Receives, Forgets, At
      <4>2. \E stage \in {"forget", "wait", "shut", "done"} : \E got : NowAt(a, stage, got)
        BY <2>2, CarryGoesOn, SendsIs, SendFailsIs, ReceivesIs, ForgetsIs
      <4> QED
        BY <4>1, <4>2
    <3> QED
      BY <1>8, <2>1, <3>1, <3>2
  <2>3. CASE CarryShuts(a)
    <3>1. /\ At(a, "shut") /\ NowAt(a, "done", NoAsk)
          /\ \A c \in Lines : closed[c] => closed'[c]
      BY <2>3, CarryShutsIs DEF Told
    <3> QED
      BY <1>8, <2>1, <3>1 DEF At
  <2> QED
    BY <1>9, <2>2, <2>3
<1>10. ASSUME NEW c \in Lines, ReaderShuts(c)
       PROVE  LockHeld'
  <2>1. \A d \in Lines : closed[d] => closed'[d]
    BY <1>10, ReaderShutsIs DEF Told
  <2>2. UNCHANGED << dmu, stands, carry >>
    BY <1>10 DEF ReaderShuts, dialVars
  <2> QED
    BY <1>2, <2>1, <2>2 DEF At
<1>11. ASSUME UNCHANGED << dmu, stands, closed, carry >>
       PROVE  LockHeld'
  BY <1>2, <1>11 DEF At
<1>12. ASSUME NEW c \in Lines, ReadsFrame(c) \/ HandsOver(c) \/ ReaderFails(c)
                               \/ ListenerReads(c) \/ LineBreaks(c)
       PROVE  LockHeld'
  BY <1>11, <1>12 DEF ReadsFrame, HandsOver, ReaderFails, ListenerReads, LineBreaks,
                      dialVars, lineVars
<1>13. ASSUME NEW c \in Lines, NEW ask, ListenerAnswers(c, ask)
       PROVE  LockHeld'
  BY <1>11, <1>13 DEF ListenerAnswers, dialVars, lineVars
<1>14. ASSUME NEW c \in Lines, NEW kind, NEW id, RogueFrame(c, kind, id)
       PROVE  LockHeld'
  BY <1>11, <1>14 DEF RogueFrame, dialVars, lineVars
<1> QED
  BY <1>3, <1>4, <1>5, <1>6, <1>7, <1>9, <1>10, <1>12, <1>13, <1>14
  DEF GoCarrierNext, CarrySteps, ReadSteps

LEMMA LastKeeps ==
  ASSUME GoCarrierInv, [GoCarrierNext]_goCarrierVars
  PROVE  LastStands'
<1>1. /\ LastStands /\ LockHeld /\ IdsCounted /\ InHands
      /\ opened \in Nat /\ Lines \subseteq Nat /\ NoLine \notin Lines
      /\ closed \in [Lines -> BOOLEAN]
      /\ conn \in [Lines -> {"none", "open", "broken", "closed"}]
  BY LineFacts DEF GoCarrierInv, GoCarrierFields
(* Nothing is dialed, and of what is shut the socket was closed before.    *)
<1>2. ASSUME UNCHANGED << stands, opened >>,
             \A c \in Lines : /\ conn'[c] = "none" <=> conn[c] = "none"
                              /\ conn[c] = "closed" => conn'[c] = "closed"
                              /\ closed[c] => closed'[c]
                              /\ closed'[c] => conn'[c] = "closed"
                              /\ reader'[c].at = "shut" => conn'[c] = "closed",
             \A a \in Asks : At(a, "shut")' => conn'[carry'[a].on] = "closed"
      PROVE  LastStands'
  BY <1>1, <1>2 DEF LastStands
<1>3. ASSUME UNCHANGED << stands, opened, conn, closed >>,
             \A c \in Lines : reader'[c].at = "shut" => reader[c].at = "shut",
             \A a \in Asks : At(a, "shut")' => At(a, "shut") /\ carry'[a].on = carry[a].on
      PROVE  LastStands'
  BY <1>1, <1>2, <1>3 DEF LastStands
<1>4. CASE UNCHANGED goCarrierVars
  BY <1>3, <1>4 DEF goCarrierVars, dialVars, lineVars, At
<1>5. ASSUME NEW a \in Asks, TakesLine(a)
      PROVE  LastStands'
  <2>1. /\ carry'[a].at \in {"register", "reach"}
        /\ \A b \in Asks \ {a} : carry'[b] = carry[b]
        /\ UNCHANGED << stands, opened, conn, closed, reader >>
    BY <1>5, TakesLineIs DEF lineVars
  <2> QED
    BY <1>3, <2>1 DEF At
<1>6. ASSUME NEW a \in Asks, Reaches(a)
      PROVE  LastStands'
  <2> SUFFICES ASSUME NEW c, c = opened + 1
               PROVE  LastStands'
    OBVIOUS
  <2>1. /\ c \in Lines /\ At(a, "reach") /\ opened' = c /\ stands' = c
        /\ conn' = [conn EXCEPT ![c] = "open"]
        /\ reader' = [reader EXCEPT ![c] = Reading]
        /\ carry'[a].at = "register"
        /\ \A b \in Asks \ {a} : carry'[b] = carry[b]
        /\ closed' = closed /\ GoCarrierFields'
    BY <1>6, ReachesIs
  <2>2. ~Stands
    BY <1>1, <2>1, LineFacts DEF LockHeld
  <2>3. conn[c] = "none" /\ c # 0 /\ \A d \in Lines : d > c <=> d > opened /\ d # c
    BY <1>1, <2>1 DEF LastStands
  <2>4. \A d \in Lines \ {c} : conn'[d] = conn[d] /\ reader'[d] = reader[d]
    BY <2>1 DEF GoCarrierInv, GoCarrierFields
  <2>5. conn'[c] = "open" /\ reader'[c] = Reading
    BY <1>1, <2>1 DEF GoCarrierInv, GoCarrierFields
  <2>6. reader'[c].at # "shut"
    BY <2>5 DEF Reading
  <2>7. \A d \in Lines \ {c} : conn[d] # "none" => closed[d]
    BY <1>1, <2>2 DEF LastStands, Stands
  <2>8. \A d \in Lines : /\ conn'[d] = "none" <=> d > opened'
                         /\ conn'[d] # "none" /\ ~closed'[d] => stands' = d
                         /\ closed'[d] => conn'[d] = "closed"
                         /\ reader'[d].at = "shut" => conn'[d] = "closed"
    BY <1>1, <2>1, <2>3, <2>4, <2>5, <2>6, <2>7 DEF LastStands
  <2>9. \A b \in Asks : At(b, "shut")' => conn'[carry'[b].on] = "closed"
    <3> SUFFICES ASSUME NEW b \in Asks, At(b, "shut")'
                 PROVE  conn'[carry'[b].on] = "closed"
      OBVIOUS
    <3>1. b # a /\ carry'[b] = carry[b] /\ At(b, "shut")
      BY <2>1 DEF At
    <3>2. conn[carry[b].on] = "closed" /\ carry[b].on \in Lines
      BY <1>1, <3>1, OnALine DEF LastStands
    <3> QED
      BY <2>3, <2>4, <3>1, <3>2
  <2> QED
    BY <2>1, <2>3, <2>8, <2>9 DEF LastStands
<1>7. ASSUME NEW a \in Asks, Registers(a)
      PROVE  LastStands'
  <2>1. /\ carry'[a].at # "shut" /\ \A b \in Asks \ {a} : carry'[b] = carry[b]
        /\ UNCHANGED << stands, opened, conn, closed, reader >>
    BY <1>7, RegistersIs DEF dialVars
  <2> QED
    BY <1>3, <2>1 DEF At
<1>8. ASSUME NEW a \in Asks,
             ReachFails(a) \/ TimesOut(a) \/ Sends(a) \/ Receives(a) \/ Forgets(a)
      PROVE  LastStands'
  <2>1. UNCHANGED << stands, opened, conn, closed, reader >>
    BY <1>8 DEF ReachFails, TimesOut, Sends, Receives, Forgets, dialVars, lineVars
  <2>2. \E stage \in {"forget", "wait", "done"} : \E got : NowAt(a, stage, got)
    BY <1>8, CarryGoesOn, SendsIs, ReceivesIs, ForgetsIs
  <2>3. carry'[a].at # "shut" /\ \A b \in Asks \ {a} : carry'[b] = carry[b]
    BY <2>2 DEF NowAt
  <2> QED
    BY <1>3, <2>1, <2>3 DEF At
<1>9. ASSUME NEW a \in Asks, SendFails(a)
      PROVE  LastStands'
  <2> SUFFICES ASSUME NEW c, c = carry[a].on
               PROVE  LastStands'
    OBVIOUS
  <2>1. /\ c \in Lines /\ NowAt(a, "shut", carry[a].got)
        /\ conn[c] # "none" /\ conn' = [conn EXCEPT ![c] = "closed"]
        /\ UNCHANGED << stands, opened, closed, reader >>
    BY <1>9, SendFailsIs DEF dialVars
  <2>2. conn'[c] = "closed" /\ \A d \in Lines \ {c} : conn'[d] = conn[d]
    BY <1>1, <2>1
  <2>3. \A b \in Asks : At(b, "shut")' => conn'[carry'[b].on] = "closed"
    <3>1. carry'[a].on = c /\ \A b \in Asks \ {a} : carry'[b] = carry[b]
      BY <2>1 DEF NowAt
    <3>2. \A b \in Asks \ {a} : At(b, "shut") => conn[carry[b].on] = "closed"
                                                 /\ carry[b].on \in Lines
      BY <1>1, OnALine DEF LastStands
    <3> QED
      BY <2>2, <3>1, <3>2 DEF At
  <2> QED
    BY <1>1, <1>2, <2>1, <2>2, <2>3 DEF LastStands
<1>10. ASSUME NEW c \in Lines, Told(c), conn[c] = "closed",
              UNCHANGED << stands, opened, conn >>,
              \A d \in Lines : reader'[d].at = "shut" => reader[d].at = "shut",
              \A a \in Asks : At(a, "shut")' => /\ At(a, "shut")
                                                /\ carry'[a].on = carry[a].on
       PROVE  LastStands'
  <2>1. \A d \in Lines : /\ closed[d] => closed'[d]
                         /\ closed'[d] => conn'[d] = "closed"
    BY <1>1, <1>10 DEF Told, LastStands
  <2> QED
    BY <1>1, <1>2, <1>10, <2>1 DEF LastStands
<1>11. ASSUME NEW a \in Asks, CarryShuts(a)
       PROVE  LastStands'
  <2> SUFFICES ASSUME NEW c, c = carry[a].on
               PROVE  LastStands'
    OBVIOUS
  <2>1. /\ c \in Lines /\ At(a, "shut") /\ NowAt(a, "done", NoAsk) /\ Told(c)
        /\ UNCHANGED << stands, opened, conn, reader >>
    BY <1>11, CarryShutsIs DEF dialVars
  <2>2. conn[c] = "closed"
    BY <1>1, <2>1 DEF LastStands
  <2> QED
    BY <1>10, <2>1, <2>2 DEF NowAt, At
<1>12. ASSUME NEW c \in Lines, ReaderShuts(c)
       PROVE  LastStands'
  <2>1. /\ reader[c].at = "shut" /\ reader'[c].at = "done" /\ Told(c)
        /\ \A d \in Lines \ {c} : reader'[d] = reader[d]
        /\ UNCHANGED << stands, opened, conn, carry >>
    BY <1>12, ReaderShutsIs DEF dialVars
  <2>2. conn[c] = "closed"
    BY <1>1, <2>1 DEF LastStands
  <2> QED
    BY <1>10, <2>1, <2>2 DEF At
<1>13. ASSUME NEW c \in Lines, ReaderFails(c)
       PROVE  LastStands'
  <2>1. /\ conn[c] # "none" /\ conn' = [conn EXCEPT ![c] = "closed"]
        /\ \A d \in Lines \ {c} : reader'[d] = reader[d]
        /\ UNCHANGED << stands, opened, closed, carry >>
    BY <1>13, ReaderFailsIs DEF dialVars
  <2>2. conn'[c] = "closed" /\ \A d \in Lines \ {c} : conn'[d] = conn[d]
    BY <1>1, <2>1
  <2>3. \A a \in Asks : At(a, "shut") => conn[carry[a].on] = "closed"
                                         /\ carry[a].on \in Lines
    BY <1>1, OnALine DEF LastStands
  <2> QED
    BY <1>1, <1>2, <2>1, <2>2, <2>3 DEF LastStands, At
<1>14. ASSUME NEW c \in Lines, ReadsFrame(c) \/ HandsOver(c)
       PROVE  LastStands'
  <2>1. /\ reader'[c].at # "shut" /\ \A d \in Lines \ {c} : reader'[d] = reader[d]
        /\ UNCHANGED << stands, opened, conn, closed >>
    <3>1. CASE ReadsFrame(c)
      <4>1. \/ reader'[c] = Reading
            \/ \E w \in waiting[c] :
                 reader'[c] = [at |-> "hold", to |-> w.ask, frame |-> Head(down[c])]
        BY <3>1, ReadsFrameIs
      <4>2. reader'[c].at # "shut"
        <5>1. CASE reader'[c] = Reading
          BY <5>1 DEF Reading
        <5>2. ASSUME NEW w \in waiting[c],
                     reader'[c] = [at |-> "hold", to |-> w.ask, frame |-> Head(down[c])]
              PROVE  reader'[c].at = "hold"
          BY <5>2
        <5> QED
          BY <4>1, <5>1, <5>2
      <4>3. /\ \A d \in Lines \ {c} : reader'[d] = reader[d]
            /\ UNCHANGED << dialVars, conn, closed >>
        BY <3>1, ReadsFrameIs
      <4> QED
        BY <4>2, <4>3 DEF dialVars
    <3>2. CASE HandsOver(c)
      BY <3>2, HandsOverIs DEF Reading, dialVars
    <3> QED
      BY <1>14, <3>1, <3>2
  <2>2. \A a \in Asks : carry'[a] = carry[a]
    BY <1>14 DEF ReadsFrame, HandsOver
  <2> QED
    BY <1>3, <2>1, <2>2 DEF At
<1>15. ASSUME NEW c \in Lines, LineBreaks(c)
       PROVE  LastStands'
  <2>1. /\ conn[c] = "open" /\ conn' = [conn EXCEPT ![c] = "broken"]
        /\ UNCHANGED << stands, opened, closed, reader, carry >>
    BY <1>15, LineBreaksIs DEF dialVars
  <2>2. conn'[c] = "broken" /\ \A d \in Lines \ {c} : conn'[d] = conn[d]
    BY <1>1, <2>1
  <2>3. \A a \in Asks : At(a, "shut") => conn[carry[a].on] = "closed"
                                         /\ carry[a].on \in Lines
    BY <1>1, OnALine DEF LastStands
  <2> QED
    BY <1>1, <1>2, <2>1, <2>2, <2>3 DEF LastStands, At
<1>16. ASSUME NEW c \in Lines, \/ ListenerReads(c)
                               \/ \E ask : ListenerAnswers(c, ask)
                               \/ \E kind, id : RogueFrame(c, kind, id)
       PROVE  LastStands'
  BY <1>3, <1>16 DEF ListenerReads, ListenerAnswers, RogueFrame, dialVars, lineVars, At
<1> QED
  BY <1>4, <1>5, <1>6, <1>7, <1>8, <1>9, <1>11, <1>12, <1>13, <1>14, <1>15, <1>16
  DEF GoCarrierNext, CarrySteps, ReadSteps

-----------------------------------------------------------------------------
(* Ids, maps and hands.                                                    *)

(* An ask that went out stays on its line under its id; what was taken     *)
(* stays taken.                                                            *)
LEMMA StaysOut ==
  ASSUME GoCarrierInv, [GoCarrierNext]_goCarrierVars
  PROVE  /\ \A a \in Asks : Registered(a) => /\ carry'[a].on = carry[a].on
                                             /\ carry'[a].id = carry[a].id
         /\ taken \subseteq taken'
<1> DEFINE Stays == /\ \A a \in Asks : Registered(a) => /\ carry'[a].on = carry[a].on
                                                        /\ carry'[a].id = carry[a].id
                    /\ taken \subseteq taken'
<1>1. IdsCounted
  BY DEF GoCarrierInv
<1>2. CASE UNCHANGED goCarrierVars
  BY <1>2 DEF goCarrierVars, farVars
<1>3. ASSUME NEW a \in Asks, CarrySteps(a)
      PROVE  Stays
  <2>1. taken' = taken
    BY <1>3 DEF CarrySteps, TakesLine, ReachFails, Reaches, Registers, Sends, SendFails,
                CarryShuts, Receives, TimesOut, Forgets, farVars
  <2>2. \A b \in Asks \ {a} : carry'[b] = carry[b]
    BY <1>3, TakesLineIs, CarryGoesOn, ReachesIs, RegistersIs, SendsIs, SendFailsIs,
       CarryShutsIs, ReceivesIs, ForgetsIs DEF CarrySteps, NowAt
  <2>3. CASE TakesLine(a) \/ Reaches(a) \/ Registers(a)
    <3>1. ~Registered(a)
      BY <1>1, <2>3 DEF IdsCounted, TakesLine, Reaches, Registers, At
    <3> QED
      BY <2>1, <2>2, <3>1
  <2>4. CASE ~(TakesLine(a) \/ Reaches(a) \/ Registers(a))
    <3>1. carry'[a].on = carry[a].on /\ carry'[a].id = carry[a].id
      BY <1>3, <2>4, CarryGoesOn, SendsIs, SendFailsIs, CarryShutsIs, ReceivesIs, ForgetsIs
      DEF CarrySteps, NowAt
    <3> QED
      BY <2>1, <2>2, <3>1
  <2> QED
    BY <2>3, <2>4
<1>4. ASSUME NEW c \in Lines, ReadSteps(c) \/ ListenerReads(c) \/ LineBreaks(c)
      PROVE  Stays
  BY <1>4 DEF ReadSteps, ReadsFrame, HandsOver, ReaderFails, ReaderShuts, ListenerReads,
              LineBreaks, farVars
<1>5. ASSUME NEW c \in Lines, NEW ask, ListenerAnswers(c, ask)
      PROVE  Stays
  BY <1>5 DEF ListenerAnswers
<1>6. ASSUME NEW c \in Lines, NEW kind, NEW id, RogueFrame(c, kind, id)
      PROVE  Stays
  BY <1>6 DEF RogueFrame
<1> QED
  BY <1>2, <1>3, <1>4, <1>5, <1>6 DEF GoCarrierNext

(* Who is in a map or a hand went out on that line, and on no other.       *)
LEMMA OneEach ==
  ASSUME GoCarrierInv
  PROVE  /\ \A c \in Lines : \A w \in waiting[c] :
              /\ w.ask \in Asks /\ w.id \in Nat /\ w = [id |-> w.id, ask |-> w.ask]
              /\ Registered(w.ask) /\ carry[w.ask].on = c
              /\ carry[w.ask].id = w.id /\ w.id <= nextID[c]
         /\ \A c \in Lines : reader[c].at = "hold" =>
              /\ reader[c].to \in Asks /\ Registered(reader[c].to)
              /\ carry[reader[c].to].on = c
         /\ \A a \in Asks : /\ carry[a].id \in Nat
                            /\ Registered(a) => carry[a].on \in Lines
<1>1. GoCarrierFields /\ IdsCounted /\ InMaps /\ InHands
  BY DEF GoCarrierInv
<1>2. \A c \in Lines : \A w \in waiting[c] : w \in Entries
  BY <1>1 DEF GoCarrierFields
<1>3. \A a \in Asks : /\ carry[a].id \in Nat
                      /\ Registered(a) => carry[a].on \in Lines
  <2>1. \A a \in Asks : carry[a] \in CarryFields
    BY <1>1 DEF GoCarrierFields
  <2>2. \A a \in Asks : Registered(a) => carry[a].on \in 1..opened
    BY <1>1 DEF IdsCounted
  <2>3. 1..opened \subseteq Lines
    BY <1>1, LineFacts DEF GoCarrierFields
  <2> QED
    BY <2>1, <2>2, <2>3 DEF CarryFields
<1>4. ASSUME NEW c \in Lines, NEW w \in waiting[c]
      PROVE  /\ w.ask \in Asks /\ w.id \in Nat /\ w = [id |-> w.id, ask |-> w.ask]
             /\ Registered(w.ask) /\ carry[w.ask].on = c
             /\ carry[w.ask].id = w.id /\ w.id <= nextID[c]
  <2>1. w.ask \in Asks /\ w.id \in Nat /\ w = [id |-> w.id, ask |-> w.ask]
    BY <1>2 DEF Entries
  <2>2. WentOut(w.ask, c, w.id)
    BY <1>1 DEF InMaps
  <2> QED
    BY <1>1, <2>1, <2>2 DEF WentOut, IdsCounted
<1>5. ASSUME NEW c \in Lines, reader[c].at = "hold"
      PROVE  /\ reader[c].to \in Asks /\ Registered(reader[c].to)
             /\ carry[reader[c].to].on = c
  BY <1>1, <1>5 DEF InHands, WentOut
<1> QED
  BY <1>3, <1>4, <1>5

LEMMA IdsKeep ==
  ASSUME GoCarrierInv, [GoCarrierNext]_goCarrierVars
  PROVE  IdsCounted'
<1>1. /\ IdsCounted /\ LastStands /\ InMaps /\ InHands /\ opened \in Nat
      /\ opened \in 0..MaxLines /\ nextID \in [Lines -> Nat]
      /\ stands \in Lines \cup {NoLine} /\ carry \in [Asks -> CarryFields]
  BY LineFacts DEF GoCarrierInv, GoCarrierFields
<1> DEFINE Early(b) == At(b, "called") \/ At(b, "reach") \/ At(b, "register")
(* One ask goes on or ends after it was registered, or ends before.        *)
<1>2. ASSUME UNCHANGED << opened, nextID >>,
             NEW a \in Asks, \A b \in Asks \ {a} : carry'[b] = carry[b],
             carry'[a].on = carry[a].on, carry'[a].id = carry[a].id,
             \/ At(a, "done")'
             \/ Registered(a) /\ carry'[a].at \notin {"called", "reach", "register"},
             \A b \in Asks : Registered(b) \/ chan'[b] = chan[b]
      PROVE  IdsCounted'
  BY <1>1, <1>2 DEF IdsCounted, Registered, At
<1>3. ASSUME UNCHANGED << opened, nextID, carry >>,
             \A b \in Asks : Registered(b) \/ chan'[b] = chan[b]
      PROVE  IdsCounted'
  BY <1>1, <1>3 DEF IdsCounted, Registered, At
<1>4. ASSUME NEW c \in Lines, Told(c)
      PROVE  \A b \in Asks : Registered(b) \/ chan'[b] = chan[b]
  BY <1>4, OneEach DEF Told
<1>5. CASE UNCHANGED goCarrierVars
  BY <1>3, <1>5 DEF goCarrierVars, dialVars, lineVars
<1>6. ASSUME NEW a \in Asks, TakesLine(a)
      PROVE  IdsCounted'
  <2>1. /\ At(a, "called") /\ carry'[a].id = carry[a].id
        /\ \/ Stands /\ carry'[a].at = "register" /\ carry'[a].on = stands
           \/ carry'[a].at = "reach"
        /\ \A b \in Asks \ {a} : carry'[b] = carry[b]
        /\ UNCHANGED << opened, nextID, chan >>
    BY <1>6, TakesLineIs DEF lineVars
  <2>2. Stands => stands \in 1..opened
    BY <1>1, LineFacts DEF Stands, LastStands
  <2>3. ~Registered(a)
    BY <1>1, <2>1 DEF IdsCounted, At
  <2> QED
    BY <1>1, <2>1, <2>2, <2>3 DEF IdsCounted, Registered, At
<1>7. ASSUME NEW a \in Asks, Reaches(a)
      PROVE  IdsCounted'
  <2>1. /\ At(a, "reach") /\ carry'[a].id = carry[a].id /\ opened' = opened + 1
        /\ carry'[a].at = "register" /\ carry'[a].on = opened + 1
        /\ \A b \in Asks \ {a} : carry'[b] = carry[b]
        /\ UNCHANGED << nextID, chan >>
    BY <1>7, ReachesIs
  <2>2. ~Registered(a)
    BY <1>1, <2>1 DEF IdsCounted, At
  <2>3. opened + 1 \in 1..opened' /\ 1..opened \subseteq 1..opened'
    BY <1>1, <2>1
  <2> QED
    BY <1>1, <2>1, <2>2, <2>3 DEF IdsCounted, Registered, At
<1>8. ASSUME NEW a \in Asks, Registers(a)
      PROVE  IdsCounted'
  <2> SUFFICES ASSUME NEW c, c = carry[a].on
               PROVE  IdsCounted'
    OBVIOUS
  <2>1. /\ c \in Lines /\ At(a, "register") /\ carry'[a].on = c
        /\ \A b \in Asks \ {a} : carry'[b] = carry[b]
        /\ UNCHANGED << opened, chan >>
    BY <1>8, RegistersIs DEF dialVars
  <2>2. CASE closed[c]
    <3>1. /\ carry'[a].at = "done" /\ carry'[a].id = carry[a].id
          /\ nextID' = nextID
      BY <1>8, <2>2, RegistersIs
    <3> QED
      BY <1>2, <2>1, <3>1 DEF At
  <2>3. CASE ~closed[c]
    <3> SUFFICES ASSUME NEW id, id = nextID[c] + 1
                 PROVE  IdsCounted'
      OBVIOUS
    <3>1. /\ carry'[a].at = "send" /\ carry'[a].id = id
          /\ nextID' = [nextID EXCEPT ![c] = id]
      BY <1>8, <2>3, RegistersIs
    <3>2. id \in Nat /\ id > 0 /\ c \in 1..opened /\ nextID[c] \in Nat /\ nextID[c] < id
      BY <1>1, <2>1 DEF IdsCounted
    <3>3. nextID'[c] = id /\ \A d \in Lines \ {c} : nextID'[d] = nextID[d]
      BY <1>1, <2>1, <3>1
    <3>4. \A b \in Asks : /\ carry[b].id \in Nat
                          /\ Registered(b) => /\ carry[b].on \in Lines
                                              /\ carry[b].id <= nextID[carry[b].on]
      BY <1>1, OneEach DEF IdsCounted
    <3>5. \A b \in Asks \ {a} : Registered(b) => /\ carry[b].id <= nextID'[carry[b].on]
                                                 /\ carry[b].on = c => carry[b].id # id
      BY <1>1, <3>2, <3>3, <3>4
    <3> QED
      BY <1>1, <2>1, <3>1, <3>2, <3>3, <3>5 DEF IdsCounted, Registered, At
  <2> QED
    BY <2>2, <2>3
<1>9. ASSUME NEW a \in Asks, ReachFails(a) \/ TimesOut(a) \/ Sends(a) \/ SendFails(a)
                             \/ Forgets(a)
      PROVE  IdsCounted'
  <2>1. UNCHANGED << opened, nextID, chan >>
    BY <1>9 DEF ReachFails, TimesOut, Sends, SendFails, Forgets, dialVars, lineVars
  <2>2. \E stage \in {"done", "forget", "wait", "shut"} : \E got :
          NowAt(a, stage, got) /\ (stage = "done" \/ Registered(a))
    BY <1>9, CarryGoesOn, SendsIs, SendFailsIs, ForgetsIs, OnALine
  <2> QED
    BY <1>2, <2>1, <2>2 DEF NowAt, At
<1>10. ASSUME NEW a \in Asks, Receives(a)
       PROVE  IdsCounted'
  <2>1. /\ At(a, "wait") /\ \E got : NowAt(a, "done", got)
        /\ UNCHANGED << opened, nextID >>
        /\ chan' = chan \/ chan' = [chan EXCEPT ![a] = NoFrame]
    BY <1>10, ReceivesIs DEF dialVars, lineVars
  <2>2. \A b \in Asks : Registered(b) \/ chan'[b] = chan[b]
    BY <2>1, OnALine DEF GoCarrierInv, GoCarrierFields
  <2> QED
    BY <1>2, <2>1, <2>2 DEF NowAt, At
<1>11. ASSUME NEW a \in Asks, CarryShuts(a)
       PROVE  IdsCounted'
  <2> SUFFICES ASSUME NEW c, c = carry[a].on
               PROVE  IdsCounted'
    OBVIOUS
  <2>1. /\ c \in Lines /\ NowAt(a, "done", NoAsk) /\ Told(c)
        /\ UNCHANGED << opened, nextID >>
    BY <1>11, CarryShutsIs DEF dialVars
  <2> QED
    BY <1>2, <1>4, <2>1 DEF NowAt, At
<1>12. ASSUME NEW c \in Lines, ReaderShuts(c)
       PROVE  IdsCounted'
  <2>1. Told(c) /\ UNCHANGED << opened, nextID, carry >>
    BY <1>12, ReaderShutsIs DEF dialVars
  <2> QED
    BY <1>3, <1>4, <2>1
<1>13. ASSUME NEW c \in Lines, HandsOver(c)
       PROVE  IdsCounted'
  <2>1. /\ reader[c].at = "hold"
        /\ \A b \in Asks \ {reader[c].to} : chan'[b] = chan[b]
        /\ UNCHANGED << opened, nextID, carry >>
    BY <1>13, HandsOverIs DEF dialVars
  <2> QED
    BY <1>3, <2>1, OneEach
<1>14. ASSUME NEW c \in Lines, \/ ReadsFrame(c) \/ ReaderFails(c) \/ ListenerReads(c)
                               \/ LineBreaks(c)
                               \/ \E ask : ListenerAnswers(c, ask)
                               \/ \E kind, id : RogueFrame(c, kind, id)
       PROVE  IdsCounted'
  <2>1. UNCHANGED << opened, nextID, carry, chan >>
    BY <1>14 DEF ReadsFrame, ReaderFails, ListenerReads, LineBreaks, ListenerAnswers,
                 RogueFrame, dialVars, lineVars
  <2> QED
    BY <1>3, <2>1
<1> QED
  BY <1>5, <1>6, <1>7, <1>8, <1>9, <1>10, <1>11, <1>12, <1>13, <1>14
  DEF GoCarrierNext, CarrySteps, ReadSteps

(* The maps: an entry goes with its ask's end, with the line, or into a    *)
(* reader's hand.                                                          *)
LEMMA MapsKeep ==
  ASSUME GoCarrierInv, [GoCarrierNext]_goCarrierVars
  PROVE  InMaps'
<1>1. /\ InMaps /\ InHands /\ IdsCounted
      /\ chan \in [Asks -> AnyFrames \cup {NoFrame, Shut}]
      /\ waiting \in [Lines -> SUBSET Entries]
  BY DEF GoCarrierInv, GoCarrierFields
<1>2. ASSUME \A c \in Lines : \A w \in waiting'[c] :
               /\ w \in waiting[c]
               /\ At(w.ask, "done")' => At(w.ask, "done")
               /\ chan'[w.ask] = chan[w.ask]
               /\ closed'[c] = closed[c]
      PROVE  InMaps'
  <2> SUFFICES ASSUME NEW c \in Lines, NEW w \in waiting'[c]
               PROVE  /\ WentOut(w.ask, c, w.id)' /\ ~At(w.ask, "done")'
                      /\ chan'[w.ask] = NoFrame
                      /\ ~closed'[c]
    BY DEF InMaps
  <2>1. w \in waiting[c] /\ w.ask \in Asks
    BY <1>2, OneEach
  <2>2. WentOut(w.ask, c, w.id) /\ ~At(w.ask, "done") /\ chan[w.ask] = NoFrame /\ ~closed[c]
    BY <1>1, <2>1 DEF InMaps
  <2>3. carry'[w.ask].on = carry[w.ask].on /\ carry'[w.ask].id = carry[w.ask].id
    BY <2>1, <2>2, StaysOut DEF WentOut
  <2> QED
    BY <1>2, <2>2, <2>3 DEF WentOut, Registered
<1>3. ASSUME UNCHANGED << waiting, closed, carry, chan >>
      PROVE  InMaps'
  BY <1>2, <1>3 DEF At
<1>4. ASSUME NEW a \in Asks, \A b \in Asks \ {a} : carry'[b] = carry[b],
             \A c \in Lines : \A w \in waiting'[c] : w \in waiting[c] /\ w.ask # a,
             UNCHANGED << closed, chan >>
      PROVE  InMaps'
  <2>1. \A c \in Lines : \A w \in waiting'[c] : carry'[w.ask] = carry[w.ask]
    BY <1>4, OneEach
  <2> QED
    BY <1>2, <1>4, <2>1 DEF At
<1>5. ASSUME NEW a \in Asks, ~Registered(a), NEW c \in Lines, NEW w \in waiting[c]
      PROVE  w.ask # a
  BY <1>5, OneEach
<1>6. CASE UNCHANGED goCarrierVars
  BY <1>3, <1>6 DEF goCarrierVars, dialVars, lineVars
<1>7. ASSUME NEW a \in Asks, TakesLine(a) \/ Reaches(a) \/ ReachFails(a)
      PROVE  InMaps'
  <2>1. /\ \A b \in Asks \ {a} : carry'[b] = carry[b]
        /\ UNCHANGED << waiting, closed, chan >>
    BY <1>7, TakesLineIs, ReachesIs, CarryGoesOn DEF NowAt, lineVars
  <2>2. ~Registered(a)
    BY <1>1, <1>7 DEF TakesLine, Reaches, ReachFails, IdsCounted, At
  <2> QED
    BY <1>4, <1>5, <2>1, <2>2
<1>8. ASSUME NEW a \in Asks, Registers(a)
      PROVE  InMaps'
  <2> SUFFICES ASSUME NEW c, c = carry[a].on
               PROVE  InMaps'
    OBVIOUS
  <2>1. /\ c \in Lines /\ At(a, "register") /\ carry'[a].on = c
        /\ \A b \in Asks \ {a} : carry'[b] = carry[b]
        /\ UNCHANGED << closed, chan >>
    BY <1>8, RegistersIs
  <2>2. ~Registered(a) /\ chan[a] = NoFrame
    BY <1>1, <2>1 DEF IdsCounted, At
  <2>3. CASE closed[c]
    <3>1. waiting' = waiting
      BY <1>8, <2>3, RegistersIs
    <3> QED
      BY <1>4, <1>5, <2>1, <2>2, <3>1
  <2>4. CASE ~closed[c]
    <3> SUFFICES ASSUME NEW id, id = nextID[c] + 1
                 PROVE  InMaps'
      OBVIOUS
    <3>1. /\ carry'[a].at = "send" /\ carry'[a].id = id
          /\ waiting' = [waiting EXCEPT ![c] =
               {w \in waiting[c] : w.id # id} \cup {[id |-> id, ask |-> a]}]
      BY <1>8, <2>4, RegistersIs
    <3>2. id > 0
      <4>1. nextID[c] \in Nat
        BY <2>1 DEF GoCarrierInv, GoCarrierFields
      <4> QED
        BY <4>1
    <3>3. SUFFICES ASSUME NEW d \in Lines, NEW w \in waiting'[d]
                   PROVE  /\ WentOut(w.ask, d, w.id)' /\ ~At(w.ask, "done")'
                          /\ chan'[w.ask] = NoFrame
                          /\ ~closed'[d]
      BY DEF InMaps
    <3>4. CASE w \in waiting[d]
      <4>1. /\ WentOut(w.ask, d, w.id) /\ ~At(w.ask, "done") /\ chan[w.ask] = NoFrame
            /\ ~closed[d]
        BY <1>1, <3>4 DEF InMaps
      <4>2. carry'[w.ask] = carry[w.ask]
        BY <1>5, <2>1, <2>2, <3>4, OneEach
      <4> QED
        BY <2>1, <4>1, <4>2 DEF WentOut, Registered, At
    <3>5. CASE w \notin waiting[d]
      <4>1. d = c /\ w = [id |-> id, ask |-> a]
        BY <1>1, <2>1, <3>1, <3>5
      <4>2. w.id = id /\ w.ask = a
        BY <4>1
      <4> QED
        BY <2>1, <2>2, <2>4, <3>1, <3>2, <4>1, <4>2 DEF WentOut, Registered, At
    <3> QED
      BY <3>4, <3>5
  <2> QED
    BY <2>3, <2>4
<1>9. ASSUME NEW a \in Asks, TimesOut(a) \/ Sends(a) \/ SendFails(a)
      PROVE  InMaps'
  <2>1. UNCHANGED << waiting, closed, chan >>
    BY <1>9 DEF TimesOut, Sends, SendFails, lineVars
  <2>2. /\ carry'[a].at # "done" /\ \A b \in Asks \ {a} : carry'[b] = carry[b]
    BY <1>9, CarryGoesOn, SendsIs, SendFailsIs DEF NowAt
  <2>3. \A b \in Asks : At(b, "done")' => At(b, "done")
    BY <2>2 DEF At
  <2> QED
    BY <1>2, <2>1, <2>3, OneEach
<1>10. ASSUME NEW a \in Asks, Receives(a)
       PROVE  InMaps'
  <2>1. /\ chan[a] # NoFrame /\ \A b \in Asks \ {a} : carry'[b] = carry[b]
        /\ chan' = chan \/ chan' = [chan EXCEPT ![a] = NoFrame]
        /\ UNCHANGED << waiting, closed >>
    BY <1>10, ReceivesIs DEF NowAt, lineVars
  <2>2. \A c \in Lines : \A w \in waiting'[c] : w.ask \in Asks \ {a}
    BY <1>1, <2>1, OneEach DEF InMaps
  <2>3. \A b \in Asks \ {a} : chan'[b] = chan[b]
    BY <1>1, <2>1
  <2>4. \A b \in Asks \ {a} : At(b, "done")' => At(b, "done")
    BY <2>1 DEF At
  <2> QED
    BY <1>2, <2>1, <2>2, <2>3, <2>4
<1>11. ASSUME NEW a \in Asks, Forgets(a)
       PROVE  InMaps'
  <2> SUFFICES ASSUME NEW c, c = carry[a].on
               PROVE  InMaps'
    OBVIOUS
  <2>1. /\ c \in Lines /\ \A b \in Asks \ {a} : carry'[b] = carry[b]
        /\ waiting'[c] = {w \in waiting[c] : w.id # carry[a].id}
        /\ \A d \in Lines \ {c} : waiting'[d] = waiting[d]
        /\ UNCHANGED << closed, chan >>
    BY <1>11, ForgetsIs DEF NowAt
  <2>2. \A d \in Lines : \A w \in waiting'[d] : w \in waiting[d] /\ w.ask # a
    BY <2>1, OneEach
  <2> QED
    BY <1>4, <2>1, <2>2
<1>12. ASSUME NEW c \in Lines, Told(c), NEW d \in Lines, NEW w \in waiting'[d]
       PROVE  /\ d # c /\ w \in waiting[d] /\ w.ask \in Asks
              /\ chan'[w.ask] = chan[w.ask] /\ closed'[d] = closed[d]
  <2>1. d # c /\ w \in waiting[d] /\ closed'[d] = closed[d] /\ w.ask \in Asks
    BY <1>12, OneEach DEF Told
  <2>2. ~\E v \in waiting[c] : v.ask = w.ask
    BY <2>1, OneEach
  <2>3. chan'[w.ask] = chan[w.ask]
    BY <1>12, <2>1, <2>2 DEF Told
  <2> QED
    BY <2>1, <2>3
<1>13. ASSUME NEW a \in Asks, CarryShuts(a)
       PROVE  InMaps'
  <2> SUFFICES ASSUME NEW c, c = carry[a].on
               PROVE  InMaps'
    OBVIOUS
  <2>1. /\ c \in Lines /\ Told(c)
        /\ \A b \in Asks \ {a} : carry'[b] = carry[b]
    BY <1>13, CarryShutsIs DEF NowAt
  <2>2. \A d \in Lines : \A w \in waiting'[d] :
          /\ w \in waiting[d] /\ w.ask \in Asks \ {a}
          /\ chan'[w.ask] = chan[w.ask] /\ closed'[d] = closed[d]
    <3> SUFFICES ASSUME NEW d \in Lines, NEW w \in waiting'[d]
                 PROVE  /\ w \in waiting[d] /\ w.ask \in Asks \ {a}
                        /\ chan'[w.ask] = chan[w.ask] /\ closed'[d] = closed[d]
      OBVIOUS
    <3>1. /\ d # c /\ w \in waiting[d] /\ w.ask \in Asks
          /\ chan'[w.ask] = chan[w.ask] /\ closed'[d] = closed[d]
      BY <1>12, <2>1
    <3>2. carry[w.ask].on = d
      BY <3>1, OneEach
    <3> QED
      BY <3>1, <3>2
  <2> QED
    BY <1>2, <2>1, <2>2 DEF At
<1>14. ASSUME NEW c \in Lines, ReaderShuts(c)
       PROVE  InMaps'
  <2>1. Told(c) /\ carry' = carry
    BY <1>14, ReaderShutsIs
  <2> QED
    BY <1>2, <1>12, <2>1 DEF At
<1>15. ASSUME NEW c \in Lines, ReadsFrame(c)
       PROVE  InMaps'
  <2>1. /\ \A d \in Lines : waiting'[d] \subseteq waiting[d]
        /\ UNCHANGED << closed, chan, carry >>
    <3>1. waiting'[c] \subseteq waiting[c]
      BY <1>15, ReadsFrameIs
    <3>2. /\ \A d \in Lines \ {c} : waiting'[d] = waiting[d]
          /\ UNCHANGED << closed, chan, carry >>
      BY <1>15, ReadsFrameIs
    <3> QED
      BY <3>1, <3>2
  <2> QED
    BY <1>2, <2>1 DEF At
<1>16. ASSUME NEW c \in Lines, HandsOver(c)
       PROVE  InMaps'
  <2>1. /\ reader[c].at = "hold"
        /\ \A b \in Asks \ {reader[c].to} : chan'[b] = chan[b]
        /\ UNCHANGED << waiting, closed, carry >>
    BY <1>16, HandsOverIs
  <2>2. \A d \in Lines : \A w \in waiting[d] : w.ask # reader[c].to
    BY <1>1, <2>1, OneEach DEF InHands
  <2> QED
    BY <1>2, <2>1, <2>2, OneEach DEF At
<1>17. ASSUME NEW c \in Lines, \/ ReaderFails(c) \/ ListenerReads(c) \/ LineBreaks(c)
                               \/ \E ask : ListenerAnswers(c, ask)
                               \/ \E kind, id : RogueFrame(c, kind, id)
       PROVE  InMaps'
  <2>1. UNCHANGED << waiting, closed, carry, chan >>
    BY <1>17 DEF ReaderFails, ListenerReads, LineBreaks, ListenerAnswers,
                 RogueFrame, dialVars, lineVars
  <2> QED
    BY <1>3, <2>1
<1> QED
  BY <1>6, <1>7, <1>8, <1>9, <1>10, <1>11, <1>13, <1>14, <1>15, <1>16, <1>17
  DEF GoCarrierNext, CarrySteps, ReadSteps

(* What may go out on a line, or come back on it, still may.               *)
LEMMA StillMeant ==
  ASSUME GoCarrierInv, [GoCarrierNext]_goCarrierVars, NEW c \in Lines
  PROVE  /\ \A f \in Outgoing(c) : f \in Outgoing(c)'
         /\ \A f \in Incoming(c) : f \in Incoming(c)'
<1>1. \A b \in Asks : Registered(b) => /\ carry'[b].on = carry[b].on
                                       /\ carry'[b].id = carry[b].id
  BY StaysOut
<1>2. taken \subseteq taken' /\ taken \subseteq Asks
  BY StaysOut DEF GoCarrierInv, GoCarrierFields
<1>3. ASSUME NEW b \in Asks, NEW id, WentOut(b, c, id)
      PROVE  WentOut(b, c, id)'
  BY <1>1, <1>3 DEF WentOut, Registered
<1>4. ASSUME NEW f \in Outgoing(c)
      PROVE  f \in Outgoing(c)'
  <2>1. f \in AskFrames /\ f.about \in Asks /\ WentOut(f.about, c, f.id)
    BY DEF Outgoing, AskFrames
  <2>2. WentOut(f.about, c, f.id)'
    BY <1>3, <2>1
  <2> QED
    BY <2>1, <2>2 DEF Outgoing
<1>5. ASSUME NEW f \in Incoming(c)
      PROVE  f \in Incoming(c)'
  <2>1. f \in AnyFrames
    BY DEF Incoming
  <2>2. CASE f.kind = "REPLY" /\ f.about # Forged
    <3>1. f.about \in taken /\ WentOut(f.about, c, f.id)
      BY <2>2 DEF Incoming
    <3>2. f.about \in taken' /\ WentOut(f.about, c, f.id)'
      BY <1>2, <1>3, <3>1
    <3> QED
      BY <2>1, <3>2 DEF Incoming
  <2>3. CASE ~(f.kind = "REPLY" /\ f.about # Forged)
    BY <2>1, <2>3 DEF Incoming
  <2> QED
    BY <2>2, <2>3
<1> QED
  BY <1>4, <1>5

(* The hands: the channel a reader holds is in no map, and nobody else     *)
(* writes to it or closes it.                                              *)
LEMMA HandsKeep ==
  ASSUME GoCarrierInv, [GoCarrierNext]_goCarrierVars
  PROVE  InHands'
<1>1. /\ InMaps /\ InHands /\ IdsCounted /\ FramesMeant /\ LastStands
      /\ chan \in [Asks -> AnyFrames \cup {NoFrame, Shut}]
      /\ waiting \in [Lines -> SUBSET Entries]
      /\ reader \in [Lines -> ReaderFields]
      /\ down \in [Lines -> Seq(AnyFrames)]
  BY DEF GoCarrierInv, GoCarrierFields
(* What a reader held before the step, it still may.                       *)
<1>2. ASSUME NEW c \in Lines, reader[c].at = "hold", reader'[c] = reader[c],
             chan'[reader[c].to] = chan[reader[c].to],
             \A w \in waiting'[c] : w.ask # reader[c].to
      PROVE  /\ reader'[c].to \in Asks
             /\ WentOut(reader[c].to, c, reader[c].frame.id)'
             /\ (reader[c].frame \in Incoming(c))'
             /\ chan'[reader'[c].to] = NoFrame
             /\ \A w \in waiting'[c] : w.ask # reader'[c].to
  <2>1. /\ reader[c].to \in Asks /\ WentOut(reader[c].to, c, reader[c].frame.id)
        /\ reader[c].frame \in Incoming(c) /\ chan[reader[c].to] = NoFrame
    BY <1>1, <1>2 DEF InHands
  <2>2. WentOut(reader[c].to, c, reader[c].frame.id)'
    <3>1. /\ carry'[reader[c].to].on = carry[reader[c].to].on
          /\ carry'[reader[c].to].id = carry[reader[c].to].id
      BY <2>1, StaysOut DEF WentOut
    <3> QED
      BY <1>2, <2>1, <3>1 DEF WentOut, Registered
  <2>3. (reader[c].frame \in Incoming(c))'
    <3> SUFFICES ASSUME NEW f, f = reader[c].frame
                 PROVE  (reader[c].frame \in Incoming(c))'
      OBVIOUS
    <3>1. f \in Incoming(c)'
      BY <2>1, StillMeant
    <3> QED
      BY <1>2, <3>1
  <2> QED
    BY <1>2, <2>1, <2>2, <2>3
<1>3. ASSUME \A c \in Lines : reader'[c].at = "hold" =>
               /\ reader'[c] = reader[c]
               /\ chan'[reader[c].to] = chan[reader[c].to]
               /\ \A w \in waiting'[c] : w.ask # reader[c].to
      PROVE  InHands'
  BY <1>2, <1>3 DEF InHands
<1>4. ASSUME UNCHANGED << reader, chan >>, \A c \in Lines : waiting'[c] \subseteq waiting[c]
      PROVE  InHands'
  BY <1>1, <1>3, <1>4 DEF InHands
<1>5. CASE UNCHANGED goCarrierVars
  BY <1>4, <1>5 DEF goCarrierVars, lineVars
<1>6. ASSUME NEW a \in Asks, TakesLine(a) \/ ReachFails(a) \/ Sends(a) \/ SendFails(a)
                             \/ TimesOut(a)
      PROVE  InHands'
  <2>1. UNCHANGED << reader, chan, waiting >>
    BY <1>6 DEF TakesLine, ReachFails, Sends, SendFails, TimesOut, lineVars
  <2> QED
    BY <1>4, <2>1
<1>7. ASSUME NEW a \in Asks, Reaches(a)
      PROVE  InHands'
  <2> SUFFICES ASSUME NEW c, c = opened + 1
               PROVE  InHands'
    OBVIOUS
  <2>1. /\ c \in Lines /\ reader' = [reader EXCEPT ![c] = Reading]
        /\ UNCHANGED << chan, waiting >>
    BY <1>7, ReachesIs
  <2>2. /\ reader'[c].at # "hold"
        /\ \A d \in Lines \ {c} : reader'[d] = reader[d]
    <3>1. reader'[c] = Reading /\ \A d \in Lines \ {c} : reader'[d] = reader[d]
      BY <1>1, <2>1
    <3>2. Reading.at = "read"
      BY DEF Reading
    <3> QED
      BY <3>1, <3>2
  <2> QED
    BY <1>1, <1>3, <2>1, <2>2 DEF InHands
<1>8. ASSUME NEW a \in Asks, Registers(a)
      PROVE  InHands'
  <2> SUFFICES ASSUME NEW c, c = carry[a].on
               PROVE  InHands'
    OBVIOUS
  <2>1. c \in Lines /\ At(a, "register") /\ UNCHANGED << reader, chan >>
    BY <1>8, RegistersIs
  <2>2. ~Registered(a)
    BY <1>1, <2>1 DEF IdsCounted, At
  <2>3. \A d \in Lines : \A w \in waiting'[d] : w \in waiting[d] \/ w.ask = a
    <3>1. CASE closed[c]
      BY <1>8, <3>1, RegistersIs
    <3>2. CASE ~closed[c]
      <4> SUFFICES ASSUME NEW id, id = nextID[c] + 1
                   PROVE  \A d \in Lines : \A w \in waiting'[d] :
                            w \in waiting[d] \/ w.ask = a
        OBVIOUS
      <4>1. waiting' = [waiting EXCEPT ![c] =
              {w \in waiting[c] : w.id # id} \cup {[id |-> id, ask |-> a]}]
        BY <1>8, <3>2, RegistersIs
      <4> QED
        BY <1>1, <2>1, <4>1
    <3> QED
      BY <3>1, <3>2
  <2>4. ASSUME NEW d \in Lines, reader[d].at = "hold", NEW w \in waiting'[d]
        PROVE  w.ask # reader[d].to
    <3>1. Registered(reader[d].to) /\ \A v \in waiting[d] : v.ask # reader[d].to
      BY <1>1, <2>4, OneEach DEF InHands
    <3> QED
      BY <2>2, <2>3, <2>4, <3>1
  <2> QED
    BY <1>3, <2>1, <2>4
<1>9. ASSUME NEW a \in Asks, Receives(a)
      PROVE  InHands'
  <2>1. /\ chan[a] # NoFrame /\ UNCHANGED << reader, waiting >>
        /\ chan' = chan \/ chan' = [chan EXCEPT ![a] = NoFrame]
    BY <1>9, ReceivesIs DEF lineVars
  <2>2. \A c \in Lines : reader[c].at = "hold" => /\ reader[c].to \in Asks \ {a}
                                                  /\ \A w \in waiting[c] :
                                                       w.ask # reader[c].to
    BY <1>1, <2>1 DEF InHands
  <2>3. \A b \in Asks \ {a} : chan'[b] = chan[b]
    BY <1>1, <2>1
  <2> QED
    BY <1>3, <2>1, <2>2, <2>3
<1>10. ASSUME NEW a \in Asks, Forgets(a)
       PROVE  InHands'
  <2> SUFFICES ASSUME NEW c, c = carry[a].on
               PROVE  InHands'
    OBVIOUS
  <2>1. /\ waiting'[c] = {w \in waiting[c] : w.id # carry[a].id}
        /\ \A d \in Lines \ {c} : waiting'[d] = waiting[d]
        /\ UNCHANGED << reader, chan >>
    BY <1>10, ForgetsIs
  <2>2. \A d \in Lines : waiting'[d] \subseteq waiting[d]
    BY <2>1
  <2> QED
    BY <1>4, <2>1, <2>2
<1>11. ASSUME NEW c \in Lines, Told(c),
              \A d \in Lines : reader'[d].at = "hold" => reader'[d] = reader[d]
       PROVE  InHands'
  <2>1. ASSUME NEW d \in Lines, reader'[d].at = "hold"
        PROVE  /\ reader'[d] = reader[d]
               /\ chan'[reader[d].to] = chan[reader[d].to]
               /\ \A w \in waiting'[d] : w.ask # reader[d].to
    <3>1. reader'[d] = reader[d] /\ reader[d].at = "hold"
      BY <1>11, <2>1
    <3>2. /\ reader[d].to \in Asks /\ carry[reader[d].to].on = d
          /\ \A w \in waiting[d] : w.ask # reader[d].to
      BY <1>1, <3>1, OneEach DEF InHands
    <3>3. ~\E w \in waiting[c] : w.ask = reader[d].to
      BY <3>2, OneEach
    <3>4. chan'[reader[d].to] = chan[reader[d].to]
      BY <1>11, <3>2, <3>3 DEF Told
    <3>5. waiting'[d] \subseteq waiting[d]
      BY <1>11 DEF Told
    <3> QED
      BY <3>1, <3>2, <3>4, <3>5
  <2> QED
    BY <1>3, <2>1
<1>12. ASSUME NEW a \in Asks, CarryShuts(a)
       PROVE  InHands'
  <2> SUFFICES ASSUME NEW c, c = carry[a].on
               PROVE  InHands'
    OBVIOUS
  <2>1. c \in Lines /\ Told(c) /\ reader' = reader
    BY <1>12, CarryShutsIs
  <2> QED
    BY <1>11, <2>1
<1>13. ASSUME NEW c \in Lines, ReaderShuts(c)
       PROVE  InHands'
  <2>1. /\ Told(c) /\ reader'[c].at = "done"
        /\ \A d \in Lines \ {c} : reader'[d] = reader[d]
    BY <1>13, ReaderShutsIs
  <2> QED
    BY <1>11, <2>1

<1>14. ASSUME NEW c \in Lines, ReadsFrame(c)
       PROVE  InHands'
  <2> SUFFICES ASSUME NEW frame, frame = Head(down[c])
               PROVE  InHands'
    OBVIOUS
  <2>1. /\ down[c] # << >> /\ frame \in AnyFrames
        /\ \A d \in Lines \ {c} : reader'[d] = reader[d] /\ waiting'[d] = waiting[d]
        /\ waiting'[c] \subseteq waiting[c]
        /\ UNCHANGED << chan, carry, taken >>
    BY <1>14, ReadsFrameIs
  <2>2. frame \in Incoming(c)
    <3>1. /\ down[c] \in Seq(AnyFrames)
          /\ \A i \in 1..Len(down[c]) : down[c][i] \in Incoming(c)
      BY <1>1 DEF FramesMeant
    <3>2. 1 \in 1..Len(down[c]) /\ Head(down[c]) = down[c][1]
      BY <2>1, <3>1
    <3> QED
      BY <3>1, <3>2
  <2>3. frame \in Incoming(c)'
    BY <2>2, StillMeant
  <2>4. ASSUME NEW d \in Lines \ {c}, reader'[d].at = "hold"
        PROVE  /\ reader'[d] = reader[d]
               /\ chan'[reader[d].to] = chan[reader[d].to]
               /\ \A w \in waiting'[d] : w.ask # reader[d].to
    BY <1>1, <2>1, <2>4 DEF InHands
  <2>5. CASE reader'[c] = Reading
    <3>1. reader'[c].at # "hold"
      BY <2>5 DEF Reading
    <3> QED
      BY <1>3, <2>4, <3>1
  <2>6. ASSUME NEW w \in waiting[c], w.id = frame.id,
               reader'[c] = [at |-> "hold", to |-> w.ask, frame |-> frame],
               \A v \in waiting[c] : v \in waiting'[c] <=> v.id # frame.id
        PROVE  InHands'
    <3>1. /\ reader'[c].at = "hold" /\ reader'[c].to = w.ask /\ reader'[c].frame = frame
      BY <2>6
    <3>2. w.ask \in Asks /\ WentOut(w.ask, c, frame.id) /\ chan[w.ask] = NoFrame
      BY <1>1, <2>6, OneEach DEF InMaps
    <3>3. WentOut(w.ask, c, frame.id)'
      BY <2>1, <3>2 DEF WentOut, Registered
    <3>4. \A v \in waiting'[c] : v.ask # w.ask
      <4> SUFFICES ASSUME NEW v \in waiting'[c], v.ask = w.ask
                   PROVE  FALSE
        OBVIOUS
      <4>1. v \in waiting[c] /\ v.id # frame.id
        BY <2>1, <2>6
      <4>2. v.id = w.id
        BY <2>6, <4>1, OneEach
      <4> QED
        BY <2>6, <4>1, <4>2
    <3>5. /\ reader'[c].to \in Asks
          /\ WentOut(w.ask, c, frame.id)'
          /\ frame \in Incoming(c)'
          /\ chan'[reader'[c].to] = NoFrame
          /\ \A v \in waiting'[c] : v.ask # reader'[c].to
      BY <2>1, <2>3, <3>1, <3>2, <3>3, <3>4
    <3>6. \A d \in Lines \ {c} : reader'[d].at = "hold" =>
            /\ reader'[d].to \in Asks
            /\ WentOut(reader[d].to, d, reader[d].frame.id)'
            /\ (reader[d].frame \in Incoming(d))'
            /\ chan'[reader'[d].to] = NoFrame
            /\ \A v \in waiting'[d] : v.ask # reader'[d].to
      BY <1>2, <2>4
    <3> QED
      BY <3>1, <3>5, <3>6 DEF InHands
  <2>7. \/ reader'[c] = Reading
        \/ \E w \in waiting[c] :
             /\ w.id = frame.id
             /\ reader'[c] = [at |-> "hold", to |-> w.ask, frame |-> frame]
             /\ \A v \in waiting[c] : v \in waiting'[c] <=> v.id # frame.id
    BY <1>14, ReadsFrameIs, SMTT(30)
  <2> QED
    BY <2>5, <2>6, <2>7
<1>15. ASSUME NEW c \in Lines, HandsOver(c)
       PROVE  InHands'
  <2>1. /\ reader[c].at = "hold" /\ reader'[c] = Reading
        /\ \A d \in Lines \ {c} : reader'[d] = reader[d]
        /\ \A b \in Asks \ {reader[c].to} : chan'[b] = chan[b]
        /\ waiting' = waiting
    BY <1>15, HandsOverIs
  <2>2. reader'[c].at # "hold"
    BY <2>1 DEF Reading
  <2>3. ASSUME NEW d \in Lines \ {c}, reader[d].at = "hold"
        PROVE  reader[d].to \in Asks \ {reader[c].to}
    BY <2>1, <2>3, OneEach
  <2> QED
    BY <1>1, <1>3, <2>1, <2>2, <2>3 DEF InHands
<1>16. ASSUME NEW c \in Lines, ReaderFails(c)
       PROVE  InHands'
  <2>1. /\ reader'[c].at = "shut" /\ UNCHANGED << waiting, chan >>
        /\ \A d \in Lines \ {c} : reader'[d] = reader[d]
    BY <1>16, ReaderFailsIs
  <2> QED
    BY <1>1, <1>3, <2>1 DEF InHands
<1>17. ASSUME NEW c \in Lines, \/ ListenerReads(c) \/ LineBreaks(c)
                               \/ \E ask : ListenerAnswers(c, ask)
                               \/ \E kind, id : RogueFrame(c, kind, id)
       PROVE  InHands'
  <2>1. UNCHANGED << reader, waiting, chan >>
    BY <1>17 DEF ListenerReads, LineBreaks, ListenerAnswers, RogueFrame, dialVars, lineVars
  <2> QED
    BY <1>4, <2>1
<1> QED
  BY <1>5, <1>6, <1>7, <1>8, <1>9, <1>10, <1>12, <1>13, <1>14, <1>15, <1>16, <1>17
  DEF GoCarrierNext, CarrySteps, ReadSteps

(* After the step the ask is in the map of its line, or in the hand of the *)
(* line's reader.                                                          *)
Kept(b, c) ==
  [id |-> carry[b].id, ask |-> b] \in waiting'[c]
    \/ (reader'[c].at = "hold" /\ reader'[c].to = b)

(* An ask that waits with an empty channel stays in its map until a reader *)
(* takes it out, the line is shut or its own timer fires.                  *)
LEMMA RememberedKeeps ==
  ASSUME GoCarrierInv, [GoCarrierNext]_goCarrierVars
  PROVE  Remembered'
<1>1. /\ Remembered /\ InMaps /\ InHands /\ IdsCounted
      /\ chan \in [Asks -> AnyFrames \cup {NoFrame, Shut}]
      /\ waiting \in [Lines -> SUBSET Entries]
      /\ reader \in [Lines -> ReaderFields]
      /\ nextID \in [Lines -> Nat]
  BY DEF GoCarrierInv, GoCarrierFields
<1>2. ASSUME NEW b \in Asks, At(b, "send") \/ At(b, "wait"), chan[b] = NoFrame,
             NEW c, c = carry[b].on
      PROVE  /\ c \in Lines /\ Registered(b)
             /\ \/ [id |-> carry[b].id, ask |-> b] \in waiting[c]
                \/ reader[c].at = "hold" /\ reader[c].to = b
  BY <1>1, <1>2, OnALine DEF Remembered, EntryOf, Holds
<1>3. ASSUME \A b \in Asks : carry'[b].at \in {"send", "wait"} /\ chan'[b] = NoFrame =>
               /\ carry[b].at \in {"send", "wait"}
               /\ chan[b] = NoFrame
               /\ \A c \in Lines : c = carry[b].on => Kept(b, c)
      PROVE  Remembered'
  <2>1. ASSUME NEW b \in Asks, carry'[b].at \in {"send", "wait"}, chan'[b] = NoFrame,
               NEW c, c = carry'[b].on
        PROVE  \/ [id |-> carry'[b].id, ask |-> b] \in waiting'[c]
               \/ reader'[c].at = "hold" /\ reader'[c].to = b
    <3>1. carry[b].at \in {"send", "wait"} /\ chan[b] = NoFrame
      BY <1>3, <2>1
    <3>2. Registered(b) /\ carry[b].on \in Lines
      BY <1>2, <3>1 DEF At
    <3>3. c = carry[b].on /\ carry'[b].id = carry[b].id
      BY <2>1, <3>2, StaysOut
    <3> QED
      BY <1>3, <2>1, <3>2, <3>3 DEF Kept
  <2> QED
    BY <2>1 DEF Remembered, EntryOf, Holds, At
(* The reader and the maps are as they were for every ask that is sought.  *)
<1>4. ASSUME UNCHANGED << waiting, reader >>,
             \A b \in Asks : carry'[b].at \in {"send", "wait"} /\ chan'[b] = NoFrame =>
               carry[b].at \in {"send", "wait"} /\ chan[b] = NoFrame
      PROVE  Remembered'
  <2>1. ASSUME NEW b \in Asks, carry[b].at \in {"send", "wait"}, chan[b] = NoFrame,
               NEW c \in Lines, c = carry[b].on
        PROVE  Kept(b, c)
    BY <1>2, <1>4, <2>1 DEF Kept, At
  <2> QED
    BY <1>3, <1>4, <2>1
<1>5. CASE UNCHANGED goCarrierVars
  BY <1>4, <1>5 DEF goCarrierVars, lineVars
<1>6. ASSUME NEW a \in Asks, TakesLine(a) \/ ReachFails(a) \/ Sends(a) \/ SendFails(a)
                             \/ TimesOut(a)
      PROVE  Remembered'
  <2>1. UNCHANGED << reader, chan, waiting >>
    BY <1>6 DEF TakesLine, ReachFails, Sends, SendFails, TimesOut, lineVars
  <2>2. /\ carry'[a].at \in {"send", "wait"} => carry[a].at \in {"send", "wait"}
        /\ \A b \in Asks \ {a} : carry'[b] = carry[b]
    <3>1. CASE Sends(a)
      BY <3>1, SendsIs DEF NowAt, At
    <3>2. CASE ~Sends(a)
      BY <1>6, <3>2, TakesLineIs, CarryGoesOn, SendFailsIs DEF NowAt
    <3> QED
      BY <3>1, <3>2
  <2> QED
    BY <1>4, <2>1, <2>2
<1>7. ASSUME NEW a \in Asks, Reaches(a)
      PROVE  Remembered'
  <2> SUFFICES ASSUME NEW c, c = opened + 1
               PROVE  Remembered'
    OBVIOUS
  <2>1. /\ c \in Lines /\ reader' = [reader EXCEPT ![c] = Reading]
        /\ carry'[a].at = "register" /\ \A b \in Asks \ {a} : carry'[b] = carry[b]
        /\ UNCHANGED << chan, waiting >>
    BY <1>7, ReachesIs
  <2>2. \A d \in Lines \ {c} : reader'[d] = reader[d]
    BY <1>1, <2>1
  <2>3. \A b \in Asks : Registered(b) => carry[b].on # c
    <3>1. \A b \in Asks : Registered(b) => carry[b].on \in 1..opened
      BY <1>1 DEF IdsCounted
    <3>2. opened \in Nat
      BY LineFacts DEF GoCarrierInv, GoCarrierFields
    <3> QED
      BY <3>1, <3>2
  <2>4. ASSUME NEW b \in Asks, carry'[b].at \in {"send", "wait"}, chan'[b] = NoFrame
        PROVE  /\ carry[b].at \in {"send", "wait"} /\ chan[b] = NoFrame
               /\ \A d \in Lines : d = carry[b].on => Kept(b, d)
    <3>1. carry[b].at \in {"send", "wait"} /\ chan[b] = NoFrame
      BY <2>1, <2>4
    <3>2. \A d \in Lines : d = carry[b].on => d # c
      BY <1>2, <2>3, <3>1 DEF At
    <3>3. \A d \in Lines : d = carry[b].on => Kept(b, d)
      BY <1>2, <2>1, <2>2, <3>1, <3>2 DEF Kept, At
    <3> QED
      BY <3>1, <3>3
  <2> QED
    BY <1>3, <2>4
<1>8. ASSUME NEW a \in Asks, Registers(a)
      PROVE  Remembered'
  <2> SUFFICES ASSUME NEW c, c = carry[a].on
               PROVE  Remembered'
    OBVIOUS
  <2>1. /\ c \in Lines /\ At(a, "register") /\ carry'[a].on = c
        /\ \A b \in Asks \ {a} : carry'[b] = carry[b]
        /\ UNCHANGED << reader, chan >>
    BY <1>8, RegistersIs
  <2>2. CASE closed[c]
    <3>1. carry'[a].at = "done" /\ waiting' = waiting
      BY <1>8, <2>2, RegistersIs
    <3> QED
      BY <1>4, <2>1, <3>1
  <2>3. CASE ~closed[c]
    <3> SUFFICES ASSUME NEW id, id = nextID[c] + 1
                 PROVE  Remembered'
      OBVIOUS
    <3>1. /\ carry'[a].id = id
          /\ waiting' = [waiting EXCEPT ![c] =
               {w \in waiting[c] : w.id # id} \cup {[id |-> id, ask |-> a]}]
      BY <1>8, <2>3, RegistersIs
    <3>2. /\ waiting'[c] = {w \in waiting[c] : w.id # id} \cup {[id |-> id, ask |-> a]}
          /\ \A d \in Lines \ {c} : waiting'[d] = waiting[d]
      BY <1>1, <2>1, <3>1
    <3>3. ASSUME NEW b \in Asks, NEW d, d = carry'[b].on,
                 carry'[b].at \in {"send", "wait"}, chan'[b] = NoFrame
          PROVE  \/ [id |-> carry'[b].id, ask |-> b] \in waiting'[d]
                 \/ reader'[d].at = "hold" /\ reader'[d].to = b
      <4>1. CASE b = a
        BY <2>1, <3>1, <3>2, <3>3, <4>1
      <4>2. CASE b # a
        <5>1. carry'[b] = carry[b] /\ chan[b] = NoFrame /\ reader' = reader
          BY <2>1, <3>3, <4>2
        <5>2. /\ d \in Lines /\ Registered(b)
              /\ \/ [id |-> carry[b].id, ask |-> b] \in waiting[d]
                 \/ reader[d].at = "hold" /\ reader[d].to = b
          BY <1>2, <3>3, <5>1 DEF At
        <5>3. CASE d = c
          <6>1. carry[b].id <= nextID[c] /\ nextID[c] \in Nat /\ carry[b].id \in Nat
            BY <1>1, <2>1, <3>3, <5>1, <5>2, <5>3, OneEach DEF IdsCounted
          <6>2. carry[b].id # id
            BY <6>1
          <6> QED
            BY <3>2, <5>1, <5>2, <5>3, <6>2
        <5>4. CASE d # c
          BY <3>2, <5>1, <5>2, <5>4
        <5> QED
          BY <5>3, <5>4
      <4> QED
        BY <4>1, <4>2
    <3> QED
      BY <3>3 DEF Remembered, EntryOf, Holds, At
  <2> QED
    BY <2>2, <2>3
<1>9. ASSUME NEW a \in Asks, Receives(a)
      PROVE  Remembered'
  <2>1. /\ carry'[a].at = "done" /\ \A b \in Asks \ {a} : carry'[b] = carry[b]
        /\ chan' = chan \/ chan' = [chan EXCEPT ![a] = NoFrame]
        /\ UNCHANGED << reader, waiting >>
    BY <1>9, ReceivesIs DEF NowAt, lineVars
  <2>2. \A b \in Asks \ {a} : chan'[b] = chan[b]
    BY <1>1, <2>1
  <2> QED
    BY <1>4, <2>1, <2>2
<1>10. ASSUME NEW a \in Asks, Forgets(a)
       PROVE  Remembered'
  <2> SUFFICES ASSUME NEW c, c = carry[a].on
               PROVE  Remembered'
    OBVIOUS
  <2>1. /\ c \in Lines /\ At(a, "forget")
        /\ waiting'[c] = {w \in waiting[c] : w.id # carry[a].id}
        /\ \A d \in Lines \ {c} : waiting'[d] = waiting[d]
        /\ carry'[a].at = "done" /\ \A b \in Asks \ {a} : carry'[b] = carry[b]
        /\ UNCHANGED << reader, chan >>
    BY <1>10, ForgetsIs DEF NowAt
  <2>2. ASSUME NEW b \in Asks, carry'[b].at \in {"send", "wait"}, chan'[b] = NoFrame
        PROVE  /\ carry[b].at \in {"send", "wait"} /\ chan[b] = NoFrame
               /\ \A d \in Lines : d = carry[b].on => Kept(b, d)
    <3>1. b # a /\ carry[b].at \in {"send", "wait"} /\ chan[b] = NoFrame
      BY <2>1, <2>2
    <3> SUFFICES ASSUME NEW d \in Lines, d = carry[b].on
                 PROVE  Kept(b, d)
      BY <3>1
    <3>2. /\ Registered(b) /\ Registered(a)
          /\ \/ [id |-> carry[b].id, ask |-> b] \in waiting[d]
             \/ reader[d].at = "hold" /\ reader[d].to = b
      BY <1>2, <2>1, <3>1, OnALine DEF At
    <3>3. CASE d = c
      <4>1. carry[b].id # carry[a].id
        BY <1>1, <3>1, <3>2, <3>3 DEF IdsCounted
      <4> QED
        BY <2>1, <3>2, <3>3, <4>1 DEF Kept
    <3>4. CASE d # c
      BY <2>1, <3>2, <3>4 DEF Kept
    <3> QED
      BY <3>3, <3>4
  <2> QED
    BY <1>3, <2>2
<1>11. ASSUME NEW c \in Lines, Told(c), reader[c].at # "hold" \/ reader'[c] = reader[c],
              \A d \in Lines \ {c} : reader'[d] = reader[d],
              \A b \in Asks : carry'[b].at \in {"send", "wait"} =>
                                carry[b].at \in {"send", "wait"}
       PROVE  Remembered'
  <2>1. ASSUME NEW b \in Asks, carry'[b].at \in {"send", "wait"}, chan'[b] = NoFrame
        PROVE  /\ carry[b].at \in {"send", "wait"} /\ chan[b] = NoFrame
               /\ \A d \in Lines : d = carry[b].on => Kept(b, d)
    <3>1. /\ chan[b] = NoFrame /\ ~\E w \in waiting[c] : w.ask = b
          /\ carry[b].at \in {"send", "wait"}
      BY <1>11, <2>1, LineFacts DEF Told
    <3> SUFFICES ASSUME NEW d \in Lines, d = carry[b].on
                 PROVE  Kept(b, d)
      BY <3>1
    <3>2. \/ [id |-> carry[b].id, ask |-> b] \in waiting[d]
          \/ reader[d].at = "hold" /\ reader[d].to = b
      BY <1>2, <3>1 DEF At
    <3>3. CASE d = c
      <4>1. ~([id |-> carry[b].id, ask |-> b] \in waiting[d])
        BY <3>1, <3>3
      <4> QED
        BY <1>11, <3>2, <3>3, <4>1 DEF Kept
    <3>4. CASE d # c
      BY <1>11, <3>2, <3>4 DEF Kept, Told
    <3> QED
      BY <3>3, <3>4
  <2> QED
    BY <1>3, <2>1
<1>12. ASSUME NEW a \in Asks, CarryShuts(a)
       PROVE  Remembered'
  <2> SUFFICES ASSUME NEW c, c = carry[a].on
               PROVE  Remembered'
    OBVIOUS
  <2>1. /\ c \in Lines /\ Told(c) /\ reader' = reader
        /\ carry'[a].at = "done" /\ \A b \in Asks \ {a} : carry'[b] = carry[b]
    BY <1>12, CarryShutsIs DEF NowAt
  <2> QED
    BY <1>11, <2>1
<1>13. ASSUME NEW c \in Lines, ReaderShuts(c)
       PROVE  Remembered'
  <2>1. /\ Told(c) /\ reader[c].at = "shut" /\ carry' = carry
        /\ \A d \in Lines \ {c} : reader'[d] = reader[d]
    BY <1>13, ReaderShutsIs
  <2> QED
    BY <1>11, <2>1
<1>14. ASSUME NEW c \in Lines, ReadsFrame(c)
       PROVE  Remembered'
  <2> SUFFICES ASSUME NEW frame, frame = Head(down[c])
               PROVE  Remembered'
    OBVIOUS
  <2>1. /\ reader[c].at = "read"
        /\ \A d \in Lines \ {c} : reader'[d] = reader[d] /\ waiting'[d] = waiting[d]
        /\ UNCHANGED << chan, carry >>
    BY <1>14, ReadsFrameIs
  <2>2. \/ waiting'[c] = waiting[c]
        \/ \E w \in waiting[c] :
             /\ w.id = frame.id
             /\ reader'[c] = [at |-> "hold", to |-> w.ask, frame |-> frame]
             /\ \A v \in waiting[c] : v \in waiting'[c] <=> v.id # frame.id
    BY <1>14, ReadsFrameIs, SMTT(30)
  <2>3. ASSUME NEW b \in Asks, carry[b].at \in {"send", "wait"}, chan[b] = NoFrame,
               NEW d \in Lines, d = carry[b].on
        PROVE  Kept(b, d)
    <3>1. /\ Registered(b)
          /\ \/ [id |-> carry[b].id, ask |-> b] \in waiting[d]
             \/ reader[d].at = "hold" /\ reader[d].to = b
      BY <1>2, <2>3 DEF At
    <3>2. CASE d # c
      BY <2>1, <3>1, <3>2 DEF Kept
    <3>3. CASE d = c
      <4>1. [id |-> carry[b].id, ask |-> b] \in waiting[c]
        BY <2>1, <3>1, <3>3
      <4>2. CASE waiting'[c] = waiting[c]
        BY <3>3, <4>1, <4>2 DEF Kept
      <4>3. ASSUME NEW w \in waiting[c], w.id = frame.id,
                   reader'[c] = [at |-> "hold", to |-> w.ask, frame |-> frame],
                   \A v \in waiting[c] : v \in waiting'[c] <=> v.id # frame.id
            PROVE  Kept(b, c)
        <5>1. reader'[c].at = "hold" /\ reader'[c].to = w.ask
          BY <4>3
        <5>2. CASE carry[b].id = frame.id
          <6>1. w.ask = b
            BY <1>1, <2>3, <3>1, <3>3, <4>3, <5>2, OneEach DEF IdsCounted
          <6> QED
            BY <5>1, <6>1 DEF Kept
        <5>3. CASE carry[b].id # frame.id
          BY <4>1, <4>3, <5>3 DEF Kept
        <5> QED
          BY <5>2, <5>3
      <4> QED
        BY <2>2, <3>3, <4>2, <4>3
    <3> QED
      BY <3>2, <3>3
  <2> QED
    BY <1>3, <2>1, <2>3
<1>15. ASSUME NEW c \in Lines, HandsOver(c)
       PROVE  Remembered'
  <2> SUFFICES ASSUME NEW a, a = reader[c].to, NEW frame, frame = reader[c].frame
               PROVE  Remembered'
    OBVIOUS
  <2>1. /\ chan'[a] = frame /\ frame \in AnyFrames
        /\ \A b \in Asks \ {a} : chan'[b] = chan[b]
        /\ \A d \in Lines \ {c} : reader'[d] = reader[d]
        /\ UNCHANGED << waiting, carry >>
    BY <1>15, HandsOverIs
  <2>2. ASSUME NEW b \in Asks, carry'[b].at \in {"send", "wait"}, chan'[b] = NoFrame
        PROVE  /\ carry[b].at \in {"send", "wait"} /\ chan[b] = NoFrame
               /\ \A d \in Lines : d = carry[b].on => Kept(b, d)
    <3>1. b # a /\ chan[b] = NoFrame /\ carry[b].at \in {"send", "wait"}
      BY <2>1, <2>2, LineFacts
    <3> SUFFICES ASSUME NEW d \in Lines, d = carry[b].on
                 PROVE  Kept(b, d)
      BY <3>1
    <3>2. \/ [id |-> carry[b].id, ask |-> b] \in waiting[d]
          \/ reader[d].at = "hold" /\ reader[d].to = b
      BY <1>2, <3>1 DEF At
    <3> QED
      BY <2>1, <3>1, <3>2 DEF Kept
  <2> QED
    BY <1>3, <2>2
<1>16. ASSUME NEW c \in Lines, ReaderFails(c)
       PROVE  Remembered'
  <2>1. /\ reader[c].at = "read" /\ UNCHANGED << waiting, chan, carry >>
        /\ \A d \in Lines \ {c} : reader'[d] = reader[d]
    BY <1>16, ReaderFailsIs
  <2>2. ASSUME NEW b \in Asks, carry[b].at \in {"send", "wait"}, chan[b] = NoFrame,
               NEW d \in Lines, d = carry[b].on
        PROVE  Kept(b, d)
    <3>1. \/ [id |-> carry[b].id, ask |-> b] \in waiting[d]
          \/ reader[d].at = "hold" /\ reader[d].to = b
      BY <1>2, <2>2 DEF At
    <3> QED
      BY <2>1, <3>1 DEF Kept
  <2> QED
    BY <1>3, <2>1, <2>2
<1>17. ASSUME NEW c \in Lines, \/ ListenerReads(c) \/ LineBreaks(c)
                               \/ \E ask : ListenerAnswers(c, ask)
                               \/ \E kind, id : RogueFrame(c, kind, id)
       PROVE  Remembered'
  <2>1. UNCHANGED << reader, waiting, chan, carry >>
    BY <1>17 DEF ListenerReads, LineBreaks, ListenerAnswers, RogueFrame, lineVars
  <2> QED
    BY <1>4, <2>1
<1> QED
  BY <1>5, <1>6, <1>7, <1>8, <1>9, <1>10, <1>12, <1>13, <1>14, <1>15, <1>16, <1>17
  DEF GoCarrierNext, CarrySteps, ReadSteps

(* The frames of a line are about asks that went out on it.                *)
LEMMA FramesKeep ==
  ASSUME GoCarrierInv, [GoCarrierNext]_goCarrierVars
  PROVE  FramesMeant'
<1>1. /\ FramesMeant
      /\ up \in [Lines -> Seq(AskFrames)] /\ down \in [Lines -> Seq(AnyFrames)]
      /\ serving \in [Lines -> SUBSET AskFrames]
  BY DEF GoCarrierInv, GoCarrierFields
(* Each line carries what it carried, or what may go on it, or less.       *)
<1>2. ASSUME \A c \in Lines :
               /\ \A i \in 1..Len(up'[c]) : up'[c][i] \in Outgoing(c)
               /\ serving'[c] \subseteq Outgoing(c)
               /\ \A i \in 1..Len(down'[c]) :
                    down'[c][i] \in Incoming(c) \/ (down'[c][i] \in Incoming(c)')
      PROVE  FramesMeant'
  <2>1. ASSUME NEW c \in Lines
        PROVE  /\ \A i \in 1..Len(up'[c]) : up'[c][i] \in Outgoing(c)'
               /\ \A f \in serving'[c] : f \in Outgoing(c)'
               /\ \A i \in 1..Len(down'[c]) : down'[c][i] \in Incoming(c)'
    <3>1. /\ \A f \in Outgoing(c) : f \in Outgoing(c)'
          /\ \A f \in Incoming(c) : f \in Incoming(c)'
      BY StillMeant
    <3> QED
      BY <1>2, <3>1
  <2> QED
    BY <2>1 DEF FramesMeant
<1>3. ASSUME UNCHANGED << up, down, serving >>
      PROVE  FramesMeant'
  <2>1. \A c \in Lines :
          /\ \A i \in 1..Len(up'[c]) : up'[c][i] \in Outgoing(c)
          /\ serving'[c] \subseteq Outgoing(c)
          /\ \A i \in 1..Len(down'[c]) : down'[c][i] \in Incoming(c)
    BY <1>1, <1>3 DEF FramesMeant
  <2> QED
    BY <1>2, <2>1
<1>4. CASE UNCHANGED goCarrierVars
  BY <1>3, <1>4 DEF goCarrierVars, farVars
<1>5. ASSUME NEW a \in Asks, \/ TakesLine(a) \/ ReachFails(a) \/ Reaches(a)
                             \/ Registers(a) \/ SendFails(a) \/ CarryShuts(a)
                             \/ Receives(a) \/ TimesOut(a) \/ Forgets(a)
      PROVE  FramesMeant'
  <2>1. UNCHANGED << up, down, serving >>
    BY <1>5 DEF TakesLine, ReachFails, Reaches, Registers, SendFails, CarryShuts,
                Receives, TimesOut, Forgets, farVars
  <2> QED
    BY <1>3, <2>1
<1>6. ASSUME NEW a \in Asks, Sends(a)
      PROVE  FramesMeant'
  <2> SUFFICES ASSUME NEW c, c = carry[a].on,
                      NEW frame, frame = FrameOf("ASK", carry[a].id, a)
               PROVE  FramesMeant'
    OBVIOUS
  <2>1. /\ c \in Lines /\ frame \in AskFrames /\ At(a, "send")
        /\ \A d \in Lines \ {c} : up'[d] = up[d]
        /\ up'[c] = up[c] \/ up'[c] = Append(up[c], frame)
        /\ UNCHANGED << down, serving >>
    BY <1>6, SendsIs
  <2>2. frame \in Outgoing(c)
    <3>1. Registered(a) /\ frame.id = carry[a].id /\ frame.about = a
      BY <2>1, OnALine DEF FrameOf
    <3> QED
      BY <2>1, <3>1 DEF Outgoing, WentOut
  <2>3. up[c] \in Seq(AskFrames) /\ \A i \in 1..Len(up[c]) : up[c][i] \in Outgoing(c)
    BY <1>1, <2>1 DEF FramesMeant
  <2>4. \A i \in 1..Len(Append(up[c], frame)) : Append(up[c], frame)[i] \in Outgoing(c)
    BY <2>1, <2>2, <2>3, AllOfLine
  <2>5. \A i \in 1..Len(up'[c]) : up'[c][i] \in Outgoing(c)
    BY <2>1, <2>3, <2>4
  <2>6. \A d \in Lines :
          /\ \A i \in 1..Len(up'[d]) : up'[d][i] \in Outgoing(d)
          /\ serving'[d] \subseteq Outgoing(d)
          /\ \A i \in 1..Len(down'[d]) : down'[d][i] \in Incoming(d)
    BY <1>1, <2>1, <2>5 DEF FramesMeant
  <2> QED
    BY <1>2, <2>6
<1>7. ASSUME NEW c \in Lines, HandsOver(c) \/ ReaderFails(c) \/ ReaderShuts(c)
                              \/ LineBreaks(c)
      PROVE  FramesMeant'
  <2>1. UNCHANGED << up, down, serving >>
    BY <1>7 DEF HandsOver, ReaderFails, ReaderShuts, LineBreaks, farVars
  <2> QED
    BY <1>3, <2>1
<1>8. ASSUME NEW c \in Lines, ReadsFrame(c)
      PROVE  FramesMeant'
  <2>1. /\ down[c] # << >> /\ down'[c] = Tail(down[c])
        /\ \A d \in Lines \ {c} : down'[d] = down[d]
        /\ UNCHANGED << up, serving >>
    BY <1>8, ReadsFrameIs
  <2>2. /\ down[c] \in Seq(AnyFrames)
        /\ \A i \in 1..Len(down[c]) : down[c][i] \in Incoming(c)
    BY <1>1 DEF FramesMeant
  <2>3. \A i \in 1..Len(Tail(down[c])) : Tail(down[c])[i] \in Incoming(c)
    BY <2>1, <2>2, AllOfLine
  <2>4. \A d \in Lines :
          /\ \A i \in 1..Len(up'[d]) : up'[d][i] \in Outgoing(d)
          /\ serving'[d] \subseteq Outgoing(d)
          /\ \A i \in 1..Len(down'[d]) : down'[d][i] \in Incoming(d)
    BY <1>1, <2>1, <2>3 DEF FramesMeant
  <2> QED
    BY <1>2, <2>4
<1>9. ASSUME NEW c \in Lines, ListenerReads(c)
      PROVE  FramesMeant'
  <2>1. /\ up[c] # << >> /\ up'[c] = Tail(up[c])
        /\ serving'[c] = serving[c] \cup {Head(up[c])}
        /\ \A d \in Lines \ {c} : up'[d] = up[d] /\ serving'[d] = serving[d]
        /\ down' = down
    BY <1>9, ListenerReadsIs
  <2>2. /\ up[c] \in Seq(AskFrames)
        /\ \A i \in 1..Len(up[c]) : up[c][i] \in Outgoing(c)
    BY <1>1 DEF FramesMeant
  <2>3. /\ Head(up[c]) \in Outgoing(c)
        /\ \A i \in 1..Len(Tail(up[c])) : Tail(up[c])[i] \in Outgoing(c)
    BY <2>1, <2>2, AllOfLine
  <2>4. \A d \in Lines :
          /\ \A i \in 1..Len(up'[d]) : up'[d][i] \in Outgoing(d)
          /\ serving'[d] \subseteq Outgoing(d)
          /\ \A i \in 1..Len(down'[d]) : down'[d][i] \in Incoming(d)
    BY <1>1, <2>1, <2>3 DEF FramesMeant
  <2> QED
    BY <1>2, <2>4
(* A frame that may come back goes onto one line.                          *)
<1>10. ASSUME NEW c \in Lines, NEW frame \in AnyFrames, frame \in Incoming(c)',
              down'[c] = Append(down[c], frame),
              \A d \in Lines \ {c} : down'[d] = down[d],
              up' = up, \A d \in Lines : serving'[d] \subseteq serving[d]
       PROVE  FramesMeant'
  <2>1. /\ down[c] \in Seq(AnyFrames)
        /\ \A i \in 1..Len(down[c]) : down[c][i] \in Incoming(c)
    BY <1>1 DEF FramesMeant
  <2>2. ASSUME NEW i \in 1..Len(down'[c])
        PROVE  down'[c][i] \in Incoming(c) \/ (down'[c][i] \in Incoming(c)')
    <3>1. /\ Len(Append(down[c], frame)) = Len(down[c]) + 1 /\ Len(down[c]) \in Nat
          /\ Append(down[c], frame)[Len(down[c]) + 1] = frame
          /\ \A j \in 1..Len(down[c]) : Append(down[c], frame)[j] = down[c][j]
      BY <2>1
    <3>2. CASE i = Len(down[c]) + 1
      <4>1. down'[c][i] = frame
        BY <1>10, <3>1, <3>2
      <4> QED
        BY <1>10, <4>1
    <3>3. CASE i # Len(down[c]) + 1
      <4>1. i \in 1..Len(down[c])
        BY <1>10, <2>2, <3>1, <3>3
      <4>2. down'[c][i] = down[c][i]
        BY <1>10, <3>1, <4>1
      <4> QED
        BY <2>1, <4>1, <4>2
    <3> QED
      BY <3>2, <3>3
  <2>3. \A d \in Lines \ {c} : \A i \in 1..Len(down'[d]) : down'[d][i] \in Incoming(d)
    BY <1>1, <1>10 DEF FramesMeant
  <2>4. \A d \in Lines : /\ \A i \in 1..Len(up'[d]) : up'[d][i] \in Outgoing(d)
                         /\ serving'[d] \subseteq Outgoing(d)
    BY <1>1, <1>10 DEF FramesMeant
  <2>5. \A d \in Lines : \A i \in 1..Len(down'[d]) :
          down'[d][i] \in Incoming(d) \/ (down'[d][i] \in Incoming(d)')
    BY <2>2, <2>3
  <2> QED
    BY <1>2, <2>4, <2>5
<1>11. ASSUME NEW c \in Lines, NEW ask \in serving[c], ListenerAnswers(c, ask)
       PROVE  FramesMeant'
  <2>1. /\ ask \in AskFrames /\ serving'[c] = serving[c] \ {ask}
        /\ \A d \in Lines \ {c} : down'[d] = down[d] /\ serving'[d] = serving[d]
        /\ UNCHANGED << up, carry >>
    BY <1>11, ListenerAnswersIs
  <2>2. PICK frame \in AnyFrames :
          /\ down'[c] = Append(down[c], frame)
          /\ \/ taken' = taken /\ frame.kind = "NOTHING"
             \/ taken' = taken \cup {ask.about} /\ frame.id = ask.id
                /\ frame.about = ask.about
    BY <1>11, ListenerAnswersIs
  <2>3. ask \in Outgoing(c)
    BY <1>1 DEF FramesMeant
  <2>4. frame \in Incoming(c)'
    <3>1. CASE frame.kind = "NOTHING"
      BY <3>1 DEF Incoming
    <3>2. CASE taken' = taken \cup {ask.about} /\ frame.id = ask.id
               /\ frame.about = ask.about
      <4>1. WentOut(ask.about, c, ask.id)'
        BY <2>1, <2>3 DEF Outgoing, WentOut, Registered
      <4>2. frame.about \in taken' /\ WentOut(frame.about, c, frame.id)'
        BY <3>2, <4>1
      <4> QED
        BY <4>2 DEF Incoming
    <3> QED
      BY <2>2, <3>1, <3>2
  <2>5. \A d \in Lines : serving'[d] \subseteq serving[d]
    BY <2>1
  <2> QED
    BY <1>10, <2>1, <2>2, <2>4, <2>5
<1>12. ASSUME NEW c \in Lines, NEW kind \in Kinds, NEW id \in Ids, RogueFrame(c, kind, id)
       PROVE  FramesMeant'
  <2> SUFFICES ASSUME NEW frame, frame = FrameOf(kind, id, Forged)
               PROVE  FramesMeant'
    OBVIOUS
  <2>1. /\ frame \in AnyFrames /\ frame.about = Forged
        /\ down'[c] = Append(down[c], frame)
        /\ \A d \in Lines \ {c} : down'[d] = down[d]
        /\ UNCHANGED << up, serving >>
    BY <1>12, RogueFrameIs
  <2>2. frame \in Incoming(c)'
    BY <2>1 DEF Incoming
  <2> QED
    BY <1>10, <2>1, <2>2
<1> QED
  BY <1>4, <1>5, <1>6, <1>7, <1>8, <1>9, <1>11, <1>12
  DEF GoCarrierNext, CarrySteps, ReadSteps

(* What an ask gets is its own reply, or nothing the door said.            *)
LEMMA OwnKeep ==
  ASSUME GoCarrierInv, [GoCarrierNext]_goCarrierVars
  PROVE  GotItsOwn'
<1>1. /\ GotItsOwn /\ InHands /\ IdsCounted
      /\ chan \in [Asks -> AnyFrames \cup {NoFrame, Shut}]
  BY DEF GoCarrierInv, GoCarrierFields
<1>2. taken \subseteq taken'
  BY StaysOut
<1>3. ASSUME \A a \in Asks : \/ chan'[a] = chan[a]
                             \/ chan'[a] \notin AnyFrames
                             \/ /\ GotOf(chan'[a]) \in {NoAsk, Forged, a}
                                /\ GotOf(chan'[a]) = a => a \in taken,
             \A a \in Asks : \/ carry'[a].got \in {carry[a].got, NoAsk}
                             \/ chan[a] \in AnyFrames /\ carry'[a].got = GotOf(chan[a])
      PROVE  GotItsOwn'
  <2>1. ASSUME NEW a \in Asks
        PROVE  /\ chan'[a] \in AnyFrames => /\ GotOf(chan'[a]) \in {NoAsk, Forged, a}
                                            /\ GotOf(chan'[a]) = a => a \in taken'
               /\ carry'[a].got \in {NoAsk, Forged, a}
               /\ carry'[a].got = a => a \in taken'
    <3>1. a # NoAsk
      BY LineFacts
    <3>2. /\ chan[a] \in AnyFrames => /\ GotOf(chan[a]) \in {NoAsk, Forged, a}
                                      /\ GotOf(chan[a]) = a => a \in taken
          /\ carry[a].got \in {NoAsk, Forged, a}
          /\ carry[a].got = a => a \in taken
      BY <1>1 DEF GotItsOwn
    <3>3. chan'[a] \in AnyFrames => /\ GotOf(chan'[a]) \in {NoAsk, Forged, a}
                                    /\ GotOf(chan'[a]) = a => a \in taken'
      <4>1. CASE chan'[a] = chan[a]
        BY <1>2, <3>2, <4>1
      <4>2. CASE chan'[a] # chan[a]
        BY <1>2, <1>3, <4>2
      <4> QED
        BY <4>1, <4>2
    <3>4. /\ carry'[a].got \in {NoAsk, Forged, a}
          /\ carry'[a].got = a => a \in taken'
      BY <1>2, <1>3, <3>1, <3>2
    <3> QED
      BY <3>3, <3>4
  <2> QED
    BY <2>1 DEF GotItsOwn, GotOf
<1>4. ASSUME \A a \in Asks : chan'[a] = chan[a] \/ chan'[a] = Shut,
             \A a \in Asks : carry'[a].got \in {carry[a].got, NoAsk}
      PROVE  GotItsOwn'
  BY <1>3, <1>4, LineFacts
<1>5. CASE UNCHANGED goCarrierVars
  BY <1>4, <1>5 DEF goCarrierVars
<1>6. ASSUME NEW a \in Asks, \/ TakesLine(a) \/ ReachFails(a) \/ Reaches(a)
                             \/ Sends(a) \/ SendFails(a) \/ TimesOut(a) \/ Forgets(a)
      PROVE  GotItsOwn'
  <2>1. chan' = chan
    BY <1>6 DEF TakesLine, ReachFails, Reaches, Sends, SendFails, TimesOut, Forgets
  <2>2. /\ carry'[a].got \in {carry[a].got, NoAsk}
        /\ \A b \in Asks \ {a} : carry'[b] = carry[b]
    <3>1. CASE TakesLine(a) \/ Reaches(a)
      BY <3>1, TakesLineIs, ReachesIs
    <3>2. CASE ReachFails(a) \/ TimesOut(a)
      BY <3>2, CarryGoesOn DEF NowAt
    <3>3. CASE Sends(a) \/ SendFails(a) \/ Forgets(a)
      BY <3>3, SendsIs, SendFailsIs, ForgetsIs DEF NowAt
    <3> QED
      BY <1>6, <3>1, <3>2, <3>3
  <2> QED
    BY <1>4, <2>1, <2>2
<1>7. ASSUME NEW a \in Asks, Registers(a)
      PROVE  GotItsOwn'
  <2> SUFFICES ASSUME NEW c, c = carry[a].on
               PROVE  GotItsOwn'
    OBVIOUS
  <2>1. /\ carry'[a].got \in {carry[a].got, NoAsk} /\ chan' = chan
        /\ \A b \in Asks \ {a} : carry'[b] = carry[b]
    <3>1. CASE closed[c]
      BY <1>7, <3>1, RegistersIs
    <3>2. CASE ~closed[c]
      BY <1>7, <3>2, RegistersIs
    <3> QED
      BY <3>1, <3>2
  <2> QED
    BY <1>4, <2>1
<1>8. ASSUME NEW a \in Asks, CarryShuts(a)
      PROVE  GotItsOwn'
  <2> SUFFICES ASSUME NEW c, c = carry[a].on
               PROVE  GotItsOwn'
    OBVIOUS
  <2>1. /\ c \in Lines /\ Told(c) /\ carry'[a].got = NoAsk
        /\ \A b \in Asks \ {a} : carry'[b] = carry[b]
    BY <1>8, CarryShutsIs DEF NowAt
  <2> QED
    BY <1>4, <2>1 DEF Told
<1>9. ASSUME NEW a \in Asks, Receives(a)
      PROVE  GotItsOwn'
  <2>1. /\ chan' = chan \/ chan' = [chan EXCEPT ![a] = NoFrame]
        /\ chan[a] = Shut \/ chan[a] \in AnyFrames
        /\ carry'[a].got = IF chan[a] = Shut THEN NoAsk ELSE GotOf(chan[a])
        /\ \A b \in Asks \ {a} : carry'[b] = carry[b]
    BY <1>9, ReceivesIs DEF NowAt
  <2>2. \A b \in Asks : chan'[b] = chan[b] \/ chan'[b] \notin AnyFrames
    BY <1>1, <2>1, LineFacts
  <2>3. carry'[a].got = NoAsk \/ (chan[a] \in AnyFrames /\ carry'[a].got = GotOf(chan[a]))
    BY <2>1
  <2> QED
    BY <1>3, <2>1, <2>2, <2>3
<1>10. ASSUME NEW c \in Lines, HandsOver(c)
       PROVE  GotItsOwn'
  <2> SUFFICES ASSUME NEW a, a = reader[c].to, NEW frame, frame = reader[c].frame
               PROVE  GotItsOwn'
    OBVIOUS
  <2>1. /\ reader[c].at = "hold" /\ a \in Asks /\ frame \in AnyFrames
        /\ chan'[a] = frame /\ \A b \in Asks \ {a} : chan'[b] = chan[b]
        /\ carry' = carry
    BY <1>10, HandsOverIs
  <2>2. WentOut(a, c, frame.id) /\ frame \in Incoming(c)
    BY <1>1, <2>1 DEF InHands
  <2>3. GotOf(frame) \in {NoAsk, Forged, a} /\ (GotOf(frame) = a => a \in taken)
    <3>1. CASE frame.kind # "REPLY"
      BY <2>1, <3>1, LineFacts DEF GotOf
    <3>2. CASE frame.kind = "REPLY" /\ frame.about = Forged
      BY <2>1, <3>2, LineFacts DEF GotOf
    <3>3. CASE frame.kind = "REPLY" /\ frame.about # Forged
      <4>1. /\ frame.about \in taken /\ WentOut(frame.about, c, frame.id)
            /\ frame.about \in Asks
        BY <2>1, <2>2, <3>3 DEF Incoming, AnyFrames
      <4>2. frame.about = a
        BY <1>1, <2>1, <2>2, <4>1 DEF WentOut, IdsCounted
      <4> QED
        BY <3>3, <4>1, <4>2 DEF GotOf
    <3> QED
      BY <3>1, <3>2, <3>3
  <2>4. /\ GotOf(chan'[a]) \in {NoAsk, Forged, a}
        /\ GotOf(chan'[a]) = a => a \in taken
    BY <2>1, <2>3
  <2> QED
    BY <1>3, <2>1, <2>4
<1>11. ASSUME NEW c \in Lines, ReaderShuts(c)
       PROVE  GotItsOwn'
  <2>1. Told(c) /\ carry' = carry
    BY <1>11, ReaderShutsIs
  <2> QED
    BY <1>4, <2>1 DEF Told
<1>12. ASSUME NEW c \in Lines, \/ ReadsFrame(c) \/ ReaderFails(c) \/ ListenerReads(c)
                               \/ LineBreaks(c)
                               \/ \E ask : ListenerAnswers(c, ask)
                               \/ \E kind, id : RogueFrame(c, kind, id)
       PROVE  GotItsOwn'
  <2>1. UNCHANGED << chan, carry >>
    BY <1>12 DEF ReadsFrame, ReaderFails, ListenerReads, LineBreaks, ListenerAnswers,
                 RogueFrame
  <2> QED
    BY <1>4, <2>1
<1> QED
  BY <1>5, <1>6, <1>7, <1>8, <1>9, <1>10, <1>11, <1>12
  DEF GoCarrierNext, CarrySteps, ReadSteps

LEMMA FieldsKeep ==
  ASSUME GoCarrierInv, [GoCarrierNext]_goCarrierVars
  PROVE  GoCarrierFields'
<1>1. CASE UNCHANGED goCarrierVars
  BY <1>1 DEF GoCarrierInv, GoCarrierFields, goCarrierVars, dialVars, lineVars, farVars
<1>2. ASSUME NEW a \in Asks, CarrySteps(a)
      PROVE  GoCarrierFields'
  BY <1>2, TakesLineIs, CarryGoesOn, ReachesIs, RegistersIs, SendsIs, SendFailsIs,
     CarryShutsIs, ReceivesIs, ForgetsIs DEF CarrySteps
<1>3. ASSUME NEW c \in Lines, ReadSteps(c) \/ ListenerReads(c) \/ LineBreaks(c)
      PROVE  GoCarrierFields'
  BY <1>3, ReadsFrameIs, HandsOverIs, ReaderFailsIs, ReaderShutsIs, ListenerReadsIs,
     LineBreaksIs DEF ReadSteps
<1>4. ASSUME NEW c \in Lines, NEW ask \in serving[c], ListenerAnswers(c, ask)
      PROVE  GoCarrierFields'
  BY <1>4, ListenerAnswersIs
<1>5. ASSUME NEW c \in Lines, NEW kind \in Kinds, NEW id \in Ids, RogueFrame(c, kind, id)
      PROVE  GoCarrierFields'
  BY <1>5, RogueFrameIs
<1> QED
  BY <1>1, <1>2, <1>3, <1>4, <1>5 DEF GoCarrierNext

LEMMA GoCarrierInvNext ==
  ASSUME GoCarrierInv, [GoCarrierNext]_goCarrierVars
  PROVE  GoCarrierInv'
BY FieldsKeep, LockKeeps, LastKeeps, IdsKeep, MapsKeep, HandsKeep, RememberedKeeps,
   FramesKeep, OwnKeep DEF GoCarrierInv

(* The invariant of the lines holds of every behaviour: carrier.go's maps, *)
(* hands and channels stay in step.                                        *)
THEOREM GoCarrierInductive == GoCarrierSpec => []GoCarrierInv
<1>1. GoCarrierInit => GoCarrierInv
  BY GoCarrierInvInit
<1>2. GoCarrierInv /\ [GoCarrierNext]_goCarrierVars => GoCarrierInv'
  BY GoCarrierInvNext
<1> QED
  BY <1>1, <1>2, PTL DEF GoCarrierSpec

-----------------------------------------------------------------------------
(* What the invariant says of the runs' properties.                        *)

(* Whatever frames come, late, twice, forged or none, a channel of carry   *)
(* is in one map or one reader's hand and then open and empty: no reader   *)
(* panics on a closed channel, blocks on a full one or closes one twice.   *)
THEOREM OneHandEach == GoCarrierSpec => []OneHandOnEach
<1>1. ASSUME GoCarrierInv
      PROVE  OneHandOnEach
  <2> SUFFICES ASSUME NEW a \in Asks,
                      NEW maps, maps = {c \in Lines : \E w \in waiting[c] : w.ask = a},
                      NEW hands,
                      hands = {c \in Lines : reader[c].at = "hold" /\ reader[c].to = a}
               PROVE  /\ Cardinality(maps) + Cardinality(hands) <= 1
                      /\ maps \cup hands # {} => chan[a] = NoFrame
    BY DEF OneHandOnEach
  <2>1. InMaps /\ InHands
    BY <1>1 DEF GoCarrierInv
  <2>2. \A c \in maps \cup hands : c = carry[a].on
    BY <1>1, OneEach
  <2>3. ASSUME NEW c \in maps, NEW d \in hands
        PROVE  FALSE
    <3>1. c = d
      BY <2>2
    <3> QED
      BY <2>1, <3>1 DEF InHands
  <2>4. maps \cup hands # {} => chan[a] = NoFrame
    BY <2>1 DEF InMaps, InHands
  <2>5. ASSUME NEW S, \A c \in S : c = carry[a].on
        PROVE  /\ S = {} => Cardinality(S) = 0
               /\ S # {} => Cardinality(S) = 1
    <3>1. S # {} => S = {carry[a].on}
      BY <2>5
    <3> QED
      BY <3>1, FS_EmptySet, FS_Singleton
  <2>6. maps = {} \/ hands = {}
    BY <2>3
  <2>7. Cardinality(maps) + Cardinality(hands) <= 1
    <3>1. /\ maps = {} => Cardinality(maps) = 0
          /\ maps # {} => Cardinality(maps) = 1
      BY <2>2, <2>5
    <3>2. /\ hands = {} => Cardinality(hands) = 0
          /\ hands # {} => Cardinality(hands) = 1
      BY <2>2, <2>5
    <3> QED
      BY <2>6, <3>1, <3>2
  <2> QED
    BY <2>4, <2>7
<1> QED
  BY <1>1, GoCarrierInductive, PTL

(* An ask that waits with an empty channel is in its line's map or its     *)
(* frame in the reader's hand: there is always someone who will tell it;   *)
(* and shut left nobody in the map of its line, nor will anyone get in.    *)
THEOREM NobodyForgotten == GoCarrierSpec => []NoneForgotten
<1>1. ASSUME GoCarrierInv
      PROVE  NoneForgotten
  <2>1. Remembered /\ InMaps
    BY <1>1 DEF GoCarrierInv
  <2>2. ASSUME NEW a \in Asks, At(a, "wait"), chan[a] = NoFrame, NEW c, c = carry[a].on
        PROVE  \/ [id |-> carry[a].id, ask |-> a] \in waiting[c]
               \/ reader[c].at = "hold" /\ reader[c].to = a
    BY <2>1, <2>2 DEF Remembered, EntryOf, Holds
  <2>3. \A c \in Lines : closed[c] => waiting[c] = {}
    BY <2>1 DEF InMaps
  <2> QED
    BY <2>2, <2>3 DEF NoneForgotten
<1> QED
  BY <1>1, GoCarrierInductive, PTL

(* However dials, breaks and shuts of the line interleave, carry never     *)
(* leaves two lines open to one address.                                   *)
THEOREM OneLineStands == GoCarrierSpec => []OneLine
<1>1. GoCarrierInv => OneLine
  BY DEF GoCarrierInv, LastStands, OneLine
<1> QED
  BY <1>1, GoCarrierInductive, PTL

-----------------------------------------------------------------------------
(* The lines are a carrier.                                                *)

Underway == {"reach", "register", "send", "wait", "forget", "shut"}

LEMMA OutcomeIs ==
  ASSUME NEW a \in Asks
  PROVE  /\ carry[a].at = "called" => OutcomeOf(a) = "idle"
         /\ carry[a].at \in Underway => OutcomeOf(a) = "asked"
         /\ carry'[a].at \in Underway => OutcomeOf(a)' = "asked"
         /\ carry'[a].at = "done" =>
              /\ carry'[a].got = NoAsk => OutcomeOf(a)' = "nothing"
              /\ carry'[a].got = Forged => OutcomeOf(a)' = "forged"
              /\ carry'[a].got = a => OutcomeOf(a)' = "reply"
<1>1. a # NoAsk /\ a # Forged /\ NoAsk # Forged
  BY LineFacts
<1>2. ASSUME carry[a].at = "called"
      PROVE  OutcomeOf(a) = "idle"
  BY <1>2 DEF OutcomeOf, At
<1>3. ASSUME carry[a].at \in Underway
      PROVE  OutcomeOf(a) = "asked"
  <2>1. carry[a].at # "called" /\ carry[a].at # "done"
    BY <1>3 DEF Underway
  <2> QED
    BY <2>1 DEF OutcomeOf, At
<1>4. ASSUME carry'[a].at \in Underway
      PROVE  OutcomeOf(a)' = "asked"
  <2>1. carry'[a].at # "called" /\ carry'[a].at # "done"
    BY <1>4 DEF Underway
  <2> QED
    BY <2>1 DEF OutcomeOf, At
<1>5. ASSUME carry'[a].at = "done"
      PROVE  /\ carry'[a].got = NoAsk => OutcomeOf(a)' = "nothing"
             /\ carry'[a].got = Forged => OutcomeOf(a)' = "forged"
             /\ carry'[a].got = a => OutcomeOf(a)' = "reply"
  <2>1. ASSUME carry'[a].got = NoAsk
        PROVE  OutcomeOf(a)' = "nothing"
    BY <1>1, LineFacts, <1>5, <2>1 DEF OutcomeOf, At
  <2>2. ASSUME carry'[a].got = Forged
        PROVE  OutcomeOf(a)' = "forged"
    BY <1>1, LineFacts, <1>5, <2>2 DEF OutcomeOf, At
  <2>3. ASSUME carry'[a].got = a
        PROVE  OutcomeOf(a)' = "reply"
    BY <1>1, <1>5, <2>3 DEF OutcomeOf, At
  <2> QED
    BY <2>1, <2>2, <2>3
<1> QED
  BY <1>2, <1>3, <1>4, <1>5

(* A step of one ask that is under way: it goes on, or ends with what the  *)
(* carrier may end it with.                                                *)
LEMMA OneGoesOn ==
  ASSUME NEW a \in Asks, \A b \in Asks \ {a} : carry'[b] = carry[b], taken' = taken,
         carry[a].at \in Underway,
         \/ carry'[a].at \in Underway
         \/ carry'[a].at = "done" /\ carry'[a].got \in {NoAsk, Forged}
         \/ carry'[a].at = "done" /\ carry'[a].got = a /\ a \in taken
  PROVE  [Carrier!DialNext]_(Carrier!dialVars)
<1>1. \A b \in Asks \ {a} : OutcomeOf(b)' = OutcomeOf(b)
  BY DEF OutcomeOf, At
<1>2. OutcomeOf(a) = "asked"
  BY OutcomeIs
<1>3. CASE carry'[a].at \in Underway
  <2>1. \A b \in Asks : OutcomeOf(b)' = OutcomeOf(b)
    BY <1>1, <1>2, <1>3, OutcomeIs
  <2> QED
    BY <2>1 DEF Carrier!dialVars
<1>4. CASE carry'[a].at = "done" /\ carry'[a].got = NoAsk
  <2> SUFFICES ASSUME NEW some, some = {a}
               PROVE  [Carrier!DialNext]_(Carrier!dialVars)
    OBVIOUS
  <2>1. OutcomeOf(a)' = "nothing"
    BY <1>4, OutcomeIs
  <2>2. \A b \in Asks : OutcomeOf(b)' = IF b \in some THEN "nothing" ELSE OutcomeOf(b)
    BY <1>1, <2>1
  <2>3. Carrier!GiveUp(some)
    BY <1>2, <2>2 DEF Carrier!GiveUp
  <2> QED
    BY <2>3 DEF Carrier!DialNext
<1>5. CASE carry'[a].at = "done" /\ carry'[a].got = Forged
  <2>1. OutcomeOf(a)' = "forged"
    BY <1>5, OutcomeIs
  <2>2. Carrier!Forge(a)
    BY <1>1, <1>2, <2>1 DEF Carrier!Forge
  <2> QED
    BY <2>2 DEF Carrier!DialNext
<1>6. CASE carry'[a].at = "done" /\ carry'[a].got = a /\ a \in taken
  <2>1. OutcomeOf(a)' = "reply"
    BY <1>6, OutcomeIs
  <2>2. Carrier!Return(a)
    BY <1>1, <1>2, <1>6, <2>1 DEF Carrier!Return
  <2> QED
    BY <2>2 DEF Carrier!DialNext
<1> QED
  BY <1>3, <1>4, <1>5, <1>6

LEMMA CarrierSteps ==
  ASSUME GoCarrierInv, [GoCarrierNext]_goCarrierVars
  PROVE  [Carrier!DialNext]_(Carrier!dialVars)
<1>1. ASSUME UNCHANGED << carry, taken >>
      PROVE  [Carrier!DialNext]_(Carrier!dialVars)
  BY <1>1 DEF Carrier!dialVars, OutcomeOf, At
<1>2. CASE UNCHANGED goCarrierVars
  BY <1>1, <1>2 DEF goCarrierVars, farVars
<1>3. ASSUME NEW a \in Asks, TakesLine(a)
      PROVE  Carrier!DialNext
  <2>1. /\ carry[a].at = "called" /\ carry'[a].at \in Underway /\ taken' = taken
        /\ \A b \in Asks \ {a} : carry'[b] = carry[b]
    BY <1>3, TakesLineIs DEF At, Underway, farVars
  <2>2. OutcomeOf(a) = "idle" /\ OutcomeOf(a)' = "asked"
    BY <2>1, OutcomeIs
  <2>3. \A b \in Asks \ {a} : OutcomeOf(b)' = OutcomeOf(b)
    BY <2>1 DEF OutcomeOf, At
  <2>4. Carrier!Begin(a)
    BY <2>1, <2>2, <2>3 DEF Carrier!Begin
  <2> QED
    BY <2>4 DEF Carrier!DialNext
<1>4. ASSUME NEW a \in Asks, \/ ReachFails(a) \/ Reaches(a) \/ Sends(a) \/ SendFails(a)
                             \/ CarryShuts(a) \/ TimesOut(a) \/ Forgets(a)
      PROVE  [Carrier!DialNext]_(Carrier!dialVars)
  <2>1. carry[a].at \in Underway /\ taken' = taken
    BY <1>4 DEF ReachFails, Reaches, Sends, SendFails, CarryShuts, TimesOut, Forgets,
                At, Underway, farVars
  <2>2. /\ \A b \in Asks \ {a} : carry'[b] = carry[b]
        /\ \/ carry'[a].at \in Underway
           \/ carry'[a].at = "done" /\ carry'[a].got = NoAsk
    <3>1. CASE ReachFails(a) \/ TimesOut(a)
      BY <3>1, CarryGoesOn DEF NowAt, Underway
    <3>2. CASE Reaches(a)
      BY <3>2, ReachesIs DEF Underway
    <3>3. CASE Sends(a) \/ SendFails(a)
      BY <3>3, SendsIs, SendFailsIs DEF NowAt, Underway
    <3>4. CASE CarryShuts(a) \/ Forgets(a)
      BY <3>4, CarryShutsIs, ForgetsIs DEF NowAt
    <3> QED
      BY <1>4, <3>1, <3>2, <3>3, <3>4
  <2> QED
    BY <2>1, <2>2, OneGoesOn
<1>5. ASSUME NEW a \in Asks, Registers(a)
      PROVE  [Carrier!DialNext]_(Carrier!dialVars)
  <2> SUFFICES ASSUME NEW c, c = carry[a].on
               PROVE  [Carrier!DialNext]_(Carrier!dialVars)
    OBVIOUS
  <2>1. /\ carry[a].at \in Underway /\ taken' = taken
        /\ \A b \in Asks \ {a} : carry'[b] = carry[b]
    BY <1>5, RegistersIs DEF At, Underway, farVars
  <2>2. \/ carry'[a].at = "done" /\ carry'[a].got = NoAsk
        \/ carry'[a].at = "send"
    <3>1. CASE closed[c]
      BY <1>5, <3>1, RegistersIs
    <3>2. CASE ~closed[c]
      BY <1>5, <3>2, RegistersIs
    <3> QED
      BY <3>1, <3>2
  <2> QED
    BY <2>1, <2>2, OneGoesOn DEF Underway
<1>6. ASSUME NEW a \in Asks, Receives(a)
      PROVE  [Carrier!DialNext]_(Carrier!dialVars)
  <2>1. /\ carry[a].at \in Underway /\ taken' = taken
        /\ chan[a] = Shut \/ chan[a] \in AnyFrames
        /\ carry'[a].at = "done"
        /\ carry'[a].got = IF chan[a] = Shut THEN NoAsk ELSE GotOf(chan[a])
        /\ \A b \in Asks \ {a} : carry'[b] = carry[b]
    BY <1>6, ReceivesIs DEF At, Underway, farVars, NowAt
  <2>2. /\ chan[a] \in AnyFrames => /\ GotOf(chan[a]) \in {NoAsk, Forged, a}
                                    /\ GotOf(chan[a]) = a => a \in taken
    BY DEF GoCarrierInv, GotItsOwn
  <2>3. \/ carry'[a].got \in {NoAsk, Forged}
        \/ carry'[a].got = a /\ a \in taken
    BY <2>1, <2>2
  <2> QED
    BY <2>1, <2>3, OneGoesOn
<1>7. ASSUME NEW c \in Lines, ReadSteps(c) \/ ListenerReads(c) \/ LineBreaks(c)
      PROVE  [Carrier!DialNext]_(Carrier!dialVars)
  <2>1. UNCHANGED << carry, taken >>
    BY <1>7 DEF ReadSteps, ReadsFrame, HandsOver, ReaderFails, ReaderShuts,
                ListenerReads, LineBreaks, farVars
  <2> QED
    BY <1>1, <2>1
<1>8. ASSUME NEW c \in Lines, NEW ask \in serving[c], ListenerAnswers(c, ask)
      PROVE  [Carrier!DialNext]_(Carrier!dialVars)
  <2>1. carry' = carry /\ (taken' = taken \/ taken' = taken \cup {ask.about})
    BY <1>8, ListenerAnswersIs
  <2>2. CASE taken' = taken
    BY <1>1, <2>1, <2>2
  <2>3. CASE taken' # taken
    <3> SUFFICES ASSUME NEW a, a = ask.about
                 PROVE  [Carrier!DialNext]_(Carrier!dialVars)
      OBVIOUS
    <3>1. a \in Asks /\ Registered(a)
      BY <1>8 DEF GoCarrierInv, FramesMeant, Outgoing, WentOut, AskFrames
    <3>2. OutcomeOf(a) # "idle"
      <4>1. carry[a].at # "called"
        BY <3>1 DEF GoCarrierInv, IdsCounted, At
      <4>2. carry[a] \in CarryFields
        BY <3>1 DEF GoCarrierInv, GoCarrierFields
      <4>3. CASE carry[a].at = "done"
        BY <4>3 DEF OutcomeOf, At
      <4>4. CASE carry[a].at # "done"
        BY <4>1, <4>2, <4>4, <3>1, OutcomeIs DEF CarryFields, Underway
      <4> QED
        BY <4>3, <4>4
    <3>3. \A b \in Asks : OutcomeOf(b)' = OutcomeOf(b)
      BY <2>1 DEF OutcomeOf, At
    <3>4. Carrier!Take(a)
      BY <2>1, <2>3, <3>1, <3>2, <3>3 DEF Carrier!Take
    <3> QED
      BY <3>1, <3>4 DEF Carrier!DialNext
  <2> QED
    BY <2>2, <2>3
<1>9. ASSUME NEW c \in Lines, NEW kind \in Kinds, NEW id \in Ids, RogueFrame(c, kind, id)
      PROVE  [Carrier!DialNext]_(Carrier!dialVars)
  BY <1>1, <1>9 DEF RogueFrame
<1> QED
  BY <1>2, <1>3, <1>4, <1>5, <1>6, <1>7, <1>8, <1>9 DEF GoCarrierNext, CarrySteps

(* Whatever a listener sends, and however lines break, shut and are dialed *)
(* anew under the asks, each carry ends once: with the reply to its own    *)
(* ask, which the far door took before, with what was made up, or with     *)
(* nothing.  The ask is never ended with another's reply.                  *)
THEOREM GoLinesAreACarrier == GoCarrierSpec => IsACarrier
<1>1. GoCarrierInit => Carrier!DialInit
  <2> SUFFICES ASSUME GoCarrierInit PROVE Carrier!DialInit
    OBVIOUS
  <2>1. \A a \in Asks : carry[a].at = "called"
    BY DEF GoCarrierInit, Called
  <2>2. \A a \in Asks : OutcomeOf(a) = "idle"
    BY <2>1, OutcomeIs
  <2> QED
    BY <2>2 DEF GoCarrierInit, Carrier!DialInit
<1>2. GoCarrierInv /\ [GoCarrierNext]_goCarrierVars => [Carrier!DialNext]_(Carrier!dialVars)
  BY CarrierSteps
<1> QED
  BY <1>1, <1>2, GoCarrierInductive, PTL
  DEF GoCarrierSpec, IsACarrier, Carrier!DialSpec
=============================================================================
