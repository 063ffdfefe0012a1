----------------------------- MODULE GoCarrier -----------------------------
(***************************************************************************)
(* The Go kit's lines (examples/go/carrier.go): one tcp line to an address *)
(* on which many asks are under way.  Each ask is a goroutine              *)
(* in carry, each line has a reading goroutine, and the listener answers   *)
(* each ask in a goroutine of its own.  An action is what one goroutine    *)
(* does from one lock, channel or socket to the next: Kit.dmu is held      *)
(* while a line is dialed, dialed.mu for one action at a time.             *)
(***************************************************************************)
EXTENDS Naturals, Sequences, FiniteSets

CONSTANTS
  Asks,      \* the asks carried
  MaxLines,  \* bound: lines dialed
  MaxRogue,  \* bound: frames a foreign listener sends of its own
  Room,      \* asks the sockets of a line hold before a write waits
  NoLine,    \* no line at this address in Kit.dials
  NoAsk,     \* nobody, where an ask may stand
  NoFrame,   \* an empty channel, or an empty hand
  Shut,      \* a closed channel
  Forged     \* what a foreign listener's reply carries

Lines == 1..MaxLines
Ids == 1..Cardinality(Asks)
Kinds == {"ASK", "REPLY", "NOTHING"}

ASSUME GoCarrierAssumption ==
  /\ IsFiniteSet(Asks)
  /\ MaxLines \in Nat /\ MaxRogue \in Nat /\ Room \in Nat
  /\ NoLine \notin Nat
  /\ NoAsk # Forged /\ {NoAsk, Forged} \cap Asks = {}
  /\ NoFrame # Shut
  /\ \A none \in {NoFrame, Shut} :
       none \notin [kind : Kinds, id : Nat, about : Asks \cup {Forged}]

FrameOf(kind, id, about) == [kind |-> kind, id |-> id, about |-> about]

VARIABLES
  stands,    \* Kit.dials at this address: a line or NoLine
  dmu,       \* who holds Kit.dmu, or NoAsk
  opened,    \* how many lines were dialed
  conn,      \* line -> its socket: "none", "open", "broken" or "closed"
  closed,    \* line -> dialed.closed
  nextID,    \* line -> dialed.nextID
  waiting,   \* line -> dialed.waiting: records [id, ask]
  reader,    \* line -> [at, to, frame]: the goroutine of dialed.read
  chan,      \* ask -> its channel: NoFrame, Shut or the frame in it
  carry,     \* ask -> [at, on, id, got]: the goroutine of carry
  up, down,  \* line -> frames on their way to the listener and back
  serving,   \* line -> asks the listener's goroutines answer
  taken,     \* the asks the listener's door judged
  rogue      \* how many frames the listener made up

dialVars == << stands, dmu, opened >>
lineVars == << conn, closed, nextID, waiting, reader >>
farVars == << up, down, serving, taken, rogue >>
goCarrierVars == << dialVars, lineVars, chan, carry, farVars >>

NotReading == [at |-> "none", to |-> NoAsk, frame |-> NoFrame]
Reading == [at |-> "read", to |-> NoAsk, frame |-> NoFrame]
Called == [at |-> "called", on |-> NoLine, id |-> 0, got |-> NoAsk]

GoCarrierInit ==
  /\ stands = NoLine
  /\ dmu = NoAsk
  /\ opened = 0
  /\ conn = [c \in Lines |-> "none"]
  /\ closed = [c \in Lines |-> FALSE]
  /\ nextID = [c \in Lines |-> 0]
  /\ waiting = [c \in Lines |-> {}]
  /\ reader = [c \in Lines |-> NotReading]
  /\ chan = [a \in Asks |-> NoFrame]
  /\ carry = [a \in Asks |-> Called]
  /\ up = [c \in Lines |-> << >>]
  /\ down = [c \in Lines |-> << >>]
  /\ serving = [c \in Lines |-> {}]
  /\ taken = {}
  /\ rogue = 0

-----------------------------------------------------------------------------
(* carry, one ask's goroutine.                                             *)

At(a, stage) == carry[a].at = stage
Goes(a, stage) == carry' = [carry EXCEPT ![a].at = stage]
Ends(a, got) == carry' = [carry EXCEPT ![a].at = "done", ![a].got = got]

StandsNever == FALSE                                           \* mutant
(* A line stands that was not shut.                                        *)
Stands == stands # NoLine /\ ~closed[stands]

(* line: under dmu the line that stands is taken, or one is dialed.        *)
TakesLine(a) ==
  /\ At(a, "called")
  /\ dmu = NoAsk
  /\ IF Stands
       THEN /\ carry' = [carry EXCEPT ![a].at = "register", ![a].on = stands]
            /\ UNCHANGED dmu
       ELSE /\ dmu' = a
            /\ Goes(a, "reach")
  /\ UNCHANGED << stands, opened, lineVars, chan, farVars >>

FailsHoldingLock(a) ==                                         \* mutant
  /\ At(a, "reach")
  /\ Ends(a, NoAsk)
  /\ UNCHANGED << dialVars, lineVars, chan, farVars >>

(* No connection, no TLS or no held line: the ask is not carried.          *)
ReachFails(a) ==
  /\ At(a, "reach")
  /\ dmu' = NoAsk
  /\ Ends(a, NoAsk)
  /\ UNCHANGED << stands, opened, lineVars, chan, farVars >>

Reaches(a) ==
  /\ At(a, "reach")
  /\ opened < MaxLines
  /\ LET c == opened + 1
     IN /\ opened' = c
        /\ stands' = c
        /\ conn' = [conn EXCEPT ![c] = "open"]
        /\ reader' = [reader EXCEPT ![c] = Reading]
        /\ carry' = [carry EXCEPT ![a].at = "register", ![a].on = c]
  /\ dmu' = NoAsk
  /\ UNCHANGED << closed, nextID, waiting, chan, farVars >>

NextIDByLoad(c) == Cardinality(waiting[c]) + 1                 \* mutant
NextID(c) == nextID[c] + 1

IsShutNever(c) == FALSE                                        \* mutant
IsShut(c) == closed[c]

(* The line may have been shut since it was taken.                         *)
Registers(a) ==
  LET c == carry[a].on
      id == NextID(c)
  IN /\ At(a, "register")
     /\ IF IsShut(c)
          THEN /\ Ends(a, NoAsk)
               /\ UNCHANGED << nextID, waiting >>
          ELSE /\ nextID' = [nextID EXCEPT ![c] = id]
               /\ waiting' = [waiting EXCEPT ![c] =
                  {w \in @ : w.id # id} \cup {[id |-> id, ask |-> a]}]
               /\ carry' = [carry EXCEPT ![a].at = "send", ![a].id = id]
     /\ UNCHANGED << dialVars, conn, closed, reader, chan, farVars >>

(* A write waits, without a deadline, while the sockets hold what the      *)
(* listener has not read.  To a broken socket it may be lost or fail.      *)
Sends(a) ==
  LET c == carry[a].on
  IN /\ At(a, "send")
     /\ conn[c] # "closed"
     /\ \/ /\ Len(up[c]) < Room
           /\ up' = [up EXCEPT ![c] = Append(@, FrameOf("ASK", carry[a].id, a))]
        \/ conn[c] = "broken" /\ UNCHANGED up
     /\ Goes(a, "wait")
     /\ UNCHANGED << dialVars, lineVars, chan, down, serving, taken, rogue >>

SendFails(a) ==
  /\ At(a, "send")
  /\ conn[carry[a].on] \in {"broken", "closed"}
  /\ conn' = [conn EXCEPT ![carry[a].on] = "closed"]
  /\ Goes(a, "shut")
  /\ UNCHANGED << dialVars, closed, nextID, waiting, reader, chan, farVars >>

(* The locked part of shut: every ask that waits on the line is told.      *)
TellsAll(c) ==
  /\ closed' = [closed EXCEPT ![c] = TRUE]
  /\ chan' = [a \in Asks |->
       IF \E w \in waiting[c] : w.ask = a THEN Shut ELSE chan[a]]
  /\ waiting' = [waiting EXCEPT ![c] = {}]

CarryShuts(a) ==
  /\ At(a, "shut")
  /\ TellsAll(carry[a].on)
  /\ Ends(a, NoAsk)
  /\ UNCHANGED << dialVars, conn, nextID, reader, farVars >>

GotOf(frame) == IF frame.kind = "REPLY" THEN frame.about ELSE NoAsk

Receives(a) ==
  /\ At(a, "wait")
  /\ chan[a] # NoFrame
  /\ chan' = IF chan[a] = Shut THEN chan ELSE [chan EXCEPT ![a] = NoFrame]
  /\ Ends(a, IF chan[a] = Shut THEN NoAsk ELSE GotOf(chan[a]))
  /\ UNCHANGED << dialVars, lineVars, farVars >>

(* The timer fires; with a frame come as well, select takes either.        *)
TimesOut(a) ==
  /\ At(a, "wait")
  /\ Goes(a, "forget")
  /\ UNCHANGED << dialVars, lineVars, chan, farVars >>

Forgets(a) ==
  /\ At(a, "forget")
  /\ waiting' = [waiting EXCEPT ![carry[a].on] =
                   {w \in @ : w.id # carry[a].id}]
  /\ Ends(a, NoAsk)
  /\ UNCHANGED << dialVars, conn, closed, nextID, reader, chan, farVars >>

-----------------------------------------------------------------------------
(* read, one line's goroutine.                                             *)

StillWaiting(c, found) == waiting[c]                           \* mutant
WaitingAfter(c, found) == waiting[c] \ found

(* A frame is read and its waiter taken out under the lock: the channel is *)
(* in the reader's hand, and in nobody's map.                              *)
ReadsFrame(c) ==
  /\ reader[c].at = "read"
  /\ conn[c] \in {"open", "broken"}
  /\ down[c] # << >>
  /\ down' = [down EXCEPT ![c] = Tail(@)]
  /\ LET frame == Head(down[c])
         found == IF frame.kind = "ASK" THEN {}
                  ELSE {w \in waiting[c] : w.id = frame.id}
     IN /\ waiting' = [waiting EXCEPT ![c] = WaitingAfter(c, found)]
        /\ reader' = [reader EXCEPT ![c] =
             IF found = {} THEN Reading
             ELSE [at |-> "hold", to |-> (CHOOSE w \in found : TRUE).ask,
                   frame |-> frame]]
  /\ UNCHANGED << dialVars, conn, closed, nextID, chan, carry,
                  up, serving, taken, rogue >>

(* ch <- f: the channel has room for one frame, and no room when it is     *)
(* closed: sending on it then would be a panic.                            *)
HandsOver(c) ==
  /\ reader[c].at = "hold"
  /\ chan[reader[c].to] = NoFrame
  /\ chan' = [chan EXCEPT ![reader[c].to] = reader[c].frame]
  /\ reader' = [reader EXCEPT ![c] = Reading]
  /\ UNCHANGED << dialVars, conn, closed, nextID, waiting, carry, farVars >>

ReaderFails(c) ==
  /\ reader[c].at = "read"
  /\ conn[c] \in {"broken", "closed"}
  /\ conn' = [conn EXCEPT ![c] = "closed"]
  /\ reader' = [reader EXCEPT ![c].at = "shut"]
  /\ UNCHANGED << dialVars, closed, nextID, waiting, chan, carry, farVars >>

ReaderShuts(c) ==
  /\ reader[c].at = "shut"
  /\ TellsAll(c)
  /\ reader' = [reader EXCEPT ![c] = [NotReading EXCEPT !.at = "done"]]
  /\ UNCHANGED << dialVars, conn, nextID, carry, farVars >>

-----------------------------------------------------------------------------
(* The far end, and the wire between.                                      *)

(* serveFrames: each ask is answered in a goroutine of its own, so answers *)
(* go back in any order.                                                   *)
ListenerReads(c) ==
  /\ up[c] # << >>
  /\ up' = [up EXCEPT ![c] = Tail(@)]
  /\ serving' = [serving EXCEPT ![c] = @ \cup {Head(up[c])}]
  /\ UNCHANGED << dialVars, lineVars, chan, carry, down, taken, rogue >>

ListenerAnswers(c, ask) ==
  /\ serving' = [serving EXCEPT ![c] = @ \ {ask}]
  /\ \/ /\ taken' = taken \cup {ask.about}
        /\ down' = [down EXCEPT ![c] =
                      Append(@, FrameOf("REPLY", ask.id, ask.about))]
     \/ /\ down' = [down EXCEPT ![c] =
                      Append(@, FrameOf("NOTHING", ask.id, Forged))]
        /\ UNCHANGED taken
  /\ UNCHANGED << dialVars, lineVars, chan, carry, up, rogue >>

(* A foreign listener sends a frame of any kind under any id.              *)
RogueFrame(c, kind, id) ==
  /\ conn[c] = "open"
  /\ rogue < MaxRogue
  /\ rogue' = rogue + 1
  /\ down' = [down EXCEPT ![c] = Append(@, FrameOf(kind, id, Forged))]
  /\ UNCHANGED << dialVars, lineVars, chan, carry, up, serving, taken >>

(* The far end hangs up, or sends what is no frame.                        *)
LineBreaks(c) ==
  /\ conn[c] = "open"
  /\ conn' = [conn EXCEPT ![c] = "broken"]
  /\ UNCHANGED << dialVars, closed, nextID, waiting, reader, chan, carry,
                  farVars >>

-----------------------------------------------------------------------------

CarrySteps(a) ==
  \/ TakesLine(a) \/ ReachFails(a) \/ Reaches(a) \/ Registers(a) \/ Sends(a)
  \/ SendFails(a) \/ CarryShuts(a) \/ Receives(a) \/ TimesOut(a) \/ Forgets(a)

ReadSteps(c) ==
  ReadsFrame(c) \/ HandsOver(c) \/ ReaderFails(c) \/ ReaderShuts(c)

GoCarrierNext ==
  \/ \E a \in Asks : CarrySteps(a)
  \/ \E c \in Lines : \/ ReadSteps(c) \/ ListenerReads(c) \/ LineBreaks(c)
                      \/ \E ask \in serving[c] : ListenerAnswers(c, ask)
  \/ \E c \in Lines, kind \in Kinds, id \in Ids : RogueFrame(c, kind, id)

GoCarrierSpec == GoCarrierInit /\ [][GoCarrierNext]_goCarrierVars

(* Goroutines run: what is not waiting for a frame, or for room, goes on;  *)
(* a dial ends within dialWait and an ask's wait within sendWait.          *)
FairGoCarrierSpec ==
  /\ GoCarrierSpec
  /\ \A a \in Asks : WF_goCarrierVars(CarrySteps(a))
  /\ \A c \in Lines : WF_goCarrierVars(ReadSteps(c))

(* And the listener reads on, as serveFrames does: it answers each ask in  *)
(* another goroutine than the one that reads.  Whether it answers is open. *)
AttendedSpec ==
  /\ FairGoCarrierSpec
  /\ \A c \in Lines : WF_goCarrierVars(ListenerReads(c))

-----------------------------------------------------------------------------

(* One hand on each channel: it is in one map or in one reader's hand, and *)
(* then open and empty, so no reader ever sends on a closed channel, blocks *)
(* on a full one, or closes one a second time.                             *)
OneHandOnEach ==
  \A a \in Asks :
    LET maps == {c \in Lines : \E w \in waiting[c] : w.ask = a}
        hands == {c \in Lines : reader[c].at = "hold" /\ reader[c].to = a}
    IN /\ Cardinality(maps) + Cardinality(hands) <= 1
       /\ maps \cup hands # {} => chan[a] = NoFrame

(* No ask waits for what cannot come: while its channel is empty, its line *)
(* has it in the map, under its id, or its frame is in the reader's hand;  *)
(* and a line once shut has nobody in its map.                             *)
NoneForgotten ==
  /\ \A a \in Asks : At(a, "wait") /\ chan[a] = NoFrame =>
       LET c == carry[a].on
       IN \/ [id |-> carry[a].id, ask |-> a] \in waiting[c]
          \/ reader[c].at = "hold" /\ reader[c].to = a
  /\ \A c \in Lines : closed[c] => waiting[c] = {}

(* At most one line to an address is not shut, and asks are sent on it.    *)
OneLine ==
  \A c \in Lines : conn[c] # "none" /\ ~closed[c] => stands = c

(* Every ask ends, as ANSWERS.md:100 says, though all may queue for one    *)
(* dial's lock, or for room to write.                                      *)
EveryCarryEnds == \A a \in Asks : <>At(a, "done")

OutcomeOf(a) ==
  CASE At(a, "called") -> "idle"
    [] At(a, "done") /\ carry[a].got = NoAsk -> "nothing"
    [] At(a, "done") /\ carry[a].got = Forged -> "forged"
    [] At(a, "done") /\ carry[a].got = a -> "reply"
    [] At(a, "done") /\ carry[a].got \in Asks \ {a} -> "another's reply"
    [] OTHER -> "asked"

Carrier == INSTANCE Dial WITH outcome <- [a \in Asks |-> OutcomeOf(a)]

(* The Go kit's lines are a carrier as GoSend takes one to be: whatever    *)
(* comes late, twice, forged or out of order, no ask ends with the reply   *)
(* to another, nor with one to an ask the door did not take.               *)
IsACarrier == Carrier!DialSpec
=============================================================================
