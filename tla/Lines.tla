------------------------------- MODULE Lines -------------------------------
(***************************************************************************)
(* The two carriers that hold a connection (examples/javascript/lib):      *)
(* Quo over TCP, the dialer and listener of tcp.js, and the held line, the *)
(* LineDialer and listenLine of web.js over a WebSocket, each at one       *)
(* address.  The dialer keeps one connection per address and has many asks *)
(* under way on it, told apart by the id of their frames; a timer, a reply *)
(* and a closing connection race for each.  An ask on a line that is still *)
(* opening waits for it.  The listener may be another program than ours,   *)
(* and then it sends what frames it likes.                                 *)
(***************************************************************************)
EXTENDS Naturals, Sequences, FiniteSets

CONSTANTS
  Asks,      \* the asks dialed
  MaxConns,  \* bound: connections opened
  MaxRogue,  \* bound: frames a foreign listener sends of its own
  NoConn,    \* no entry in Dialer.conns
  Forged     \* what a rogue reply carries

ASSUME LinesAssumption ==
  /\ IsFiniteSet(Asks)
  /\ MaxConns \in Nat /\ MaxRogue \in Nat
  /\ NoConn \notin Nat
  /\ NoConn # Forged /\ {NoConn, Forged} \cap Asks = {}

Conns == 1..MaxConns
Ids == 1..Cardinality(Asks)

VARIABLES
  carrier,   \* "tcp" or "ws"
  current,   \* Dialer.conns or LineDialer.lines here: a connection or NoConn
  opened,    \* how many connections were opened
  pending,   \* c -> Conn.pending: records [id, ask]
  next,      \* c -> Conn.next
  sock,      \* c -> "none", "opening", "open", "destroyed" (for a WebSocket,
             \* closing), "aborted" (closing before it opened) or "closed"
  events,    \* c -> how many of the events that end it fired
  held,      \* c -> the frames of asks that wait on the promise LineDialer.open
  up,        \* c -> frames on their way to the listener
  down,      \* c -> frames on their way back
  dials,     \* ask -> [state, got, on, id]: the promise of Dialer.ask
  taken,     \* the asks the listener's door judged
  rogue      \* how many frames the listener made up

linesVars == << carrier, current, opened, pending, next, sock, events, held,
                up, down, dials, taken, rogue >>

Kinds == {"ASK", "REPLY", "NOTHING"}
FrameOf(kind, id, about) == [kind |-> kind, id |-> id, about |-> about]

LinesTypeOK ==
  /\ carrier \in {"tcp", "ws"}
  /\ current \in Conns \cup {NoConn}
  /\ opened \in 0..MaxConns
  /\ pending \in [Conns -> SUBSET [id : Ids, ask : Asks]]
  /\ next \in [Conns -> 1..(Cardinality(Asks) + 1)]
  /\ sock \in [Conns -> {"none", "opening", "open", "destroyed", "aborted", "closed"}]
  /\ events \in [Conns -> 0..2]
  /\ \A c \in Conns : \A i \in DOMAIN up[c] :
       up[c][i] \in [kind : {"ASK"}, id : Ids, about : Asks]
  /\ \A c \in Conns : held[c] # << >> => carrier = "ws" /\ sock[c] # "open"
  /\ \A c \in Conns : \A i \in DOMAIN down[c] :
       down[c][i] \in [kind : Kinds, id : Ids, about : Asks \cup {Forged}]
  /\ \A a \in Asks :
       /\ dials[a].state \in {"idle", "waiting", "done"}
       /\ dials[a].got \in Asks \cup {Forged, NoConn}
       /\ dials[a].state # "idle" => dials[a].on \in Conns /\ dials[a].id \in Ids
  /\ taken \subseteq Asks
  /\ rogue \in 0..MaxRogue

NoDial == [state |-> "idle", got |-> NoConn, on |-> 0, id |-> 0]

LinesInit ==
  /\ carrier \in {"tcp", "ws"}
  /\ current = NoConn
  /\ opened = 0
  /\ pending = [c \in Conns |-> {}]
  /\ next = [c \in Conns |-> 1]
  /\ sock = [c \in Conns |-> "none"]
  /\ events = [c \in Conns |-> 0]
  /\ held = [c \in Conns |-> << >>]
  /\ up = [c \in Conns |-> << >>]
  /\ down = [c \in Conns |-> << >>]
  /\ dials = [a \in Asks |-> NoDial]
  /\ taken = {}
  /\ rogue = 0

-----------------------------------------------------------------------------
(* The dialer.                                                             *)

(* conn and line: the connection at this address, or a new one.            *)
Connection == IF current = NoConn THEN opened + 1 ELSE current

NextIdByLoad(c) == Cardinality(pending[c]) + 1                 \* mutant
NextIdOfCopy(c) == next[c] - 1                                 \* mutant
NextId(c) == next[c]

Resolve(a, got) == [dials[a] EXCEPT !.state = "done", !.got = got]

(* What a socket takes before it is connected it keeps itself.             *)
Opening == IF carrier = "tcp" THEN "open" ELSE "opening"

(* ask: the id is taken, the promise is put down under it, its timer is    *)
(* set, and the frame is written once the line is open; a destroyed socket *)
(* drops what is written to it.                                            *)
DialerAsks(a) ==
  LET c == Connection
      id == NextId(c)
      frame == FrameOf("ASK", id, a)
  IN /\ dials[a] = NoDial
     /\ c \in Conns
     /\ current' = c
     /\ IF current = NoConn
          THEN opened' = c /\ sock' = [sock EXCEPT ![c] = Opening]
          ELSE UNCHANGED << opened, sock >>
     /\ next' = [next EXCEPT ![c] = @ + 1]
     /\ pending' = [pending EXCEPT ![c] = @ \cup {[id |-> id, ask |-> a]}]
     /\ dials' = [dials EXCEPT ![a] =
                    [state |-> "waiting", got |-> NoConn, on |-> c, id |-> id]]
     /\ up' = IF sock'[c] = "open" THEN [up EXCEPT ![c] = Append(@, frame)] ELSE up
     /\ held' = IF carrier = "ws" /\ sock'[c] # "open"
                  THEN [held EXCEPT ![c] = Append(@, frame)] ELSE held
     /\ UNCHANGED << carrier, events, down, taken, rogue >>

(* The line opens, and what waited for it is written, the asks given up    *)
(* meanwhile among it; or it opens as no line of Quo, and is closed.       *)
LineOpens(c) ==
  /\ sock[c] = "opening"
  /\ \/ /\ sock' = [sock EXCEPT ![c] = "open"]
        /\ up' = [up EXCEPT ![c] = @ \o held[c]]
        /\ held' = [held EXCEPT ![c] = << >>]
     \/ /\ sock' = [sock EXCEPT ![c] = "destroyed"]
        /\ UNCHANGED << held, up >>
  /\ UNCHANGED << carrier, current, opened, pending, next, events, down, dials,
                  taken, rogue >>

HeldOn(c) == {held[c][i].about : i \in DOMAIN held[c]}

(* An ask that finds its line no longer open ends with nothing.            *)
LineRefuses(c) ==
  /\ sock[c] = "destroyed"
  /\ held[c] # << >>
  /\ held' = [held EXCEPT ![c] = << >>]
  /\ pending' = [pending EXCEPT ![c] = {p \in @ : p.ask \notin HeldOn(c)}]
  /\ dials' = [a \in Asks |->
       IF a \in HeldOn(c) /\ dials[a].state = "waiting" THEN Resolve(a, NoConn)
       ELSE dials[a]]
  /\ UNCHANGED << carrier, current, opened, next, sock, events, up, down, taken,
                  rogue >>

WaitingOn(c, id) == {p \in pending[c] : p.id = id}

GotOf(frame) == IF frame.kind = "REPLY" THEN frame.about ELSE NoConn

(* One frame read by the dialer: an ASK says nothing to it, an id nobody   *)
(* waits under is dropped, and any other frame ends the dial it names.     *)
DialerReads(c) ==
  /\ sock[c] = "open"
  /\ down[c] # << >>
  /\ down' = [down EXCEPT ![c] = Tail(@)]
  /\ LET frame == Head(down[c])
         mine == IF frame.kind = "ASK" THEN {} ELSE WaitingOn(c, frame.id)
     IN /\ pending' = [pending EXCEPT ![c] = @ \ mine]
        /\ dials' = [a \in Asks |->
             IF \E p \in mine : p.ask = a THEN Resolve(a, GotOf(frame))
             ELSE dials[a]]
  /\ UNCHANGED << carrier, current, opened, next, sock, events, held, up, taken,
                  rogue >>

TimerLeavesEntry(a) ==                                         \* mutant
  /\ dials[a].state = "waiting"
  /\ dials' = [dials EXCEPT ![a] = Resolve(a, NoConn)]
  /\ UNCHANGED << carrier, current, opened, pending, next, sock, events, held, up,
                  down, taken, rogue >>

TimerOnlyForgets(a) ==                                         \* mutant
  /\ dials[a].state = "waiting"
  /\ pending' = [pending EXCEPT ![dials[a].on] =
                   @ \ WaitingOn(dials[a].on, dials[a].id)]
  /\ UNCHANGED << carrier, current, opened, next, sock, events, held, up, down,
                  dials, taken, rogue >>

(* The timer set by ask fires: it is cleared when the promise is settled.  *)
TimerFires(a) ==
  /\ dials[a].state = "waiting"
  /\ pending' = [pending EXCEPT ![dials[a].on] =
                   @ \ WaitingOn(dials[a].on, dials[a].id)]
  /\ dials' = [dials EXCEPT ![a] = Resolve(a, NoConn)]
  /\ UNCHANGED << carrier, current, opened, next, sock, events, held, up, down,
                  taken, rogue >>

(* Bytes or a message that are no frame end the connection from this side, *)
(* and so do Dialer.close and LineDialer.close.                            *)
SocketDestroyed(c) ==
  /\ sock[c] \in {"opening", "open"}
  /\ sock' = [sock EXCEPT ![c] = IF @ = "open" THEN "destroyed" ELSE "aborted"]
  /\ UNCHANGED << carrier, current, opened, pending, next, events, held, up, down,
                  dials, taken, rogue >>

CurrentAfterAnyClose(c) == NoConn                              \* mutant
CurrentAfterClose(c) == IF current = c THEN NoConn ELSE current

(* The handler of error and of close: both may fire for one socket, one    *)
(* after the other, and by the second a new connection may stand.  A line  *)
(* ends on its close alone.                                                *)
SocketCloses(c) ==
  /\ sock[c] # "none"
  /\ events[c] < (IF carrier = "tcp" THEN 2 ELSE 1)
  /\ events' = [events EXCEPT ![c] = @ + 1]
  /\ sock' = [sock EXCEPT ![c] = "closed"]
  /\ held' = [held EXCEPT ![c] = << >>]
  /\ current' = CurrentAfterClose(c)
  /\ dials' = [a \in Asks |->
       IF \E p \in pending[c] : p.ask = a THEN Resolve(a, NoConn) ELSE dials[a]]
  /\ pending' = [pending EXCEPT ![c] = {}]
  /\ UNCHANGED << carrier, opened, next, up, down, taken, rogue >>

-----------------------------------------------------------------------------
(* The listener.                                                           *)

(* An ask is handed to the ward it names; a door that has no such ward or  *)
(* throws is answered for with nothing.  What was written before the       *)
(* socket closed may still be read here.                                   *)
ListenerReads(c) ==
  /\ up[c] # << >>
  /\ up' = [up EXCEPT ![c] = Tail(@)]
  /\ LET frame == Head(up[c])
     IN \/ /\ taken' = taken \cup {frame.about}
           /\ down' = [down EXCEPT ![c] =
                         Append(@, FrameOf("REPLY", frame.id, frame.about))]
        \/ /\ down' = [down EXCEPT ![c] =
                         Append(@, FrameOf("NOTHING", frame.id, Forged))]
           /\ UNCHANGED taken
  /\ UNCHANGED << carrier, current, opened, pending, next, sock, events, held, dials,
                  rogue >>

(* A foreign listener sends a frame of any kind under any id.              *)
RogueFrame(c, kind, id) ==
  /\ sock[c] = "open"
  /\ rogue < MaxRogue
  /\ rogue' = rogue + 1
  /\ down' = [down EXCEPT ![c] = Append(@, FrameOf(kind, id, Forged))]
  /\ UNCHANGED << carrier, current, opened, pending, next, sock, events, held, up,
                  dials, taken >>

LinesNext ==
  \/ \E a \in Asks : DialerAsks(a) \/ TimerFires(a)
  \/ \E c \in Conns : \/ LineOpens(c) \/ LineRefuses(c)
                      \/ DialerReads(c) \/ ListenerReads(c)
                      \/ SocketDestroyed(c) \/ SocketCloses(c)
  \/ \E c \in Conns, kind \in Kinds, id \in Ids : RogueFrame(c, kind, id)

LinesSpec == LinesInit /\ [][LinesNext]_linesVars

(* A timer that is set fires.                                              *)
FairLinesSpec == LinesSpec /\ \A a \in Asks : WF_linesVars(TimerFires(a))

-----------------------------------------------------------------------------

(* A dial waits exactly as long as one entry of one connection's pending   *)
(* map stands for it: none is forgotten, none is left behind to be settled *)
(* by a frame meant for another.                                           *)
WaitingIsPending ==
  \A a \in Asks :
    LET places == {c \in Conns : \E p \in pending[c] : p.ask = a}
    IN IF dials[a].state = "waiting"
         THEN /\ places = {dials[a].on}
              /\ WaitingOn(dials[a].on, dials[a].id) =
                   {[id |-> dials[a].id, ask |-> a]}
         ELSE places = {}

(* The second close of an old socket leaves the connection that replaced   *)
(* it alone: at most one connection stands, it is the one asks go out on,  *)
(* and what waits on a closed one was told so.                             *)
OneConnection ==
  \A c \in Conns :
    /\ sock[c] \in {"opening", "open", "destroyed", "aborted"} => current = c
    /\ sock[c] = "closed" => pending[c] = {}

(* Every dial ends: with its reply, with nothing, or by its timer.         *)
EveryDialEnds ==
  \A a \in Asks : dials[a].state = "waiting" ~> dials[a].state = "done"

OutcomeOf(a) ==
  CASE dials[a].state = "idle" -> "idle"
    [] dials[a].state = "waiting" -> "asked"
    [] dials[a].state = "done" ->
         CASE dials[a].got = NoConn -> "nothing"
           [] dials[a].got = Forged -> "forged"
           [] dials[a].got = a -> "reply"
           [] OTHER -> "another's reply"

Carrier == INSTANCE Dial WITH outcome <- [a \in Asks |-> OutcomeOf(a)]

(* Both are carriers as Send takes one to be: whatever comes back late,    *)
(* twice or forged, no dial ends with the reply to another ask, nor with   *)
(* one to an ask the door did not take.                                    *)
IsACarrier == Carrier!DialSpec
=============================================================================
