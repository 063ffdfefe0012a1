------------------------------ MODULE Harness ------------------------------
(***************************************************************************)
(* The channel between the verifier and a stand program (class Stand of    *)
(* verifier/verify.js) and what harnessErrors says over it.  Lines go out  *)
(* one at a time; an answer is matched to its request by the id it carries *)
(* and, when it carries null, to the oldest request that wrote no id.  A   *)
(* request is given up after a while, and its answer may come later.  The  *)
(* program at the other end is examples/javascript/stand: its book, and    *)
(* the order of the checks of each op.                                     *)
(***************************************************************************)
EXTENDS Play, Sequences, FiniteSets

CONSTANTS
  MaxGivenUp,   \* bound: a program that missed more answers is mute
  MaxAfter      \* bound: so many requests are followed after a missed answer

ASSUME HarnessAssumption == MaxGivenUp \in Nat /\ MaxAfter \in Nat

VARIABLES
  waiters,      \* the requests that wait by their id
  nullWaiters,  \* the requests that wait and wrote no id, oldest first
  wire,         \* requests with the program, not yet answered
  said,         \* answers on the program's stdout, in order
  book,         \* the program: is the ward stood, is the name held?
  knows,        \* the verifier: was the ward's pk, and a box, brought back?
  matched,      \* history: << request, the request the answer it took was to >>
  givenUp,      \* history: the requests given up
  stray         \* is there a line on stdout that nothing took?

harnessVars ==
  << waiters, nullWaiters, wire, said, book, knows, matched, givenUp, stray >>

(* A request: `fields' is FALSE where one of its own is not what the op    *)
(* reads, and `want' what it has to come back with.                        *)
Request(op, fields, ward, reach, want) ==
  [op |-> op, fields |-> fields, ward |-> ward, reach |-> reach,
   want |-> want, id |-> TRUE]
Misread(op) == Request(op, FALSE, "mine", "none", "bad request")
AtNone(op, want) == Request(op, TRUE, "fake", "none", want)
Good(op, want) == Request(op, TRUE, "mine", "none", want)
Reaching(op, ward, want) == Request(op, TRUE, ward, "unknown", want)
Unnamed == [Misread("any") EXCEPT !.id = FALSE]
Some(n, request) == [i \in 1..n |-> request]

(* Where a kit serves no `ask', every ask is a bad request, and some are   *)
(* not sent; which it is, a probe tells.                                   *)
ServedElse(want) == "served: " \o want
OnlyServed(request) == [request EXCEPT !.want = "served or unsent: " \o @]

(* One request stands for each run of those misread alike.                 *)
ChannelErrors ==
  Some(4, Unnamed) \o << Good("frob", "no such op"), Misread("none") >>

WardErrors ==
  << Misread("ward"), Reaching("ward", "mine", "not reached"),
     Good("ward", "ok"), Good("ward", "ward stood"),
     Reaching("ward", "mine", "not reached"), Misread("ward"),
     Good("entropy", "no such op") >>

ArriveErrors == << AtNone("arrive", "no such ward"), Misread("arrive") >>

InviteErrors ==
  << AtNone("invite", "no such ward"), Reaching("invite", "fake", "no such ward"),
     Misread("invite"), Reaching("invite", "mine", "not reached"),
     Good("invite", "ok"), Good("invite", "name held"),
     Reaching("invite", "mine", "not reached") >>

ReleaseErrors ==
  << AtNone("release", "no such ward"), Misread("release"),
     Good("release another", "null"), Good("release", "ok"), Good("invite", "ok") >>

AskErrors ==
  << Good("ask", "ok or bad request"), AtNone("ask", ServedElse("no such ward")),
     Misread("ask"), OnlyServed(Good("ask", "ok")), Misread("ask") >>

ReadErrors ==
  << AtNone("read", ServedElse("no such ward")), Misread("read"),
     OnlyServed(Good("read", "ok")) >>

ListenErrors == << Good("listen", "ok or bad request"), Misread("listen") >>

RouteErrors ==
  << Good("route", "ok or bad request"), Misread("route"),
     OnlyServed(Misread("route")), OnlyServed(Good("route", "ok")) >>

SendErrors ==
  << AtNone("send", ServedElse("no such ward")), Misread("send"),
     AtNone("send", ServedElse("no such ward")) >>

harnessErrors ==
  ChannelErrors \o WardErrors \o ArriveErrors \o InviteErrors
  \o ReleaseErrors \o AskErrors \o ReadErrors \o ListenErrors
  \o RouteErrors \o SendErrors

HarnessInit ==
  /\ waiters = {}
  /\ nullWaiters = << >>
  /\ wire = {}
  /\ said = << >>
  /\ book = [stood |-> FALSE, named |-> FALSE]
  /\ knows = [pk |-> FALSE, serves |-> FALSE]
  /\ matched = {}
  /\ givenUp = {}
  /\ stray = FALSE

HarnessPlays ==
  scene = "harness" /\ phase = "play" /\ at <= Len(harnessErrors)
StillFollowed == \A n \in givenUp : at <= n + MaxAfter

Unsent ==
  /\ harnessErrors[at] = OnlyServed([harnessErrors[at] EXCEPT !.want =
       IF harnessErrors[at].fields THEN "ok" ELSE "bad request"])
  /\ ~knows.serves
Waits(n) == n \in waiters \/ n \in {nullWaiters[i] : i \in DOMAIN nullWaiters}

(* raw: the waiter stands before the line is written.                      *)
HarnessWrites ==
  /\ HarnessPlays
  /\ alive
  /\ ~Waits(at)
  /\ ~Unsent
  /\ StillFollowed
  /\ IF harnessErrors[at].id
       THEN waiters' = waiters \cup {at} /\ UNCHANGED nullWaiters
       ELSE nullWaiters' = Append(nullWaiters, at) /\ UNCHANGED waiters
  /\ wire' = wire \cup {at}
  /\ UNCHANGED << playVars, said, book, knows, matched, givenUp, stray >>

-----------------------------------------------------------------------------
(* The program: handle, with the checks of each op in their order.         *)

AskingOps == {"ask", "read", "listen", "route", "send"}
WardOps == {"arrive", "invite", "release", "release another", "ask", "read", "send"}
StandOps == AskingOps \cup WardOps \cup {"ward"}

(* A ward the verifier was never told of is written as one nobody stands.  *)
HeldHere(r) == r.ward = "mine" /\ book.stood /\ knows.pk

StandAnswer(r, op) ==
  IF ~r.id \/ op = "none" THEN "bad request"
  ELSE IF op \notin StandOps THEN "no such op"
  ELSE IF ~r.fields \/ (kit = "door" /\ op \in AskingOps) THEN "bad request"
  ELSE IF op \in WardOps /\ ~HeldHere(r) THEN "no such ward"
  ELSE IF r.reach = "unknown" THEN "not reached"
  ELSE IF op = "ward" /\ book.stood THEN "ward stood"
  ELSE IF op = "invite" /\ book.named THEN "name held"
  ELSE IF op = "release another" \/ (op = "release" /\ ~book.named) THEN "null"
  ELSE "ok"

BookAfter(op, body) ==
  CASE op = "ward" /\ body = "ok" -> [book EXCEPT !.stood = TRUE]
    [] op = "invite" /\ body = "ok" -> [book EXCEPT !.named = TRUE]
    [] op = "release" /\ body = "ok" -> [book EXCEPT !.named = FALSE]
    [] OTHER -> book

StandSays(n) ==
  /\ scene = "harness"
  /\ phase # "done"
  /\ alive
  /\ n \in wire
  /\ LET r == harnessErrors[n]
         body == StandAnswer(r, r.op)
     IN /\ said' = Append(said, [id |-> r.id, to |-> n, body |-> body])
        /\ book' = BookAfter(r.op, body)
  /\ wire' = wire \ {n}
  /\ UNCHANGED << playVars, waiters, nullWaiters, knows, matched, givenUp, stray >>

-----------------------------------------------------------------------------
(* onLine, and what is made of the answer (where one was missed before,    *)
(* which of the later ones fail is left out).                              *)

Wanted(want, body) ==
  CASE want = "ok or bad request" -> body \in {"ok", "bad request"}
    [] want = OnlyServed(Misread("route")).want -> body = "bad request"
    [] want = OnlyServed(Good("ask", "ok")).want -> body = "ok"
    [] want = ServedElse("no such ward") ->
         body = IF knows.serves THEN "no such ward" ELSE "bad request"
    [] OTHER -> body = want

KnowsAfter(r, body) ==
  CASE r.op = "ward" /\ body = "ok" -> [knows EXCEPT !.pk = TRUE]
    [] r.op = "ask" /\ r.want = "ok or bad request" ->
         [knows EXCEPT !.serves = (body = "ok")]
    [] OTHER -> knows

(* The request an answer is taken by, when there is one.                   *)
TakenBy(line) ==
  IF ~line.id THEN IF nullWaiters # << >> THEN {Head(nullWaiters)} ELSE {}
  ELSE {line.to} \cap waiters

HarnessHears ==
  /\ scene = "harness"
  /\ phase # "done"
  /\ said # << >>
  /\ said' = Tail(said)
  /\ LET line == Head(said)
     IN IF TakenBy(line) = {}
          THEN /\ stray' = TRUE
               /\ UNCHANGED << playVars, waiters, nullWaiters, knows, matched >>
          ELSE \E n \in TakenBy(line) :
               LET r == harnessErrors[n]
               IN /\ waiters' = waiters \ {n}
                  /\ nullWaiters' = IF line.id THEN nullWaiters ELSE Tail(nullWaiters)
                  /\ matched' = matched \cup {<< n, line.to >>}
                  /\ knows' = KnowsAfter(r, line.body)
                  /\ Goes({givenUp # {} \/ Wanted(r.want, line.body)}, 1)
                  /\ UNCHANGED stray
  /\ UNCHANGED << wire, book, givenUp >>

HarnessSkips ==
  /\ HarnessPlays
  /\ Unsent
  /\ StillFollowed
  /\ Goes({}, 1)
  /\ UNCHANGED harnessVars

NeverTakenOff(n) == nullWaiters                                \* mutant
NullWaitersBut(n) ==
  LET held == {i \in DOMAIN nullWaiters : nullWaiters[i] = n}
      i == CHOOSE i \in held : TRUE
  IN IF held = {} THEN nullWaiters
     ELSE SubSeq(nullWaiters, 1, i - 1)
          \o SubSeq(nullWaiters, i + 1, Len(nullWaiters))

(* The timer of raw: what waits is no longer waited for.                   *)
HarnessGivesUp ==
  /\ HarnessPlays
  /\ alive
  /\ Cardinality(givenUp) < MaxGivenUp
  /\ Waits(at)
  /\ failed' = failed \cup Record("given up", FALSE)
  /\ at' = at + 1
  /\ waiters' = waiters \ {at}
  /\ nullWaiters' = NullWaitersBut(at)
  /\ givenUp' = givenUp \cup {at}
  /\ late' = TRUE
  /\ UNCHANGED << scene, kit, phase, alive, wire, said, book, knows, matched, stray >>

(* To a program that exited every request fails at once, and one that      *)
(* missed more answers than the bound is mute: what is left fails alike,   *)
(* and is left out.  So is what comes later than MaxAfter.                 *)
HarnessLosesTheRest ==
  /\ HarnessPlays
  /\ \/ ~alive
     \/ ~StillFollowed
     \/ Waits(at) /\ Cardinality(givenUp) = MaxGivenUp
  /\ failed' = failed \cup Record("given up", FALSE)
  /\ phase' = "closing"
  /\ late' = (late \/ alive)
  /\ waiters' = {} /\ nullWaiters' = << >>
  /\ wire' = {} /\ said' = << >>
  /\ UNCHANGED << scene, kit, at, alive, book, knows, matched, givenUp, stray >>

HarnessEnds ==
  /\ scene = "harness"
  /\ PlayEnds(Len(harnessErrors))
  /\ UNCHANGED harnessVars

HarnessMoves ==
  HarnessWrites \/ HarnessHears \/ HarnessSkips \/ HarnessGivesUp
  \/ HarnessLosesTheRest \/ HarnessEnds

-----------------------------------------------------------------------------

(* No request takes an answer that is another's; only among those that     *)
(* wrote no id, and once one of them was given up, may a later one take    *)
(* what was said to an earlier.                                            *)
AnswerIsOwn ==
  \A m \in matched :
    \/ m[1] = m[2]
    \/ /\ m[2] < m[1]
       /\ ~harnessErrors[m[1]].id /\ ~harnessErrors[m[2]].id
       /\ \E n \in givenUp : n <= m[2]
=============================================================================
