------------------------------ MODULE AskerRun ------------------------------
(***************************************************************************)
(* The kit as an asker (class AskerRun of verifier/verify.js, with class   *)
(* Dial of verifier/carried.js where a carrier brings the boxes).  The     *)
(* verifier mints an invitation, takes each box the kit seals apart as its *)
(* door would, and writes the reply its list names next; from the boxes    *)
(* and its own replies it follows the keys the kit has to stand on.        *)
(***************************************************************************)
EXTENDS Standing, Play

(* The kit asks along these relations, and for each of them the verifier    *)
(* mints an invitation of its own.                                         *)
Players == {"r1", "r2", "r3", "r4", "r5", "r6"}

ASSUME AskerAssumption ==
  /\ Players \subseteq Parties
  /\ \A p, q \in Players : Invitation[p] = Invitation[q] => p = q

VARIABLES
  mints,    \* party -> the relation as mint and reply keep it
  taken     \* party -> its last box, taken apart

askerVars == << mints, taken >>

(* ask and reply, in turn, through the replies named, then one ask more.   *)
relation(p, names) ==
  LET replies == Append(names, "silence")
      total == 2 * Len(replies)
  IN [k \in 1..total |->
        [op |-> IF k % 2 = 1 THEN "asks" ELSE "replies", who |-> p,
         name |-> replies[(k + 1) \div 2], left |-> total - k]]

(* Each reply that brings no object, by what a kit can tell of it, with an *)
(* object after each.                                                      *)
still ==
  << "silence", "silence", "removed", "unannounced", "repeated", "nothing",
     "unread", "another lid" >> \o [i \in 1..20 |-> "unread"]

long ==
  << "silence", "object" >>
  \o [k \in 1..(2 * Len(still)) |->
        IF k % 2 = 1 THEN still[(k + 1) \div 2] ELSE "object"]
  \o << "object" >>

(* Two relations in rounds: a asks, b asks, b is answered, a is answered.  *)
interleaved(a, b) ==
  LET rounds == << << "object", "object" >>, << "silence", "object" >>,
                   << "object", "nothing" >>, << "object", "object" >> >>
      total == 4 * Len(rounds)
  IN [k \in 1..total |->
        LET turn == (k - 1) % 4
        IN [op |-> IF turn < 2 THEN "asks" ELSE "replies",
            who |-> IF turn \in {0, 3} THEN a ELSE b,
            name |-> rounds[(k + 3) \div 4][IF turn = 2 THEN 2 ELSE 1],
            left |-> total - k]]

theAsker ==
  relation("r1", long)
  \o relation("r2", << "object", "nothing", "object", "silence" >>)
  \o relation("r3", << "nothing", "nothing", "object", "removed", "object" >>)
  \o relation("r4", << "unread", "repeated", "object", "unread", "object" >>)
  \o interleaved("r5", "r6")

(* Over a carrier the kit is told a route first.  What only a carrier can  *)
(* give comes among the replies, and after the last relation, which goes   *)
(* by a second route, the verifier counts what reached the first address.  *)
Routes(to) == [op |-> "routes", to |-> to]
Counts == [op |-> "counts"]

dialer(posts) ==
  << Routes("first") >>
  \o relation("r1", << "object", "nothing", "silence", "object", "closed",
                       "no answer", "object", "unread", "another lid", "object",
                       "repeated", "object" >>
                    \o IF posts THEN << "status", "object", "status", "status",
                                        "object" >> ELSE << >>)
  \o relation("r2", << "nothing", "object", "removed", "object" >>)
  \o relation("r3", << "closed", "object", "unread", "object" >>)
  \o relation("r4", << "no answer", "object" >>)
  \o (IF posts THEN relation("r5", << "status", "object" >>) ELSE << >>)
  \o << Routes("second") >> \o relation("r6", << "object" >>) \o << Counts >>

(* First with no route, through the addresses of the invitation.           *)
theInvitationAt ==
  << Routes("first") >> \o relation("r1", << "object", "nothing", "object" >>)
  \o << Routes("first") >> \o relation("r2", << "object", "object" >>)

Lists ==
  [asker |-> theAsker, dialer |-> dialer(FALSE), posts |-> dialer(TRUE),
   through |-> theInvitationAt]

-----------------------------------------------------------------------------

NotTaken ==
  [knock |-> FALSE, edge |-> ZERO32, by |-> NoKey, announced |-> NoKey,
   seq |-> 0, lid |-> NoCt, box |-> NoCt]
NoFrom == [key |-> NoKey, edge |-> ZERO32]

Minted ==
  [state |-> "fresh", knock |-> NotTaken, key |-> NoKey, edge |-> ZERO32,
   movedAt |-> 0, from |-> NoFrom, back |-> FALSE]

AskerInit ==
  /\ mints = [p \in Parties |-> Minted]
  /\ taken = [p \in Parties |-> NotTaken]

Turn == Lists[scene][at]
AskerPlays(op) == /\ scene \in DOMAIN Lists /\ phase = "play" /\ alive
                  /\ at <= Len(Lists[scene]) /\ Lists[scene][at].op = op

WaysByTheLastMove(p, box) ==                                   \* mutant
  LET r == mints[p]
  IN IF r.state = "fresh"
       THEN {[knock |-> TRUE, by |-> Invitation[p], edge |-> KnockEdge(ct)] :
               ct \in {box.ct} \ {NoCt}}
       ELSE {[knock |-> FALSE, by |-> r.key, edge |-> r.edge]}

(* openKitBox: under which keys the body may open, and whose key `by' is   *)
(* then.  After a reply that moved nothing an ask may go back to the keys  *)
(* the last move was asked under.                                          *)
Ways(p, box) ==
  LET r == mints[p]
      asked(key, edge) == [knock |-> FALSE, by |-> key, edge |-> edge]
  IN IF r.state = "fresh"
       THEN {[knock |-> TRUE, by |-> Invitation[p], edge |-> KnockEdge(ct)] :
               ct \in {box.ct} \ {NoCt}}
            \cup {asked(key, r.knock.edge) : key \in {r.knock.announced} \ {NoKey}}
       ELSE {asked(r.key, r.edge)}
            \cup {asked(key, r.from.edge) :
                    key \in {k \in {r.from.key} : r.back /\ k # NoKey}}

Opening(p, box) ==
  {w \in Ways(p, box) : /\ box.head = Invitation[p]
                        /\ w.knock = (box.ct # NoCt)
                        /\ w.edge = box.edge}

AnnouncedIn(p, box) ==
  IF box.next \in {Invitation[p], box.by} THEN NoKey ELSE box.next

(* A box is the one asked for, or the knock of before, byte for byte.      *)
AsAsked(p, sent) == Resends(p) => sent.box = mints[p].knock.box

ToTheEnd == Len(Lists[scene]) + 1 - at

(* The steps left out where a relation is given up.  (bound: at the second *)
(* that goes wrong with a living kit the whole scenario is.)               *)
Left == IF late /\ alive THEN ToTheEnd ELSE 1 + Turn.left

(* A kit that seals nothing at the first ask is judged as a door alone.    *)
AskerIsRefused ==
  /\ AskerPlays("asks")
  /\ scene = "asker" /\ kit = "door"
  /\ Goes({}, ToTheEnd)
  /\ UNCHANGED << st, askerVars >>

(* Lost: the relation is given up, and the scenario goes on after it.      *)
TakesApart(p, sent) ==
  LET opens == Opening(p, sent.box)
  IN IF \A w \in opens : w.by # sent.box.by
       THEN Goes({FALSE}, Left) /\ UNCHANGED taken
       ELSE LET w == CHOOSE w \in opens : TRUE
            IN /\ Goes({AsAsked(p, sent)}, 1)
               /\ taken' = [taken EXCEPT ![p] =
                    [knock |-> w.knock, edge |-> w.edge, by |-> w.by,
                     announced |-> AnnouncedIn(p, sent.box),
                     seq |-> sent.box.seq, lid |-> sent.lid, box |-> sent.box]]

AskerAsks ==
  /\ AskerPlays("asks")
  /\ scene = "asker"
  /\ kit # "door"
  /\ StandingAsk(Turn.who, FALSE)
  /\ TakesApart(Turn.who, NextSent(Turn.who, FALSE))
  /\ UNCHANGED mints

(* writeReply, and what the kit has to read it as.                         *)
NoReply == {"nothing", "closed", "no answer", "status"}
ReplyWritten(t, name) ==
  CASE name \in NoReply -> Nothing
    [] name = "unread" -> Garbled
    [] name = "another lid" ->
         [lid |-> NoCt, agreement |-> t.seq, text |-> "object"]
    [] OTHER -> [lid |-> t.lid, agreement |-> t.seq, text |-> name]

ReadAs(name) ==
  CASE name \in {"unread", "another lid"} -> "silence"
    [] name \in NoReply -> "nothing"
    [] OTHER -> name

(* A knock that announces nothing is written no object.                    *)
Named(t, name) ==
  IF t.knock /\ t.announced = NoKey THEN "unannounced" ELSE name

MovesOnAWord(r, t, name) ==                                    \* mutant
  ReadAs(name) \in {"object", "repeated"} /\ t.seq > r.movedAt

(* The standing moves when an object comes back to a number above every    *)
(* one it has moved on, and on nothing else.                               *)
MovesBooks(r, t, name) == ReadAs(name) = "object" /\ t.seq > r.movedAt

Followed(r, t, name) ==
  IF MovesBooks(r, t, name)
    THEN [r EXCEPT !.state = "spent", !.back = FALSE, !.movedAt = t.seq,
            !.from = IF t.knock THEN NoFrom ELSE [key |-> t.by, edge |-> t.edge],
            !.key = IF t.announced = NoKey THEN t.by ELSE t.announced,
            !.edge = Follow(t.edge, t.seq)]
    ELSE [r EXCEPT !.back = TRUE,
            !.knock = IF t.knock /\ ReadAs(name) # "object" THEN t ELSE @]

(* The reply is read; or the kit, with the reply on its way over a carrier *)
(* still, stopped waiting and read nothing.                                *)
AskerReplies(timed) ==
  /\ AskerPlays("replies")
  /\ timed => scene # "asker" /\ ~late    \* bound: it stops too early once
  /\ LET p == Turn.who
         t == taken[p]
         name == Named(t, Turn.name)
         reply == IF timed THEN Nothing ELSE ReplyWritten(t, name)
         reads == ReadKind(st[p].last, reply) = ReadAs(name)
     IN /\ StandingRead(p, reply)
        /\ GoesLate({reads}, 1, timed /\ ~reads)
        /\ mints' = [mints EXCEPT ![p] = Followed(@, t, name)]
  /\ UNCHANGED taken

(* And one that takes no route with no dialer.                             *)
AskerRoutes ==
  /\ AskerPlays("routes")
  /\ Goes({}, IF kit = "door" THEN ToTheEnd ELSE 1)
  /\ UNCHANGED << st, askerVars >>

(* A stand that exited, or that answers nothing in time.                   *)
AskerGivesUp ==
  /\ scene \in DOMAIN Lists
  /\ phase = "play"
  /\ at <= Len(Lists[scene])
  /\ Turn.op # "counts"
  /\ scene = "asker" \/ Turn.op # "asks"
  /\ Breaks({"given up"})
  /\ UNCHANGED << st, askerVars >>

AskerEnds ==
  /\ scene \in DOMAIN Lists
  /\ PlayEnds(Len(Lists[scene]))
  /\ UNCHANGED << st, askerVars >>

AskerMoves ==
  AskerIsRefused \/ AskerAsks \/ (\E timed \in BOOLEAN : AskerReplies(timed))
  \/ AskerRoutes \/ AskerGivesUp \/ AskerEnds

-----------------------------------------------------------------------------

(* The keys the verifier follows from its side are the keys the kit stands *)
(* on: where an object moved the relation, and before that where the knock *)
(* announced a key, whatever replies came between.  And what it replies to *)
(* is what the kit sealed last on the relation, however late another ask   *)
(* of the kit came.                                                        *)
TracksTheStanding ==
  scene \in DOMAIN Lists /\ phase = "play" =>
    /\ ~late => \A p \in Parties :
         LET s == st[p]
             r == mints[p]
         IN IF r.state = "spent"
              THEN << s.signer, s.edge, s.moved >> = << r.key, r.edge, r.movedAt >>
              ELSE /\ s.moved = 0
                   /\ r.knock # NotTaken =>
                        << s.signer, s.edge >> = << r.knock.announced, r.knock.edge >>
    /\ at <= Len(Lists[scene]) /\ Turn.op = "replies" =>
         taken[Turn.who].box = st[Turn.who].last.box
=============================================================================
