----------------------------- MODULE Scenarios -----------------------------
(***************************************************************************)
(* What the verifier plays at a kit's door, as data: the scenarios of      *)
(* verifier/verify.js and the relation verifier/carried.js carries over a  *)
(* line, step by step.  A step names its keys by what they are to the      *)
(* relation when it is played; what a payload spells out is left to the    *)
(* one thing a door makes of it, its fault.                                *)
(***************************************************************************)
EXTENDS Boxes
LOCAL INSTANCE SequencesExt

(* An heir is a number, 0 the zero head.  `signer' is H, V, the heir or a  *)
(* key by its name; `under' is O, F, the knock's E, the zero key, or one   *)
(* that opens nothing; `next' is null, the signer itself, the heir or a    *)
(* key by its name.  `reads' is what the kit may do with the args, `lid'   *)
(* whether the verifier can open the reply, `skips' how many steps hang on *)
(* an object coming back.                                                  *)
Step ==
  [op |-> "ask", heir |-> 1, ct |-> "none", signer |-> "H", under |-> "O",
   next |-> "null", seq |-> 1, fault |-> "none", reads |-> {TRUE},
   lid |-> TRUE, want |-> "answer", binds |-> FALSE, skips |-> 0]

Ask(h, signer, under, next, seq, want) ==
  [Step EXCEPT !.heir = h, !.signer = signer, !.under = under, !.next = next,
               !.seq = seq, !.want = want]
Knock(h, next, seq, want) ==
  [Ask(h, "heir", "E", next, seq, want) EXCEPT !.ct = "ct"]
Bind(h, next, seq) == [Knock(h, next, seq, "answer") EXCEPT !.binds = TRUE]
Faulty(step, fault) == [step EXCEPT !.fault = fault, !.want = "stranger"]
Chosen(step) == [step EXCEPT !.reads = BOOLEAN, !.want = "chosen"]
Zero(want) == Ask(0, "new", "zero", "null", 1, want)

Give(h, reach) == [op |-> "invite", heir |-> h, reach |-> reach]
Invited(h) == Give(h, "answers")
LetGo(h, wants) == [op |-> "release", heir |-> h, wants |-> wants]
Holds(h, key) == [op |-> "model", heir |-> h, key |-> key]
Together(one, two, other, skips) ==
  [op |-> "together", heir |-> one.heir, pair |-> << one, two >>,
   other |-> other, skips |-> skips]

Times(n, x) == [i \in 1..n |-> x]

-----------------------------------------------------------------------------

wardsAndInvitations ==
  << Invited(1), Invited(2), LetGo(1, TRUE), LetGo(1, FALSE), LetGo(4, FALSE),
     Invited(3), Bind(3, "K1", 1), Ask(3, "H", "O", "null", 2, "answer") >>

(* Each row of the spent-heir table, on an heir of its own: K1 held and K2 *)
(* vouched for before the row's ask.                                       *)
Row(h, signer, next, under, after) ==
  << Invited(h), Bind(h, "K1", 5), Ask(h, "H", "F", "K2", 6, "answer"),
     [Ask(h, signer, under, next, 7, "answer") EXCEPT !.skips = Len(after)] >>
  \o after

Forgotten(h, key) == Ask(h, key, "O", "null", 20, "stranger")
Answers(h, who, seq) == Ask(h, who, "O", "null", seq, "answer")

RowsOfH ==
  FlattenSeq(<< Row(1, "H", "K3", "O",
                << Forgotten(1, "K2"), Answers(1, "V", 21) >>),
            Row(2, "H", "K3", "F",
                << Forgotten(2, "K2"), Answers(2, "V", 21) >>) >>)

RowsOfNothing(hH, hV, next) ==
  Row(hH, "H", next, "O", << Answers(hH, "V", 21), Answers(hH, "H", 22) >>)
  \o Row(hV, "V", next, "F", << Forgotten(hV, "K1"), Answers(hV, "H", 21) >>)

RowOfV ==
  Row(9, "V", "K3", "O",
      << Forgotten(9, "K1"), Answers(9, "V", 21), Answers(9, "H", 22) >>)

theRelation ==
  LET h == 10
  IN << Invited(h), Bind(h, "K1", 5), Holds(h, "K1"),
        Ask(h, "H", "F", "null", 6, "answer"),
        Ask(h, "H", "O", "null", 7, "answer"),
        Ask(h, "H", "F", "null", 8, "answer"),
        Ask(h, "H", "stale", "null", 21, "stranger"),
        Ask(h, "heir", "O", "null", 22, "stranger"),
        Knock(h, "K1", 23, "stranger"),
        Ask(h, "H", "O", "null", 24, "answer"),
        Ask(h, "H", "F", "null", 25, "answer"),
        Ask(h, "H", "O", "null", 26, "answer"),
        Ask(h, "H", "F", "null", 27, "answer") >>

theMove ==
  FlattenSeq(<< RowsOfH, RowsOfNothing(3, 4, "null"),
            RowsOfNothing(5, 6, "self"),
            RowsOfNothing(7, 8, "heir"), RowOfV,
            theRelation >>)

Counted(seq, want) == Ask(1, "H", "O", "null", seq, want)

(* A knock carries any count number, and the asks after it go on from it.  *)
KnockAt(h, seq) ==
  << Invited(h), Bind(h, "K1", seq), Ask(h, "H", "O", "null", seq, "repeated") >>
  \o IF seq < MaxCount
       THEN << Ask(h, "H", "F", "null", seq + 1, "answer") >> ELSE << >>

theCount ==
  << Invited(1), Bind(1, "K1", 10), Counted(10, "repeated"),
     Counted(20, "answer"), Counted(15, "below"),
     Ask(1, "H", "F", "null", 21, "answer"), Counted(20, "repeated"),
     Faulty(Counted(20, "repeated"), "signature"),
     Ask(1, "new", "O", "null", 20, "stranger"),
     Counted(MaxCount, "answer"), Counted(MaxCount, "repeated"),
     Counted(MaxCount + 1, "stranger"), Counted(1, "below") >>
  \o KnockAt(2, 1) \o KnockAt(3, MaxCount \div 2)
  \o KnockAt(4, MaxCount - 1) \o KnockAt(5, MaxCount)

atOneMoment ==
  LET knock(ct, next) == [Knock(1, next, 1, "answer") EXCEPT !.ct = ct]
      twice == Ask(2, "H", "F", "K2", 2, "answer")
  IN << Invited(1),
        Together(knock("ct1", "K1"), knock("ct2", "K2"), "silence", 2),
        Ask(1, "H", "F", "null", 2, "answer"),
        Ask(1, "lost", "lost", "null", 2, "stranger"),
        Invited(2), Bind(2, "K1", 1),
        Together(twice, twice, "repeated", 1),
        Ask(2, "V", "F", "null", 3, "answer") >>

ReachedBy(h, reach, want) ==
  << Give(h, reach), Knock(h, "K1", 1, want), Ask(h, "H", "F", "null", 2, want),
     Ask(h, "H", "O", "null", 3, want), Ask(h, "H", "F", "null", 4, want) >>

theReaches ==
  FlattenSeq([h \in 1..5 |-> ReachedBy(h, "answers", "answer")])
  \o ReachedBy(6, "silent", "silence")
  \o << Invited(7), Bind(7, "K1", 1),
        Chosen(Ask(7, "H", "O", "null", 2, "answer")),
        Chosen(Ask(7, "H", "F", "null", 3, "answer")),
        Ask(7, "H", "F", "null", 4, "answer"),
        Give(8, "silent"), Knock(8, "K1", 1, "silence"),
        Ask(8, "H", "F", "null", 2, "silence"),
        Faulty(Ask(8, "H", "F", "null", 3, "silence"), "signature") >>

(* The reaches a zero head may have, one silent; then one ward that echoes.*)
(* Two strangers at a ward whose zero head has no reach are left out: the  *)
(* wards of a script are one door, and its zero head answers.              *)
theZeroHeads ==
  Times(8, Zero("answer"))
  \o Times(2, [Zero("silence") EXCEPT !.reads = {FALSE}])

theZeroHead ==
  theZeroHeads
  \o Times(3, Zero("answer"))
  \o << Faulty(Zero("answer"), "signature") >>
  \o Times(3, Faulty(Zero("answer"), "payload"))
  \o << [Zero("stranger") EXCEPT !.seq = 0],
        [Zero("stranger") EXCEPT !.under = "rand"],
        Faulty(Zero("answer"), "payload"),
        [Zero("answer") EXCEPT !.next = "self"] >>

(* Sixteen signatures and keys the check refuses, and three it does not.   *)
theSignature ==
  Times(16, Faulty(Zero("answer"), "signature")) \o Times(4, Zero("answer"))

Garbage == Faulty(Ask(1, "new", "rand", "null", 1, "stranger"), "seal")

StrangersAtTheSpent ==
  LET good(seq) == Ask(1, "H", "O", "null", seq, "stranger")
  IN Times(2, Garbage) \o Times(4, [Garbage EXCEPT !.lid = FALSE])
     \o [i \in 1..3 |-> Faulty(good(i + 2), "seal")]
     \o << [good(6) EXCEPT !.under = "rand"], [good(7) EXCEPT !.under = "zero"],
           Faulty(good(8), "seal"), Faulty(good(9), "seal"),
           [good(10) EXCEPT !.ct = "ct", !.under = "E"] >>

StrangersAtTheFresh ==
  LET knock(h) == Knock(h, "K1", 1, "stranger")
      f == 2
  IN << Faulty(knock(f), "seal"), Faulty(knock(f), "seal"),
        [knock(f) EXCEPT !.ct = "alien", !.under = "rand"],
        [knock(f) EXCEPT !.ct = "alien"],
        [knock(f) EXCEPT !.ct = "none"],
        [knock(f) EXCEPT !.ct = "none", !.under = "zero"],
        [knock(f) EXCEPT !.signer = "new"],
        Faulty(knock(f), "signature"),
        Faulty([knock(f) EXCEPT !.next = "null"], "signature"),
        [knock(f) EXCEPT !.seq = 0],
        Ask(3, "new", "zero", "null", 1, "stranger"),
        [knock(3) EXCEPT !.signer = "new"],
        knock(4) >>

StrangersByTheirKeys ==
  LET h == 1
  IN << Ask(h, "new", "O", "null", 11, "stranger"),
        Faulty(Ask(h, "new", "O", "null", 12, "stranger"), "signature"),
        Faulty(Ask(h, "H", "O", "null", 13, "stranger"), "signature"),
        Faulty(Ask(h, "V", "O", "null", 14, "stranger"), "signature"),
        Ask(h, "H", "O", "null", 15, "answer"),
        Knock(2, "K1", 9, "answer") >>

theStrangers ==
  << Invited(1), Invited(2), Bind(1, "K1", 1),
     Ask(1, "H", "O", "K2", 2, "answer") >>
  \o StrangersAtTheSpent \o StrangersAtTheFresh \o StrangersByTheirKeys

(* Every payload is numbered on from the last, refused or not.             *)
Written(i, how) ==
  LET ask == Ask(1, "H", "O", "null", i + 1, "answer")
  IN CASE how = "bad" -> Faulty(ask, "payload")
       [] how = "chosen" -> Chosen(ask)
       [] how = "good" -> ask

thePayload ==
  LET payloads == Times(12, "bad") \o Times(9, "chosen") \o Times(31, "bad")
                  \o Times(22, "chosen") \o << "bad", "bad", "good" >>
  IN << Invited(1), Bind(1, "K1", 1) >>
     \o [i \in DOMAIN payloads |-> Written(i, payloads[i])]

unannounced ==
  LET knock(next) == Knock(1, next, 1, "unannounced")
  IN << Invited(1), knock("null"), knock("heir"), knock("null"), knock("null"),
        Faulty(knock("null"), "payload"), Faulty(knock("null"), "payload"),
        Holds(1, "null"), Bind(1, "K1", 1),
        Ask(1, "H", "O", "null", 2, "answer"),
        Ask(1, "H", "F", "heir", 3, "answer") >>

Removed ==
  LET o(signer, under, seq, want) == Ask(1, signer, under, "null", seq, want)
  IN << o("H", "F", 3, "removed"), o("V", "O", 4, "removed"),
        o("H", "O", 2, "removed"), o("H", "O", 5, "removed"),
        Faulty(o("H", "O", 6, "removed"), "signature"),
        o("H", "O", 0, "stranger"),
        Faulty(o("H", "O", 11, "removed"), "payload"),
        Faulty(o("H", "O", 12, "removed"), "payload"),
        Faulty(o("H", "O", 13, "removed"), "payload"),
        o("new", "O", 7, "stranger"), o("heir", "O", 8, "stranger"),
        o("H", "rand", 9, "stranger") >>

removal ==
  << Invited(1), Invited(2), Invited(3),
     Bind(1, "K1", 1), Ask(1, "H", "O", "K2", 2, "answer"),
     LetGo(1, TRUE), LetGo(2, TRUE), LetGo(3, TRUE),
     LetGo(1, FALSE) >>
  \o Removed
  \o << Knock(2, "K1", 1, "stranger"),
        Knock(3, "null", 1, "stranger"),
        Ask(2, "heir", "zero", "K1", 1, "stranger"),
        Invited(4), Bind(4, "K1", 1) >>

(* A box above the size is not read; one of exactly the size is.           *)
theSize ==
  << Invited(1), Bind(1, "K1", 1), Faulty(Counted(2, "answer"), "seal"),
     Counted(3, "answer"), Garbage, Invited(2),
     Faulty(Knock(2, "K2", 1, "answer"), "seal"), Bind(2, "K1", 1),
     Invited(3), Knock(3, "K1", 1, "answer") >>

(* The relation every carrier carries (carried.js).                        *)
wholeRelation ==
  LET h == 1
  IN << Invited(h), Bind(h, "K1", 1), Ask(h, "H", "F", "null", 2, "answer"),
        Ask(h, "H", "O", "null", 2, "repeated"), Knock(h, "K2", 3, "stranger"),
        Ask(h, "new", "O", "null", 4, "stranger"),
        Ask(h, "H", "O", "null", 5, "answer") >>

Script ==
  [wards |-> wardsAndInvitations, move |-> theMove, count |-> theCount,
   moment |-> atOneMoment, reaches |-> theReaches, zero |-> theZeroHead,
   signature |-> theSignature, strangers |-> theStrangers,
   payload |-> thePayload, unannounced |-> unannounced, removal |-> removal,
   size |-> theSize, carried |-> wholeRelation]
=============================================================================
