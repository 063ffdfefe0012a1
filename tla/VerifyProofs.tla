---------------------------- MODULE VerifyProofs ----------------------------
(***************************************************************************)
(* The verifier, proved for any bound on the requests it gives up and on   *)
(* what it follows after them, and whatever kits it is played to.  On the  *)
(* channel an answer is made to settle another's request only among those  *)
(* that wrote no id, and only once one was given up.  Of a kit that asks or*)
(* dials, the verifier follows the very keys the kit stands on, and replies*)
(* to the box the kit sealed last.  A kit its tests spoil is failed in the *)
(* checks on what is wrong with it and in no other.                        *)
(***************************************************************************)
EXTENDS Verify, SequenceTheorems, TLAPS

-----------------------------------------------------------------------------
(* Each scenario has a stand program of its own: none of the steps of the  *)
(* others is taken while the channel is tried, and none of the channel's   *)
(* while another is played.                                                *)

LEMMA HarnessIsApart ==
  /\ "harness" \notin DOMAIN Script
  /\ "harness" \notin DOMAIN Lists
  /\ "harness" \notin DOMAIN Passes
BY DEF Script, Lists, Passes

LEMMA ListsAreApart ==
  DOMAIN Lists \cap (DOMAIN Script \cup DOMAIN Passes \cup {"harness"}) = {}
BY DEF Script, Lists, Passes

LEMMA SessionKeeps ==
  ASSUME SessionMoves
  PROVE  scene' = scene /\ (scene \in DOMAIN Script \/ flight # << >>)
<1>1. CASE SessionAsks
  BY <1>1 DEF SessionAsks, Plays, playVars
<1>2. CASE SessionAsksTwice
  BY <1>2 DEF SessionAsksTwice, Plays, playVars
<1>3. CASE SessionJudges
  BY <1>3 DEF SessionJudges, Answered, Goes, GoesLate, Breaks
<1>4. CASE SessionJudgesTwo
  BY <1>4 DEF SessionJudgesTwo, Answered, Goes, GoesLate
<1>5. CASE SessionInvites
  BY <1>5 DEF SessionInvites, Plays, Goes, GoesLate
<1>6. CASE SessionReleases
  BY <1>6 DEF SessionReleases, Plays, Goes, GoesLate
<1>7. CASE SessionLooks
  BY <1>7 DEF SessionLooks, Plays, Goes, GoesLate
<1>8. CASE SessionGivesUp
  BY <1>8 DEF SessionGivesUp, Breaks
<1>9. CASE SessionThrows
  BY <1>9 DEF SessionThrows, Plays, Breaks
<1>10. CASE SessionEnds
  BY <1>10 DEF SessionEnds, PlayEnds
<1> QED
  BY <1>1, <1>2, <1>3, <1>4, <1>5, <1>6, <1>7, <1>8, <1>9, <1>10
  DEF SessionMoves

LEMMA StandKeeps ==
  ASSUME StandMoves
  PROVE  scene' = scene /\ flight # << >>
<1>1. ASSUME NEW i \in DOMAIN flight, StandArrives(i)
      PROVE  scene' = scene /\ flight # << >>
  BY <1>1 DEF StandArrives, playVars
<1>2. ASSUME NEW arrived \in BOOLEAN, LineIsLate(arrived)
      PROVE  scene' = scene /\ flight # << >>
  BY <1>2 DEF LineIsLate
<1> QED
  BY <1>1, <1>2 DEF StandMoves

LEMMA AskerKeeps ==
  ASSUME AskerMoves
  PROVE  scene' = scene /\ scene \in DOMAIN Lists
<1>1. CASE AskerIsRefused
  BY <1>1 DEF AskerIsRefused, AskerPlays, Goes, GoesLate
<1>2. CASE AskerAsks
  BY <1>2 DEF AskerAsks, AskerPlays, TakesApart, Goes, GoesLate
<1>3. ASSUME NEW timed \in BOOLEAN, AskerReplies(timed)
      PROVE  scene' = scene /\ scene \in DOMAIN Lists
  BY <1>3 DEF AskerReplies, AskerPlays, GoesLate
<1>4. CASE AskerRoutes
  BY <1>4 DEF AskerRoutes, AskerPlays, Goes, GoesLate
<1>5. CASE AskerGivesUp
  BY <1>5 DEF AskerGivesUp, Breaks
<1>6. CASE AskerEnds
  BY <1>6 DEF AskerEnds, PlayEnds
<1> QED
  BY <1>1, <1>2, <1>3, <1>4, <1>5, <1>6 DEF AskerMoves

LEMMA HoldKeeps ==
  ASSUME HoldMoves
  PROVE  scene' = scene /\ (scene \in DOMAIN Lists \/ waiter)
<1>1. CASE DialSends
  BY <1>1 DEF DialSends, playVars
<1>2. CASE HoldTimer
  BY <1>2 DEF HoldTimer, WaitIsOver, GoesLate
<1>3. CASE HoldCounts
  BY <1>3 DEF HoldCounts, Goes, GoesLate
<1> QED
  BY <1>1, <1>2, <1>3 DEF HoldMoves

LEMMA KitKeeps ==
  ASSUME KitDials
  PROVE  scene' = scene /\ sends # {}
<1> SUFFICES ASSUME NEW s \in sends, KitSeals(s) \/ HoldTakes(s) \/ KitStops(s)
             PROVE  scene' = scene
  BY DEF KitDials
<1>1. CASE KitSeals(s)
  BY <1>1 DEF KitSeals, playVars
<1>2. CASE HoldTakes(s)
  BY <1>2 DEF HoldTakes, TakesApart, Goes, GoesLate, playVars
<1>3. CASE KitStops(s)
  BY <1>3 DEF KitStops, WaitIsOver, GoesLate
<1> QED
  BY <1>1, <1>2, <1>3

LEMMA PassKeeps ==
  ASSUME PassMoves
  PROVE  scene' = scene /\ scene \in DOMAIN Passes
<1>1. CASE PassInvites
  BY <1>1 DEF PassInvites, PassPlays, Goes, GoesLate
<1>2. CASE SecondSends
  BY <1>2 DEF SecondSends, PassPlays, playVars
<1>3. CASE FirstArrives
  BY <1>3 DEF FirstArrives, PassPlays, playVars
<1>4. ASSUME NEW timed \in BOOLEAN, SecondReads(timed)
      PROVE  scene' = scene /\ scene \in DOMAIN Passes
  BY <1>4 DEF SecondReads, PassPlays, Breaks, GoesLate
<1>5. CASE PassRedelivers
  BY <1>5 DEF PassRedelivers, PassPlays, Goes, GoesLate
<1>6. CASE PassGivesUp
  BY <1>6 DEF PassGivesUp, Breaks
<1>7. CASE PassEnds
  BY <1>7 DEF PassEnds, PlayEnds
<1> QED
  BY <1>1, <1>2, <1>3, <1>4, <1>5, <1>6, <1>7 DEF PassMoves

(* What may happen in the scenario of the channel.                         *)
HarnessSteps ==
  HarnessMoves \/ (\E n \in wire : StandSays(n))
  \/ (UNCHANGED harnessVars /\ (PlayCloses(~stray) \/ StandDies))

(* What the other scenarios put under way: a box, a wait, a send.          *)
elsewhere == << flight, sends, waiter >>
NothingElsewhere == flight = << >> /\ sends = {} /\ ~waiter

(* Every step is one of another scenario, which leaves the channel alone,  *)
(* or one of the channel; or something of another scenario is under way.   *)
LEMMA StepsApart ==
  ASSUME VerifyNext
  PROVE  \/ UNCHANGED harnessVars /\ scene # "harness" /\ scene' = scene
         \/ UNCHANGED elsewhere /\ HarnessSteps
         \/ scene = "harness" /\ ~NothingElsewhere
<1>1. CASE DoorScenario(SessionMoves) \/ DoorScenario(StandMoves)
  BY <1>1, SessionKeeps, StandKeeps, HarnessIsApart DEF DoorScenario, NothingElsewhere
<1>2. CASE AskerScenario(AskerMoves)
  BY <1>2, AskerKeeps, HarnessIsApart DEF AskerScenario, DialScenario
<1>3. CASE DialScenario(HoldMoves) \/ DialScenario(KitDials)
  BY <1>3, HoldKeeps, KitKeeps, HarnessIsApart DEF DialScenario, NothingElsewhere
<1>4. CASE PassScenario(PassMoves)
  BY <1>4, PassKeeps, HarnessIsApart DEF PassScenario
<1>5. CASE HarnessScenario(HarnessMoves)
  BY <1>5 DEF HarnessScenario, HarnessSteps, elsewhere, sessionVars, holdVars
<1>6. CASE AnyScenario(PlayCloses(~stray))
  BY <1>6
  DEF AnyScenario, HarnessScenario, HarnessSteps, elsewhere, sessionVars, holdVars
<1>7. CASE HarnessScenario(\E n \in wire : StandSays(n))
  BY <1>7 DEF HarnessScenario, HarnessSteps, elsewhere, sessionVars, holdVars
<1>8. CASE AnyScenario(givenUp = {} /\ StandDies)
  BY <1>8
  DEF AnyScenario, HarnessScenario, HarnessSteps, elsewhere, sessionVars, holdVars
<1> QED
  BY <1>1, <1>2, <1>3, <1>4, <1>5, <1>6, <1>7, <1>8 DEF VerifyNext, VerifierMoves

-----------------------------------------------------------------------------
(* The inductive invariant.                                                *)

(* The requests whose answers are not heard yet.                           *)
Outstanding == wire \cup {said[i].to : i \in DOMAIN said}

HarnessFields ==
  /\ at \in Nat
  /\ said \in Seq({said[i] : i \in DOMAIN said})
  /\ nullWaiters \in {<< >>, << at >>}
  /\ waiters \subseteq {at}
  /\ Outstanding \subseteq Nat
  /\ givenUp \subseteq Nat

(* One request waits at most, the one the scenario stands at, by its id or *)
(* in the list of those without; a scenario past its end waits for none.   *)
WaitsForTheNext ==
  /\ at \in waiters => harnessErrors[at].id
  /\ nullWaiters = << at >> => ~harnessErrors[at].id
  /\ Waits(at) => phase = "play" /\ at <= Len(harnessErrors) /\ ~Unsent

(* An answer carries an id where its request wrote one.                    *)
AnsweredUnderItsId ==
  \A i \in DOMAIN said : said[i].id = harnessErrors[said[i].to].id

(* What is outstanding was written, and the request that waits is          *)
(* outstanding once: an answer to it is heard while it waits or never.     *)
SentOnce ==
  /\ \A m \in Outstanding : m <= at
  /\ at \in Outstanding => Waits(at)
  /\ \A i \in DOMAIN said : said[i].to = at =>
       /\ at \notin wire
       /\ \A j \in DOMAIN said : said[j].to = at => i = j

(* The hazard itself: an answer without an id to a request no longer       *)
(* waited for may come, but only after that one or an earlier was given up;*)
(* it then shifts every answer after it to the next request.               *)
LateOnesWereGivenUp ==
  \A m \in Outstanding : m < at /\ ~harnessErrors[m].id =>
    \E g \in givenUp : g <= m

HarnessInv ==
  /\ HarnessFields
  /\ WaitsForTheNext
  /\ AnsweredUnderItsId
  /\ SentOnce
  /\ LateOnesWereGivenUp

VerifyInv ==
  /\ scene = "harness" => NothingElsewhere /\ HarnessInv
  /\ AnswerIsOwn

-----------------------------------------------------------------------------
(* Facts on sequences.                                                     *)

LEMMA HeldIs ==
  ASSUME NEW a, NEW q \in {<< >>, << a >>}
  PROVE  /\ {q[i] : i \in DOMAIN q} = IF q = << >> THEN {} ELSE {a}
         /\ q # << >> => q = << a >> /\ Head(q) = a /\ Tail(q) = << >>
<1>1. CASE q = << >>
  BY <1>1
<1>2. CASE q = << a >>
  <2>1. DOMAIN q = {1} /\ q[1] = a
    BY <1>2
  <2> QED
    BY <1>2, <2>1
<1> QED
  BY <1>1, <1>2

LEMMA RangeOf ==
  ASSUME NEW S, NEW s \in Seq(S)
  PROVE  s \in Seq({s[i] : i \in DOMAIN s})
BY SeqOfRange DEF Range

LEMMA AppendTells ==
  ASSUME NEW S, NEW s \in Seq(S), NEW x, NEW t, t = Append(s, x)
  PROVE  /\ t \in Seq({t[i] : i \in DOMAIN t})
         /\ \A i \in DOMAIN t : (i \in DOMAIN s /\ t[i] = s[i]) \/ (i = Len(s) + 1 /\ t[i] = x)
         /\ \A i \in DOMAIN s : i # Len(s) + 1
<1>1. s \in Seq(S \cup {x})
  BY SeqMonotonic
<1>2. t \in Seq(S \cup {x})
  BY <1>1
<1>3. t \in Seq({t[i] : i \in DOMAIN t})
  BY <1>2, RangeOf
<1>4. \A i \in DOMAIN t : (i \in DOMAIN s /\ t[i] = s[i]) \/ (i = Len(s) + 1 /\ t[i] = x)
  BY <1>1
<1> QED
  BY <1>3, <1>4

LEMMA TailTells ==
  ASSUME NEW S, NEW s \in Seq(S), s # << >>, NEW t, t = Tail(s)
  PROVE  /\ t \in Seq({t[i] : i \in DOMAIN t})
         /\ \A i \in DOMAIN t : i + 1 \in DOMAIN s /\ t[i] = s[i + 1] /\ i + 1 # 1
         /\ \A i, j \in DOMAIN t : i + 1 = j + 1 => i = j
         /\ 1 \in DOMAIN s /\ Head(s) = s[1]
<1>1. t \in Seq(S) /\ Len(t) = Len(s) - 1 /\ Len(s) \in Nat \ {0} /\ Head(s) = s[1]
  BY HeadTailProperties, EmptySeq
<1>2. t \in Seq({t[i] : i \in DOMAIN t})
  <2>1. t \in Seq(S)
    BY <1>1
  <2> QED
    BY ONLY <2>1, RangeOf
<1>3. DOMAIN t = 1..Len(t) /\ DOMAIN s = 1..Len(s)
  BY <1>1
<1>4. \A i \in 1..Len(t) : t[i] = s[i + 1]
  BY <1>1, HeadTailProperties
<1>5. \A i \in 1..Len(t) : i \in Int /\ i + 1 \in 1..Len(s) /\ i + 1 # 1
  BY <1>1
<1>6. 1 \in 1..Len(s)
  BY <1>1
<1>7. \A i \in DOMAIN t : i + 1 \in DOMAIN s /\ t[i] = s[i + 1] /\ i + 1 # 1
  BY ONLY <1>3, <1>4, <1>5
<1>8. \A i, j \in DOMAIN t : i + 1 = j + 1 => i = j
  BY ONLY <1>3, <1>5
<1>9. 1 \in DOMAIN s
  BY ONLY <1>3, <1>6
<1> QED
  BY ONLY <1>1, <1>2, <1>7, <1>8, <1>9

-----------------------------------------------------------------------------
(* Each step of the channel keeps the invariant.                           *)

LEMMA WritesKeep ==
  ASSUME HarnessInv, HarnessWrites
  PROVE  HarnessInv'
<1> USE DEF HarnessInv
<1>1. /\ at' = at /\ said' = said /\ knows' = knows /\ phase' = phase
      /\ givenUp' = givenUp /\ wire' = wire \cup {at}
      /\ phase = "play" /\ at <= Len(harnessErrors) /\ ~Unsent /\ ~Waits(at)
  BY DEF HarnessWrites, HarnessPlays, playVars
<1>2. /\ waiters = {} /\ nullWaiters = << >>
      /\ IF harnessErrors[at].id THEN waiters' = {at} /\ nullWaiters' = << >>
                                 ELSE waiters' = {} /\ nullWaiters' = << at >>
  <2>1. waiters = {} /\ nullWaiters = << >>
    BY <1>1, HeldIs DEF Waits, HarnessFields
  <2> QED
    BY <2>1 DEF HarnessWrites
<1>3. at \notin Outstanding /\ Outstanding' = Outstanding \cup {at}
  BY <1>1 DEF SentOnce, Outstanding
<1>4. HarnessFields'
  BY <1>1, <1>2, <1>3 DEF HarnessFields
<1>5. Waits(at)'
  BY <1>1, <1>2, <1>4, HeldIs DEF Waits, HarnessFields
<1>6. WaitsForTheNext'
  <2>1. ~Unsent'
    BY <1>1 DEF Unsent
  <2> QED
    BY <1>1, <1>2, <2>1 DEF WaitsForTheNext
<1>7. AnsweredUnderItsId'
  BY <1>1 DEF AnsweredUnderItsId
<1>8. SentOnce'
  <2>1. at <= at
    BY DEF HarnessFields
  <2>2. \A i \in DOMAIN said : said[i].to # at
    BY <1>3 DEF Outstanding
  <2> QED
    BY <1>1, <1>3, <1>5, <2>1, <2>2 DEF SentOnce
<1>9. LateOnesWereGivenUp'
  <2>1. ~(at < at)
    BY DEF HarnessFields
  <2> QED
    BY <1>1, <1>3, <2>1 DEF LateOnesWereGivenUp
<1> QED
  BY <1>4, <1>6, <1>7, <1>8, <1>9

LEMMA SaysKeep ==
  ASSUME HarnessInv, NEW n \in wire, StandSays(n)
  PROVE  HarnessInv'
<1> USE DEF HarnessInv
<1>1. /\ at' = at /\ knows' = knows /\ phase' = phase /\ givenUp' = givenUp
      /\ waiters' = waiters /\ nullWaiters' = nullWaiters /\ wire' = wire \ {n}
  BY DEF StandSays, playVars
<1>2. PICK line : said' = Append(said, line) /\ line.to = n
                  /\ line.id = harnessErrors[n].id
  BY DEF StandSays
<1>3. /\ said' \in Seq({said'[i] : i \in DOMAIN said'})
      /\ \A i \in DOMAIN said' : \/ i \in DOMAIN said /\ said'[i] = said[i]
                                 \/ i = Len(said) + 1 /\ said'[i] = line
      /\ \A i \in DOMAIN said : i # Len(said) + 1
  BY <1>2, AppendTells DEF HarnessFields
<1>4. Outstanding' \subseteq Outstanding
  BY <1>1, <1>2, <1>3 DEF Outstanding
<1>5. HarnessFields'
  BY <1>1, <1>3, <1>4 DEF HarnessFields
<1>6. Waits(at)' <=> Waits(at)
  BY <1>1 DEF Waits
<1>7. WaitsForTheNext'
  <2>1. Unsent' <=> Unsent
    BY <1>1 DEF Unsent
  <2> QED
    BY <1>1, <1>6, <2>1 DEF WaitsForTheNext
<1>8. AnsweredUnderItsId'
  BY <1>2, <1>3 DEF AnsweredUnderItsId
<1>9. SentOnce'
  <2>1. n = at => \A i \in DOMAIN said : said[i].to # at
    BY DEF SentOnce
  <2>2. \A i \in DOMAIN said' : said'[i].to = at => at \notin wire'
    BY <1>1, <1>2, <1>3 DEF SentOnce
  <2>3. \A i, j \in DOMAIN said' : said'[i].to = at /\ said'[j].to = at => i = j
    BY <1>2, <1>3, <2>1 DEF SentOnce
  <2>4. \A m \in Outstanding' : m <= at
    BY <1>4 DEF SentOnce
  <2>5. at \in Outstanding' => Waits(at)
    BY <1>4 DEF SentOnce
  <2> QED
    BY <1>1, <1>6, <2>2, <2>3, <2>4, <2>5 DEF SentOnce
<1>10. LateOnesWereGivenUp'
  BY <1>1, <1>4 DEF LateOnesWereGivenUp
<1> QED
  BY <1>5, <1>7, <1>8, <1>9, <1>10

LEMMA HearsKeep ==
  ASSUME HarnessInv, AnswerIsOwn, HarnessHears
  PROVE  HarnessInv' /\ AnswerIsOwn'
<1> USE DEF HarnessInv
<1> DEFINE line == Head(said)
<1>1. /\ said' = Tail(said) /\ said # << >>
      /\ wire' = wire /\ givenUp' = givenUp
  BY DEF HarnessHears
<1>2. /\ said' \in Seq({said'[i] : i \in DOMAIN said'})
      /\ \A i \in DOMAIN said' :
           i + 1 \in DOMAIN said /\ said'[i] = said[i + 1] /\ i + 1 # 1
      /\ \A i, j \in DOMAIN said' : i + 1 = j + 1 => i = j
      /\ 1 \in DOMAIN said /\ line = said[1]
  <2>1. said \in Seq({said[i] : i \in DOMAIN said})
    BY DEF HarnessFields
  <2> HIDE DEF HarnessInv
  <2>2. said' \in Seq({said'[i] : i \in DOMAIN said'})
    <3> DEFINE spoken == {said[i] : i \in DOMAIN said}
    <3>1. said' \in Seq(spoken)
      BY <1>1, <2>1, HeadTailProperties
    <3> HIDE DEF spoken
    <3> QED
      BY ONLY <3>1, RangeOf
  <2>3. \A i \in DOMAIN said' :
          i + 1 \in DOMAIN said /\ said'[i] = said[i + 1] /\ i + 1 # 1
    BY <1>1, <2>1, TailTells
  <2>4. \A i, j \in DOMAIN said' : i + 1 = j + 1 => i = j
    BY <1>1, <2>1, TailTells
  <2>5. 1 \in DOMAIN said /\ line = said[1]
    BY <1>1, <2>1, TailTells
  <2> QED
    BY <2>2, <2>3, <2>4, <2>5
<1> HIDE DEF line
<1>3. Outstanding' \subseteq Outstanding /\ line.to \in Outstanding
  <2>1. \A i \in DOMAIN said : said[i].to \in Outstanding
    BY DEF Outstanding
  <2>2. \A i \in DOMAIN said' : said'[i].to \in Outstanding
    BY ONLY <1>2, <2>1
  <2>3. line.to \in Outstanding
    BY ONLY <1>2, <2>1
  <2> QED
    BY ONLY <1>1, <2>2, <2>3 DEF Outstanding
<1>4. line.id = harnessErrors[line.to].id
  BY <1>2 DEF AnsweredUnderItsId
<1>5. AnsweredUnderItsId'
  BY <1>2 DEF AnsweredUnderItsId
<1>6. CASE TakenBy(line) = {}
  <2>1. /\ UNCHANGED << playVars, waiters, nullWaiters, knows, matched >>
    BY <1>6 DEF HarnessHears, line
  <2>2. at' = at /\ phase' = phase
    BY <2>1 DEF playVars
  <2>3. HarnessFields'
    <3>1. said' \in Seq({said'[i] : i \in DOMAIN said'})
      BY <1>2
    <3> QED
      BY <1>1, <1>3, <2>1, <2>2, <3>1 DEF HarnessFields
  <2>4. (Waits(at)' <=> Waits(at)) /\ (Unsent' <=> Unsent)
    BY <2>1, <2>2 DEF Waits, Unsent
  <2>5. WaitsForTheNext'
    BY <2>1, <2>2, <2>4 DEF WaitsForTheNext
  <2>6. SentOnce'
    <3>1. \A i \in DOMAIN said' : said'[i].to = at =>
            /\ at \notin wire
            /\ \A j \in DOMAIN said' : said'[j].to = at => i = j
      BY <1>2 DEF SentOnce
    <3> QED
      BY <1>1, <1>3, <2>2, <2>4, <3>1 DEF SentOnce
  <2>7. LateOnesWereGivenUp'
    BY <1>1, <1>3, <2>2 DEF LateOnesWereGivenUp
  <2>8. AnswerIsOwn'
    BY <1>1, <2>1 DEF AnswerIsOwn
  <2> QED
    BY <1>5, <2>3, <2>5, <2>6, <2>7, <2>8
<1>7. CASE TakenBy(line) # {}
  <2>1. PICK n \in TakenBy(line) :
          /\ waiters' = waiters \ {n}
          /\ nullWaiters' = IF line.id THEN nullWaiters ELSE Tail(nullWaiters)
          /\ matched' = matched \cup {<< n, line.to >>}
          /\ at' = at + 1
    BY <1>7 DEF HarnessHears, line, Goes, GoesLate
  <2>2. n = at /\ Waits(at)
    <3>1. CASE line.id
      BY <2>1, <3>1 DEF TakenBy, Waits, HarnessFields
    <3>2. CASE ~line.id
      <4>1. nullWaiters # << >> /\ n = Head(nullWaiters)
        BY <2>1, <3>2 DEF TakenBy
      <4>2. nullWaiters = << at >> /\ Head(nullWaiters) = at
        BY <4>1, HeldIs DEF HarnessFields
      <4>3. at \in {nullWaiters[i] : i \in DOMAIN nullWaiters}
        BY <4>1, <4>2, HeldIs DEF HarnessFields
      <4> QED
        BY <4>1, <4>2, <4>3 DEF Waits
    <3> QED
      BY <3>1, <3>2
  <2>3. waiters' = {} /\ nullWaiters' = << >>
    <3>1. CASE line.id
      <4>1. at \in waiters
        BY <2>1, <2>2, <3>1 DEF TakenBy
      <4>2. nullWaiters # << at >>
        BY <4>1 DEF WaitsForTheNext
      <4> QED
        BY <2>1, <2>2, <3>1, <4>2 DEF HarnessFields
    <3>2. CASE ~line.id
      <4>1. nullWaiters # << >>
        BY <2>1, <3>2 DEF TakenBy
      <4>2. nullWaiters = << at >> /\ Tail(nullWaiters) = << >>
        BY <4>1, HeldIs DEF HarnessFields
      <4>3. at \notin waiters
        BY <4>2 DEF WaitsForTheNext
      <4> QED
        BY <2>1, <3>2, <4>2, <4>3 DEF HarnessFields
    <3> QED
      BY <3>1, <3>2
  <2>4. \A m \in Outstanding : m \in Nat /\ m <= at
    BY DEF SentOnce, HarnessFields
  <2>5. at \in Nat
    BY DEF HarnessFields
  <2>6. HarnessFields'
    <3>1. at' \in Nat
      BY <2>1, <2>5
    <3>2. Outstanding' \subseteq Nat /\ givenUp' \subseteq Nat
      BY <1>1, <1>3 DEF HarnessFields
    <3>3. said' \in Seq({said'[i] : i \in DOMAIN said'})
      BY <1>2
    <3> QED
      BY <2>3, <3>1, <3>2, <3>3 DEF HarnessFields
  <2>7. ~Waits(at)' /\ at' \notin Outstanding'
    <3>1. {nullWaiters'[i] : i \in DOMAIN nullWaiters'} = {}
      BY <2>3
    <3> QED
      BY <1>3, <2>1, <2>3, <2>4, <2>5, <3>1 DEF Waits
  <2>8. WaitsForTheNext'
    BY <2>3, <2>7 DEF WaitsForTheNext
  <2>9. SentOnce'
    <3>1. \A i \in DOMAIN said' : said'[i].to # at'
      BY <2>7 DEF Outstanding
    <3>2. \A m \in Outstanding' : m <= at'
      BY <1>3, <2>1, <2>4, <2>5
    <3> QED
      BY <2>7, <3>1, <3>2 DEF SentOnce
  <2>10. line.to = at \/ (line.to < at /\ ~harnessErrors[line.to].id)
    <3>1. line.id => line.to = at
      BY <2>1, <2>2 DEF TakenBy
    <3> QED
      BY <1>3, <1>4, <2>4, <2>5, <3>1
  <2>11. line.to = at => at \notin Outstanding'
    BY <1>1, <1>2 DEF SentOnce, Outstanding
  <2>12. at \in Outstanding' => \E g \in givenUp : g <= at
    <3>1. givenUp \subseteq Nat /\ line.to \in Nat
      BY <1>3, <2>4 DEF HarnessFields
    <3> QED
      BY <1>3, <2>4, <2>5, <2>10, <2>11, <3>1 DEF LateOnesWereGivenUp
  <2>13. LateOnesWereGivenUp'
    BY <1>1, <1>3, <2>1, <2>4, <2>5, <2>12 DEF LateOnesWereGivenUp
  <2>14. AnswerIsOwn'
    <3> SUFFICES ASSUME line.to # at
                 PROVE  /\ ~harnessErrors[at].id
                        /\ \E g \in givenUp : g <= line.to
      BY <1>1, <2>1, <2>2, <2>10 DEF AnswerIsOwn
    <3>1. nullWaiters = << at >>
      BY <2>1, <1>4, <2>10, HeldIs DEF TakenBy, HarnessFields
    <3>2. ~harnessErrors[at].id
      BY <3>1 DEF WaitsForTheNext
    <3> QED
      BY <1>3, <2>10, <3>2 DEF LateOnesWereGivenUp
  <2> QED
    BY <1>5, <2>6, <2>8, <2>9, <2>13, <2>14
<1> QED
  BY <1>6, <1>7

LEMMA SkipsKeep ==
  ASSUME HarnessInv, HarnessSkips
  PROVE  HarnessInv'
<1> USE DEF HarnessInv
<1>1. at' = at + 1 /\ at \in Nat /\ Unsent /\ UNCHANGED harnessVars
  BY DEF HarnessSkips, Goes, GoesLate, HarnessFields
<1>2. ~Waits(at) /\ at \notin Outstanding /\ Outstanding' = Outstanding
  BY <1>1 DEF WaitsForTheNext, SentOnce, Outstanding, harnessVars
<1>3. waiters = {} /\ nullWaiters = << >>
  BY <1>2, HeldIs DEF Waits, HarnessFields
<1>4. \A m \in Outstanding : m \in Nat /\ m < at
  BY <1>1, <1>2 DEF SentOnce, HarnessFields
<1>5. HarnessFields'
  BY <1>1, <1>2, <1>3 DEF HarnessFields, harnessVars
<1>6. ~Waits(at)' /\ at' \notin Outstanding'
  <2>1. waiters' = {} /\ nullWaiters' = << >>
    BY <1>1, <1>3 DEF harnessVars
  <2>2. {nullWaiters'[i] : i \in DOMAIN nullWaiters'} = {}
    BY <2>1
  <2> QED
    BY <1>1, <1>2, <1>4, <2>1, <2>2 DEF Waits
<1>7. WaitsForTheNext'
  BY <1>1, <1>3, <1>6 DEF WaitsForTheNext, harnessVars
<1>8. AnsweredUnderItsId'
  BY <1>1 DEF AnsweredUnderItsId, harnessVars
<1>9. SentOnce'
  <2>1. \A i \in DOMAIN said' : said'[i].to # at'
    BY <1>6 DEF Outstanding
  <2>2. \A m \in Outstanding' : m <= at'
    BY <1>1, <1>2, <1>4
  <2> QED
    BY <1>6, <2>1, <2>2 DEF SentOnce
<1>10. LateOnesWereGivenUp'
  BY <1>1, <1>2, <1>4 DEF LateOnesWereGivenUp, harnessVars
<1> QED
  BY <1>5, <1>7, <1>8, <1>9, <1>10

(* The waiter taken off at the timer leaves the list empty.                *)
LEMMA TakenOff ==
  ASSUME HarnessFields
  PROVE  NullWaitersBut(at) = << >>
<1>1. CASE nullWaiters = << >>
  BY <1>1 DEF NullWaitersBut
<1>2. CASE nullWaiters = << at >>
  <2>1. {i \in DOMAIN nullWaiters : nullWaiters[i] = at} = {1}
    BY <1>2
  <2>2. SubSeq(nullWaiters, 1, 1 - 1) \o SubSeq(nullWaiters, 1 + 1, Len(nullWaiters))
          = << >>
    BY <1>2
  <2> QED
    BY <2>1, <2>2 DEF NullWaitersBut
<1> QED
  BY <1>1, <1>2 DEF HarnessFields

LEMMA GivesUpKeep ==
  ASSUME HarnessInv, HarnessGivesUp
  PROVE  HarnessInv'
<1> USE DEF HarnessInv
<1>1. /\ at' = at + 1 /\ at \in Nat
      /\ givenUp' = givenUp \cup {at}
      /\ wire' = wire /\ said' = said
  BY DEF HarnessGivesUp, HarnessFields
<1>2. waiters' = {} /\ nullWaiters' = << >>
  BY TakenOff DEF HarnessGivesUp, HarnessFields
<1>3. Outstanding' = Outstanding
  BY <1>1 DEF Outstanding
<1>4. \A m \in Outstanding : m \in Nat /\ m <= at
  BY DEF SentOnce, HarnessFields
<1>5. HarnessFields'
  BY <1>1, <1>2, <1>3 DEF HarnessFields
<1>6. ~Waits(at)' /\ at' \notin Outstanding'
  <2>1. {nullWaiters'[i] : i \in DOMAIN nullWaiters'} = {}
    BY <1>2
  <2> QED
    BY <1>1, <1>2, <1>3, <1>4, <2>1 DEF Waits
<1>7. WaitsForTheNext'
  BY <1>2, <1>6 DEF WaitsForTheNext
<1>8. AnsweredUnderItsId'
  BY <1>1 DEF AnsweredUnderItsId
<1>9. SentOnce'
  <2>1. \A i \in DOMAIN said' : said'[i].to # at'
    BY <1>6 DEF Outstanding
  <2>2. \A m \in Outstanding' : m <= at'
    BY <1>1, <1>3, <1>4
  <2> QED
    BY <1>6, <2>1, <2>2 DEF SentOnce
<1>10. LateOnesWereGivenUp'
  BY <1>1, <1>3, <1>4 DEF LateOnesWereGivenUp
<1> QED
  BY <1>5, <1>7, <1>8, <1>9, <1>10

LEMMA LosesKeep ==
  ASSUME HarnessInv, HarnessLosesTheRest
  PROVE  HarnessInv'
<1> USE DEF HarnessInv
<1>1. /\ at' = at /\ givenUp' = givenUp
      /\ waiters' = {} /\ nullWaiters' = << >> /\ wire' = {} /\ said' = << >>
  BY DEF HarnessLosesTheRest
<1>2. Outstanding' = {}
  BY <1>1 DEF Outstanding
<1>3. << >> \in Seq({said'[i] : i \in DOMAIN said'})
  BY EmptySeq
<1>4. HarnessFields'
  BY <1>1, <1>2, <1>3 DEF HarnessFields
<1>5. WaitsForTheNext'
  <2>1. {nullWaiters'[i] : i \in DOMAIN nullWaiters'} = {}
    BY <1>1
  <2> QED
    BY <1>1, <2>1 DEF WaitsForTheNext, Waits
<1>6. AnsweredUnderItsId' /\ SentOnce'
  BY <1>1, <1>2 DEF AnsweredUnderItsId, SentOnce
<1>7. LateOnesWereGivenUp'
  BY <1>2 DEF LateOnesWereGivenUp
<1> QED
  BY <1>4, <1>5, <1>6, <1>7

(* A scenario that ends, is closed, or whose program dies: the channel is  *)
(* left as it stands, and a scenario that plays no further waits no more.  *)
LEMMA ClosesKeep ==
  ASSUME HarnessInv, UNCHANGED harnessVars, at' = at,
         phase' # phase => ~Waits(at)
  PROVE  HarnessInv'
<1> USE DEF HarnessInv
<1>1. /\ waiters' = waiters /\ nullWaiters' = nullWaiters /\ wire' = wire
      /\ said' = said /\ knows' = knows /\ givenUp' = givenUp
  BY DEF harnessVars
<1>2. Outstanding' = Outstanding /\ (Waits(at)' <=> Waits(at)) /\ (Unsent' <=> Unsent)
  BY <1>1 DEF Outstanding, Waits, Unsent
<1>3. HarnessFields'
  BY <1>1, <1>2 DEF HarnessFields
<1>4. WaitsForTheNext'
  BY <1>1, <1>2 DEF WaitsForTheNext
<1>5. AnsweredUnderItsId' /\ SentOnce'
  BY <1>1, <1>2 DEF AnsweredUnderItsId, SentOnce
<1>6. LateOnesWereGivenUp'
  BY <1>1, <1>2 DEF LateOnesWereGivenUp
<1> QED
  BY <1>3, <1>4, <1>5, <1>6

LEMMA HarnessStepKeeps ==
  ASSUME scene = "harness", HarnessInv, AnswerIsOwn, HarnessSteps
  PROVE  HarnessInv' /\ AnswerIsOwn'
<1>1. CASE HarnessWrites
  BY <1>1, WritesKeep DEF HarnessWrites, AnswerIsOwn
<1>2. CASE HarnessHears
  BY <1>2, HearsKeep
<1>3. CASE HarnessSkips
  BY <1>3, SkipsKeep DEF HarnessSkips, harnessVars, AnswerIsOwn
<1>4. CASE HarnessGivesUp
  BY <1>4, GivesUpKeep DEF HarnessGivesUp, AnswerIsOwn
<1>5. CASE HarnessLosesTheRest
  BY <1>5, LosesKeep DEF HarnessLosesTheRest, AnswerIsOwn
<1>6. CASE HarnessEnds
  <2>1. at \in Nat /\ at > Len(harnessErrors) /\ at' = at /\ UNCHANGED harnessVars
    BY <1>6 DEF HarnessEnds, PlayEnds, HarnessInv, HarnessFields
  <2>2. ~Waits(at)
    BY <2>1 DEF HarnessInv, WaitsForTheNext
  <2> QED
    BY <2>1, <2>2, ClosesKeep DEF harnessVars, AnswerIsOwn
<1>7. ASSUME NEW n \in wire, StandSays(n)
      PROVE  HarnessInv' /\ AnswerIsOwn'
  BY <1>7, SaysKeep DEF StandSays, AnswerIsOwn
<1>8. CASE UNCHANGED harnessVars /\ PlayCloses(~stray)
  <2>1. at' = at /\ ~Waits(at)
    BY <1>8 DEF PlayCloses, HarnessInv, WaitsForTheNext
  <2> QED
    BY <1>8, <2>1, ClosesKeep DEF harnessVars, AnswerIsOwn
<1>9. CASE UNCHANGED harnessVars /\ StandDies
  BY <1>9, ClosesKeep DEF StandDies, harnessVars, AnswerIsOwn
<1> QED
  BY <1>1, <1>2, <1>3, <1>4, <1>5, <1>6, <1>7, <1>8, <1>9
  DEF HarnessSteps, HarnessMoves

LEMMA OnlyTheHarness ==
  ASSUME HarnessSteps, scene # "harness"
  PROVE  scene' = scene /\ UNCHANGED harnessVars
BY DEF HarnessSteps, HarnessMoves, HarnessWrites, HarnessHears, HarnessSkips,
       HarnessGivesUp, HarnessLosesTheRest, HarnessEnds, HarnessPlays, StandSays,
       PlayCloses, StandDies

-----------------------------------------------------------------------------

(* The invariant holds through the whole run of the verifier, in whatever  *)
(* order answers, timers and the exit of the program come.                 *)
THEOREM VerifyInvHolds == VerifySpec => []VerifyInv
<1>1. VerifyInit => VerifyInv
  <2> SUFFICES ASSUME VerifyInit  PROVE VerifyInv
    OBVIOUS
  <2>1. NothingElsewhere
    BY DEF VerifyInit, SessionInit, HoldInit, NothingElsewhere
  <2>2. /\ at = 1 /\ waiters = {} /\ nullWaiters = << >> /\ wire = {}
        /\ said = << >> /\ matched = {} /\ givenUp = {}
    BY DEF VerifyInit, PlayInit, HarnessInit
  <2>3. Outstanding = {} /\ ~Waits(at)
    BY <2>2 DEF Outstanding, Waits
  <2>4. HarnessFields
    <3>1. << >> \in Seq({said[i] : i \in DOMAIN said})
      BY EmptySeq
    <3> QED
      BY <2>2, <2>3, <3>1 DEF HarnessFields
  <2>5. WaitsForTheNext /\ AnsweredUnderItsId
    BY <2>2, <2>3 DEF WaitsForTheNext, AnsweredUnderItsId
  <2>6. SentOnce /\ LateOnesWereGivenUp
    BY <2>2, <2>3 DEF SentOnce, LateOnesWereGivenUp
  <2> QED
    BY <2>1, <2>2, <2>4, <2>5, <2>6 DEF VerifyInv, HarnessInv, AnswerIsOwn
<1>2. VerifyInv /\ [VerifyNext]_vars => VerifyInv'
  <2> SUFFICES ASSUME VerifyInv, [VerifyNext]_vars  PROVE VerifyInv'
    OBVIOUS
  <2>1. CASE VerifyNext
    <3>1. CASE UNCHANGED harnessVars /\ scene # "harness" /\ scene' = scene
      BY <3>1 DEF VerifyInv, AnswerIsOwn, harnessVars
    <3>2. CASE UNCHANGED elsewhere /\ HarnessSteps /\ scene = "harness"
      <4>1. NothingElsewhere'
        BY <3>2 DEF VerifyInv, NothingElsewhere, elsewhere
      <4> QED
        BY <3>2, <4>1, HarnessStepKeeps DEF VerifyInv
    <3>3. CASE UNCHANGED elsewhere /\ HarnessSteps /\ scene # "harness"
      <4>1. scene' = scene /\ UNCHANGED harnessVars
        BY <3>3, OnlyTheHarness
      <4> QED
        BY <3>3, <4>1 DEF VerifyInv, AnswerIsOwn, harnessVars
    <3> QED
      BY <2>1, <3>1, <3>2, <3>3, StepsApart DEF VerifyInv
  <2>2. CASE UNCHANGED vars
    <3>1. UNCHANGED << playVars, harnessVars, sessionVars, holdVars >>
      BY <2>2 DEF vars
    <3>2. scene' = scene /\ at' = at /\ phase' = phase /\ NothingElsewhere' = NothingElsewhere
      BY <3>1 DEF playVars, sessionVars, holdVars, NothingElsewhere
    <3>3. HarnessInv => HarnessInv'
      BY <3>1, <3>2, ClosesKeep
    <3> QED
      BY <3>1, <3>2, <3>3 DEF VerifyInv, AnswerIsOwn, harnessVars
  <2> QED
    BY <2>1, <2>2
<1> QED
  BY <1>1, <1>2, PTL DEF VerifySpec

(* No request of the verifier takes an answer that is another's, but among *)
(* those that wrote no id once one of them was given up: what onLine and   *)
(* the timer of raw promise harnessErrors.                                 *)
THEOREM EveryAnswerIsOwn == VerifySpec => []AnswerIsOwn
<1>1. VerifyInv => AnswerIsOwn
  BY DEF VerifyInv
<1> QED
  BY <1>1, VerifyInvHolds, PTL

-----------------------------------------------------------------------------
(* The kit as an asker: what its standing is on, and what the verifier has *)
(* in its books.                                                           *)

(* The lists.  An ask or a reply of a relation stands in a list before     *)
(* another; a reply named and not yet played is unanswered while no other  *)
(* ask of the relation comes before it.                                    *)
AsksAt(L, k, p) == k \in DOMAIN L /\ L[k].op = "asks" /\ L[k].who = p
RepliesAt(L, k, p) == k \in DOMAIN L /\ L[k].op = "replies" /\ L[k].who = p

Unanswered(L, i, p) ==
  \E m \in DOMAIN L : /\ m >= i /\ RepliesAt(L, m, p)
                      /\ \A j \in i..(m - 1) : ~AsksAt(L, j, p)

(* From a step on, every reply has its ask before it.                      *)
Clean(L, i) == \A p : ~Unanswered(L, i, p)

(* From a step on, nothing of the relation is left.                        *)
Over(L, i, p) ==
  \A m \in DOMAIN L : m >= i => ~AsksAt(L, m, p) /\ ~RepliesAt(L, m, p)

(* The step after a relation given up at an ask.                           *)
After(L, k) == k + 1 + L[k].left

InOrder(L, P) ==
  /\ L \in Seq({L[k] : k \in DOMAIN L})
  /\ \A k \in DOMAIN L : L[k].op \in {"asks", "replies"} => L[k].who \in P
  /\ Clean(L, 1)
  /\ \A k \in DOMAIN L : L[k].op = "asks" =>
       /\ L[k].left \in Nat
       /\ After(L, k) <= Len(L) + 1
       /\ Clean(L, After(L, k))
       /\ Over(L, After(L, k), L[k].who)

SentAsks == [kind : {"knock", "probe", "ask"}, lid : Parties \X (1..MaxAsks),
             box : Box(Edge)]

StandingFields ==
  [phase : {"fresh", "uncertain", "bound"}, signer : Keys, edge : Edge,
   seq : 0..MaxAsks, moved : 0..MaxAsks, probeNext : BOOLEAN,
   knock : SentAsks \cup {NoSent}, last : SentAsks \cup {NoSent}]

TakenFields ==
  [knock : BOOLEAN, edge : Edge, by : Keys \cup {NoKey},
   announced : Keys \cup {NoKey}, seq : Nat,
   lid : (Parties \X (1..MaxAsks)) \cup {NoCt}, box : Box(Edge) \cup {NoCt}]

MintFields ==
  [state : {"fresh", "spent"}, knock : TakenFields, key : Keys \cup {NoKey},
   edge : Edge, movedAt : Nat,
   from : [key : Keys \cup {NoKey}, edge : Edge], back : BOOLEAN]

(* A box sealed by a standing: it announces a key drawn for it, and is not *)
(* signed with that key.                                                   *)
SentBy(p, x) ==
  /\ x \in SentAsks
  /\ x.lid[1] = p
  /\ x.box.head = Invitation[p]
  /\ x.box.next = x.lid
  /\ x.box.seq = x.lid[2]
  /\ x.box.by # x.box.next

(* A standing that knocked and moved on nothing signs with the key of its  *)
(* knock; a box with a ciphertext is the knock, sealed or sent again.      *)
Stands(p, s) ==
  /\ s \in StandingFields
  /\ s.signer \in {Invitation[p]} \cup {Drawn(p, m) : m \in 1..s.seq}
  /\ s.phase = "fresh" => s.last = NoSent /\ s.moved = 0
  /\ s.phase # "fresh" =>
       /\ SentBy(p, s.last) /\ s.last.lid[2] <= s.seq
       /\ SentBy(p, s.knock) /\ s.knock.lid[2] <= s.seq
       /\ s.moved = 0 =>
            s.signer = s.knock.box.next /\ s.edge = s.knock.box.edge
       /\ s.last.box.ct # NoCt => s.last = s.knock
  /\ s.phase = "uncertain" => s.moved = 0

(* The relation as the verifier minted and followed it, to its standing.   *)
Follows(s, r) ==
  IF r.state = "spent"
    THEN /\ s.phase = "bound"
         /\ s.signer = r.key /\ s.edge = r.edge /\ s.moved = r.movedAt
    ELSE /\ s.moved = 0 /\ r.movedAt = 0
         /\ r.knock # NotTaken =>
              /\ s.phase # "fresh"
              /\ s.signer = r.knock.announced /\ s.edge = r.knock.edge

(* The box last taken apart, to the one the standing sealed last.          *)
InStep(s, t) ==
  /\ s.phase # "fresh"
  /\ t.knock = (s.last.box.ct # NoCt)
  /\ t.edge = s.last.box.edge
  /\ t.announced = s.last.box.next
  /\ t.seq = s.last.box.seq
  /\ t.lid = s.last.lid
  /\ t.box = s.last.box

(* A send that was given up may still be under way: it is of a relation    *)
(* the list is through with.                                               *)
SendInTurn(L, i, x) ==
  /\ x = [turn |-> x.turn, who |-> x.who, to |-> x.to, sent |-> x.sent]
  /\ x.who \in Players
  /\ x.turn \in 1..i
  /\ x.turn < i => Over(L, i, x.who)

SendsInTurn ==
  /\ scene = "asker" => sends = {} /\ ~waiter
  /\ waiter => at \in DOMAIN Lists[scene] /\ Lists[scene][at].op = "asks"
  /\ \A x \in sends :
       /\ SendInTurn(Lists[scene], at, x)
       /\ x.turn = at => waiter /\ Lists[scene][at].who = x.who
       /\ x.sent # NoSent => /\ st[x.who].phase # "fresh"
                             /\ x.sent = st[x.who].last
  /\ \A x, y \in sends : x.who = y.who => x = y

PlayerFields ==
  /\ at \in 1..(Len(Lists[scene]) + 1)
  /\ st \in [Parties -> StandingFields]
  /\ mints \in [Parties -> MintFields]
  /\ taken \in [Parties -> TakenFields]

PlayerInv ==
  /\ PlayerFields
  /\ \A p \in Parties : Stands(p, st[p])
  /\ ~late => \A p \in Parties : Follows(st[p], mints[p])
  /\ \A p \in Parties :
       Unanswered(Lists[scene], at, p) => InStep(st[p], taken[p])
  /\ SendsInTurn

AskerInv ==
  scene \in DOMAIN Lists =>
    /\ flight = << >>
    /\ phase = "play" => PlayerInv

-----------------------------------------------------------------------------
(* The lists are in order.                                                 *)

LEMMA OverStays ==
  ASSUME NEW L, NEW i \in Nat, NEW j \in Nat, j >= i, NEW p,
         L \in Seq({L[k] : k \in DOMAIN L}), Over(L, i, p)
  PROVE  Over(L, j, p)
BY DEF Over

LEMMA OverIsClean ==
  ASSUME NEW L, NEW i \in Nat, NEW p, Over(L, i, p)
  PROVE  ~Unanswered(L, i, p)
BY DEF Over, Unanswered

LEMMA EndIsOver ==
  ASSUME NEW L, L \in Seq({L[k] : k \in DOMAIN L})
  PROVE  /\ Len(L) + 1 \in Nat
         /\ Clean(L, Len(L) + 1)
         /\ \A p : Over(L, Len(L) + 1, p)
<1>1. Len(L) \in Nat /\ DOMAIN L = 1..Len(L)
  OBVIOUS
<1>2. \A m \in DOMAIN L : ~(m >= Len(L) + 1)
  BY ONLY <1>1
<1> QED
  BY ONLY <1>1, <1>2 DEF Clean, Unanswered, Over

(* What is unanswered after a step was unanswered before it, unless the    *)
(* step is its ask.                                                        *)
LEMMA UnansweredBefore ==
  ASSUME NEW L, NEW i \in Nat, NEW p, L \in Seq({L[k] : k \in DOMAIN L}),
         Unanswered(L, i + 1, p), ~AsksAt(L, i, p)
  PROVE  Unanswered(L, i, p)
<1>1. PICK m \in DOMAIN L : /\ m >= i + 1 /\ RepliesAt(L, m, p)
                            /\ \A j \in (i + 1)..(m - 1) : ~AsksAt(L, j, p)
  BY DEF Unanswered
<1>2. m \in Nat
  OBVIOUS
<1>3. \A j \in i..(m - 1) : j = i \/ j \in (i + 1)..(m - 1)
  BY ONLY <1>2, i \in Nat
<1>4. m >= i
  BY ONLY <1>1, <1>2, i \in Nat
<1> QED
  BY <1>1, <1>3, <1>4 DEF Unanswered

LEMMA AskIsNotUnanswered ==
  ASSUME NEW L, NEW i \in Nat, NEW p, L \in Seq({L[k] : k \in DOMAIN L}),
         AsksAt(L, i, p)
  PROVE  ~Unanswered(L, i, p)
<1> SUFFICES ASSUME NEW m \in DOMAIN L, m >= i, RepliesAt(L, m, p)
             PROVE  i \in i..(m - 1)
  BY DEF Unanswered
<1>1. m # i
  BY DEF AsksAt, RepliesAt
<1> QED
  BY <1>1

LEMMA ReplyIsUnanswered ==
  ASSUME NEW L, NEW i \in Nat, NEW p, RepliesAt(L, i, p)
  PROVE  Unanswered(L, i, p)
<1>1. i \in DOMAIN L /\ i >= i /\ i..(i - 1) = {}
  BY DEF RepliesAt
<1> QED
  BY <1>1 DEF Unanswered

LEMMA FunctionIsList ==
  ASSUME NEW n \in Nat, NEW f, f = [k \in 1..n |-> f[k]]
  PROVE  f \in Seq({f[k] : k \in DOMAIN f}) /\ Len(f) = n
<1> DEFINE S == {f[k] : k \in DOMAIN f}
<1>1. DOMAIN f = 1..n
  OBVIOUS
<1>2. \A k \in 1..n : f[k] \in S
  BY <1>1
<1> HIDE DEF S
<1>3. f \in [1..n -> S]
  BY <1>2
<1>4. f \in Seq(S)
  BY <1>3
<1>5. Len(f) = n
  BY <1>1, <1>4, LenProperties
<1> QED
  BY <1>4, <1>5 DEF S

LEMMA TheRest ==
  ASSUME NEW n \in Nat, NEW k \in 1..n, NEW l, l = n - k
  PROVE  l \in Nat /\ k + 1 + l = n + 1
OBVIOUS

LEMMA FurtherOn ==
  ASSUME NEW n \in Nat, NEW d \in Nat, NEW l \in Nat, NEW k, k = n + d
  PROVE  k + 1 + l = (n + 1 + l) + d /\ n + 1 + l \in Nat /\ n + 1 + l >= 1
OBVIOUS

LEMMA RelationInOrder ==
  ASSUME NEW S, NEW names \in Seq(S), NEW p
  PROVE  InOrder(relation(p, names), {p})
<1> DEFINE replies == Append(names, "silence")
           total == 2 * Len(replies)
           L == relation(p, names)
<1>1. replies \in Seq(S \cup {"silence"}) /\ Len(replies) \in Nat
  <2>1. names \in Seq(S \cup {"silence"})
    BY SeqMonotonic
  <2> QED
    BY <2>1
<1>2. total \in Nat
  BY <1>1
<1>3. L = [k \in 1..total |->
        [op |-> IF k % 2 = 1 THEN "asks" ELSE "replies", who |-> p,
         name |-> replies[(k + 1) \div 2], left |-> total - k]]
  BY DEF relation
<1> HIDE DEF replies, total, L
<1>4. /\ DOMAIN L = 1..total
      /\ \A k \in 1..total : /\ L[k].op = IF k % 2 = 1 THEN "asks" ELSE "replies"
                             /\ L[k].who = p
                             /\ L[k].left = total - k
  BY <1>3
<1>5. L \in Seq({L[k] : k \in DOMAIN L}) /\ Len(L) = total
  <2>1. L = [k \in 1..total |-> L[k]]
    BY <1>3, <1>4
  <2> QED
    BY ONLY <1>2, <2>1, FunctionIsList
<1>6. Clean(L, 1)
  <2> SUFFICES ASSUME NEW q, NEW m \in DOMAIN L, m >= 1, RepliesAt(L, m, q)
               PROVE  \E j \in 1..(m - 1) : AsksAt(L, j, q)
    BY DEF Clean, Unanswered
  <2>1. m \in 1..total /\ q = p /\ m % 2 # 1
    BY <1>4 DEF RepliesAt
  <2>2. m - 1 \in 1..(m - 1) /\ m - 1 \in 1..total /\ (m - 1) % 2 = 1
    BY <1>2, <2>1
  <2>3. AsksAt(L, m - 1, q)
    BY <1>4, <2>1, <2>2 DEF AsksAt
  <2> QED
    BY <2>2, <2>3
<1>7. ASSUME NEW k \in DOMAIN L
      PROVE  L[k].left \in Nat /\ After(L, k) = Len(L) + 1
  <2>1. k \in 1..total /\ L[k].left = total - k
    BY <1>4, <1>7
  <2>2. L[k].left \in Nat /\ k + 1 + L[k].left = total + 1
    BY ONLY <1>2, <2>1, TheRest
  <2> QED
    BY ONLY <1>5, <2>2 DEF After
<1>8. /\ Len(L) + 1 <= Len(L) + 1 /\ Clean(L, Len(L) + 1)
      /\ \A q : Over(L, Len(L) + 1, q)
  <2>1. /\ Clean(L, Len(L) + 1) /\ \A q : Over(L, Len(L) + 1, q)
        /\ Len(L) + 1 \in Nat
    BY ONLY <1>5, EndIsOver
  <2> QED
    BY ONLY <2>1
<1>9. InOrder(L, {p})
  BY <1>4, <1>5, <1>6, <1>7, <1>8 DEF InOrder
<1> QED
  BY <1>9 DEF L

LEMMA InterleavedInOrder ==
  ASSUME NEW a, NEW b, a # b
  PROVE  InOrder(interleaved(a, b), {a, b})
<1> DEFINE rounds == << << "object", "object" >>, << "silence", "object" >>,
                        << "object", "nothing" >>, << "object", "object" >> >>
           L == interleaved(a, b)
<1>1. 4 * Len(rounds) = 16
  OBVIOUS
<1>2. L = [k \in 1..16 |->
        [op |-> IF (k - 1) % 4 < 2 THEN "asks" ELSE "replies",
         who |-> IF (k - 1) % 4 \in {0, 3} THEN a ELSE b,
         name |-> rounds[(k + 3) \div 4][IF (k - 1) % 4 = 2 THEN 2 ELSE 1],
         left |-> 16 - k]]
  BY <1>1 DEF interleaved
<1> HIDE DEF rounds, L
<1>3. /\ DOMAIN L = 1..16
      /\ \A k \in 1..16 :
           /\ L[k].op = IF (k - 1) % 4 < 2 THEN "asks" ELSE "replies"
           /\ L[k].who = IF (k - 1) % 4 \in {0, 3} THEN a ELSE b
           /\ L[k].left = 16 - k
  BY <1>2
<1>4. L \in Seq({L[k] : k \in DOMAIN L}) /\ Len(L) = 16
  <2>1. L = [k \in 1..16 |-> L[k]]
    BY <1>2, <1>3
  <2> QED
    BY ONLY <2>1, FunctionIsList
<1>5. Clean(L, 1)
  <2> SUFFICES ASSUME NEW q, NEW m \in DOMAIN L, m >= 1, RepliesAt(L, m, q)
               PROVE  \E j \in 1..(m - 1) : AsksAt(L, j, q)
    BY DEF Clean, Unanswered
  <2>1. /\ m \in 1..16 /\ ~((m - 1) % 4 < 2)
        /\ q = IF (m - 1) % 4 \in {0, 3} THEN a ELSE b
    BY <1>3 DEF RepliesAt
  <2>2. CASE (m - 1) % 4 = 2
    <3>1. /\ m - 1 \in 1..(m - 1) /\ m - 1 \in 1..16
          /\ ((m - 1) - 1) % 4 = 1
      BY <2>1, <2>2
    <3>2. AsksAt(L, m - 1, q)
      BY <1>3, <2>1, <2>2, <3>1 DEF AsksAt
    <3> QED
      BY <3>1, <3>2
  <2>3. CASE (m - 1) % 4 = 3
    <3>1. /\ m - 3 \in 1..(m - 1) /\ m - 3 \in 1..16
          /\ ((m - 3) - 1) % 4 = 0
      BY <2>1, <2>3
    <3>2. AsksAt(L, m - 3, q)
      BY <1>3, <2>1, <2>3, <3>1 DEF AsksAt
    <3> QED
      BY <3>1, <3>2
  <2>4. (m - 1) % 4 \in 0..3
    BY <2>1
  <2> QED
    BY <2>1, <2>2, <2>3, <2>4
<1>6. ASSUME NEW k \in DOMAIN L
      PROVE  L[k].left \in Nat /\ After(L, k) = Len(L) + 1
  <2>1. k \in 1..16 /\ L[k].left = 16 - k
    BY <1>3, <1>6
  <2>2. 16 \in Nat
    OBVIOUS
  <2>3. L[k].left \in Nat /\ k + 1 + L[k].left = 16 + 1
    BY ONLY <2>1, <2>2, TheRest
  <2> QED
    BY ONLY <1>4, <2>3 DEF After
<1>7. /\ Len(L) + 1 <= Len(L) + 1 /\ Clean(L, Len(L) + 1)
      /\ \A q : Over(L, Len(L) + 1, q)
  <2>1. /\ Clean(L, Len(L) + 1) /\ \A q : Over(L, Len(L) + 1, q)
        /\ Len(L) + 1 \in Nat
    BY ONLY <1>4, EndIsOver
  <2> QED
    BY ONLY <2>1
<1>8. InOrder(L, {a, b})
  BY <1>3, <1>4, <1>5, <1>6, <1>7 DEF InOrder
<1> QED
  BY <1>8 DEF L

LEMMA OneInOrder ==
  ASSUME NEW x, x.op \notin {"asks", "replies"}
  PROVE  InOrder(<< x >>, {})
<1>1. DOMAIN << x >> = {1} /\ << x >>[1] = x /\ << x >> \in Seq({x})
  OBVIOUS
<1>2. {<< x >>[k] : k \in DOMAIN << x >>} = {x}
  BY <1>1
<1>3. Clean(<< x >>, 1)
  BY <1>1 DEF Clean, Unanswered, RepliesAt
<1> QED
  BY <1>1, <1>2, <1>3 DEF InOrder

LEMMA NoneInOrder == InOrder(<< >>, {})
<1>1. << >> \in Seq({<< >>[k] : k \in DOMAIN << >>})
  BY EmptySeq
<1>2. DOMAIN << >> = {}
  OBVIOUS
<1> QED
  BY ONLY <1>1, <1>2 DEF InOrder, Clean, Unanswered

LEMMA InOrderForMore ==
  ASSUME NEW L, NEW P, NEW Q, P \subseteq Q, InOrder(L, P)
  PROVE  InOrder(L, Q)
BY DEF InOrder

(* One list after another, of relations of its own.                        *)
LEMMA ConcatInOrder ==
  ASSUME NEW L, NEW M, NEW P, NEW Q, InOrder(L, P), InOrder(M, Q),
         P \cap Q = {}
  PROVE  InOrder(L \o M, P \cup Q)
<1> DEFINE C == L \o M
           S == {L[k] : k \in DOMAIN L} \cup {M[k] : k \in DOMAIN M}
<1>1. L \in Seq(S) /\ M \in Seq(S)
  <2>1. /\ L \in Seq({L[k] : k \in DOMAIN L}) /\ M \in Seq({M[k] : k \in DOMAIN M})
    BY DEF InOrder
  <2>2. {L[k] : k \in DOMAIN L} \subseteq S /\ {M[k] : k \in DOMAIN M} \subseteq S
    OBVIOUS
  <2> HIDE DEF S
  <2> QED
    BY <2>1, <2>2, SeqMonotonic
<1> HIDE DEF S
<1>2. /\ Len(L) \in Nat /\ DOMAIN L = 1..Len(L)
      /\ Len(M) \in Nat /\ DOMAIN M = 1..Len(M)
  BY <1>1, LenProperties
<1>3. /\ C \in Seq(S) /\ Len(C) = Len(L) + Len(M)
      /\ \A k \in 1..(Len(L) + Len(M)) :
           C[k] = IF k <= Len(L) THEN L[k] ELSE M[k - Len(L)]
  BY <1>1, ConcatProperties
<1>4. DOMAIN C = 1..(Len(L) + Len(M))
  BY <1>3, LenProperties
<1> HIDE DEF C
<1>5. C \in Seq({C[k] : k \in DOMAIN C})
  BY <1>3, RangeOf
<1>6. \A k \in DOMAIN L : k \in DOMAIN C /\ C[k] = L[k]
  BY <1>2, <1>3, <1>4
<1>7. \A k \in DOMAIN M : k + Len(L) \in DOMAIN C /\ C[k + Len(L)] = M[k]
  BY <1>2, <1>3, <1>4
<1>8. \A k \in DOMAIN C : \/ k \in DOMAIN L
                          \/ k > Len(L) /\ k - Len(L) \in DOMAIN M
                             /\ C[k] = M[k - Len(L)]
  BY <1>2, <1>3, <1>4
<1>9. \A k \in DOMAIN L : L[k].op \in {"asks", "replies"} => L[k].who \in P
  BY DEF InOrder
<1>10. \A k \in DOMAIN M : M[k].op \in {"asks", "replies"} => M[k].who \in Q
  BY DEF InOrder
<1>11. ASSUME NEW i \in Nat, i >= 1, i <= Len(L) + 1, Clean(L, i)
       PROVE  Clean(C, i)
  <2> SUFFICES ASSUME NEW p, NEW m \in DOMAIN C, m >= i, RepliesAt(C, m, p)
               PROVE  \E j \in i..(m - 1) : AsksAt(C, j, p)
    BY DEF Clean, Unanswered
  <2>1. CASE m \in DOMAIN L
    <3>1. RepliesAt(L, m, p)
      BY <1>6, <2>1 DEF RepliesAt
    <3>2. PICK j \in i..(m - 1) : AsksAt(L, j, p)
      BY <1>11, <2>1, <3>1 DEF Clean, Unanswered
    <3>3. AsksAt(C, j, p)
      BY <1>6, <3>2 DEF AsksAt
    <3> QED
      BY <3>3
  <2>2. CASE m \notin DOMAIN L
    <3>1. RepliesAt(M, m - Len(L), p) /\ m - Len(L) \in DOMAIN M
      BY <1>8, <2>2 DEF RepliesAt
    <3>2. m - Len(L) >= 1
      BY <1>2, <3>1
    <3>3. Clean(M, 1)
      BY DEF InOrder
    <3>4. PICK j \in 1..((m - Len(L)) - 1) : AsksAt(M, j, p)
      BY <3>1, <3>2, <3>3 DEF Clean, Unanswered
    <3>5. AsksAt(C, j + Len(L), p)
      BY <1>7, <3>4 DEF AsksAt
    <3>6. j + Len(L) \in i..(m - 1)
      BY ONLY <1>2, <1>4, <1>11, j \in 1..((m - Len(L)) - 1), m \in DOMAIN C
    <3> QED
      BY <3>5, <3>6
  <2> QED
    BY <2>1, <2>2
<1>12. ASSUME NEW i \in Nat, i >= 1, Clean(M, i)
       PROVE  Clean(C, i + Len(L))
  <2> SUFFICES ASSUME NEW p, NEW m \in DOMAIN C, m >= i + Len(L), RepliesAt(C, m, p)
               PROVE  \E j \in (i + Len(L))..(m - 1) : AsksAt(C, j, p)
    BY DEF Clean, Unanswered
  <2>1. m \notin DOMAIN L
    BY <1>2, <1>4, <1>12
  <2>2. RepliesAt(M, m - Len(L), p) /\ m - Len(L) \in DOMAIN M
    BY <1>8, <2>1 DEF RepliesAt
  <2>3. m - Len(L) >= i
    BY <1>2, <1>4
  <2>4. PICK j \in i..((m - Len(L)) - 1) : AsksAt(M, j, p)
    BY <1>12, <2>2, <2>3 DEF Clean, Unanswered
  <2>5. AsksAt(C, j + Len(L), p)
    BY <1>7, <2>4 DEF AsksAt
  <2>6. j + Len(L) \in (i + Len(L))..(m - 1)
    BY ONLY <1>2, <1>4, i \in Nat, j \in i..((m - Len(L)) - 1), m \in DOMAIN C
  <2> QED
    BY <2>5, <2>6
<1>13. ASSUME NEW k \in DOMAIN C, C[k].op = "asks"
       PROVE  /\ C[k].left \in Nat
              /\ After(C, k) <= Len(C) + 1
              /\ Clean(C, After(C, k))
              /\ Over(C, After(C, k), C[k].who)
  <2>1. CASE k \in DOMAIN L
    <3>1. C[k] = L[k]
      BY <1>6, <2>1
    <3>2. /\ L[k].left \in Nat /\ After(L, k) <= Len(L) + 1
          /\ Clean(L, After(L, k)) /\ Over(L, After(L, k), L[k].who)
          /\ L[k].who \in P
      BY <1>9, <1>13, <2>1, <3>1 DEF InOrder
    <3>3. After(C, k) = After(L, k) /\ After(L, k) \in Nat /\ After(L, k) >= 1
      BY <1>2, <2>1, <3>1, <3>2 DEF After
    <3>4. After(C, k) <= Len(C) + 1
      BY ONLY <1>2, <1>3, <3>2, <3>3
    <3>5. Clean(C, After(C, k))
      BY <1>11, <3>2, <3>3
    <3>6. Over(C, After(C, k), C[k].who)
      <4> SUFFICES ASSUME NEW m \in DOMAIN C, m >= After(L, k)
                   PROVE  ~AsksAt(C, m, L[k].who) /\ ~RepliesAt(C, m, L[k].who)
        BY <3>1, <3>3 DEF Over
      <4>1. CASE m \in DOMAIN L
        BY <1>6, <3>2, <4>1 DEF Over, AsksAt, RepliesAt
      <4>2. CASE m \notin DOMAIN L
        BY <1>8, <1>10, <3>2, <4>2 DEF AsksAt, RepliesAt
      <4> QED
        BY <4>1, <4>2
    <3> QED
      BY <3>1, <3>2, <3>4, <3>5, <3>6
  <2>2. CASE k \notin DOMAIN L
    <3> DEFINE n == k - Len(L)
    <3>1. n \in DOMAIN M /\ C[k] = M[n] /\ n \in Nat /\ n >= 1 /\ k = n + Len(L)
      BY <1>2, <1>4, <1>8, <2>2
    <3> HIDE DEF n
    <3>2. /\ M[n].left \in Nat /\ After(M, n) <= Len(M) + 1
          /\ Clean(M, After(M, n)) /\ Over(M, After(M, n), M[n].who)
          /\ M[n].who \in Q
      BY <1>10, <1>13, <3>1 DEF InOrder
    <3>3. /\ After(C, k) = After(M, n) + Len(L)
          /\ After(M, n) \in Nat /\ After(M, n) >= 1
      <4>1. /\ n \in Nat /\ Len(L) \in Nat /\ C[k].left = M[n].left
            /\ M[n].left \in Nat /\ k = n + Len(L)
        BY ONLY <1>2, <3>1, <3>2
      <4>2. /\ k + 1 + M[n].left = (n + 1 + M[n].left) + Len(L)
            /\ n + 1 + M[n].left \in Nat /\ n + 1 + M[n].left >= 1
        BY ONLY <4>1, FurtherOn
      <4> QED
        BY ONLY <4>1, <4>2 DEF After
    <3>4. After(C, k) <= Len(C) + 1
      BY ONLY <1>2, <1>3, <3>2, <3>3
    <3>5. Clean(C, After(C, k))
      BY <1>12, <3>2, <3>3
    <3>6. Over(C, After(C, k), C[k].who)
      <4> SUFFICES ASSUME NEW m \in DOMAIN C, m >= After(M, n) + Len(L)
                   PROVE  ~AsksAt(C, m, M[n].who) /\ ~RepliesAt(C, m, M[n].who)
        BY <3>1, <3>3 DEF Over
      <4>1. m \notin DOMAIN L /\ m - Len(L) >= After(M, n)
        BY <1>2, <1>4, <3>3
      <4> QED
        BY <1>8, <3>2, <4>1 DEF Over, AsksAt, RepliesAt
    <3> QED
      BY <3>1, <3>2, <3>4, <3>5, <3>6
  <2> QED
    BY <2>1, <2>2
<1>14. \A k \in DOMAIN C : C[k].op \in {"asks", "replies"} => C[k].who \in P \cup Q
  BY <1>6, <1>8, <1>9, <1>10
<1>15. Clean(C, 1)
  <2>1. Clean(L, 1) /\ 1 \in Nat /\ 1 >= 1 /\ 1 <= Len(L) + 1
    BY <1>2 DEF InOrder
  <2> QED
    BY <1>11, <2>1
<1>16. InOrder(C, P \cup Q)
  BY <1>5, <1>13, <1>14, <1>15 DEF InOrder
<1> QED
  BY <1>16 DEF C

(* The replies a list names.                                               *)
ReplyNames ==
  {"silence", "object", "removed", "unannounced", "repeated", "nothing",
   "unread", "another lid", "closed", "no answer", "status"}

LEMMA LongIsAList == long \in Seq(ReplyNames)
<1> DEFINE unreads == [i \in 1..20 |-> "unread"]
           n == 2 * Len(still)
           middle == [k \in 1..n |->
                        IF k % 2 = 1 THEN still[(k + 1) \div 2] ELSE "object"]
<1>1. unreads \in Seq(ReplyNames)
  BY DEF ReplyNames
<1> HIDE DEF unreads
<1>2. still \in Seq(ReplyNames)
  <2>1. << "silence", "silence", "removed", "unannounced", "repeated", "nothing",
           "unread", "another lid" >> \in Seq(ReplyNames)
    BY DEF ReplyNames
  <2>2. still = << "silence", "silence", "removed", "unannounced", "repeated",
                   "nothing", "unread", "another lid" >> \o unreads
    BY DEF still, unreads
  <2> QED
    BY ONLY <1>1, <2>1, <2>2, ConcatProperties
<1>3. n \in Nat /\ DOMAIN still = 1..Len(still) /\ Len(still) \in Nat
  BY <1>2
<1>4. \A k \in 1..n : (IF k % 2 = 1 THEN still[(k + 1) \div 2] ELSE "object") \in ReplyNames
  <2> SUFFICES ASSUME NEW k \in 1..n, k % 2 = 1
               PROVE  still[(k + 1) \div 2] \in ReplyNames
    BY DEF ReplyNames
  <2>1. (k + 1) \div 2 \in 1..Len(still)
    BY <1>3
  <2> QED
    BY <1>2, <1>3, <2>1
<1>5. middle \in [1..n -> ReplyNames]
  BY <1>4
<1>6. middle \in Seq(ReplyNames)
  BY <1>3, <1>5
<1>7. long = << "silence", "object" >> \o middle \o << "object" >>
  BY DEF long
<1> HIDE DEF middle
<1> QED
  <2>1. << "silence", "object" >> \in Seq(ReplyNames)
    BY DEF ReplyNames
  <2>2. << "object" >> \in Seq(ReplyNames)
    BY DEF ReplyNames
  <2> QED
    BY <1>6, <1>7, <2>1, <2>2

LEMMA TheAskerInOrder == InOrder(theAsker, Players)
<1> DEFINE a1 == relation("r1", long)
           a2 == relation("r2", << "object", "nothing", "object", "silence" >>)
           a3 == relation("r3", << "nothing", "nothing", "object", "removed", "object" >>)
           a4 == relation("r4", << "unread", "repeated", "object", "unread", "object" >>)
           a5 == interleaved("r5", "r6")
<1>1. InOrder(a1, {"r1"})
  BY LongIsAList, RelationInOrder
<1>2. InOrder(a2, {"r2"})
  <2>1. << "object", "nothing", "object", "silence" >> \in Seq(ReplyNames)
    BY DEF ReplyNames
  <2> QED
    BY <2>1, RelationInOrder
<1>3. InOrder(a3, {"r3"})
  <2>1. << "nothing", "nothing", "object", "removed", "object" >> \in Seq(ReplyNames)
    BY DEF ReplyNames
  <2> QED
    BY <2>1, RelationInOrder
<1>4. InOrder(a4, {"r4"})
  <2>1. << "unread", "repeated", "object", "unread", "object" >> \in Seq(ReplyNames)
    BY DEF ReplyNames
  <2> QED
    BY <2>1, RelationInOrder
<1>5. InOrder(a5, {"r5", "r6"})
  BY InterleavedInOrder
<1>6. theAsker = a1 \o a2 \o a3 \o a4 \o a5
  BY DEF theAsker
<1> HIDE DEF a1, a2, a3, a4, a5
<1>7. InOrder(a1 \o a2, {"r1"} \cup {"r2"})
  <2>1. {"r1"} \cap {"r2"} = {}
    OBVIOUS
  <2> QED
    BY ONLY <1>1, <1>2, <2>1, ConcatInOrder
<1>8. InOrder(a1 \o a2 \o a3, {"r1"} \cup {"r2"} \cup {"r3"})
  <2>1. ({"r1"} \cup {"r2"}) \cap {"r3"} = {}
    OBVIOUS
  <2> QED
    BY ONLY <1>3, <1>7, <2>1, ConcatInOrder
<1>9. InOrder(a1 \o a2 \o a3 \o a4, {"r1"} \cup {"r2"} \cup {"r3"} \cup {"r4"})
  <2>1. ({"r1"} \cup {"r2"} \cup {"r3"}) \cap {"r4"} = {}
    OBVIOUS
  <2> QED
    BY ONLY <1>4, <1>8, <2>1, ConcatInOrder
<1>10. InOrder(a1 \o a2 \o a3 \o a4 \o a5,
               {"r1"} \cup {"r2"} \cup {"r3"} \cup {"r4"} \cup {"r5", "r6"})
  <2>1. ({"r1"} \cup {"r2"} \cup {"r3"} \cup {"r4"}) \cap {"r5", "r6"} = {}
    OBVIOUS
  <2> QED
    BY ONLY <1>5, <1>9, <2>1, ConcatInOrder
<1>11. {"r1"} \cup {"r2"} \cup {"r3"} \cup {"r4"} \cup {"r5", "r6"} \subseteq Players
  BY DEF Players
<1> QED
  BY ONLY <1>6, <1>10, <1>11, InOrderForMore

LEMMA RoutesInOrder ==
  ASSUME NEW to
  PROVE  InOrder(<< Routes(to) >>, {})
<1>1. Routes(to).op \notin {"asks", "replies"}
  BY DEF Routes
<1> QED
  BY <1>1, OneInOrder

LEMMA CountsInOrder == InOrder(<< Counts >>, {})
<1>1. Counts.op \notin {"asks", "replies"}
  BY DEF Counts
<1> QED
  BY <1>1, OneInOrder

LEMMA TheInvitationInOrder == InOrder(theInvitationAt, Players)
<1> DEFINE a1 == relation("r1", << "object", "nothing", "object" >>)
           a2 == relation("r2", << "object", "object" >>)
           f == << Routes("first") >>
<1>1. InOrder(a1, {"r1"})
  <2>1. << "object", "nothing", "object" >> \in Seq(ReplyNames)
    BY DEF ReplyNames
  <2> QED
    BY <2>1, RelationInOrder
<1>2. InOrder(a2, {"r2"})
  <2>1. << "object", "object" >> \in Seq(ReplyNames)
    BY DEF ReplyNames
  <2> QED
    BY <2>1, RelationInOrder
<1>3. InOrder(f, {})
  BY RoutesInOrder
<1>4. theInvitationAt = f \o a1 \o f \o a2
  BY DEF theInvitationAt
<1> HIDE DEF a1, a2, f
<1>5. InOrder(f \o a1, {} \cup {"r1"})
  <2>1. {} \cap {"r1"} = {}
    OBVIOUS
  <2> QED
    BY ONLY <1>1, <1>3, <2>1, ConcatInOrder
<1>6. InOrder(f \o a1 \o f, {} \cup {"r1"} \cup {})
  <2>1. ({} \cup {"r1"}) \cap {} = {}
    OBVIOUS
  <2> QED
    BY ONLY <1>3, <1>5, <2>1, ConcatInOrder
<1>7. InOrder(f \o a1 \o f \o a2, {} \cup {"r1"} \cup {} \cup {"r2"})
  <2>1. ({} \cup {"r1"} \cup {}) \cap {"r2"} = {}
    OBVIOUS
  <2> QED
    BY ONLY <1>2, <1>6, <2>1, ConcatInOrder
<1>8. {} \cup {"r1"} \cup {} \cup {"r2"} \subseteq Players
  BY DEF Players
<1> QED
  BY ONLY <1>4, <1>7, <1>8, InOrderForMore

LEMMA DialerInOrder ==
  ASSUME NEW posts \in BOOLEAN
  PROVE  InOrder(dialer(posts), Players)
<1> DEFINE m1 == << "object", "nothing", "silence", "object", "closed",
                    "no answer", "object", "unread", "another lid", "object",
                    "repeated", "object" >>
           m2 == IF posts THEN << "status", "object", "status", "status",
                                  "object" >> ELSE << >>
           a1 == relation("r1", m1 \o m2)
           a2 == relation("r2", << "nothing", "object", "removed", "object" >>)
           a3 == relation("r3", << "closed", "object", "unread", "object" >>)
           a4 == relation("r4", << "no answer", "object" >>)
           a5 == IF posts THEN relation("r5", << "status", "object" >>) ELSE << >>
           a6 == relation("r6", << "object" >>)
           f == << Routes("first") >>
           g == << Routes("second") >>
           c == << Counts >>
<1>1. InOrder(a1, {"r1"})
  <2>1. m1 \in Seq(ReplyNames)
    BY DEF ReplyNames
  <2>2. m2 \in Seq(ReplyNames)
    <3>1. << "status", "object", "status", "status", "object" >> \in Seq(ReplyNames)
      BY DEF ReplyNames
    <3>2. << >> \in Seq(ReplyNames)
      BY EmptySeq
    <3> QED
      BY <3>1, <3>2
  <2> HIDE DEF m1, m2
  <2>3. m1 \o m2 \in Seq(ReplyNames)
    BY ONLY <2>1, <2>2, ConcatProperties
  <2> QED
    BY <2>3, RelationInOrder
<1>2. InOrder(a2, {"r2"})
  <2>1. << "nothing", "object", "removed", "object" >> \in Seq(ReplyNames)
    BY DEF ReplyNames
  <2> QED
    BY <2>1, RelationInOrder
<1>3. InOrder(a3, {"r3"})
  <2>1. << "closed", "object", "unread", "object" >> \in Seq(ReplyNames)
    BY DEF ReplyNames
  <2> QED
    BY <2>1, RelationInOrder
<1>4. InOrder(a4, {"r4"})
  <2>1. << "no answer", "object" >> \in Seq(ReplyNames)
    BY DEF ReplyNames
  <2> QED
    BY <2>1, RelationInOrder
<1>5. InOrder(a5, {"r5"})
  <2>1. << "status", "object" >> \in Seq(ReplyNames)
    BY DEF ReplyNames
  <2>2. InOrder(relation("r5", << "status", "object" >>), {"r5"})
    BY <2>1, RelationInOrder
  <2>3. InOrder(<< >>, {"r5"})
    BY NoneInOrder, InOrderForMore
  <2> QED
    BY <2>2, <2>3
<1>6. InOrder(a6, {"r6"})
  <2>1. << "object" >> \in Seq(ReplyNames)
    BY DEF ReplyNames
  <2> QED
    BY <2>1, RelationInOrder
<1>7. InOrder(f, {}) /\ InOrder(g, {}) /\ InOrder(c, {})
  BY RoutesInOrder, CountsInOrder
<1>8. dialer(posts) = f \o a1 \o a2 \o a3 \o a4 \o a5 \o g \o a6 \o c
  BY DEF dialer
<1> HIDE DEF a1, a2, a3, a4, a5, a6, f, g, c
<1>9. InOrder(f \o a1, {} \cup {"r1"})
  <2>1. {} \cap {"r1"} = {}
    OBVIOUS
  <2> QED
    BY ONLY <1>1, <1>7, <2>1, ConcatInOrder
<1>10. InOrder(f \o a1 \o a2, {} \cup {"r1"} \cup {"r2"})
  <2>1. ({} \cup {"r1"}) \cap {"r2"} = {}
    OBVIOUS
  <2> QED
    BY ONLY <1>2, <1>9, <2>1, ConcatInOrder
<1>11. InOrder(f \o a1 \o a2 \o a3, {} \cup {"r1"} \cup {"r2"} \cup {"r3"})
  <2>1. ({} \cup {"r1"} \cup {"r2"}) \cap {"r3"} = {}
    OBVIOUS
  <2> QED
    BY ONLY <1>3, <1>10, <2>1, ConcatInOrder
<1> DEFINE four == {} \cup {"r1"} \cup {"r2"} \cup {"r3"} \cup {"r4"}
           before == f \o a1 \o a2 \o a3 \o a4
<1>12. InOrder(before, four)
  <2>1. ({} \cup {"r1"} \cup {"r2"} \cup {"r3"}) \cap {"r4"} = {}
    OBVIOUS
  <2> QED
    BY ONLY <1>4, <1>11, <2>1, ConcatInOrder DEF before, four
<1>13. /\ four \cap {"r5"} = {} /\ (four \cup {"r5"}) \cap {} = {}
       /\ (four \cup {"r5"} \cup {}) \cap {"r6"} = {}
       /\ (four \cup {"r5"} \cup {} \cup {"r6"}) \cap {} = {}
       /\ four \cup {"r5"} \cup {} \cup {"r6"} \cup {} \subseteq Players
  BY DEF Players
<1>14. dialer(posts) = before \o a5 \o g \o a6 \o c
  BY <1>8
<1> HIDE DEF four, before
<1>15. InOrder(before \o a5, four \cup {"r5"})
  BY ONLY <1>5, <1>12, <1>13, ConcatInOrder
<1>16. InOrder(before \o a5 \o g, four \cup {"r5"} \cup {})
  BY ONLY <1>7, <1>15, <1>13, ConcatInOrder
<1>17. InOrder(before \o a5 \o g \o a6, four \cup {"r5"} \cup {} \cup {"r6"})
  BY ONLY <1>6, <1>16, <1>13, ConcatInOrder
<1>18. InOrder(before \o a5 \o g \o a6 \o c, four \cup {"r5"} \cup {} \cup {"r6"} \cup {})
  BY ONLY <1>7, <1>17, <1>13, ConcatInOrder
<1> QED
  BY ONLY <1>13, <1>14, <1>18, InOrderForMore

LEMMA ListsInOrder ==
  ASSUME NEW s \in DOMAIN Lists
  PROVE  InOrder(Lists[s], Players)
<1>1. s \in {"asker", "dialer", "posts", "through"}
  BY DEF Lists
<1>2. CASE s = "asker"
  BY <1>2, TheAskerInOrder DEF Lists
<1>3. CASE s = "dialer"
  <2>1. Lists[s] = dialer(FALSE)
    BY <1>3 DEF Lists
  <2> QED
    BY <2>1, DialerInOrder
<1>4. CASE s = "posts"
  <2>1. Lists[s] = dialer(TRUE)
    BY <1>4 DEF Lists
  <2> QED
    BY <2>1, DialerInOrder
<1>5. CASE s = "through"
  BY <1>5, TheInvitationInOrder DEF Lists
<1> QED
  BY <1>1, <1>2, <1>3, <1>4, <1>5

-----------------------------------------------------------------------------
(* A standing that asks and reads.                                         *)

LEMMA FollowType ==
  ASSUME NEW e \in Edge, NEW a \in Nat
  PROVE  Follow(e, a) \in Edge
BY DEF Follow, Edge, Agreements

LEMMA KnockEdgeType ==
  ASSUME NEW ss \in Secrets
  PROVE  KnockEdge(ss) \in Edge
BY DEF KnockEdge, Edge, Agreements

LEMMA ZeroEdgeType == ZERO32 \in Edge
BY DEF ZERO32, Edge, Agreements

LEMMA LidFacts ==
  ASSUME NEW p \in Parties, NEW n \in 1..MaxAsks
  PROVE  /\ Drawn(p, n) \in Parties \X (1..MaxAsks)
         /\ Drawn(p, n)[1] = p /\ Drawn(p, n)[2] = n
         /\ Drawn(p, n) \in Secrets /\ Drawn(p, n) \in Keys
         /\ Drawn(p, n) # NoCt /\ Drawn(p, n) # NoKey
         /\ Drawn(p, n) # Invitation[p]
         /\ Invitation[p] \in Heirs /\ Invitation[p] \in Keys
         /\ MaxAsks \in Nat /\ MaxAsks <= MaxCount /\ MaxCount \in Nat
BY StandingAssumption, BoxesAssumption DEF Drawn

LEMMA LidIsDrawn ==
  ASSUME NEW lid \in Parties \X (1..MaxAsks)
  PROVE  lid = Drawn(lid[1], lid[2]) /\ lid[1] \in Parties /\ lid[2] \in 1..MaxAsks
BY DEF Drawn

(* What is known of a box its standing sealed.                             *)
LEMMA SentFacts ==
  ASSUME NEW p \in Parties, NEW x, SentBy(p, x)
  PROVE  /\ x \in SentAsks /\ x # NoSent
         /\ x.lid \in Parties \X (1..MaxAsks) /\ x.lid[2] \in 1..MaxAsks
         /\ x.lid = Drawn(p, x.lid[2]) /\ x.lid # NoCt
         /\ x.box \in Box(Edge) /\ x.box.edge \in Edge
         /\ x.box.next \in Keys /\ x.box.next # NoKey
         /\ x.box.next = Drawn(p, x.lid[2])
         /\ x.box.next # Invitation[p] /\ x.box.next # x.box.by
         /\ x.box.seq \in 1..MaxAsks /\ x.box.seq = x.lid[2]
         /\ x.box.ct \in Secrets \cup {NoCt} /\ x.box.by \in Keys
         /\ x.box.head = Invitation[p]
<1>1. x \in SentAsks /\ x.lid \in Parties \X (1..MaxAsks) /\ x.box \in Box(Edge)
      /\ x.kind \in {"knock", "probe", "ask"}
  BY DEF SentBy, SentAsks
<1>2. x.kind # NoSent.kind
  BY <1>1 DEF NoSent
<1>3. x.box.edge \in Edge /\ x.box.ct \in Secrets \cup {NoCt} /\ x.box.by \in Keys
  BY <1>1 DEF Box
<1>4. x.lid = Drawn(p, x.lid[2]) /\ x.lid[2] \in 1..MaxAsks
  BY <1>1, LidIsDrawn DEF SentBy
<1>5. x.lid \in Keys /\ x.lid # NoCt /\ x.lid # NoKey /\ x.lid # Invitation[p]
  BY <1>4, LidFacts
<1> QED
  BY <1>1, <1>2, <1>3, <1>4, <1>5 DEF SentBy

LEMMA SealedIsOwn ==
  ASSUME NEW p \in Parties, Stands(p, st[p]), st[p].seq < MaxAsks
  PROVE  /\ SentBy(p, Sealed(p, FALSE))
         /\ Sealed(p, FALSE).lid[2] = st[p].seq + 1
         /\ st[p].phase # "fresh" => Sealed(p, FALSE).box.ct = NoCt
<1> DEFINE s == st[p]
           n == s.seq + 1
           b == Sealed(p, FALSE).box
<1>1. s \in StandingFields /\ n \in 1..MaxAsks
  BY StandingAssumption, BoxesAssumption DEF Stands, StandingFields
<1>2. /\ Drawn(p, n) \in Parties \X (1..MaxAsks)
      /\ Drawn(p, n)[1] = p /\ Drawn(p, n)[2] = n
      /\ Drawn(p, n) \in Secrets /\ Drawn(p, n) \in Keys /\ Drawn(p, n) # NoCt
      /\ Drawn(p, n) # Invitation[p] /\ Invitation[p] \in Heirs
      /\ MaxAsks \in Nat /\ MaxAsks <= MaxCount /\ MaxCount \in Nat
  BY <1>1, LidFacts
<1>3. /\ b.head = Invitation[p] /\ b.by = s.signer /\ b.next = Drawn(p, n)
      /\ b.seq = n /\ b.fault = "none" /\ b.unread = FALSE
      /\ b.ct = IF s.phase = "fresh" THEN Drawn(p, n) ELSE NoCt
      /\ b.edge = IF s.phase = "fresh" THEN KnockEdge(Drawn(p, n)) ELSE s.edge
      /\ b = [head |-> b.head, ct |-> b.ct, edge |-> b.edge, by |-> b.by,
              next |-> b.next, seq |-> b.seq, fault |-> b.fault,
              unread |-> b.unread]
  BY <1>2 DEF Sealed, SealAsk
<1>4. /\ Sealed(p, FALSE).lid = Drawn(p, n)
      /\ Sealed(p, FALSE) = [kind |-> KindOf[s.phase], lid |-> Drawn(p, n),
                             box |-> b]
  BY DEF Sealed
<1>5. KindOf[s.phase] \in {"knock", "probe", "ask"}
  BY <1>1 DEF StandingFields, KindOf
<1>6. s.signer # Drawn(p, n)
  <2>1. s.seq \in Nat /\ s.seq <= MaxAsks
    BY <1>1, <1>2 DEF StandingFields
  <2>2. \A m \in 1..s.seq : Drawn(p, m) # Drawn(p, n)
    BY <2>1 DEF Drawn
  <2> QED
    BY <1>2, <2>2 DEF Stands
<1> HIDE DEF s, n, b
<1>7. b \in Box(Edge)
  <2>1. b.edge \in Edge
    BY <1>1, <1>2, <1>3, KnockEdgeType DEF StandingFields
  <2>2. b.seq \in 0..(MaxCount + 1)
    BY <1>1, <1>2, <1>3
  <2>3. b.by \in Keys
    BY <1>1, <1>3 DEF StandingFields
  <2>4. b.ct \in Secrets \cup {NoCt}
    BY <1>2, <1>3
  <2> QED
    BY <1>2, <1>3, <2>1, <2>2, <2>3, <2>4 DEF Box, Faults
<1>8. Sealed(p, FALSE) \in SentAsks
  <2>1. [kind |-> KindOf[s.phase], lid |-> Drawn(p, n), box |-> b] \in SentAsks
    BY ONLY <1>2, <1>5, <1>7 DEF SentAsks
  <2> QED
    BY ONLY <1>4, <2>1
<1>9. Sealed(p, FALSE).box = b
  BY DEF b
<1> QED
  BY <1>2, <1>3, <1>4, <1>6, <1>8, <1>9 DEF SentBy, s, n

(* What a standing in its turn may seal: anew, or its knock again.         *)
NextOf(p, s, x) ==
  /\ SentBy(p, x)
  /\ IF s.phase = "uncertain" /\ ~s.probeNext THEN x = s.knock
     ELSE /\ s.seq < MaxAsks /\ x.lid[2] = s.seq + 1
          /\ s.phase # "fresh" => x.box.ct = NoCt

LEMMA NextIsOwn ==
  ASSUME NEW p \in Parties, Stands(p, st[p]), StandingAsk(p, FALSE)
  PROVE  NextOf(p, st[p], NextSent(p, FALSE))
<1>1. CASE Resends(p)
  <2>1. NextSent(p, FALSE) = st[p].knock /\ st[p].phase = "uncertain"
        /\ ~st[p].probeNext
    BY <1>1 DEF NextSent, Resends
  <2>2. SentBy(p, st[p].knock)
    BY <2>1 DEF Stands
  <2> QED
    BY <2>1, <2>2 DEF NextOf
<1>2. CASE ~Resends(p)
  <2>1. /\ NextSent(p, FALSE) = Sealed(p, FALSE) /\ st[p].seq < MaxAsks
        /\ ~(st[p].phase = "uncertain" /\ ~st[p].probeNext)
    BY <1>2 DEF NextSent, Resends, StandingAsk
  <2>2. /\ SentBy(p, Sealed(p, FALSE))
        /\ Sealed(p, FALSE).lid[2] = st[p].seq + 1
        /\ st[p].phase # "fresh" => Sealed(p, FALSE).box.ct = NoCt
    BY <2>1, SealedIsOwn
  <2> QED
    BY <2>1, <2>2 DEF NextOf
<1> QED
  BY <1>1, <1>2

LEMMA AskStands ==
  ASSUME NEW p \in Parties, NEW s, Stands(p, s), NEW x, NextOf(p, s, x),
         NEW t, t = AfterAsk(s, x)
  PROVE  /\ Stands(p, t)
         /\ t.phase # "fresh" /\ t.last = x /\ t.moved = s.moved
         /\ s.phase # "fresh" => t.signer = s.signer /\ t.edge = s.edge
         /\ s.phase = "bound" => t.phase = "bound"
<1>1. /\ s \in StandingFields /\ s.seq \in Nat /\ s.seq <= MaxAsks
      /\ MaxAsks \in Nat
  BY StandingAssumption, BoxesAssumption DEF Stands, StandingFields
<1>2. /\ x \in SentAsks /\ x.lid[2] \in 1..MaxAsks /\ x.box.edge \in Edge
      /\ x.box.next \in Keys /\ x.box.next = Drawn(p, x.lid[2])
      /\ x.box.seq \in 1..MaxAsks /\ x.box.seq = x.lid[2] /\ SentBy(p, x)
  BY SentFacts DEF NextOf
<1>3. x.box.seq \in 0..MaxAsks
  BY <1>1, <1>2
<1>4. CASE s.phase = "fresh"
  <2>1. t = [s EXCEPT !.seq = x.box.seq, !.knock = x, !.last = x,
                      !.edge = x.box.edge, !.signer = x.box.next,
                      !.phase = "uncertain", !.probeNext = TRUE]
    BY <1>4 DEF AfterAsk, AfterKnock
  <2>2. /\ t \in StandingFields
        /\ t.seq = x.box.seq /\ t.knock = x /\ t.last = x
        /\ t.edge = x.box.edge /\ t.signer = x.box.next
        /\ t.phase = "uncertain" /\ t.moved = s.moved
    BY ONLY <1>1, <1>2, <1>3, <2>1 DEF StandingFields
  <2>3. s.moved = 0
    BY <1>4 DEF Stands
  <2>4. x.lid[2] <= t.seq /\ x.lid[2] \in 1..t.seq
    BY ONLY <1>1, <1>2, <2>2
  <2>5. t.signer \in {Drawn(p, m) : m \in 1..t.seq}
    BY ONLY <1>2, <2>2, <2>4
  <2> QED
    BY ONLY <1>2, <1>4, <2>2, <2>3, <2>4, <2>5 DEF Stands
<1>5. CASE s.phase # "fresh"
  <2>1. /\ SentBy(p, s.knock) /\ s.knock.lid[2] <= s.seq
        /\ s.signer \in {Invitation[p]} \cup {Drawn(p, m) : m \in 1..s.seq}
        /\ s.moved = 0 => s.signer = s.knock.box.next /\ s.edge = s.knock.box.edge
        /\ s.phase = "uncertain" => s.moved = 0
        /\ s.knock.lid[2] \in Nat
    BY <1>5, SentFacts DEF Stands
  <2>2. CASE s.phase = "uncertain" /\ ~s.probeNext
    <3>1. t = [s EXCEPT !.probeNext = TRUE, !.last = x] /\ x = s.knock
      BY <2>2 DEF AfterAsk, NextOf
    <3>2. /\ t \in StandingFields
          /\ t.seq = s.seq /\ t.knock = s.knock /\ t.last = x
          /\ t.edge = s.edge /\ t.signer = s.signer
          /\ t.phase = s.phase /\ t.moved = s.moved
      BY ONLY <1>1, <1>2, <3>1 DEF StandingFields
    <3> QED
      BY ONLY <1>2, <1>5, <2>1, <2>2, <3>1, <3>2 DEF Stands
  <2>3. CASE ~(s.phase = "uncertain" /\ ~s.probeNext)
    <3>1. s.seq < MaxAsks /\ x.lid[2] = s.seq + 1 /\ x.box.ct = NoCt
      BY <1>5, <2>3 DEF NextOf
    <3>2. /\ t \in StandingFields
          /\ t.seq = s.seq + 1 /\ t.knock = s.knock /\ t.last = x
          /\ t.edge = s.edge /\ t.signer = s.signer
          /\ t.phase = s.phase /\ t.moved = s.moved
      <4>1. CASE s.phase = "uncertain"
        <5>1. t = [s EXCEPT !.seq = x.box.seq, !.probeNext = FALSE, !.last = x]
          BY <2>3, <4>1 DEF AfterAsk
        <5> QED
          BY ONLY <1>1, <1>2, <1>3, <3>1, <5>1 DEF StandingFields
      <4>2. CASE s.phase = "bound"
        <5>1. t = [s EXCEPT !.seq = x.box.seq, !.last = x]
          BY <4>2 DEF AfterAsk
        <5> QED
          BY ONLY <1>1, <1>2, <1>3, <3>1, <5>1 DEF StandingFields
      <4> QED
        BY <1>1, <1>5, <4>1, <4>2 DEF StandingFields
    <3>3. /\ 1..s.seq \subseteq 1..t.seq
          /\ s.knock.lid[2] <= t.seq /\ x.lid[2] <= t.seq
      BY ONLY <1>1, <2>1, <3>1, <3>2
    <3>4. t.signer \in {Invitation[p]} \cup {Drawn(p, m) : m \in 1..t.seq}
      BY ONLY <2>1, <3>2, <3>3
    <3> QED
      BY ONLY <1>2, <1>5, <2>1, <3>1, <3>2, <3>3, <3>4 DEF Stands
  <2> QED
    BY <2>2, <2>3
<1> QED
  BY <1>4, <1>5

(* An ask moves nothing the verifier follows.                              *)
LEMMA AskFollows ==
  ASSUME NEW p \in Parties, NEW s, Stands(p, s), NEW x, NextOf(p, s, x),
         NEW r, Follows(s, r)
  PROVE  Follows(AfterAsk(s, x), r)
<1> DEFINE t == AfterAsk(s, x)
<1>1. /\ t.phase # "fresh" /\ t.moved = s.moved
      /\ s.phase # "fresh" => t.signer = s.signer /\ t.edge = s.edge
      /\ s.phase = "bound" => t.phase = "bound"
  BY AskStands
<1> HIDE DEF t
<1>2. Follows(t, r)
  BY <1>1 DEF Follows
<1> QED
  BY <1>2 DEF t

LEMMA ReadStands ==
  ASSUME NEW p \in Parties, NEW s, Stands(p, s), s.phase # "fresh", NEW reply,
         ReadKind(s.last, reply) = "object" => reply.agreement \in Nat,
         NEW t, t = AfterRead(s, reply)
  PROVE  Stands(p, t) /\ t.phase # "fresh" /\ t.last = s.last
<1> DEFINE kind == ReadKind(s.last, reply)
<1>1. /\ s \in StandingFields /\ s.seq \in Nat /\ s.moved \in Nat
      /\ MaxAsks \in Nat
  BY StandingAssumption, BoxesAssumption DEF Stands, StandingFields
<1>2. /\ SentBy(p, s.last) /\ s.last.lid[2] \in 1..MaxAsks
      /\ s.last.box.edge \in Edge /\ s.last.box.next \in Keys
      /\ s.last.box.next = Drawn(p, s.last.lid[2])
      /\ s.last.box.seq \in 1..MaxAsks /\ s.last.box.seq = s.last.lid[2]
      /\ s.last.lid[2] <= s.seq
  BY SentFacts DEF Stands
<1>3. CASE MovesOn(s, kind)
  <2>1. t = [s EXCEPT !.moved = s.last.box.seq, !.phase = "bound",
                      !.signer = s.last.box.next,
                      !.edge = Follow(s.last.box.edge, reply.agreement)]
    BY <1>3 DEF AfterRead, AfterObject
  <2>2. Follow(s.last.box.edge, reply.agreement) \in Edge
    BY <1>2, <1>3, FollowType DEF MovesOn
  <2>3. s.last.box.seq \in 0..MaxAsks /\ s.last.box.seq # 0
    BY ONLY <1>1, <1>2
  <2>4. /\ t \in StandingFields
        /\ t.moved = s.last.box.seq /\ t.phase = "bound"
        /\ t.signer = s.last.box.next
        /\ t.seq = s.seq /\ t.knock = s.knock /\ t.last = s.last
    BY ONLY <1>1, <1>2, <2>1, <2>2, <2>3 DEF StandingFields
  <2>5. t.signer \in {Drawn(p, m) : m \in 1..t.seq}
    BY ONLY <1>1, <1>2, <2>4
  <2>6. /\ SentBy(p, s.knock) /\ s.knock.lid[2] <= s.seq
        /\ s.last.box.ct # NoCt => s.last = s.knock
    BY DEF Stands
  <2> QED
    BY ONLY <1>2, <2>3, <2>4, <2>5, <2>6 DEF Stands
<1>4. CASE ~MovesOn(s, kind)
  <2>1. \/ t = s
        \/ SettlesOn(s, kind) /\ t = [s EXCEPT !.phase = "bound"]
        \/ \E w \in BOOLEAN : t = [s EXCEPT !.probeNext = w]
    BY <1>4 DEF AfterRead
  <2>2. /\ t \in StandingFields
        /\ t.moved = s.moved /\ t.signer = s.signer /\ t.edge = s.edge
        /\ t.seq = s.seq /\ t.knock = s.knock /\ t.last = s.last
        /\ t.phase = s.phase \/ t.phase = "bound"
    BY ONLY <1>1, <2>1 DEF StandingFields
  <2>3. Stands(p, t) /\ t.phase # "fresh"
    BY ONLY <2>2, Stands(p, s), s.phase # "fresh" DEF Stands
  <2> QED
    BY ONLY <2>2, <2>3
<1> QED
  BY <1>3, <1>4

-----------------------------------------------------------------------------
(* What the verifier writes the kit reads as its list has it, and the      *)
(* verifier follows what the kit makes of it.                              *)

LEMMA WrittenIsRead ==
  ASSUME NEW p \in Parties, NEW s, Stands(p, s), NEW t, InStep(s, t), NEW name,
         NEW reply, reply = ReplyWritten(t, name)
  PROVE  /\ ReadKind(s.last, reply) = ReadAs(name)
         /\ ReadAs(name) = "object" => reply.agreement = t.seq
<1>1. s.last.lid # NoCt /\ t.lid = s.last.lid
  BY SentFacts DEF InStep, Stands
<1>2. CASE name \in NoReply
  BY <1>2 DEF ReplyWritten, ReadKind, ReadAs, NoReply
<1>3. CASE name \in {"unread", "another lid"}
  BY <1>1, <1>3 DEF ReplyWritten, ReadKind, ReadAs, NoReply, Garbled, Nothing
<1>4. CASE name \notin NoReply \cup {"unread", "another lid"}
  <2>1. reply = [lid |-> t.lid, agreement |-> t.seq, text |-> name]
    BY <1>4 DEF ReplyWritten
  <2>2. reply.lid = t.lid /\ reply.agreement = t.seq /\ reply.text = name
    BY ONLY <2>1
  <2>3. reply # Nothing
    BY ONLY <1>1, <2>2 DEF Nothing
  <2>4. ReadAs(name) = name
    BY <1>4 DEF ReadAs
  <2> QED
    BY ONLY <1>1, <2>2, <2>3, <2>4 DEF ReadKind
<1> QED
  BY <1>2, <1>3, <1>4

LEMMA FollowedIs ==
  ASSUME NEW r \in MintFields, NEW t \in TakenFields, NEW name,
         NEW f, f = Followed(r, t, name)
  PROVE  /\ f \in MintFields
         /\ MovesBooks(r, t, name) =>
              /\ f.state = "spent" /\ f.movedAt = t.seq
              /\ f.key = IF t.announced = NoKey THEN t.by ELSE t.announced
              /\ f.edge = Follow(t.edge, t.seq)
         /\ ~MovesBooks(r, t, name) =>
              /\ f.state = r.state /\ f.movedAt = r.movedAt
              /\ f.key = r.key /\ f.edge = r.edge
              /\ \/ f.knock = r.knock
                 \/ f.knock = t /\ t.knock
<1>1. /\ t.seq \in Nat /\ t.edge \in Edge /\ Follow(t.edge, t.seq) \in Edge
      /\ t.by \in Keys \cup {NoKey} /\ t.announced \in Keys \cup {NoKey}
  BY FollowType DEF TakenFields
<1>2. CASE MovesBooks(r, t, name)
  <2> DEFINE from == IF t.knock THEN NoFrom ELSE [key |-> t.by, edge |-> t.edge]
             key == IF t.announced = NoKey THEN t.by ELSE t.announced
             edge == Follow(t.edge, t.seq)
  <2>1. f = [r EXCEPT !.state = "spent", !.back = FALSE, !.movedAt = t.seq,
                      !.from = from, !.key = key, !.edge = edge]
    BY <1>2 DEF Followed
  <2>2. from \in [key : Keys \cup {NoKey}, edge : Edge]
    BY <1>1, ZeroEdgeType DEF NoFrom
  <2>3. key \in Keys \cup {NoKey} /\ edge \in Edge
    BY <1>1
  <2> HIDE DEF from, key, edge
  <2>4. /\ f \in MintFields /\ f.state = "spent" /\ f.movedAt = t.seq
        /\ f.key = key /\ f.edge = edge
    BY ONLY <1>1, <2>1, <2>2, <2>3, r \in MintFields DEF MintFields
  <2> QED
    BY <1>2, <2>4 DEF key, edge
<1>3. CASE ~MovesBooks(r, t, name)
  <2>1. \E k \in {r.knock} \cup {x \in {t} : x.knock} :
          f = [r EXCEPT !.back = TRUE, !.knock = k]
    <3>1. CASE t.knock /\ ReadAs(name) # "object"
      <4>1. f = [r EXCEPT !.back = TRUE, !.knock = t]
        BY <1>3, <3>1 DEF Followed
      <4> QED
        BY ONLY <3>1, <4>1
    <3>2. CASE ~(t.knock /\ ReadAs(name) # "object")
      <4>1. f = [r EXCEPT !.back = TRUE, !.knock = r.knock]
        BY <1>3, <3>2 DEF Followed
      <4> QED
        BY ONLY <4>1
    <3> QED
      BY <3>1, <3>2
  <2>2. PICK k \in {r.knock} \cup {x \in {t} : x.knock} :
          f = [r EXCEPT !.back = TRUE, !.knock = k]
    BY ONLY <2>1
  <2>3. k \in TakenFields
    BY ONLY <2>2, r \in MintFields, t \in TakenFields DEF MintFields
  <2>4. /\ f \in MintFields /\ f.state = r.state /\ f.movedAt = r.movedAt
        /\ f.key = r.key /\ f.edge = r.edge /\ f.knock = k
    BY ONLY <2>2, <2>3, r \in MintFields DEF MintFields
  <2> QED
    BY ONLY <1>3, <2>2, <2>4
<1> QED
  BY <1>2, <1>3

LEMMA ReplyFollows ==
  ASSUME NEW p \in Parties, NEW s, Stands(p, s), NEW t \in TakenFields,
         InStep(s, t), NEW r \in MintFields, Follows(s, r), NEW name, NEW reply,
         ReadKind(s.last, reply) = ReadAs(name),
         ReadAs(name) = "object" => reply.agreement = t.seq
  PROVE  Follows(AfterRead(s, reply), Followed(r, t, name))
<1> DEFINE kind == ReadKind(s.last, reply)
           u == AfterRead(s, reply)
           f == Followed(r, t, name)
<1>1. /\ SentBy(p, s.last) /\ s.last.box.next # NoKey
      /\ s.phase # "fresh" /\ s \in StandingFields
      /\ s.moved = 0 => s.signer = s.knock.box.next /\ s.edge = s.knock.box.edge
      /\ s.last.box.ct # NoCt => s.last = s.knock
  BY SentFacts DEF Stands, InStep
<1>2. s.moved = r.movedAt
  BY DEF Follows
<1>3. /\ t.knock = (s.last.box.ct # NoCt) /\ t.edge = s.last.box.edge
      /\ t.announced = s.last.box.next /\ t.seq = s.last.box.seq
  BY DEF InStep
<1>4. MovesOn(s, kind) <=> MovesBooks(r, t, name)
  BY ONLY <1>2, <1>3, ReadKind(s.last, reply) = ReadAs(name)
  DEF MovesOn, MovesBooks, kind
<1>5. f = Followed(r, t, name)
  BY DEF f
<1>6. CASE MovesOn(s, kind)
  <2>1. u = [s EXCEPT !.moved = s.last.box.seq, !.phase = "bound",
                      !.signer = s.last.box.next,
                      !.edge = Follow(s.last.box.edge, reply.agreement)]
    BY <1>6 DEF AfterRead, AfterObject
  <2>2. reply.agreement = t.seq
    BY <1>6 DEF MovesOn
  <2> HIDE DEF u, f, kind
  <2>3. /\ u.moved = s.last.box.seq /\ u.phase = "bound"
        /\ u.signer = s.last.box.next
        /\ u.edge = Follow(s.last.box.edge, reply.agreement)
    BY ONLY <1>1, <2>1 DEF StandingFields
  <2>4. /\ f.state = "spent" /\ f.movedAt = t.seq
        /\ f.key = IF t.announced = NoKey THEN t.by ELSE t.announced
        /\ f.edge = Follow(t.edge, t.seq)
    BY <1>4, <1>5, <1>6, FollowedIs
  <2>5. Follows(u, f)
    BY ONLY <1>1, <1>3, <2>2, <2>3, <2>4 DEF Follows
  <2> QED
    BY <2>5 DEF u, f
<1>7. CASE ~MovesOn(s, kind)
  <2>1. \/ u = s
        \/ SettlesOn(s, kind) /\ u = [s EXCEPT !.phase = "bound"]
        \/ \E w \in BOOLEAN :
             s.phase = "uncertain" /\ u = [s EXCEPT !.probeNext = w]
    BY <1>7 DEF AfterRead
  <2> HIDE DEF u, f, kind
  <2>2. /\ u.moved = s.moved /\ u.signer = s.signer /\ u.edge = s.edge
        /\ u.phase = s.phase \/ u.phase = "bound"
    BY ONLY <1>1, <2>1 DEF StandingFields
  <2>3. /\ f.state = r.state /\ f.movedAt = r.movedAt
        /\ f.key = r.key /\ f.edge = r.edge
        /\ \/ f.knock = r.knock
           \/ f.knock = t /\ t.knock
    BY <1>4, <1>5, <1>7, FollowedIs
  <2>4. Follows(s, r)
    OBVIOUS
  <2>5. r.state # "spent" /\ f.knock = t /\ t.knock =>
          /\ u.phase # "fresh"
          /\ u.signer = f.knock.announced /\ u.edge = f.knock.edge
    <3> SUFFICES ASSUME r.state # "spent", f.knock = t, t.knock
                 PROVE  u.phase # "fresh" /\ u.signer = t.announced /\ u.edge = t.edge
      BY <2>3
    <3>1. s.moved = 0 /\ s.last = s.knock
      BY ONLY <1>1, <1>3, <2>4, r.state # "spent", t.knock DEF Follows
    <3> QED
      BY ONLY <1>1, <1>3, <2>2, <3>1
  <2>6. Follows(u, f)
    BY ONLY <1>1, <2>2, <2>3, <2>4, <2>5 DEF Follows
  <2> QED
    BY <2>6 DEF u, f
<1> QED
  BY <1>6, <1>7

-----------------------------------------------------------------------------
(* Each step of a list keeps the invariant.                                *)

LEMMA ListFacts ==
  ASSUME scene \in DOMAIN Lists
  PROVE  /\ InOrder(Lists[scene], Players)
         /\ Lists[scene] \in Seq({Lists[scene][k] : k \in DOMAIN Lists[scene]})
         /\ Len(Lists[scene]) \in Nat
         /\ DOMAIN Lists[scene] = 1..Len(Lists[scene])
<1> DEFINE L == Lists[scene]
<1>1. InOrder(L, Players)
  BY ListsInOrder
<1> HIDE DEF L
<1>2. L \in Seq({L[k] : k \in DOMAIN L})
  BY <1>1 DEF InOrder
<1>3. Len(L) \in Nat /\ DOMAIN L = 1..Len(L)
  BY <1>2, LenProperties
<1> QED
  BY <1>1, <1>2, <1>3 DEF L

(* To the end, or past the relation: nothing of it is left.                *)
LEMMA LeftOut ==
  ASSUME scene \in DOMAIN Lists, at \in DOMAIN Lists[scene], Turn.op = "asks",
         NEW n, n = at + Left
  PROVE  /\ n \in 1..(Len(Lists[scene]) + 1) /\ n > at
         /\ Clean(Lists[scene], n)
         /\ Over(Lists[scene], n, Turn.who)
<1> DEFINE L == Lists[scene]
<1>1. /\ InOrder(L, Players) /\ L \in Seq({L[k] : k \in DOMAIN L})
      /\ Len(L) \in Nat /\ DOMAIN L = 1..Len(L)
  BY ListFacts
<1>2. at \in 1..Len(L) /\ Turn = L[at]
  BY <1>1 DEF Turn
<1>3. n = IF late /\ alive THEN at + (Len(L) + 1 - at) ELSE at + (1 + L[at].left)
  BY DEF Left, ToTheEnd, Turn
<1> HIDE DEF L
<1>4. CASE late /\ alive
  <2>1. n = Len(L) + 1
    BY ONLY <1>1, <1>2, <1>3, <1>4
  <2>2. n \in 1..(Len(L) + 1) /\ n > at
    BY ONLY <1>1, <1>2, <2>1
  <2> QED
    BY <1>1, <2>1, <2>2, EndIsOver DEF L
<1>5. CASE ~(late /\ alive)
  <2>1. /\ L[at].left \in Nat /\ After(L, at) <= Len(L) + 1
        /\ Clean(L, After(L, at)) /\ Over(L, After(L, at), L[at].who)
    BY <1>1, <1>2 DEF InOrder
  <2>2. n = After(L, at) /\ n > at /\ n \in 1..(Len(L) + 1)
    <3>1. n = at + (1 + L[at].left)
      BY ONLY <1>3, <1>5
    <3>2. at \in Nat /\ L[at].left \in Nat /\ at + 1 + L[at].left <= Len(L) + 1
      BY ONLY <1>1, <1>2, <2>1 DEF After
    <3>3. n = at + 1 + L[at].left /\ n > at
      BY ONLY <3>1, <3>2
    <3>4. n \in 1..(Len(L) + 1)
      BY ONLY <1>1, <3>2, <3>3
    <3> QED
      BY ONLY <3>3, <3>4 DEF After
  <2> QED
    BY <1>2, <2>1, <2>2 DEF L
<1> QED
  BY <1>4, <1>5

LEMMA WaysAreKeys ==
  ASSUME NEW p \in Parties, mints[p] \in MintFields, NEW b, NEW w \in Ways(p, b)
  PROVE  w.by \in Keys \cup {NoKey}
<1>1. /\ mints[p].key \in Keys \cup {NoKey}
      /\ mints[p].from.key \in Keys \cup {NoKey}
      /\ mints[p].knock.announced \in Keys \cup {NoKey}
  BY DEF MintFields, TakenFields
<1>2. Invitation[p] \in Keys
  BY StandingAssumption, BoxesAssumption
<1> QED
  BY <1>1, <1>2 DEF Ways

(* A box taken apart: it is given up, and the relation is over, or it is   *)
(* the relation's own and goes in step with the standing that sealed it.   *)
LEMMA BoxTaken ==
  ASSUME scene \in DOMAIN Lists, at \in DOMAIN Lists[scene], Turn.op = "asks",
         PlayerFields, Turn.who \in Players,
         NEW w \in Players, NEW x, SentBy(w, x), TakesApart(Turn.who, x)
  PROVE  /\ scene' = scene /\ phase' = phase /\ (late' <=> late)
         /\ at' \in 1..(Len(Lists[scene]) + 1)
         /\ taken' \in [Parties -> TakenFields]
         /\ \A q \in Parties : Unanswered(Lists[scene], at', q) =>
              \/ /\ q # Turn.who /\ taken'[q] = taken[q]
                 /\ Unanswered(Lists[scene], at, q)
              \/ /\ q = w
                 /\ \A s : s.phase # "fresh" /\ s.last = x => InStep(s, taken'[q])
<1> DEFINE L == Lists[scene]
           p == Turn.who
           opens == Opening(p, x.box)
<1>1. /\ L \in Seq({L[k] : k \in DOMAIN L})
      /\ Len(L) \in Nat /\ DOMAIN L = 1..Len(L)
  BY ListFacts
<1>2. p \in Parties /\ w \in Parties
  BY AskerAssumption
<1>3. scene' = scene /\ phase' = phase /\ (late' <=> late)
  BY DEF TakesApart, Goes, GoesLate
<1>4. CASE \A o \in opens : o.by # x.box.by
  <2>1. at' = at + Left /\ taken' = taken
    BY <1>4 DEF TakesApart, Goes, GoesLate
  <2>2. at' \in 1..(Len(L) + 1) /\ Clean(L, at')
    BY <2>1, LeftOut
  <2> QED
    BY <1>3, <2>1, <2>2 DEF Clean, PlayerFields
<1>5. CASE ~(\A o \in opens : o.by # x.box.by)
  <2> DEFINE o == CHOOSE o \in opens : TRUE
             t == [knock |-> o.knock, edge |-> o.edge, by |-> o.by,
                   announced |-> AnnouncedIn(p, x.box),
                   seq |-> x.box.seq, lid |-> x.lid, box |-> x.box]
  <2>1. at' = at + 1 /\ taken' = [taken EXCEPT ![p] = t]
    BY <1>5 DEF TakesApart, Goes, GoesLate
  <2>2. o \in opens
    BY <1>5
  <2> HIDE DEF o
  <2>3. /\ o \in Ways(p, x.box) /\ x.box.head = Invitation[p]
        /\ o.knock = (x.box.ct # NoCt) /\ o.edge = x.box.edge
    BY <2>2 DEF Opening
  <2>4. w = p
    BY <2>3, AskerAssumption DEF SentBy
  <2>5. AnnouncedIn(p, x.box) = x.box.next
    BY <1>2, <2>4, SentFacts DEF AnnouncedIn
  <2>6. o.by \in Keys \cup {NoKey}
    BY <1>2, <2>3, WaysAreKeys DEF PlayerFields
  <2>7. /\ x.lid \in Parties \X (1..MaxAsks) /\ x.box \in Box(Edge)
        /\ x.box.edge \in Edge /\ x.box.next \in Keys /\ x.box.seq \in Nat
    <3>1. x.box.seq \in 1..MaxAsks
      BY <1>2, SentFacts
    <3> QED
      BY <1>2, <3>1, SentFacts
  <2>8. o.knock \in BOOLEAN
    BY ONLY <2>3
  <2>9. /\ t \in TakenFields /\ t.knock = (x.box.ct # NoCt)
        /\ t.edge = x.box.edge /\ t.announced = x.box.next
        /\ t.seq = x.box.seq /\ t.lid = x.lid /\ t.box = x.box
    <3>1. o.edge \in Edge /\ AnnouncedIn(p, x.box) \in Keys
      BY <2>3, <2>5, <2>7
    <3>2. t \in TakenFields
      BY ONLY <2>6, <2>7, <2>8, <3>1 DEF TakenFields
    <3> QED
      BY ONLY <2>3, <2>5, <3>2
  <2> HIDE DEF t
  <2>10. \A s : s.phase # "fresh" /\ s.last = x => InStep(s, t)
    BY ONLY <2>9 DEF InStep
  <2>11. /\ taken' \in [Parties -> TakenFields] /\ taken'[p] = t
         /\ \A q \in Parties \ {p} : taken'[q] = taken[q]
    BY ONLY <1>2, <2>1, <2>9, PlayerFields DEF PlayerFields
  <2>12. at' \in 1..(Len(L) + 1)
    BY ONLY <1>1, <2>1, at \in DOMAIN Lists[scene]
  <2>13. \A q \in Parties \ {p} : Unanswered(L, at', q) => Unanswered(L, at, q)
    <3> SUFFICES ASSUME NEW q \in Parties \ {p}, Unanswered(L, at + 1, q)
                 PROVE  Unanswered(L, at, q)
      BY <2>1
    <3>1. ~AsksAt(L, at, q)
      BY DEF AsksAt, Turn
    <3>2. at \in Nat
      BY <1>1
    <3> HIDE DEF L
    <3> QED
      BY <1>1, <3>1, <3>2, UnansweredBefore
  <2> QED
    BY <1>3, <2>4, <2>10, <2>11, <2>12, <2>13
<1> QED
  BY <1>4, <1>5

LEMMA InTurn ==
  ASSUME scene \in DOMAIN Lists, PlayerFields, at <= Len(Lists[scene])
  PROVE  /\ at \in DOMAIN Lists[scene] /\ at \in Nat
         /\ Turn.op \in {"asks", "replies"} => Turn.who \in Players
         /\ \A p : Turn.op = "asks" /\ Turn.who = p => AsksAt(Lists[scene], at, p)
         /\ \A p : Turn.op # "asks" => ~AsksAt(Lists[scene], at, p)
<1>1. /\ Len(Lists[scene]) \in Nat
      /\ DOMAIN Lists[scene] = 1..Len(Lists[scene])
      /\ InOrder(Lists[scene], Players)
  BY ListFacts
<1>2. at \in DOMAIN Lists[scene] /\ at \in Nat
  BY <1>1 DEF PlayerFields
<1> QED
  BY <1>1, <1>2 DEF InOrder, Turn, AsksAt

(* What a step that asks nothing leaves unanswered.                        *)
LEMMA GoesOn ==
  ASSUME scene \in DOMAIN Lists, PlayerFields, at <= Len(Lists[scene]),
         Turn.op # "asks", NEW n \in {at + 1, Len(Lists[scene]) + 1}
  PROVE  /\ n \in 1..(Len(Lists[scene]) + 1) /\ n > at
         /\ \A q : Unanswered(Lists[scene], n, q) => Unanswered(Lists[scene], at, q)
<1> DEFINE L == Lists[scene]
<1>1. /\ L \in Seq({L[k] : k \in DOMAIN L})
      /\ Len(L) \in Nat /\ DOMAIN L = 1..Len(L)
  BY ListFacts
<1>2. at \in 1..Len(L) /\ \A q : ~AsksAt(L, at, q)
  BY <1>1, InTurn
<1> HIDE DEF L
<1>3. n \in 1..(Len(L) + 1) /\ n > at
  <2>1. n = at + 1 \/ n = Len(L) + 1
    BY DEF L
  <2> QED
    BY ONLY <1>1, <1>2, <2>1
<1>4. CASE n = at + 1
  <2>1. \A q : Unanswered(L, n, q) => Unanswered(L, at, q)
    BY <1>1, <1>2, <1>4, UnansweredBefore
  <2> QED
    BY <1>3, <2>1 DEF L
<1>5. CASE n = Len(L) + 1
  <2>1. \A q : ~Unanswered(L, n, q)
    BY <1>1, <1>5, EndIsOver DEF Clean
  <2> QED
    BY <1>3, <2>1 DEF L
<1> QED
  BY <1>4, <1>5 DEF L

(* The sends of relations that are over, while nothing is waited for.      *)
LEMMA SendsLeft ==
  ASSUME scene \in DOMAIN Lists, scene' = scene, PlayerFields, SendsInTurn,
         sends' \subseteq sends, ~waiter', at' \in Nat, at' > at,
         \A x \in sends : /\ st'[x.who].last = st[x.who].last
                          /\ st[x.who].phase # "fresh" => st'[x.who].phase # "fresh",
         \A x \in sends' : Over(Lists[scene], at', x.who),
         scene = "asker" => sends' = {}
  PROVE  SendsInTurn'
<1>1. at \in Nat
  BY DEF PlayerFields
<1>2. ASSUME NEW x \in sends'
      PROVE  SendInTurn(Lists[scene], at', x) /\ x.turn # at'
  <2>1. SendInTurn(Lists[scene], at, x)
    BY DEF SendsInTurn
  <2>2. x.turn \in 1..at' /\ x.turn # at'
    BY <1>1, <2>1 DEF SendInTurn
  <2> QED
    BY <2>1, <2>2 DEF SendInTurn
<1> QED
  BY <1>2 DEF SendsInTurn

(* Nothing is waited for: what is under way is of relations that are over. *)
LEMMA SendsAreOver ==
  ASSUME scene \in DOMAIN Lists, PlayerFields, SendsInTurn, ~waiter,
         NEW n \in Nat, n > at, NEW x \in sends
  PROVE  Over(Lists[scene], at, x.who) /\ Over(Lists[scene], n, x.who)
<1>1. /\ Lists[scene] \in Seq({Lists[scene][k] : k \in DOMAIN Lists[scene]})
  BY ListFacts
<1>2. at \in Nat
  BY DEF PlayerFields
<1>3. x.turn \in 1..at /\ x.turn # at /\ (x.turn < at => Over(Lists[scene], at, x.who))
  BY DEF SendsInTurn, SendInTurn
<1>4. Over(Lists[scene], at, x.who)
  BY <1>2, <1>3
<1>5. n >= at
  BY <1>2
<1> QED
  BY <1>1, <1>2, <1>4, <1>5, OverStays

LEMMA AsksKeep ==
  ASSUME scene \in DOMAIN Lists, PlayerInv, AskerAsks, UNCHANGED holdVars
  PROVE  PlayerInv'
<1> USE DEF PlayerInv
<1> DEFINE p == Turn.who
           L == Lists[scene]
<1>1. /\ at <= Len(Lists[scene]) /\ Turn.op = "asks" /\ scene = "asker"
      /\ StandingAsk(p, FALSE) /\ TakesApart(p, NextSent(p, FALSE))
      /\ mints' = mints
  BY DEF AskerAsks, AskerPlays, Turn
<1>2. /\ at \in DOMAIN L /\ p \in Players /\ p \in Parties
  BY <1>1, InTurn, AskerAssumption
<1>3. NextOf(p, st[p], NextSent(p, FALSE)) /\ Stands(p, st[p])
  BY <1>1, <1>2, NextIsOwn
<1>4. PICK x : x = NextSent(p, FALSE)
  OBVIOUS
<1>5. NextOf(p, st[p], x) /\ SentBy(p, x)
  BY <1>3, <1>4 DEF NextOf
<1>6. TakesApart(p, x)
  BY <1>1, <1>4
<1>7. /\ scene' = scene /\ (late' <=> late)
      /\ at' \in 1..(Len(L) + 1)
      /\ taken' \in [Parties -> TakenFields]
      /\ \A q \in Parties : Unanswered(L, at', q) =>
           \/ /\ q # p /\ taken'[q] = taken[q] /\ Unanswered(L, at, q)
           \/ /\ q = p
              /\ \A s : s.phase # "fresh" /\ s.last = x => InStep(s, taken'[q])
  BY <1>1, <1>2, <1>5, <1>6, BoxTaken
<1>8. st \in [Parties -> StandingFields]
  BY DEF PlayerFields
<1>9. st' = [st EXCEPT ![p] = AfterAsk(st[p], x)]
  BY <1>1, <1>4 DEF StandingAsk
<1>10. /\ st'[p] = AfterAsk(st[p], x)
       /\ \A q \in Parties \ {p} : st'[q] = st[q]
       /\ Stands(p, st'[p]) /\ st'[p].phase # "fresh" /\ st'[p].last = x
  <2>1. st'[p] = AfterAsk(st[p], x) /\ \A q \in Parties \ {p} : st'[q] = st[q]
    BY ONLY <1>2, <1>8, <1>9
  <2> QED
    BY <1>2, <1>3, <1>5, <2>1, AskStands
<1> HIDE DEF p, L
<1>11. st' \in [Parties -> StandingFields]
  <2>1. st'[p] \in StandingFields
    BY ONLY <1>10 DEF Stands
  <2> QED
    BY ONLY <1>2, <1>8, <1>9, <1>10, <2>1
<1>12. PlayerFields'
  BY <1>1, <1>7, <1>11 DEF PlayerFields, L
<1>13. \A q \in Parties : Stands(q, st'[q])
  BY <1>10
<1>14. ~late' => \A q \in Parties : Follows(st'[q], mints'[q])
  BY <1>1, <1>2, <1>3, <1>5, <1>7, <1>10, AskFollows
<1>15. \A q \in Parties : Unanswered(L, at', q) => InStep(st'[q], taken'[q])
  BY <1>7, <1>10 DEF L
<1>16. SendsInTurn'
  BY <1>1, <1>7 DEF SendsInTurn, holdVars
<1> QED
  BY <1>7, <1>12, <1>13, <1>14, <1>15, <1>16 DEF L

LEMMA RepliesKeep ==
  ASSUME scene \in DOMAIN Lists, PlayerInv, NEW timed \in BOOLEAN,
         AskerReplies(timed), UNCHANGED holdVars
  PROVE  PlayerInv'
<1> USE DEF PlayerInv
<1> DEFINE p == Turn.who
           L == Lists[scene]
           s == st[p]
           t == taken[p]
           name == Named(t, Turn.name)
           reply == IF timed THEN Nothing ELSE ReplyWritten(t, name)
           reads == ReadKind(s.last, reply) = ReadAs(name)
<1>1. /\ at <= Len(L) /\ Turn.op = "replies"
      /\ StandingRead(p, reply)
      /\ scene' = scene /\ at' = at + 1 /\ late' = (late \/ (timed /\ ~reads))
      /\ mints' = [mints EXCEPT ![p] = Followed(mints[p], t, name)]
      /\ taken' = taken
  BY DEF AskerReplies, AskerPlays, Turn, GoesLate
<1>2. /\ at \in DOMAIN L /\ at \in Nat /\ p \in Players /\ p \in Parties
  BY <1>1, InTurn, AskerAssumption
<1>3. /\ at' \in 1..(Len(L) + 1) /\ at' > at
      /\ \A q : Unanswered(L, at', q) => Unanswered(L, at, q)
  BY <1>1, GoesOn
<1>4. RepliesAt(L, at, p)
  BY <1>1, <1>2 DEF RepliesAt, Turn
<1>5. InStep(s, t) /\ Stands(p, s) /\ s.phase # "fresh" /\ t \in TakenFields
      /\ mints[p] \in MintFields
  <2>1. Unanswered(L, at, p)
    BY <1>2, <1>4, ReplyIsUnanswered
  <2> QED
    BY <1>2, <2>1 DEF InStep, PlayerFields
<1>6. t.seq \in Nat
  BY <1>5 DEF TakenFields
<1>7. /\ ~timed => ReadKind(s.last, reply) = ReadAs(name)
      /\ ReadKind(s.last, reply) = "object" => ReadAs(name) = "object" /\ ~timed
      /\ ~timed /\ ReadAs(name) = "object" => reply.agreement = t.seq
      /\ timed => ReadKind(s.last, reply) = "nothing"
  <2>1. CASE timed
    <3>1. ReadKind(s.last, reply) = "nothing"
      BY <2>1 DEF ReadKind
    <3> QED
      BY ONLY <2>1, <3>1
  <2>2. CASE ~timed
    <3>1. reply = ReplyWritten(t, name)
      BY <2>2
    <3> HIDE DEF reply, name, s, t
    <3>2. /\ ReadKind(s.last, reply) = ReadAs(name)
          /\ ReadAs(name) = "object" => reply.agreement = t.seq
      BY <1>2, <1>5, <3>1, WrittenIsRead
    <3> QED
      BY ONLY <2>2, <3>2
  <2> QED
    BY ONLY <2>1, <2>2
<1>8. ASSUME ~late', Follows(s, mints[p])
      PROVE  Follows(AfterRead(s, reply), Followed(mints[p], t, name))
  <2> HIDE DEF name, reply, s, t
  <2>1. ReadKind(s.last, reply) = ReadAs(name)
    BY <1>1, <1>7, <1>8 DEF s
  <2>2. ReadAs(name) = "object" => reply.agreement = t.seq
    BY ONLY <1>7, <2>1
  <2> QED
    BY <1>2, <1>5, <1>8, <2>1, <2>2, ReplyFollows
<1>9. /\ Stands(p, AfterRead(s, reply)) /\ AfterRead(s, reply).phase # "fresh"
      /\ AfterRead(s, reply).last = s.last
  <2> HIDE DEF name, reply, s, t
  <2>1. ReadKind(s.last, reply) = "object" => reply.agreement \in Nat
    BY ONLY <1>6, <1>7
  <2> QED
    BY <1>2, <1>5, <2>1, ReadStands
<1>10. Followed(mints[p], t, name) \in MintFields
  <2> HIDE DEF name, t
  <2> QED
    BY <1>5, FollowedIs
<1>11. st' = [st EXCEPT ![p] = AfterRead(s, reply)]
  BY <1>1 DEF StandingRead
<1>12. st \in [Parties -> StandingFields] /\ mints \in [Parties -> MintFields]
  BY DEF PlayerFields
<1>13. p \in Parties
  BY <1>2
<1>14. AfterRead(s, reply) \in StandingFields
  BY <1>9 DEF Stands
<1>15. /\ st' \in [Parties -> StandingFields] /\ st'[p] = AfterRead(s, reply)
       /\ \A q \in Parties \ {p} : st'[q] = st[q]
  BY ONLY <1>11, <1>12, <1>13, <1>14
<1>16. /\ mints' \in [Parties -> MintFields]
       /\ mints'[p] = Followed(mints[p], t, name)
       /\ \A q \in Parties \ {p} : mints'[q] = mints[q]
  BY ONLY <1>1, <1>10, <1>12, <1>13
<1>17. PlayerFields'
  BY <1>1, <1>3, <1>15, <1>16 DEF PlayerFields
<1>18. \A q \in Parties : Stands(q, st'[q])
  BY <1>9, <1>15
<1>19. ~late' => \A q \in Parties : Follows(st'[q], mints'[q])
  <2> SUFFICES ASSUME ~late', NEW q \in Parties
               PROVE  Follows(st'[q], mints'[q])
    OBVIOUS
  <2>1. ~late
    BY ONLY <1>1, ~late'
  <2>2. Follows(st[q], mints[q]) /\ Follows(s, mints[p])
    BY <1>13, <2>1
  <2>3. CASE q = p
    BY ONLY <1>8, <1>15, <1>16, <2>2, <2>3, ~late'
  <2>4. CASE q # p
    BY ONLY <1>15, <1>16, <2>2, <2>4, q \in Parties
  <2> QED
    BY <2>3, <2>4
<1>20. ASSUME NEW q \in Parties
       PROVE  /\ st'[q].last = st[q].last
              /\ st[q].phase # "fresh" => st'[q].phase # "fresh"
  BY <1>5, <1>9, <1>15
<1>21. \A q \in Parties : Unanswered(L, at', q) => InStep(st'[q], taken'[q])
  BY <1>1, <1>3, <1>20 DEF InStep
<1>22. SendsInTurn'
  <2>1. ~waiter /\ ~waiter' /\ sends' = sends
    BY <1>1 DEF SendsInTurn, holdVars, Turn
  <2>2. at' \in Nat
    BY <1>3
  <2>3. \A x \in sends : x.who \in Parties
    BY AskerAssumption DEF SendsInTurn, SendInTurn
  <2>4. \A x \in sends : Over(L, at', x.who)
    BY <1>3, <2>1, <2>2, SendsAreOver
  <2>5. scene = "asker" => sends' = {}
    BY <2>1 DEF SendsInTurn
  <2> QED
    BY <1>1, <1>3, <1>20, <2>1, <2>2, <2>3, <2>4, <2>5, SendsLeft
<1> QED
  BY <1>1, <1>17, <1>18, <1>19, <1>21, <1>22

(* A step that asks and reads nothing: a route, the count at the end.      *)
LEMMA OthersKeep ==
  ASSUME scene \in DOMAIN Lists, scene' = scene, PlayerInv,
         at <= Len(Lists[scene]),
         at' \in {at + 1, Len(Lists[scene]) + 1}, late' <=> late,
         Turn.op # "asks", UNCHANGED << st, askerVars, holdVars >>
  PROVE  PlayerInv'
<1> USE DEF PlayerInv
<1> DEFINE L == Lists[scene]
<1>1. /\ st' = st /\ mints' = mints /\ taken' = taken
      /\ waiter' = waiter /\ sends' = sends
  BY DEF askerVars, holdVars
<1>2. /\ at' \in 1..(Len(L) + 1) /\ at' > at
      /\ \A q : Unanswered(L, at', q) => Unanswered(L, at, q)
  BY GoesOn
<1>3. PlayerFields'
  BY <1>1, <1>2 DEF PlayerFields
<1>4. \A q \in Parties : Unanswered(L, at', q) => InStep(st'[q], taken'[q])
  BY <1>1, <1>2
<1>5. SendsInTurn'
  <2>1. ~waiter
    BY DEF SendsInTurn, Turn
  <2>2. at' \in Nat
    BY <1>2
  <2>3. \A x \in sends : Over(L, at', x.who)
    BY <1>2, <2>1, <2>2, SendsAreOver
  <2>4. scene = "asker" => sends = {}
    BY DEF SendsInTurn
  <2> QED
    BY <1>1, <1>2, <2>1, <2>2, <2>3, <2>4, SendsLeft
<1> QED
  BY <1>1, <1>3, <1>4, <1>5

(* The kit that refuses at the first ask.                                  *)
LEMMA RefusedKeeps ==
  ASSUME scene \in DOMAIN Lists, PlayerInv, AskerIsRefused,
         UNCHANGED << st, askerVars, holdVars >>
  PROVE  PlayerInv'
<1> USE DEF PlayerInv
<1> DEFINE L == Lists[scene]
<1>1. /\ st' = st /\ mints' = mints /\ taken' = taken
      /\ waiter' = waiter /\ sends' = sends
  BY DEF askerVars, holdVars
<1>2. /\ scene' = scene /\ scene = "asker" /\ (late' <=> late)
      /\ at' = at + (Len(L) + 1 - at)
  BY DEF AskerIsRefused, Goes, GoesLate, ToTheEnd
<1>3. /\ L \in Seq({L[k] : k \in DOMAIN L}) /\ Len(L) \in Nat
  BY ListFacts
<1>4. at \in Nat
  BY DEF PlayerFields
<1> HIDE DEF L
<1>5. at' = Len(L) + 1 /\ at' \in 1..(Len(L) + 1)
  BY ONLY <1>2, <1>3, <1>4
<1>6. \A q : ~Unanswered(L, at', q)
  BY <1>3, <1>5, EndIsOver DEF Clean
<1>7. PlayerFields'
  BY <1>1, <1>2, <1>5 DEF PlayerFields, L
<1>8. SendsInTurn'
  BY <1>1, <1>2 DEF SendsInTurn
<1> QED
  BY <1>1, <1>2, <1>6, <1>7, <1>8 DEF L

LEMMA DialSendsKeep ==
  ASSUME scene \in DOMAIN Lists, PlayerInv, DialSends
  PROVE  PlayerInv'
<1> USE DEF PlayerInv
<1> DEFINE L == Lists[scene]
           new == [turn |-> at, who |-> Turn.who, to |-> Address, sent |-> NoSent]
<1>1. /\ scene' = scene /\ at' = at /\ late' = late /\ st' = st
      /\ mints' = mints /\ taken' = taken
      /\ ~waiter /\ waiter' = TRUE /\ sends' \subseteq sends \cup {new}
      /\ scene # "asker" /\ at <= Len(L) /\ Turn.op = "asks"
  BY DEF DialSends, playVars, askerVars
<1>2. /\ at \in DOMAIN L /\ at \in Nat /\ Turn.who \in Players
      /\ AsksAt(L, at, Turn.who)
  BY <1>1, InTurn
<1>3. at \in 1..at
  BY <1>2 DEF PlayerFields
<1>4. /\ new.turn = at /\ new.who = Turn.who /\ new.sent = NoSent
      /\ new = [turn |-> new.turn, who |-> new.who, to |-> new.to, sent |-> new.sent]
  OBVIOUS
<1> HIDE DEF new
<1>5. SendInTurn(L, at, new)
  BY ONLY <1>2, <1>3, <1>4 DEF SendInTurn
<1>6. \A x \in sends : x.turn # at /\ SendInTurn(L, at, x) /\ Over(L, at, x.who)
  BY <1>1, <1>2, <1>3 DEF SendsInTurn, SendInTurn
<1>7. \A x \in sends : x.who # Turn.who
  <2>1. \A q : AsksAt(L, at, q) => ~Over(L, at, q)
    BY <1>2 DEF Over
  <2> QED
    BY <1>2, <1>6, <2>1
<1>8. \A x, y \in sends' : x.who = y.who => x = y
  BY <1>1, <1>4, <1>7 DEF SendsInTurn
<1>9. \A x \in sends' :
        /\ SendInTurn(L, at, x)
        /\ x.turn = at => waiter' /\ L[at].who = x.who
        /\ x.sent # NoSent => /\ st[x.who].phase # "fresh"
                              /\ x.sent = st[x.who].last
  BY <1>1, <1>4, <1>5, <1>6 DEF SendsInTurn, Turn
<1>10. SendsInTurn'
  BY <1>1, <1>2, <1>8, <1>9 DEF SendsInTurn, Turn
<1>11. PlayerFields'
  BY <1>1 DEF PlayerFields
<1> QED
  BY <1>1, <1>10, <1>11

LEMMA SealsKeep ==
  ASSUME scene \in DOMAIN Lists, PlayerInv, NEW x \in sends, KitSeals(x)
  PROVE  PlayerInv'
<1> USE DEF PlayerInv
<1> DEFINE L == Lists[scene]
           p == x.who
<1>1. /\ scene' = scene /\ at' = at /\ late' = late /\ waiter' = waiter
      /\ mints' = mints /\ taken' = taken
      /\ StandingAsk(p, FALSE)
      /\ x.sent = NoSent
  BY DEF KitSeals, playVars, askerVars
<1>2. PICK y : y = NextSent(p, FALSE)
  OBVIOUS
<1>3. PICK z : z = [x EXCEPT !.sent = y, !.to = Address]
  OBVIOUS
<1>4. sends' = (sends \ {x}) \cup {z}
  BY <1>2, <1>3 DEF KitSeals
<1>5. SendInTurn(L, at, x) /\ p \in Players /\ p \in Parties /\ at \in Nat
  BY AskerAssumption DEF SendsInTurn, SendInTurn, PlayerFields
<1>6. NextOf(p, st[p], y) /\ Stands(p, st[p])
  BY <1>1, <1>2, <1>5, NextIsOwn
<1>7. st \in [Parties -> StandingFields] /\ p \in Parties
  BY <1>5 DEF PlayerFields
<1>8. st' = [st EXCEPT ![p] = AfterAsk(st[p], y)]
  BY <1>1, <1>2 DEF StandingAsk
<1>9. st'[p] = AfterAsk(st[p], y) /\ \A q \in Parties \ {p} : st'[q] = st[q]
  BY ONLY <1>7, <1>8
<1>10. Stands(p, st'[p]) /\ st'[p].phase # "fresh" /\ st'[p].last = y
  BY <1>6, <1>7, <1>9, AskStands
<1>11. z.turn = x.turn /\ z.who = x.who /\ z.sent = y
       /\ z = [turn |-> z.turn, who |-> z.who, to |-> z.to, sent |-> z.sent]
  BY ONLY <1>3, <1>5 DEF SendInTurn
<1> HIDE DEF L
<1>12. SendInTurn(L, at, z)
  BY ONLY <1>5, <1>11 DEF SendInTurn
<1>13. x.turn = at => waiter /\ at \in DOMAIN L /\ L[at].op = "asks" /\ L[at].who = p
  BY DEF SendsInTurn, L
<1>14. ~Unanswered(L, at, p)
  <2>1. CASE x.turn = at
    <3>1. AsksAt(L, at, p)
      BY <1>13, <2>1 DEF AsksAt
    <3>2. L \in Seq({L[k] : k \in DOMAIN L})
      BY ListFacts DEF L
    <3> QED
      BY <1>5, <3>1, <3>2, AskIsNotUnanswered
  <2>2. CASE x.turn # at
    <3>1. Over(L, at, p)
      BY <1>5, <2>2 DEF SendInTurn
    <3> QED
      BY <1>5, <3>1, OverIsClean
  <2> QED
    BY <2>1, <2>2
<1> HIDE DEF p
<1>15. st'[p] \in StandingFields
  BY ONLY <1>10 DEF Stands
<1>16. st' \in [Parties -> StandingFields]
  BY ONLY <1>7, <1>8, <1>9, <1>15
<1>17. PlayerFields'
  BY <1>1, <1>16 DEF PlayerFields
<1>18. \A q \in Parties : Stands(q, st'[q])
  BY <1>9, <1>10
<1>19. ~late' => \A q \in Parties : Follows(st'[q], mints'[q])
  BY <1>1, <1>6, <1>7, <1>9, AskFollows
<1>20. \A q \in Parties : Unanswered(L, at', q) => InStep(st'[q], taken'[q])
  BY <1>1, <1>9, <1>14 DEF L
<1>21. \A a, b \in sends : a.who = b.who => a = b
  BY DEF SendsInTurn
<1>22. \A a, b \in sends' : a.who = b.who => a = b
  BY ONLY <1>4, <1>11, <1>21, x \in sends
<1>23. \A a \in sends \ {x} : a.who \in Parties /\ a.who # p
  <2>1. \A a \in sends : a.who \in Parties
    BY AskerAssumption DEF SendsInTurn, SendInTurn
  <2> QED
    BY ONLY <1>21, <2>1, x \in sends DEF p
<1>24. \A a \in sends :
         /\ SendInTurn(L, at, a)
         /\ a.turn = at => waiter /\ L[at].who = a.who
         /\ a.sent # NoSent => /\ st[a.who].phase # "fresh"
                               /\ a.sent = st[a.who].last
  BY DEF SendsInTurn, L
<1>25. ASSUME NEW a \in sends'
       PROVE  /\ SendInTurn(L, at, a)
              /\ a.turn = at => waiter /\ L[at].who = a.who
              /\ a.sent # NoSent => /\ st'[a.who].phase # "fresh"
                                    /\ a.sent = st'[a.who].last
  <2>1. CASE a = z
    BY ONLY <1>10, <1>11, <1>12, <1>13, <2>1 DEF p
  <2>2. CASE a # z
    <3>1. a \in sends \ {x}
      BY ONLY <1>4, <2>2, a \in sends'
    <3>2. st'[a.who] = st[a.who]
      BY ONLY <1>9, <1>23, <3>1
    <3> QED
      BY ONLY <1>24, <3>1, <3>2
  <2> QED
    BY <2>1, <2>2
<1>26. scene # "asker"
  BY DEF SendsInTurn
<1>27. waiter => at \in DOMAIN L /\ L[at].op = "asks"
  BY DEF SendsInTurn, L
<1>28. SendsInTurn'
  BY <1>1, <1>22, <1>25, <1>26, <1>27 DEF SendsInTurn, L
<1> QED
  BY <1>1, <1>17, <1>18, <1>19, <1>20, <1>28 DEF L

LEMMA HoldTakesKeep ==
  ASSUME scene \in DOMAIN Lists, PlayerInv, NEW x \in sends, HoldTakes(x)
  PROVE  PlayerInv'
<1> USE DEF PlayerInv
<1> DEFINE L == Lists[scene]
<1>1. st' = st /\ mints' = mints /\ x.sent # NoSent
  BY DEF HoldTakes
<1>2. CASE ~Awaits(x)
  <2>1. /\ scene' = scene /\ at' = at /\ late' = late /\ waiter' = waiter
        /\ taken' = taken /\ sends' \subseteq sends
    BY <1>2 DEF HoldTakes, playVars
  <2>2. SendsInTurn'
    BY <1>1, <2>1 DEF SendsInTurn
  <2>3. PlayerFields'
    BY <1>1, <2>1 DEF PlayerFields
  <2> QED
    BY <1>1, <2>1, <2>2, <2>3
<1>3. CASE Awaits(x)
  <2>1. /\ waiter /\ waiter' = FALSE /\ sends' = {}
        /\ TakesApart(Turn.who, x.sent)
    BY <1>3 DEF HoldTakes, Awaits
  <2>2. at \in DOMAIN L /\ Turn.op = "asks" /\ at <= Len(L)
    <3>1. DOMAIN L = 1..Len(L) /\ Len(L) \in Nat
      BY ListFacts
    <3>2. at \in DOMAIN L /\ Turn.op = "asks"
      BY <2>1 DEF SendsInTurn, Turn
    <3> QED
      BY <3>1, <3>2
  <2>3. Turn.who \in Players
    BY <2>2, InTurn
  <2>4. /\ x.who \in Players /\ x.who \in Parties
        /\ st[x.who].phase # "fresh" /\ x.sent = st[x.who].last
    BY <1>1, AskerAssumption DEF SendsInTurn, SendInTurn
  <2>5. SentBy(x.who, x.sent)
    BY <2>4 DEF Stands
  <2>6. /\ scene' = scene /\ (late' <=> late)
        /\ at' \in 1..(Len(L) + 1)
        /\ taken' \in [Parties -> TakenFields]
        /\ \A q \in Parties : Unanswered(L, at', q) =>
             \/ /\ q # Turn.who /\ taken'[q] = taken[q] /\ Unanswered(L, at, q)
             \/ /\ q = x.who
                /\ \A s : s.phase # "fresh" /\ s.last = x.sent => InStep(s, taken'[q])
    BY <2>1, <2>2, <2>3, <2>4, <2>5, BoxTaken
  <2>7. PlayerFields'
    BY <1>1, <2>6 DEF PlayerFields
  <2>8. \A q \in Parties : Unanswered(L, at', q) => InStep(st'[q], taken'[q])
    BY <1>1, <2>4, <2>6
  <2>9. SendsInTurn'
    BY <2>1 DEF SendsInTurn
  <2> QED
    BY <1>1, <2>6, <2>7, <2>8, <2>9
<1> QED
  BY <1>2, <1>3

(* A wait that ends without its ask: the relation is given up, and what    *)
(* its standing reads or does not read of it the verifier no longer        *)
(* follows, but where the wait was none that had to bring an ask.          *)
LEMMA WaitIsOverKeeps ==
  ASSUME scene \in DOMAIN Lists, PlayerInv, NEW oks, NEW tooLate \in BOOLEAN,
         WaitIsOver(oks, tooLate), st' \in [Parties -> StandingFields],
         \A q \in Parties : Stands(q, st'[q]),
         ~late' => \A q \in Parties : Follows(st'[q], mints'[q]),
         \A q \in Parties : /\ st'[q].last = st[q].last
                            /\ st[q].phase # "fresh" => st'[q].phase # "fresh"
  PROVE  PlayerInv'
<1> USE DEF PlayerInv
<1> DEFINE L == Lists[scene]
<1>1. /\ scene' = scene /\ at' = at + Left /\ waiter /\ waiter' = FALSE
      /\ mints' = mints /\ taken' = taken /\ sends' \subseteq sends
  BY DEF WaitIsOver, GoesLate, askerVars
<1>2. at \in DOMAIN L /\ Turn.op = "asks" /\ scene # "asker" /\ at \in Nat
  BY <1>1 DEF SendsInTurn, Turn, PlayerFields
<1>3. /\ at' \in 1..(Len(L) + 1) /\ at' > at
      /\ Clean(L, at') /\ Over(L, at', Turn.who)
  BY <1>1, <1>2, LeftOut
<1>4. PlayerFields'
  BY <1>1, <1>3 DEF PlayerFields
<1>5. \A q \in Parties : Unanswered(L, at', q) => InStep(st'[q], taken'[q])
  BY <1>3 DEF Clean
<1>6. ASSUME NEW x \in sends
      PROVE  Over(L, at', x.who) /\ x.who \in Parties
  <2>1. /\ SendInTurn(L, at, x) /\ x.who \in Parties
        /\ x.turn = at => L[at].who = x.who
    BY AskerAssumption DEF SendsInTurn, SendInTurn
  <2>2. CASE x.turn = at
    BY <1>3, <2>1, <2>2 DEF Turn
  <2>3. CASE x.turn # at
    <3>1. Over(L, at, x.who)
      BY <1>2, <2>1, <2>3 DEF SendInTurn
    <3>2. at' \in Nat /\ at' >= at
      BY ONLY <1>2, <1>3
    <3>3. L \in Seq({L[k] : k \in DOMAIN L})
      BY ListFacts
    <3> HIDE DEF L
    <3> QED
      BY <1>2, <2>1, <3>1, <3>2, <3>3, OverStays
  <2> QED
    BY <2>1, <2>2, <2>3
<1>7. at' \in Nat
  BY <1>3
<1>8. SendsInTurn'
  BY <1>1, <1>2, <1>3, <1>6, <1>7, SendsLeft
<1> QED
  BY <1>1, <1>4, <1>5, <1>8

LEMMA TimerKeeps ==
  ASSUME scene \in DOMAIN Lists, PlayerInv, HoldTimer
  PROVE  PlayerInv'
<1>1. WaitIsOver({FALSE}, TRUE) /\ st' = st /\ late' = TRUE
  BY DEF HoldTimer, WaitIsOver, GoesLate
<1> QED
  BY <1>1, WaitIsOverKeeps DEF PlayerInv, PlayerFields

LEMMA StopsKeep ==
  ASSUME scene \in DOMAIN Lists, PlayerInv, NEW x \in sends, KitStops(x)
  PROVE  PlayerInv'
<1> USE DEF PlayerInv
<1> DEFINE p == x.who
           s == st[p]
           t == AfterRead(s, Nothing)
<1>1. x.sent # NoSent /\ StandingRead(p, Nothing)
  BY DEF KitStops
<1>2. /\ p \in Parties /\ s.phase # "fresh" /\ Stands(p, s)
  BY <1>1, AskerAssumption DEF SendsInTurn, SendInTurn
<1>3. ReadKind(s.last, Nothing) = "nothing"
  BY DEF ReadKind
<1>4. Stands(p, t) /\ t.phase # "fresh" /\ t.last = s.last
  <2> HIDE DEF t, s
  <2>1. t = AfterRead(s, Nothing)
    BY DEF t
  <2> QED
    BY <1>2, <1>3, <2>1, ReadStands
<1>5. /\ t.moved = s.moved /\ t.signer = s.signer /\ t.edge = s.edge
      /\ t.phase = s.phase
  <2>1. t = s \/ \E w \in BOOLEAN : t = [s EXCEPT !.probeNext = w]
    BY <1>3 DEF AfterRead, MovesOn, SettlesOn, Words
  <2>2. s \in StandingFields
    BY <1>2 DEF Stands
  <2> HIDE DEF t, s
  <2> QED
    BY ONLY <2>1, <2>2 DEF StandingFields
<1>6. st' = [st EXCEPT ![p] = t]
  BY <1>1 DEF StandingRead
<1>7. st \in [Parties -> StandingFields] /\ t \in StandingFields
  BY <1>4 DEF PlayerFields, Stands
<1>8. p \in Parties
  BY <1>2
<1>9. /\ st' \in [Parties -> StandingFields] /\ st'[p] = t
      /\ \A q \in Parties \ {p} : st'[q] = st[q]
  BY ONLY <1>6, <1>7, <1>8
<1> HIDE DEF t
<1>10. \A q \in Parties : Stands(q, st'[q])
  BY <1>4, <1>9
<1>11. \A q \in Parties : /\ st'[q].last = st[q].last
                          /\ st[q].phase # "fresh" => st'[q].phase # "fresh"
  BY <1>4, <1>9
<1>12. \A q \in Parties : Follows(st[q], mints[q]) => Follows(st'[q], mints[q])
  BY <1>5, <1>9 DEF Follows
<1>13. CASE Missed
  <2>1. WaitIsOver({}, FALSE) /\ (late' <=> late) /\ mints' = mints
    BY <1>13 DEF KitStops, WaitIsOver, GoesLate, askerVars
  <2>2. ~late' => \A q \in Parties : Follows(st'[q], mints'[q])
    BY <1>12, <2>1
  <2> QED
    BY <1>9, <1>10, <1>11, <2>1, <2>2, WaitIsOverKeeps
<1>14. CASE ~Missed
  <2>1. WaitIsOver({FALSE}, TRUE) /\ late' = TRUE
    BY <1>14 DEF KitStops, WaitIsOver, GoesLate
  <2> QED
    BY <1>9, <1>10, <1>11, <2>1, WaitIsOverKeeps
<1> QED
  BY <1>13, <1>14

LEMMA StillKeeps ==
  ASSUME PlayerInv, scene' = scene, at' = at, late' = late,
         UNCHANGED << st, askerVars, holdVars >>
  PROVE  PlayerInv'
<1>1. /\ st' = st /\ mints' = mints /\ taken' = taken
      /\ waiter' = waiter /\ sends' = sends
  BY DEF askerVars, holdVars
<1>2. PlayerFields'
  BY <1>1 DEF PlayerInv, PlayerFields
<1>3. SendsInTurn'
  BY <1>1 DEF PlayerInv, SendsInTurn
<1> QED
  BY <1>1, <1>2, <1>3 DEF PlayerInv

(* What may happen in a scenario of a list.                                *)
ListSteps ==
  \/ AskerMoves /\ UNCHANGED holdVars
  \/ HoldMoves \/ KitDials
  \/ UNCHANGED << st, askerVars, holdVars >> /\ (PlayCloses(~stray) \/ StandDies)

LEMMA ListStepsApart ==
  ASSUME VerifyNext
  PROVE  /\ scene' = scene
         /\ scene \in DOMAIN Lists /\ flight = << >> =>
              flight' = << >> /\ ListSteps
<1>1. CASE DoorScenario(SessionMoves) \/ DoorScenario(StandMoves)
  BY <1>1, SessionKeeps, StandKeeps, ListsAreApart DEF DoorScenario
<1>2. CASE AskerScenario(AskerMoves)
  BY <1>2, AskerKeeps DEF AskerScenario, DialScenario, ListSteps, sessionVars
<1>3. CASE DialScenario(HoldMoves) \/ DialScenario(KitDials)
  BY <1>3, HoldKeeps, KitKeeps DEF DialScenario, ListSteps, sessionVars
<1>4. CASE PassScenario(PassMoves)
  BY <1>4, PassKeeps, ListsAreApart DEF PassScenario
<1>5. CASE HarnessScenario(HarnessMoves)
  <2>1. HarnessSteps
    BY <1>5 DEF HarnessScenario, HarnessSteps
  <2>2. scene' = scene /\ scene = "harness"
    BY <1>5
    DEF HarnessScenario, HarnessMoves, HarnessWrites, HarnessHears, HarnessSkips,
        HarnessGivesUp, HarnessLosesTheRest, HarnessEnds, HarnessPlays, PlayEnds,
        Goes, GoesLate, playVars
  <2> QED
    BY <2>2, HarnessIsApart
<1>6. CASE AnyScenario(PlayCloses(~stray))
  BY <1>6
  DEF AnyScenario, HarnessScenario, ListSteps, sessionVars, PlayCloses
<1>7. CASE HarnessScenario(\E n \in wire : StandSays(n))
  BY <1>7, HarnessIsApart DEF HarnessScenario, StandSays, playVars
<1>8. CASE AnyScenario(givenUp = {} /\ StandDies)
  BY <1>8 DEF AnyScenario, HarnessScenario, ListSteps, sessionVars, StandDies
<1> QED
  BY <1>1, <1>2, <1>3, <1>4, <1>5, <1>6, <1>7, <1>8 DEF VerifyNext, VerifierMoves

LEMMA ListStepKeeps ==
  ASSUME scene \in DOMAIN Lists, phase = "play", PlayerInv, ListSteps,
         phase' = "play"
  PROVE  PlayerInv'
<1> DEFINE L == Lists[scene]
<1>1. CASE AskerMoves /\ UNCHANGED holdVars
  <2>1. CASE AskerIsRefused
    <3>1. UNCHANGED << st, askerVars >>
      BY <2>1 DEF AskerIsRefused
    <3> QED
      BY <1>1, <2>1, <3>1, RefusedKeeps
  <2>2. CASE AskerAsks
    BY <1>1, <2>2, AsksKeep
  <2>3. ASSUME NEW timed \in BOOLEAN, AskerReplies(timed)
        PROVE  PlayerInv'
    BY <1>1, <2>3, RepliesKeep
  <2>4. CASE AskerRoutes
    <3>1. /\ at <= Len(L) /\ Turn.op # "asks" /\ scene' = scene /\ (late' <=> late)
          /\ at' = at + IF kit = "door" THEN Len(L) + 1 - at ELSE 1
          /\ UNCHANGED << st, askerVars >>
      BY <2>4 DEF AskerRoutes, AskerPlays, Goes, GoesLate, ToTheEnd, Turn
    <3>2. at \in Nat /\ Len(L) \in Nat
      BY ListFacts DEF PlayerInv, PlayerFields
    <3> HIDE DEF L
    <3>3. at' \in {at + 1, Len(L) + 1}
      BY ONLY <3>1, <3>2
    <3> QED
      BY <1>1, <3>1, <3>3, OthersKeep DEF L
  <2>5. CASE AskerGivesUp
    BY <2>5 DEF AskerGivesUp, Breaks
  <2>6. CASE AskerEnds
    BY <2>6 DEF AskerEnds, PlayEnds
  <2> QED
    BY <1>1, <2>1, <2>2, <2>3, <2>4, <2>5, <2>6 DEF AskerMoves
<1>2. CASE HoldMoves
  <2>1. CASE DialSends
    BY <2>1, DialSendsKeep
  <2>2. CASE HoldTimer
    BY <2>2, TimerKeeps
  <2>3. CASE HoldCounts
    <3>1. /\ at <= Len(L) /\ Turn.op # "asks" /\ scene' = scene /\ (late' <=> late)
          /\ at' = at + 1 /\ UNCHANGED << st, askerVars, holdVars >>
      BY <2>3 DEF HoldCounts, Goes, GoesLate
    <3> QED
      BY <3>1, OthersKeep
  <2> QED
    BY <1>2, <2>1, <2>2, <2>3 DEF HoldMoves
<1>3. ASSUME NEW x \in sends, KitSeals(x) \/ HoldTakes(x) \/ KitStops(x)
      PROVE  PlayerInv'
  BY <1>3, SealsKeep, HoldTakesKeep, StopsKeep
<1>4. CASE UNCHANGED << st, askerVars, holdVars >>
           /\ (PlayCloses(~stray) \/ StandDies)
  <2>1. scene' = scene /\ at' = at /\ late' = late
    BY <1>4 DEF PlayCloses, StandDies
  <2> QED
    BY <1>4, <2>1, StillKeeps
<1> QED
  BY <1>1, <1>2, <1>3, <1>4 DEF ListSteps, KitDials

(* A scenario that does not play begins to play no more.                   *)
LEMMA PlaysNoMore ==
  ASSUME ListSteps, phase' = "play"
  PROVE  phase = "play"
<1>1. CASE AskerMoves
  BY <1>1
  DEF AskerMoves, AskerIsRefused, AskerAsks, AskerReplies, AskerRoutes, AskerPlays,
      AskerGivesUp, AskerEnds, PlayEnds
<1>2. CASE HoldMoves
  BY <1>2 DEF HoldMoves, DialSends, HoldTimer, HoldCounts
<1>3. ASSUME NEW x \in sends, KitSeals(x) \/ HoldTakes(x) \/ KitStops(x)
      PROVE  phase = "play"
  BY <1>3 DEF KitSeals, HoldTakes, KitStops, playVars
<1>4. CASE PlayCloses(~stray) \/ StandDies
  BY <1>4 DEF PlayCloses, StandDies
<1> QED
  BY <1>1, <1>2, <1>3, <1>4 DEF ListSteps, KitDials

LEMMA AskerInvHoldsAtFirst ==
  ASSUME VerifyInit
  PROVE  AskerInv
<1> SUFFICES ASSUME scene \in DOMAIN Lists
             PROVE  PlayerInv
  BY DEF AskerInv, VerifyInit, SessionInit
<1> DEFINE L == Lists[scene]
<1>1. /\ at = 1 /\ late = FALSE /\ waiter = FALSE /\ sends = {}
      /\ mints = [p \in Parties |-> Minted] /\ taken = [p \in Parties |-> NotTaken]
      /\ st = [p \in Parties |->
                [phase |-> "fresh", signer |-> Invitation[p], edge |-> ZERO32,
                 seq |-> 0, moved |-> 0, probeNext |-> TRUE,
                 knock |-> NoSent, last |-> NoSent]]
  BY DEF VerifyInit, PlayInit, HoldInit, AskerInit, StandingInit
<1>2. NotTaken \in TakenFields
  <2>1. ZERO32 \in Edge
    BY ZeroEdgeType
  <2> QED
    BY <2>1 DEF NotTaken, TakenFields
<1>3. Minted \in MintFields
  <2>1. ZERO32 \in Edge
    BY ZeroEdgeType
  <2> HIDE DEF NotTaken
  <2> QED
    BY <1>2, <2>1 DEF Minted, MintFields, NoFrom
<1>4. ASSUME NEW p \in Parties
      PROVE  Stands(p, st[p]) /\ Follows(st[p], mints[p])
  <2>1. Invitation[p] \in Keys /\ MaxAsks \in Nat
    BY StandingAssumption, BoxesAssumption
  <2>2. /\ st[p].phase = "fresh" /\ st[p].signer = Invitation[p]
        /\ st[p].last = NoSent /\ st[p].moved = 0
    BY <1>1
  <2>3. st[p] \in StandingFields
    <3>1. 0 \in 0..MaxAsks
      BY <2>1
    <3> QED
      BY <1>1, <2>1, <3>1, ZeroEdgeType DEF StandingFields
  <2>4. Stands(p, st[p])
    BY ONLY <2>2, <2>3 DEF Stands
  <2>5. mints[p].state = "fresh" /\ mints[p].movedAt = 0 /\ mints[p].knock = NotTaken
    BY <1>1 DEF Minted
  <2> QED
    BY ONLY <2>2, <2>4, <2>5 DEF Follows
<1>5. Clean(L, 1) /\ Len(L) \in Nat /\ 1 \in 1..(Len(L) + 1)
  BY ListFacts DEF InOrder
<1>6. PlayerFields
  <2>1. \A p \in Parties : st[p] \in StandingFields
    BY <1>4 DEF Stands
  <2>2. st \in [Parties -> StandingFields]
    BY ONLY <1>1, <2>1
  <2> QED
    BY <1>1, <1>2, <1>3, <1>5, <2>2 DEF PlayerFields
<1>7. SendsInTurn
  BY <1>1 DEF SendsInTurn
<1> QED
  BY <1>1, <1>4, <1>5, <1>6, <1>7 DEF PlayerInv, Clean

(* Through every list it plays to an asker or a dialer the verifier        *)
(* follows the keys the kit stands on, for as long as no answer came after *)
(* the wait that was to bring it.                                          *)
THEOREM AskerInvHolds == VerifySpec => []AskerInv
<1>1. VerifyInit => AskerInv
  BY AskerInvHoldsAtFirst
<1>2. AskerInv /\ [VerifyNext]_vars => AskerInv'
  <2> SUFFICES ASSUME AskerInv, [VerifyNext]_vars  PROVE AskerInv'
    OBVIOUS
  <2>1. CASE VerifyNext
    <3> SUFFICES ASSUME scene' \in DOMAIN Lists
                 PROVE  flight' = << >> /\ (phase' = "play" => PlayerInv')
      BY DEF AskerInv
    <3>1. scene \in DOMAIN Lists /\ flight = << >>
      BY <2>1, ListStepsApart DEF AskerInv
    <3>2. flight' = << >> /\ ListSteps
      BY <2>1, <3>1, ListStepsApart
    <3>3. ASSUME phase' = "play"
          PROVE  PlayerInv'
      <4>1. phase = "play"
        BY <3>2, <3>3, PlaysNoMore
      <4>2. PlayerInv
        BY <3>1, <4>1 DEF AskerInv
      <4> QED
        BY <3>1, <3>2, <3>3, <4>1, <4>2, ListStepKeeps
    <3> QED
      BY <3>2, <3>3
  <2>2. CASE UNCHANGED vars
    <3>1. /\ scene' = scene /\ at' = at /\ late' = late /\ phase' = phase
          /\ flight' = flight /\ UNCHANGED << st, askerVars, holdVars >>
      BY <2>2 DEF vars, playVars, sessionVars
    <3> QED
      BY <3>1, StillKeeps DEF AskerInv
  <2> QED
    BY <2>1, <2>2
<1> QED
  BY <1>1, <1>2, PTL DEF VerifySpec

(* The keys the verifier follows from its side are those the kit stands    *)
(* on, and what it replies to is what the kit sealed last: what mint, ask  *)
(* and reply of AskerRun keep.                                             *)
THEOREM KitStandsAsFollowed == VerifySpec => []TracksTheStanding
<1>1. AskerInv => TracksTheStanding
  <2> SUFFICES ASSUME AskerInv, scene \in DOMAIN Lists, phase = "play"
               PROVE  /\ ~late => \A p \in Parties : Follows(st[p], mints[p])
                      /\ at <= Len(Lists[scene]) /\ Turn.op = "replies" =>
                           taken[Turn.who].box = st[Turn.who].last.box
    BY DEF TracksTheStanding, Follows
  <2>1. PlayerInv
    BY DEF AskerInv
  <2>2. ASSUME at <= Len(Lists[scene]), Turn.op = "replies"
        PROVE  taken[Turn.who].box = st[Turn.who].last.box
    <3>1. at \in DOMAIN Lists[scene] /\ at \in Nat /\ Turn.who \in Parties
      BY <2>1, <2>2, InTurn, AskerAssumption DEF PlayerInv
    <3>2. RepliesAt(Lists[scene], at, Turn.who)
      BY <2>2, <3>1 DEF RepliesAt, Turn
    <3>3. InStep(st[Turn.who], taken[Turn.who])
      BY <2>1, <3>1, <3>2, ReplyIsUnanswered DEF PlayerInv
    <3> QED
      BY <3>3 DEF InStep
  <2> QED
    BY <2>1, <2>2 DEF PlayerInv
<1> QED
  BY <1>1, AskerInvHolds, PTL

-----------------------------------------------------------------------------
(* The kits the verifier's tests spoil.  A kit a byte short is played to   *)
(* strangers: what the door holds then, what the verifier has of it, and   *)
(* who is a stranger to it.                                                *)

Steps == Len(theStrangers)

(* An ask of somebody the door does not know: one whose box does not read  *)
(* or is not signed, one by a key no relation admits, or one to an heir    *)
(* that was never made; or, with the first heir bound and the second fresh,*)
(* one under an edge key neither of them has.                              *)
Foreign(s) ==
  /\ s.op = "ask" /\ s.want = "stranger" /\ s.reads = {TRUE}
  /\ ~s.binds /\ s.skips = 0
  /\ s.heir \in 1..4
  /\ \/ s.fault \in {"seal", "signature"}
     \/ s.seq = 0
     \/ s.signer = "new"
     \/ s.heir \in {3, 4}
     \/ s.heir = 1 /\ (s.ct = "ct" \/ s.under \in {"rand", "zero"})
     \/ s.heir = 2 /\ (s.ct = "none" \/ (s.ct = "alien" /\ s.under \in {"rand", "E"}))

(* The box a step is sealed into, to the books on the relation.            *)
SealedBy(b, s, r) ==
  /\ b.head = Key(s.heir, "heir")
  /\ b.ct = IF s.ct = "none" THEN NoCt ELSE Key(s.heir, s.ct)
  /\ b.fault = s.fault /\ b.seq = s.seq /\ b.unread = FALSE
  /\ s.signer \in {"heir", "new"} => b.by = Key(s.heir, s.signer)
  /\ s.signer = "H" => b.by = r.H
  /\ s.next \in {"K1", "K2"} => b.next = Key(s.heir, s.next)
  /\ s.next = "null" => b.next = NoKey
  /\ s.under = "O" => b.edge = r.O
  /\ s.under = "E" /\ s.ct \in {"ct", "alien"} =>
       b.edge = KnockEdge(Key(s.heir, "ct"))
  /\ s.under = "rand" => b.edge = KnockEdge(Key(0, "ct"))
  /\ s.under = "zero" => b.edge = ZERO32

(* The heirs at the door, and the books on the first, so many steps on.    *)
FirstAt(k, r) ==
  IF k <= 2 THEN r = FreshRelation("answers")
  ELSE /\ r.stage = "spent" /\ r.reach = "answers"
       /\ r.H = Key(1, "K1") /\ (k # 3 => r.V = Key(1, "K2"))
       /\ r.O = KnockEdge(Key(1, "ct")) /\ r.F.root = Key(1, "ct")
       /\ r.high = IF k = 3 THEN 1 ELSE 2

DoorAt(k, hs, kept) ==
  /\ DOMAIN hs = Heirs
  /\ \A h \in 1..4 : kept[Key(h, "heir")].stage = "absent"
  /\ \A h \in 3..4 : hs[Key(h, "heir")].stage = "absent"
  /\ k \in 1..(Steps - 2) => FirstAt(k, hs[Key(1, "heir")])
  /\ k \in 2..(Steps - 1) => hs[Key(2, "heir")] = FreshRelation("answers")

HasBooks(r) ==
  r = [state |-> r.state, H |-> r.H, V |-> r.V, O |-> r.O, F |-> r.F, E |-> r.E,
       highest |-> r.highest, edges |-> r.edges, lost |-> r.lost]

BooksAt(k, rs) ==
  /\ DOMAIN rs = Heirs
  /\ LET r == rs[Key(1, "heir")]
     IN /\ k <= 3 => HasBooks(r)
        /\ k <= 2 => r.state = "fresh"
        /\ k \in 3..(Steps - 2) =>
             r.state = "spent" /\ r.H = Key(1, "K1") /\ r.O = KnockEdge(Key(1, "ct"))

(* A reply under way is the one a right kit gives, but that one of silence *)
(* does not read.                                                          *)
ReplyUnderWay ==
  /\ at \in 1..Steps /\ theStrangers[at].op = "ask"
  /\ DOMAIN flight = {1}
  /\ SealedBy(flight[1].box, theStrangers[at],
              rel[Key(theStrangers[at].heir, "heir")])
  /\ \/ flight[1].reply = Awaited /\ DoorAt(at - 1, heirs, removed)
     \/ /\ flight[1].reply.kind =
             IF theStrangers[at].want = "stranger" THEN "invalid" ELSE "object"
        /\ DoorAt(at, heirs, removed)

(* The strangers' checks failed and no other, of so many steps.            *)
FailsTheStrangers(k, fs) ==
  \A i \in 1..k : theStrangers[i].op = "ask" =>
    (theStrangers[i].want = "stranger" <=> << "check", i >> \in fs)

ShortInv ==
  /\ scene = "strangers"
  /\ at \in 1..(Steps + 1)
  /\ FailsTheStrangers(at - 1, failed)
  /\ phase = "play" =>
       /\ \A f \in failed : f[2] \in 1..(at - 1)
       /\ BooksAt(at - 1, rel)
       /\ \/ flight = << >> /\ DoorAt(at - 1, heirs, removed)
          \/ ReplyUnderWay

SpoiltInv ==
  /\ kit \in {"short", "stray"} => scene \in DOMAIN Script \ {"carried"}
                                   /\ sends = {} /\ ~waiter
  /\ kit = "stray" /\ phase = "done" => Failures({"stray"}) # {}
  /\ kit = "short" => ShortInv

LEMMA StrangersMeet ==
  /\ "strangers" \in DOMAIN Script \ {"carried"}
  /\ Script["strangers"] = theStrangers
BY DEF Script

(* A part of a script in which everybody is a stranger.                    *)
Strange(L) ==
  /\ L \in Seq({L[k] : k \in DOMAIN L})
  /\ \A k \in DOMAIN L : Foreign(L[k])

LEMMA StrangeList ==
  ASSUME NEW S, NEW L \in Seq(S), \A x \in S : Foreign(x)
  PROVE  Strange(L)
<1>1. \A k \in DOMAIN L : L[k] \in S
  OBVIOUS
<1> QED
  BY <1>1, RangeOf DEF Strange

LEMMA StrangeTimes ==
  ASSUME NEW n \in Nat, NEW x, Foreign(x)
  PROVE  Strange(Times(n, x))
<1>1. Times(n, x) \in Seq({x})
  BY DEF Times
<1> QED
  BY <1>1, StrangeList

LEMMA StrangeConcat ==
  ASSUME NEW L, NEW M, Strange(L), Strange(M)
  PROVE  Strange(L \o M)
<1> DEFINE S == {L[k] : k \in DOMAIN L} \cup {M[k] : k \in DOMAIN M}
<1>1. L \in Seq(S) /\ M \in Seq(S)
  <2>1. /\ L \in Seq({L[k] : k \in DOMAIN L}) /\ M \in Seq({M[k] : k \in DOMAIN M})
    BY DEF Strange
  <2>2. {L[k] : k \in DOMAIN L} \subseteq S /\ {M[k] : k \in DOMAIN M} \subseteq S
    OBVIOUS
  <2> HIDE DEF S
  <2> QED
    BY <2>1, <2>2, SeqMonotonic
<1>2. \A x \in S : Foreign(x)
  BY DEF Strange
<1> HIDE DEF S
<1>3. L \o M \in Seq(S)
  BY <1>1, ConcatProperties
<1> QED
  BY ONLY <1>2, <1>3, StrangeList

LEMMA NobodyAtTheSpent == Strange(StrangersAtTheSpent)
<1> DEFINE good(seq) == Ask(1, "H", "O", "null", seq, "stranger")
           unheard == [i \in 1..3 |-> Faulty(good(i + 2), "seal")]
           wrong == << [good(6) EXCEPT !.under = "rand"],
                       [good(7) EXCEPT !.under = "zero"],
                       Faulty(good(8), "seal"), Faulty(good(9), "seal"),
                       [good(10) EXCEPT !.ct = "ct", !.under = "E"] >>
<1>1. Foreign(Garbage) /\ Foreign([Garbage EXCEPT !.lid = FALSE])
  BY DEF Foreign, Garbage, Faulty, Ask, Step
<1>2. Strange(Times(2, Garbage)) /\ Strange(Times(4, [Garbage EXCEPT !.lid = FALSE]))
  BY <1>1, StrangeTimes
<1>3. Strange(unheard)
  <2>1. \A i \in 1..3 : Foreign(unheard[i])
    <3>1. \A i \in 1..3 : Foreign(Faulty(good(i + 2), "seal"))
      BY DEF Foreign, Faulty, Ask, Step
    <3> HIDE DEF good
    <3> QED
      BY <3>1
  <2>2. unheard = [i \in 1..3 |-> unheard[i]]
    OBVIOUS
  <2> HIDE DEF unheard
  <2>3. DOMAIN unheard = 1..3 /\ unheard \in Seq({unheard[i] : i \in DOMAIN unheard})
    BY <2>2, FunctionIsList
  <2> QED
    BY ONLY <2>1, <2>3 DEF Strange
<1>4. Strange(wrong)
  <2>1. /\ Foreign([good(6) EXCEPT !.under = "rand"])
        /\ Foreign([good(7) EXCEPT !.under = "zero"])
        /\ Foreign(Faulty(good(8), "seal")) /\ Foreign(Faulty(good(9), "seal"))
        /\ Foreign([good(10) EXCEPT !.ct = "ct", !.under = "E"])
    BY DEF Foreign, Faulty, Ask, Step
  <2> HIDE DEF good
  <2> DEFINE S == {[good(6) EXCEPT !.under = "rand"],
                   [good(7) EXCEPT !.under = "zero"],
                   Faulty(good(8), "seal"), Faulty(good(9), "seal"),
                   [good(10) EXCEPT !.ct = "ct", !.under = "E"]}
  <2>2. wrong \in Seq(S)
    OBVIOUS
  <2>3. \A x \in S : Foreign(x)
    BY <2>1
  <2> HIDE DEF wrong, S
  <2> QED
    BY ONLY <2>2, <2>3, StrangeList
<1>5. StrangersAtTheSpent =
        Times(2, Garbage) \o Times(4, [Garbage EXCEPT !.lid = FALSE]) \o unheard \o wrong
  BY DEF StrangersAtTheSpent
<1> HIDE DEF unheard, wrong
<1> QED
  BY ONLY <1>2, <1>3, <1>4, <1>5, StrangeConcat

LEMMA NobodyAtTheFresh == Strange(StrangersAtTheFresh)
<1> DEFINE knock(h) == Knock(h, "K1", 1, "stranger")
           S == {Faulty(knock(2), "seal"),
                 [knock(2) EXCEPT !.ct = "alien", !.under = "rand"],
                 [knock(2) EXCEPT !.ct = "alien"],
                 [knock(2) EXCEPT !.ct = "none"],
                 [knock(2) EXCEPT !.ct = "none", !.under = "zero"],
                 [knock(2) EXCEPT !.signer = "new"],
                 Faulty(knock(2), "signature"),
                 Faulty([knock(2) EXCEPT !.next = "null"], "signature"),
                 [knock(2) EXCEPT !.seq = 0],
                 Ask(3, "new", "zero", "null", 1, "stranger"),
                 [knock(3) EXCEPT !.signer = "new"],
                 knock(4)}
<1>1. \A x \in S : Foreign(x)
  <2>1. /\ Foreign(Faulty(knock(2), "seal"))
        /\ Foreign([knock(2) EXCEPT !.ct = "alien", !.under = "rand"])
        /\ Foreign([knock(2) EXCEPT !.ct = "alien"])
        /\ Foreign([knock(2) EXCEPT !.ct = "none"])
        /\ Foreign([knock(2) EXCEPT !.ct = "none", !.under = "zero"])
        /\ Foreign([knock(2) EXCEPT !.signer = "new"])
    BY DEF Foreign, Faulty, Knock, Ask, Step
  <2>2. /\ Foreign(Faulty(knock(2), "signature"))
        /\ Foreign(Faulty([knock(2) EXCEPT !.next = "null"], "signature"))
        /\ Foreign([knock(2) EXCEPT !.seq = 0])
        /\ Foreign(Ask(3, "new", "zero", "null", 1, "stranger"))
        /\ Foreign([knock(3) EXCEPT !.signer = "new"])
        /\ Foreign(knock(4))
    BY DEF Foreign, Faulty, Knock, Ask, Step
  <2> HIDE DEF knock
  <2> QED
    BY <2>1, <2>2
<1> HIDE DEF knock
<1>2. StrangersAtTheFresh \in Seq(S)
  BY DEF StrangersAtTheFresh, knock
<1> QED
  BY ONLY <1>1, <1>2, StrangeList

LEMMA NobodyByTheirKeys ==
  ASSUME NEW L, L = << StrangersByTheirKeys[1], StrangersByTheirKeys[2],
                       StrangersByTheirKeys[3], StrangersByTheirKeys[4] >>
  PROVE  Strange(L)
<1> DEFINE S == {Ask(1, "new", "O", "null", 11, "stranger"),
                 Faulty(Ask(1, "new", "O", "null", 12, "stranger"), "signature"),
                 Faulty(Ask(1, "H", "O", "null", 13, "stranger"), "signature"),
                 Faulty(Ask(1, "V", "O", "null", 14, "stranger"), "signature")}
<1>1. \A x \in S : Foreign(x)
  <2>1. /\ Foreign(Ask(1, "new", "O", "null", 11, "stranger"))
        /\ Foreign(Faulty(Ask(1, "new", "O", "null", 12, "stranger"), "signature"))
        /\ Foreign(Faulty(Ask(1, "H", "O", "null", 13, "stranger"), "signature"))
        /\ Foreign(Faulty(Ask(1, "V", "O", "null", 14, "stranger"), "signature"))
    BY DEF Foreign, Faulty, Ask, Step
  <2> QED
    BY <2>1
<1>2. L \in Seq(S)
  BY DEF StrangersByTheirKeys
<1> QED
  BY ONLY <1>1, <1>2, StrangeList

LEMMA FourParts ==
  ASSUME NEW S, NEW A \in Seq(S), NEW B \in Seq(S), NEW C \in Seq(S), NEW D \in Seq(S),
         NEW L, L = A \o B \o C \o D
  PROVE  /\ Len(A) \in Nat /\ Len(B) \in Nat /\ Len(C) \in Nat /\ Len(D) \in Nat
         /\ Len(L) = Len(A) + Len(B) + Len(C) + Len(D) /\ DOMAIN L = 1..Len(L)
         /\ \A k \in 1..Len(L) :
              L[k] = IF k <= Len(A) THEN A[k]
                     ELSE IF k <= Len(A) + Len(B) THEN B[k - Len(A)]
                     ELSE IF k <= Len(A) + Len(B) + Len(C)
                            THEN C[k - (Len(A) + Len(B))]
                     ELSE D[k - (Len(A) + Len(B) + Len(C))]
<1> DEFINE X == A \o B
           Y == X \o C
<1>1. /\ X \in Seq(S) /\ Len(X) = Len(A) + Len(B)
      /\ \A k \in 1..(Len(A) + Len(B)) :
           X[k] = IF k <= Len(A) THEN A[k] ELSE B[k - Len(A)]
  BY ConcatProperties
<1>2. /\ Len(A) \in Nat /\ Len(B) \in Nat /\ Len(C) \in Nat /\ Len(D) \in Nat
  BY LenProperties
<1> HIDE DEF X
<1>3. /\ Y \in Seq(S) /\ Len(Y) = Len(X) + Len(C)
      /\ \A k \in 1..(Len(X) + Len(C)) :
           Y[k] = IF k <= Len(X) THEN X[k] ELSE C[k - Len(X)]
  BY <1>1, ConcatProperties
<1>4. L = Y \o D
  BY DEF X, Y
<1> HIDE DEF Y
<1>5. /\ L \in Seq(S) /\ Len(L) = Len(Y) + Len(D)
      /\ \A k \in 1..(Len(Y) + Len(D)) :
           L[k] = IF k <= Len(Y) THEN Y[k] ELSE D[k - Len(Y)]
  BY <1>3, <1>4, ConcatProperties
<1>6. DOMAIN L = 1..Len(L)
  BY <1>5, LenProperties
<1> QED
  BY ONLY <1>1, <1>2, <1>3, <1>5, <1>6

LEMMA PlaceInTheLast ==
  ASSUME NEW b \in Nat, NEW c \in Nat, NEW n, n = 4 + b + c + 6,
         NEW k \in 5..(n - 2), ~(k <= 4 + b + c)
  PROVE  k \in 1..n /\ ~(k <= 4) /\ ~(k <= 4 + b) /\ k - (4 + b + c) \in 1..4
OBVIOUS

(* The strangers: four steps before them, and two after.                   *)
LEMMA StrangersBetween ==
  /\ Steps \in Nat /\ Steps >= 10 /\ DOMAIN theStrangers = 1..Steps
  /\ theStrangers[1] = Invited(1) /\ theStrangers[2] = Invited(2)
  /\ theStrangers[3] = Bind(1, "K1", 1)
  /\ theStrangers[4] = Ask(1, "H", "O", "K2", 2, "answer")
  /\ \A k \in 5..(Steps - 2) : Foreign(theStrangers[k])
  /\ theStrangers[Steps - 1] = Ask(1, "H", "O", "null", 15, "answer")
  /\ theStrangers[Steps] = Knock(2, "K1", 9, "answer")
<1> DEFINE A == << Invited(1), Invited(2), Bind(1, "K1", 1),
                   Ask(1, "H", "O", "K2", 2, "answer") >>
           B == StrangersAtTheSpent
           C == StrangersAtTheFresh
           D == StrangersByTheirKeys
           E == << D[1], D[2], D[3], D[4] >>
           S == {A[k] : k \in DOMAIN A} \cup {B[k] : k \in DOMAIN B}
                \cup {C[k] : k \in DOMAIN C} \cup {D[k] : k \in DOMAIN D}
<1>1. /\ Len(A) = 4 /\ A[1] = Invited(1) /\ A[2] = Invited(2)
      /\ A[3] = Bind(1, "K1", 1) /\ A[4] = Ask(1, "H", "O", "K2", 2, "answer")
  OBVIOUS
<1>2. /\ Len(D) = 6 /\ D[5] = Ask(1, "H", "O", "null", 15, "answer")
      /\ D[6] = Knock(2, "K1", 9, "answer")
  BY DEF StrangersByTheirKeys
<1>3. \A k \in 1..4 : Foreign(D[k])
  <2>1. Strange(E)
    BY NobodyByTheirKeys
  <2>2. DOMAIN E = 1..4 /\ E[1] = D[1] /\ E[2] = D[2] /\ E[3] = D[3] /\ E[4] = D[4]
    OBVIOUS
  <2> HIDE DEF D, E
  <2> QED
    BY ONLY <2>1, <2>2 DEF Strange
<1>4. Strange(B) /\ Strange(C)
  BY NobodyAtTheSpent, NobodyAtTheFresh
<1>5. A \in Seq({A[k] : k \in DOMAIN A}) /\ D \in Seq({D[k] : k \in DOMAIN D})
  <2>1. A \in Seq({A[1], A[2], A[3], A[4]})
    OBVIOUS
  <2>2. D \in Seq({D[1], D[2], D[3], D[4], D[5], D[6]})
    BY DEF StrangersByTheirKeys
  <2> HIDE DEF A, D
  <2> QED
    BY ONLY <2>1, <2>2, RangeOf
<1>6. theStrangers = A \o B \o C \o D
  BY DEF theStrangers
<1> HIDE DEF A, B, C, D
<1>7. A \in Seq(S) /\ B \in Seq(S) /\ C \in Seq(S) /\ D \in Seq(S)
  <2>1. /\ {A[k] : k \in DOMAIN A} \subseteq S /\ {B[k] : k \in DOMAIN B} \subseteq S
        /\ {C[k] : k \in DOMAIN C} \subseteq S /\ {D[k] : k \in DOMAIN D} \subseteq S
    OBVIOUS
  <2>2. B \in Seq({B[k] : k \in DOMAIN B}) /\ C \in Seq({C[k] : k \in DOMAIN C})
    BY <1>4 DEF Strange
  <2> HIDE DEF S
  <2> QED
    BY ONLY <1>5, <2>1, <2>2, SeqMonotonic
<1> HIDE DEF S
<1>8. /\ Len(B) \in Nat /\ Len(C) \in Nat
      /\ Steps = 4 + Len(B) + Len(C) + 6 /\ DOMAIN theStrangers = 1..Steps
      /\ \A k \in 1..Steps :
           theStrangers[k] = IF k <= 4 THEN A[k]
                             ELSE IF k <= 4 + Len(B) THEN B[k - 4]
                             ELSE IF k <= 4 + Len(B) + Len(C)
                                    THEN C[k - (4 + Len(B))]
                             ELSE D[k - (4 + Len(B) + Len(C))]
  <2>1. /\ Len(B) \in Nat /\ Len(C) \in Nat
        /\ Steps = Len(A) + Len(B) + Len(C) + Len(D) /\ DOMAIN theStrangers = 1..Steps
        /\ \A k \in 1..Steps :
             theStrangers[k] = IF k <= Len(A) THEN A[k]
                               ELSE IF k <= Len(A) + Len(B) THEN B[k - Len(A)]
                               ELSE IF k <= Len(A) + Len(B) + Len(C)
                                      THEN C[k - (Len(A) + Len(B))]
                               ELSE D[k - (Len(A) + Len(B) + Len(C))]
    BY ONLY <1>6, <1>7, FourParts DEF Steps
  <2>2. Len(A) = 4 /\ Len(D) = 6
    BY <1>1, <1>2
  <2> HIDE DEF Steps
  <2> QED
    BY ONLY <2>1, <2>2
<1>9. /\ \A k \in 1..Len(B) : Foreign(B[k])
      /\ \A k \in 1..Len(C) : Foreign(C[k])
  BY <1>4, <1>7, LenProperties DEF Strange
<1>10. \A k \in 5..(Steps - 2) : Foreign(theStrangers[k])
  <2> SUFFICES ASSUME NEW k \in 5..(Steps - 2)
               PROVE  Foreign(theStrangers[k])
    OBVIOUS
  <2>1. CASE k <= 4 + Len(B)
    <3>1. k \in 1..Steps /\ ~(k <= 4) /\ k - 4 \in 1..Len(B)
      BY <1>8, <2>1
    <3> QED
      BY ONLY <1>8, <1>9, <2>1, <3>1
  <2>2. CASE ~(k <= 4 + Len(B)) /\ k <= 4 + Len(B) + Len(C)
    <3>1. k \in 1..Steps /\ ~(k <= 4) /\ k - (4 + Len(B)) \in 1..Len(C)
      BY <1>8, <2>2
    <3> QED
      BY ONLY <1>8, <1>9, <2>2, <3>1
  <2>3. CASE ~(k <= 4 + Len(B) + Len(C))
    <3>1. /\ k \in 1..Steps /\ ~(k <= 4) /\ ~(k <= 4 + Len(B))
          /\ k - (4 + Len(B) + Len(C)) \in 1..4
      <4>1. /\ Len(B) \in Nat /\ Len(C) \in Nat /\ Steps = 4 + Len(B) + Len(C) + 6
            /\ k \in 5..(Steps - 2)
        BY <1>8
      <4> QED
        BY ONLY <2>3, <4>1, PlaceInTheLast
    <3> QED
      BY ONLY <1>3, <1>8, <2>3, <3>1
  <2> QED
    BY <2>1, <2>2, <2>3
<1>11. \A k \in {Steps - 1, Steps} :
         theStrangers[k] = D[k - (4 + Len(B) + Len(C))]
  BY ONLY <1>8
<1>12. /\ (Steps - 1) - (4 + Len(B) + Len(C)) = 5
       /\ Steps - (4 + Len(B) + Len(C)) = 6
  BY ONLY <1>8
<1>13. /\ theStrangers[1] = A[1] /\ theStrangers[2] = A[2]
       /\ theStrangers[3] = A[3] /\ theStrangers[4] = A[4]
  BY ONLY <1>8
<1> QED
  BY ONLY <1>1, <1>2, <1>8, <1>10, <1>11, <1>12, <1>13

LEMMA NamedApart ==
  ASSUME NEW h, NEW g, NEW v, NEW w
  PROVE  Key(h, v) = Key(g, w) <=> h = g /\ v = w
BY DEF Key

LEMMA EdgesApart ==
  /\ \A x : KnockEdge(x).root = x
  /\ ZERO32.root = NoCt
BY DEF KnockEdge, ZERO32

LEMMA NamesAre ==
  /\ \A h \in 1..4 : Key(h, "heir") \in Heirs /\ Key(h, "heir") # NoHeir
  /\ \A h \in 1..4 : Key(h, "K1") # NoKey /\ Key(h, "K2") # NoKey
  /\ \A h \in 1..4, ct \in {"ct", "alien"} : Key(h, ct) # NoCt
  /\ Key(0, "ct") # NoCt
  /\ MaxCount \in Nat /\ MaxCount >= 78
BY SessionAssumption, BoxesAssumption

LEMMA BoxOfAStep ==
  ASSUME NEW s, s.heir \in 1..4
  PROVE  SealedBy(SealedFor(s, TRUE), s, rel[Key(s.heir, "heir")])
<1> DEFINE b == SealedFor(s, TRUE)
           r == rel[Key(s.heir, "heir")]
<1>1. HeirOf(s.heir) = Key(s.heir, "heir")
  BY DEF HeirOf
<1>2. /\ b.head = HeirOf(s.heir)
      /\ b.ct = IF s.ct = "none" THEN NoCt ELSE Key(s.heir, s.ct)
      /\ b.fault = s.fault /\ b.seq = s.seq /\ b.unread = FALSE
      /\ b.by = Signer(s) /\ b.next = NextKey(s) /\ b.edge = EdgeUnder(s)
  BY DEF SealedFor, SealAsk
<1>3. /\ s.signer \in {"heir", "new"} => Signer(s) = Key(s.heir, s.signer)
      /\ s.signer = "H" => Signer(s) = r.H
  BY <1>1 DEF Signer
<1>4. /\ s.next \in {"K1", "K2"} => NextKey(s) = Key(s.heir, s.next)
      /\ s.next = "null" => NextKey(s) = NoKey
  BY DEF NextKey
<1>5. /\ s.under = "O" => EdgeUnder(s) = r.O
      /\ s.under = "rand" => EdgeUnder(s) = KnockEdge(Key(0, "ct"))
      /\ s.under = "zero" => EdgeUnder(s) = ZERO32
      /\ s.under = "E" /\ s.ct \in {"ct", "alien"} =>
           EdgeUnder(s) = KnockEdge(Key(s.heir, "ct"))
  BY <1>1 DEF EdgeUnder, CtOf
<1> HIDE DEF b, r
<1>6. SealedBy(b, s, r)
  BY <1>1, <1>2, <1>3, <1>4, <1>5 DEF SealedBy
<1> QED
  BY <1>6 DEF b, r

(* Once the first heir is bound and the second is fresh, the door has only *)
(* silence for a stranger.                                                 *)
LEMMA StrangersAreRefused ==
  ASSUME NEW s, NEW b, NEW r, NEW k \in 4..(Steps - 2),
         Foreign(s), SealedBy(b, s, r), DoorAt(k, heirs, removed)
  PROVE  Verdict(b) = "silence" /\ ReplyText(b) = "silence"
<1>1. /\ s.heir \in 1..4 /\ b.head = Key(s.heir, "heir")
      /\ b.head \in Heirs /\ b.head # NoHeir /\ ~Kept(b)
  BY NamesAre DEF Foreign, SealedBy, DoorAt, Kept
<1>2. heirs[Key(1, "heir")].stage = "spent" /\ FirstAt(k, heirs[Key(1, "heir")])
  <2>1. k \in 1..(Steps - 2) /\ ~(k <= 2)
    BY StrangersBetween
  <2> QED
    BY ONLY <2>1, DoorAt(k, heirs, removed) DEF DoorAt, FirstAt
<1>3. heirs[Key(2, "heir")].stage = "fresh"
  <2>1. k \in 2..(Steps - 1)
    BY StrangersBetween
  <2>2. heirs[Key(2, "heir")] = FreshRelation("answers")
    BY ONLY <2>1, DoorAt(k, heirs, removed) DEF DoorAt
  <2> QED
    BY <2>2 DEF FreshRelation
<1>4. Refused(b)
  <2>1. CASE s.fault \in {"seal", "signature"}
    BY <2>1 DEF SealedBy, Refused, Opens
  <2>2. CASE s.seq = 0
    BY <2>2 DEF SealedBy, Refused, PayloadReads
  <2>3. CASE s.heir \in {3, 4}
    <3>1. heirs[b.head].stage = "absent"
      BY <1>1, <2>3 DEF DoorAt
    <3> QED
      BY <1>1, <3>1 DEF Refused, Held
  <2>4. CASE s.signer = "new" /\ s.heir \in {1, 2}
    <3>1. b.by = Key(s.heir, "new") /\ b.by # b.head
      BY <1>1, <2>4, NamedApart DEF SealedBy
    <3>2. CASE s.heir = 1
      <4>1. /\ ~Held(b, "fresh") /\ KeysOf(b) = heirs[Key(1, "heir")]
        BY <1>1, <1>2, <3>2 DEF Held, KeysOf
      <4>2. heirs[Key(1, "heir")].H = Key(1, "K1") /\ heirs[Key(1, "heir")].V = Key(1, "K2")
        BY <1>2, StrangersBetween DEF FirstAt
      <4>3. b.by # Key(1, "K1") /\ b.by # Key(1, "K2")
        BY <3>1, <3>2, NamedApart
      <4> QED
        BY <1>1, <4>1, <4>2, <4>3 DEF Refused, SignedBy
    <3>3. CASE s.heir = 2
      BY <1>1, <1>3, <3>1, <3>3 DEF Refused, SignedBy, Held
    <3> QED
      BY <2>4, <3>2, <3>3
  <2>5. CASE s.heir = 1 /\ (s.ct = "ct" \/ s.under \in {"rand", "zero"})
    <3>1. Held(b, "spent") /\ ~Held(b, "fresh") /\ KeysOf(b) = heirs[Key(1, "heir")]
      BY <1>1, <1>2, <2>5 DEF Held, KeysOf
    <3>2. /\ heirs[Key(1, "heir")].O.root = Key(1, "ct")
          /\ heirs[Key(1, "heir")].F.root = Key(1, "ct")
      BY <1>2, EdgesApart, StrangersBetween DEF FirstAt
    <3>3. CASE b.ct # NoCt
      BY <3>1, <3>3 DEF Refused, Opens
    <3>4. CASE b.ct = NoCt
      <4>1. b.edge.root # Key(1, "ct")
        <5>1. CASE s.under = "rand"
          BY <5>1, EdgesApart, NamedApart DEF SealedBy
        <5>2. CASE s.under = "zero"
          BY <5>2, EdgesApart, NamesAre DEF SealedBy
        <5>3. CASE s.ct = "ct"
          <6>1. b.ct = Key(1, "ct")
            BY <2>5, <5>3 DEF SealedBy
          <6> QED
            BY <3>4, <6>1, NamesAre
        <5> QED
          BY <2>5, <5>1, <5>2, <5>3
      <4> QED
        BY <3>1, <3>2, <4>1 DEF Refused, Opens
    <3> QED
      BY <3>3, <3>4
  <2>6. CASE s.heir = 2 /\ (s.ct = "none" \/ (s.ct = "alien" /\ s.under \in {"rand", "E"}))
    <3>1. Held(b, "fresh")
      BY <1>1, <1>3, <2>6 DEF Held
    <3>2. CASE s.ct = "none"
      BY <3>1, <3>2 DEF SealedBy, Refused, Opens
    <3>3. CASE s.ct = "alien" /\ s.under \in {"rand", "E"}
      <4>1. b.ct = Key(2, "alien")
        BY <2>6, <3>3 DEF SealedBy
      <4>2. b.edge \in {KnockEdge(Key(0, "ct")), KnockEdge(Key(2, "ct"))}
        BY <2>6, <3>3 DEF SealedBy
      <4>3. b.edge # KnockEdge(b.ct)
        <5>1. KnockEdge(b.ct).root = Key(2, "alien")
          BY <4>1, EdgesApart
        <5>2. b.edge.root \in {Key(0, "ct"), Key(2, "ct")}
          BY <4>2, EdgesApart
        <5>3. Key(2, "alien") # Key(0, "ct") /\ Key(2, "alien") # Key(2, "ct")
          BY NamedApart
        <5> QED
          BY <5>1, <5>2, <5>3
      <4> QED
        BY <3>1, <4>3 DEF Refused, Opens
    <3> QED
      BY <2>6, <3>2, <3>3
  <2>7. s.heir \in {1, 2} \/ s.heir \in {3, 4}
    BY <1>1
  <2> QED
    BY <2>1, <2>2, <2>3, <2>4, <2>5, <2>6, <2>7 DEF Foreign
<1> QED
  BY <1>4 DEF Verdict, ReplyText

(* The steps of the script by what they are.                               *)
LEMMA TheFour ==
  /\ LET s == theStrangers[3]
     IN /\ s.heir = 1 /\ s.ct = "ct" /\ s.signer = "heir" /\ s.under = "E"
        /\ s.next = "K1" /\ s.seq = 1
  /\ LET s == theStrangers[4]
     IN /\ s.heir = 1 /\ s.ct = "none" /\ s.signer = "H" /\ s.under = "O"
        /\ s.next = "K2" /\ s.seq = 2
  /\ LET s == theStrangers[Steps - 1]
     IN /\ s.heir = 1 /\ s.ct = "none" /\ s.signer = "H" /\ s.under = "O"
        /\ s.next = "null" /\ s.seq = 15
  /\ LET s == theStrangers[Steps]
     IN /\ s.heir = 2 /\ s.ct = "ct" /\ s.signer = "heir" /\ s.under = "E"
        /\ s.next = "K1" /\ s.seq = 9
<1> HIDE DEF Steps
<1> QED
  BY StrangersBetween DEF Bind, Knock, Ask, Step

Honest(s) ==
  /\ s.op = "ask" /\ s.want = "answer" /\ s.reads = {TRUE} /\ s.skips = 0
  /\ s.heir \in 1..4 /\ s.fault = "none"

LEMMA StepsOfTheScript ==
  /\ \A k \in 1..2 : theStrangers[k] = Invited(k)
  /\ \A k \in 1..2 : theStrangers[k].op = "invite" /\ theStrangers[k].heir = k
                     /\ theStrangers[k].reach = "answers"
  /\ \A k \in {3, 4, Steps - 1, Steps} : Honest(theStrangers[k])
  /\ \A k \in 1..Steps :
       k \in {1, 2, 3, 4, Steps - 1, Steps} \/ k \in 5..(Steps - 2)
<1> HIDE DEF Steps
<1>1. \A k \in 1..2 : theStrangers[k] = Invited(k)
  BY StrangersBetween
<1>2. \A k \in 1..2 : /\ Invited(k).op = "invite" /\ Invited(k).heir = k
                      /\ Invited(k).reach = "answers"
  BY DEF Invited, Give
<1>3. /\ Honest(Bind(1, "K1", 1)) /\ Honest(Ask(1, "H", "O", "K2", 2, "answer"))
      /\ Honest(Ask(1, "H", "O", "null", 15, "answer"))
      /\ Honest(Knock(2, "K1", 9, "answer"))
  BY DEF Honest, Bind, Knock, Ask, Step
<1>4. \A k \in {3, 4, Steps - 1, Steps} : Honest(theStrangers[k])
  BY <1>3, StrangersBetween
<1>5. \A k \in 1..Steps :
        k \in {1, 2, 3, 4, Steps - 1, Steps} \/ k \in 5..(Steps - 2)
  BY StrangersBetween
<1> QED
  BY <1>1, <1>2, <1>4, <1>5

(* A knock on a fresh heir, and an ask of the key held, are answered.      *)
LEMMA KnockIsAnswered ==
  ASSUME NEW h \in 1..2, NEW b, NEW seq \in 1..MaxCount,
         heirs[Key(h, "heir")] = FreshRelation("answers"),
         b.head = Key(h, "heir"), b.ct = Key(h, "ct"),
         b.edge = KnockEdge(Key(h, "ct")), b.by = Key(h, "heir"),
         b.next = Key(h, "K1"), b.fault = "none", b.unread = FALSE, b.seq = seq
  PROVE  Verdict(b) = "choice" /\ ReplyText(b) = "object"
<1>1. b.head \in Heirs /\ b.head # NoHeir /\ b.ct # NoCt /\ b.next # NoKey
  BY NamesAre
<1>2. b.next # b.head
  BY NamedApart
<1>3. /\ heirs[b.head].stage = "fresh" /\ heirs[b.head].reach = "answers"
  BY DEF FreshRelation
<1>4. Held(b, "fresh") /\ ~Held(b, "spent") /\ ~Kept(b)
  BY <1>1, <1>3 DEF Held, Kept
<1>5. ~Refused(b)
  BY <1>1, <1>4 DEF Refused, Opens, PayloadReads, SignedBy
<1>6. ~Unannounced(b) /\ ~Repeated(b)
  BY <1>1, <1>2, <1>4 DEF Unannounced, Announces, Repeated
<1>7. Verdict(b) = "choice"
  BY <1>1, <1>4, <1>5, <1>6 DEF Verdict
<1> QED
  BY <1>3, <1>7 DEF ReplyText

LEMMA HeldIsAnswered ==
  ASSUME NEW b, NEW r, NEW seq \in 1..MaxCount,
         r = heirs[Key(1, "heir")], r.stage = "spent", r.reach = "answers",
         b.head = Key(1, "heir"), b.ct = NoCt, b.edge = r.O, b.by = r.H,
         b.fault = "none", b.unread = FALSE, b.seq = seq, ~(seq <= r.high)
  PROVE  Verdict(b) = "choice" /\ ReplyText(b) = "object"
<1>1. b.head \in Heirs /\ b.head # NoHeir
  BY NamesAre
<1>2. ~Held(b, "fresh") /\ Held(b, "spent") /\ ~Kept(b) /\ KeysOf(b) = r
  BY <1>1 DEF Held, Kept, KeysOf
<1>3. ~Refused(b)
  BY <1>1, <1>2 DEF Refused, Opens, PayloadReads, SignedBy
<1>4. ~Unannounced(b) /\ ~Repeated(b)
  BY <1>2 DEF Unannounced, Repeated
<1>5. Verdict(b) = "choice"
  BY <1>1, <1>2, <1>3, <1>4 DEF Verdict
<1> QED
  BY <1>5 DEF ReplyText

LEMMA StrangersArrive ==
  ASSUME NEW k \in 1..Steps, NEW b, theStrangers[k].op = "ask",
         SealedBy(b, theStrangers[k], rel[Key(theStrangers[k].heir, "heir")]),
         DoorAt(k - 1, heirs, removed), BooksAt(k - 1, rel), Arrive(b)
  PROVE  /\ DoorAt(k, heirs', removed')
         /\ ReplyText(b) =
              IF theStrangers[k].want = "stranger" THEN "silence" ELSE "object"
<1> DEFINE s == theStrangers[k]
           one == Key(1, "heir")
           two == Key(2, "heir")
<1> HIDE DEF Steps
<1>1. Steps \in Nat /\ Steps >= 10
  BY StrangersBetween
<1>2. /\ one \in Heirs /\ two \in Heirs /\ one # two
      /\ \A h \in 3..4 : /\ Key(h, "heir") \in Heirs
                        /\ Key(h, "heir") # one /\ Key(h, "heir") # two
  BY NamesAre, NamedApart
<1>3. /\ DOMAIN heirs = Heirs
      /\ \A h \in 1..4 : removed[Key(h, "heir")].stage = "absent"
      /\ \A h \in 3..4 : heirs[Key(h, "heir")].stage = "absent"
  BY DEF DoorAt
<1>4. ASSUME Verdict(b) = "choice", b.head \in {one, two}
      PROVE  /\ heirs'[b.head] = Moved(heirs[b.head], b, NextAgreement(b.head))
             /\ DOMAIN heirs' = Heirs /\ removed' = removed
             /\ \A h \in Heirs : h # b.head => heirs'[h] = heirs[h]
  BY <1>2, <1>3, <1>4 DEF Arrive
<1>5. ASSUME Verdict(b) = "choice", b.head \in {one, two},
             k \in 1..(Steps - 2) => FirstAt(k, heirs'[one]),
             k \in 2..(Steps - 1) => heirs'[two] = FreshRelation("answers")
      PROVE  DoorAt(k, heirs', removed')
  <2>1. /\ DOMAIN heirs' = Heirs /\ removed' = removed
        /\ \A h \in 3..4 : heirs'[Key(h, "heir")] = heirs[Key(h, "heir")]
    BY <1>2, <1>4, <1>5
  <2> QED
    BY ONLY <1>3, <1>5, <2>1 DEF DoorAt
<1>6. CASE k \in 1..2
  BY <1>6, StepsOfTheScript
<1>7. CASE k = 3
  <2>1. Honest(s)
    BY <1>7, StepsOfTheScript
  <2>2. /\ b.head = one /\ b.ct = Key(1, "ct") /\ b.edge = KnockEdge(Key(1, "ct"))
        /\ b.by = one /\ b.next = Key(1, "K1") /\ b.fault = "none"
        /\ b.unread = FALSE /\ b.seq = 1
    BY <1>7, <2>1, TheFour DEF SealedBy, Honest
  <2>3. /\ heirs[one] = FreshRelation("answers") /\ heirs[two] = FreshRelation("answers")
    BY <1>1, <1>7 DEF DoorAt, FirstAt
  <2>4. 1 \in 1..MaxCount /\ 1 \in 1..2
    BY NamesAre
  <2>5. Verdict(b) = "choice" /\ ReplyText(b) = "object"
    BY ONLY <2>2, <2>3, <2>4, KnockIsAnswered
  <2>6. /\ heirs'[one] = Moved(heirs[one], b, NextAgreement(one))
        /\ heirs'[two] = heirs[two]
    BY <1>2, <1>4, <2>2, <2>5
  <2>7. FirstAt(k, heirs'[one])
    BY <1>7, <2>2, <2>3, <2>6, EdgesApart
    DEF FirstAt, Moved, StageAfter, HeldAfter, OpenAfter, OfferedAfter, Follow,
        FreshRelation
  <2> QED
    BY <1>5, <2>1, <2>2, <2>3, <2>5, <2>6, <2>7 DEF Honest
<1>8. CASE k = 4
  <2>1. Honest(s)
    BY <1>8, StepsOfTheScript
  <2>2. /\ rel[one].H = Key(1, "K1") /\ rel[one].O = KnockEdge(Key(1, "ct"))
    BY <1>1, <1>8 DEF BooksAt
  <2>3. /\ b.head = one /\ b.ct = NoCt /\ b.edge = KnockEdge(Key(1, "ct"))
        /\ b.by = Key(1, "K1") /\ b.next = Key(1, "K2") /\ b.fault = "none"
        /\ b.unread = FALSE /\ b.seq = 2
    BY <1>8, <2>1, <2>2, TheFour DEF SealedBy, Honest
  <2>4. FirstAt(3, heirs[one]) /\ heirs[two] = FreshRelation("answers")
    BY <1>1, <1>8 DEF DoorAt
  <2>5. /\ heirs[one].stage = "spent" /\ heirs[one].reach = "answers"
        /\ heirs[one].H = Key(1, "K1") /\ heirs[one].O = KnockEdge(Key(1, "ct"))
        /\ heirs[one].high = 1
    BY <2>4 DEF FirstAt
  <2>6. 2 \in 1..MaxCount /\ ~(2 <= heirs[one].high)
    BY <2>5, NamesAre
  <2>7. Verdict(b) = "choice" /\ ReplyText(b) = "object"
    BY ONLY <2>3, <2>5, <2>6, HeldIsAnswered
  <2>8. /\ heirs'[one] = Moved(heirs[one], b, NextAgreement(one))
        /\ heirs'[two] = heirs[two]
    BY <1>2, <1>4, <2>3, <2>7
  <2>9. Announces(b)
    BY <2>3, NamesAre, NamedApart DEF Announces
  <2>10. FirstAt(k, heirs'[one])
    BY <1>8, <2>3, <2>5, <2>8, <2>9, EdgesApart
    DEF FirstAt, Moved, StageAfter, HeldAfter, VouchedAfter, OpenAfter, OfferedAfter,
        Follow
  <2> QED
    BY <1>5, <2>1, <2>3, <2>4, <2>7, <2>8, <2>10 DEF Honest
<1>9. CASE k \in 5..(Steps - 2)
  <2>1. Foreign(s) /\ k - 1 \in 4..(Steps - 2)
    BY <1>1, <1>9, StrangersBetween
  <2>2. Verdict(b) = "silence" /\ ReplyText(b) = "silence"
    BY <2>1, StrangersAreRefused DEF Steps
  <2>3. heirs' = heirs /\ removed' = removed
    BY <2>2 DEF Arrive, doorVars
  <2>4. FirstAt(k - 1, heirs[one]) /\ heirs[two] = FreshRelation("answers")
    <3>1. k - 1 \in 1..(Steps - 2) /\ k - 1 \in 2..(Steps - 1)
      BY <1>1, <1>9
    <3> QED
      BY ONLY <3>1, DoorAt(k - 1, heirs, removed) DEF DoorAt
  <2>5. FirstAt(k, heirs[one])
    <3>1. ~(k <= 2) /\ ~(k - 1 <= 2) /\ k # 3 /\ k - 1 # 3
      BY <1>1, <1>9
    <3> QED
      BY <2>4, <3>1 DEF FirstAt
  <2>6. DoorAt(k, heirs', removed')
    BY ONLY <1>3, <2>3, <2>4, <2>5 DEF DoorAt
  <2> QED
    BY <2>1, <2>2, <2>6 DEF Foreign
<1>10. CASE k = Steps - 1
  <2>1. Honest(s)
    BY <1>10, StepsOfTheScript
  <2>2. /\ rel[one].H = Key(1, "K1") /\ rel[one].O = KnockEdge(Key(1, "ct"))
    BY <1>1, <1>10 DEF BooksAt
  <2>3. /\ b.head = one /\ b.ct = NoCt /\ b.edge = KnockEdge(Key(1, "ct"))
        /\ b.by = Key(1, "K1") /\ b.fault = "none"
        /\ b.unread = FALSE /\ b.seq = 15
    BY <1>10, <2>1, <2>2, TheFour DEF SealedBy, Honest
  <2>4. FirstAt(k - 1, heirs[one]) /\ heirs[two] = FreshRelation("answers")
    BY <1>1, <1>10 DEF DoorAt
  <2>5. /\ heirs[one].stage = "spent" /\ heirs[one].reach = "answers"
        /\ heirs[one].H = Key(1, "K1") /\ heirs[one].O = KnockEdge(Key(1, "ct"))
        /\ heirs[one].high = 2
    BY <1>1, <1>10, <2>4 DEF FirstAt
  <2>6. 15 \in 1..MaxCount /\ ~(15 <= heirs[one].high)
    BY <2>5, NamesAre
  <2>7. Verdict(b) = "choice" /\ ReplyText(b) = "object"
    BY ONLY <2>3, <2>5, <2>6, HeldIsAnswered
  <2>8. heirs'[two] = heirs[two]
    BY <1>2, <1>4, <2>3, <2>7
  <2>9. ~(k \in 1..(Steps - 2))
    BY <1>1, <1>10
  <2> QED
    BY <1>5, <2>1, <2>3, <2>4, <2>7, <2>8, <2>9 DEF Honest
<1>11. CASE k = Steps
  <2>1. Honest(s)
    BY <1>11, StepsOfTheScript
  <2>2. /\ b.head = two /\ b.ct = Key(2, "ct") /\ b.edge = KnockEdge(Key(2, "ct"))
        /\ b.by = two /\ b.next = Key(2, "K1") /\ b.fault = "none"
        /\ b.unread = FALSE /\ b.seq = 9
    BY <1>11, <2>1, TheFour DEF SealedBy, Honest
  <2>3. heirs[two] = FreshRelation("answers")
    BY <1>1, <1>11 DEF DoorAt
  <2>4. 9 \in 1..MaxCount /\ 2 \in 1..2
    BY NamesAre
  <2>5. Verdict(b) = "choice" /\ ReplyText(b) = "object"
    BY ONLY <2>2, <2>3, <2>4, KnockIsAnswered
  <2>6. ~(k \in 1..(Steps - 2)) /\ ~(k \in 2..(Steps - 1))
    BY <1>1, <1>11
  <2> QED
    BY <1>5, <2>1, <2>2, <2>5, <2>6 DEF Honest
<1> QED
  BY <1>6, <1>7, <1>8, <1>9, <1>10, <1>11, StepsOfTheScript

-----------------------------------------------------------------------------
(* What fails stays failed, and only at the step played.                   *)

LEMMA EarlierStay ==
  ASSUME NEW k \in 1..(Steps + 1), NEW fs, NEW gs, fs \subseteq gs,
         \A f \in gs \ fs : f[2] = k, FailsTheStrangers(k - 1, fs)
  PROVE  FailsTheStrangers(k - 1, gs)
<1> HIDE DEF Steps
<1> SUFFICES ASSUME NEW i \in 1..(k - 1)
             PROVE  << "check", i >> \in fs <=> << "check", i >> \in gs
  BY DEF FailsTheStrangers
<1>1. i # k /\ << "check", i >>[2] = i
  BY StrangersBetween
<1> QED
  BY <1>1

LEMMA CheckIsKept ==
  ASSUME NEW k \in 1..Steps, NEW fs, NEW X \in SUBSET {<< "check", k >>},
         \A f \in fs : f[2] \in 1..(k - 1), FailsTheStrangers(k - 1, fs),
         theStrangers[k].op = "ask" =>
           (theStrangers[k].want = "stranger" <=> X # {})
  PROVE  /\ FailsTheStrangers(k, fs \cup X)
         /\ \A f \in fs \cup X : f[2] \in 1..k
<1> HIDE DEF Steps
<1>1. Steps \in Nat
  BY StrangersBetween
<1>2. << "check", k >>[2] = k /\ << "check", k >> \notin fs
  <2>1. << "check", k >>[2] = k /\ ~(k \in 1..(k - 1))
    BY <1>1
  <2> QED
    BY <2>1
<1>3. FailsTheStrangers(k, fs \cup X)
  <2> SUFFICES ASSUME NEW i \in 1..k, theStrangers[i].op = "ask"
               PROVE  theStrangers[i].want = "stranger" <=> << "check", i >> \in fs \cup X
    BY DEF FailsTheStrangers
  <2>1. CASE i = k
    BY <1>2, <2>1
  <2>2. CASE i # k
    <3>1. i \in 1..(k - 1)
      BY <1>1, <2>2
    <3>2. << "check", i >> # << "check", k >>
      BY <2>2
    <3> QED
      BY <3>1, <3>2 DEF FailsTheStrangers
  <2> QED
    BY <2>1, <2>2
<1>4. \A f \in fs \cup X : f[2] \in 1..k
  BY <1>1, <1>2
<1> QED
  BY <1>3, <1>4

(* A scenario that breaks off or has ended plays no more.                  *)
LEMMA ShortBreaksOff ==
  ASSUME ShortInv, scene' = scene, at' = at, phase' # "play",
         failed \subseteq failed', \A f \in failed' \ failed : f[2] = at
  PROVE  ShortInv'
<1>1. at \in 1..(Steps + 1) /\ FailsTheStrangers(at - 1, failed')
  BY EarlierStay DEF ShortInv
<1>2. FailsTheStrangers(at' - 1, failed')
  BY <1>1
<1> QED
  BY <1>1, <1>2 DEF ShortInv

LEMMA BreaksOnlyHere ==
  ASSUME NEW whats, Breaks(whats)
  PROVE  /\ scene' = scene /\ kit' = kit /\ at' = at /\ phase' = "closing"
         /\ failed \subseteq failed' /\ \A f \in failed' \ failed : f[2] = at
<1>1. failed' = failed \cup UNION {{<< what, at >>} : what \in whats}
  BY DEF Breaks, Record
<1>2. \A f \in failed' \ failed : f[2] = at
  <2>1. \A f \in failed' \ failed : \E what \in whats : f = << what, at >>
    BY <1>1
  <2>2. \A what \in whats : << what, at >>[2] = at
    OBVIOUS
  <2> QED
    BY ONLY <2>1, <2>2
<1>3. failed \subseteq failed'
  BY <1>1
<1> QED
  BY <1>2, <1>3 DEF Breaks

LEMMA ShortStep ==
  ASSUME ShortInv, at <= Steps
  PROVE  /\ Script[scene] = theStrangers /\ Now = theStrangers[at]
         /\ at \in 1..Steps
         /\ Now.op \in {"invite", "ask"}
         /\ Now.op = "ask" => (Honest(Now) /\ at \notin {1, 2}) \/ Foreign(Now)
<1> HIDE DEF Steps
<1>1. Script[scene] = theStrangers /\ Now = theStrangers[at]
  BY StrangersMeet DEF ShortInv, Now
<1>2. at \in 1..Steps
  BY StrangersBetween DEF ShortInv
<1>3. CASE at \in 1..2
  BY <1>1, <1>2, <1>3, StepsOfTheScript
<1>4. CASE at \in {3, 4, Steps - 1, Steps}
  <2>1. at \notin {1, 2}
    BY <1>4, StrangersBetween
  <2>2. Honest(theStrangers[at])
    BY ONLY <1>4, StepsOfTheScript
  <2>3. Honest(Now) /\ Now.op = "ask"
    BY ONLY <1>1, <2>2 DEF Honest
  <2> QED
    BY ONLY <1>1, <1>2, <2>1, <2>3
<1>5. CASE at \in 5..(Steps - 2)
  BY <1>1, <1>2, <1>5, StrangersBetween DEF Foreign
<1>6. at \in 1..2 \/ at \in {3, 4, Steps - 1, Steps} \/ at \in 5..(Steps - 2)
  BY <1>2, StepsOfTheScript
<1> QED
  BY <1>3, <1>4, <1>5, <1>6

(* The steps of the scenario of strangers, each with what it keeps.        *)
LEMMA ShortAsks ==
  ASSUME ShortInv, SessionAsks
  PROVE  ShortInv'
<1> HIDE DEF Steps
<1>1. /\ scene' = scene /\ at' = at /\ failed' = failed /\ phase' = phase
      /\ rel' = rel /\ heirs' = heirs /\ removed' = removed
      /\ flight = << >> /\ phase = "play" /\ Now.op = "ask" /\ at <= Steps
      /\ \E read \in Now.reads : flight' = << Sent(Now, read) >>
  BY StrangersMeet DEF SessionAsks, Plays, playVars, doorVars, ShortInv, Now, Steps
<1>2. /\ Now = theStrangers[at] /\ at \in 1..Steps
      /\ Now.reads = {TRUE} /\ Now.heir \in 1..4
  BY <1>1, ShortStep DEF Honest, Foreign, Steps
<1>3. flight' = << Sent(Now, TRUE) >>
  BY <1>1, <1>2
<1>4. /\ DOMAIN flight' = {1} /\ flight'[1].reply = Awaited
      /\ flight'[1].box = SealedFor(Now, TRUE)
  <2>1. DOMAIN << Sent(Now, TRUE) >> = {1} /\ << Sent(Now, TRUE) >>[1] = Sent(Now, TRUE)
    OBVIOUS
  <2> QED
    BY <1>3, <2>1 DEF Sent
<1>5. SealedBy(flight'[1].box, Now, rel[Key(Now.heir, "heir")])
  BY <1>2, <1>4, BoxOfAStep
<1>6. DoorAt(at - 1, heirs, removed)
  BY <1>1, ~(DOMAIN << >> = {1}) DEF ShortInv, ReplyUnderWay
<1>7. ReplyUnderWay'
  BY <1>1, <1>2, <1>4, <1>5, <1>6 DEF ReplyUnderWay, Awaited
<1> QED
  BY <1>1, <1>7 DEF ShortInv

LEMMA ShortArrives ==
  ASSUME ShortInv, kit = "short", NEW i \in DOMAIN flight, StandArrives(i)
  PROVE  ShortInv'
<1> HIDE DEF Steps
<1>1. /\ scene' = scene /\ at' = at /\ failed' = failed /\ phase' = phase
      /\ rel' = rel /\ phase = "play" /\ flight[i].reply = Awaited
      /\ flight' = [flight EXCEPT ![i].reply = Opened(flight[i].box, flight[i].lid)]
      /\ Arrive(flight[i].box)
  BY DEF StandArrives, playVars, Mute
<1>2. ReplyUnderWay /\ i = 1 /\ DOMAIN flight = {1}
  BY <1>1 DEF ShortInv, ReplyUnderWay
<1>3. DoorAt(at - 1, heirs, removed) /\ BooksAt(at - 1, rel)
  <2>1. Awaited.kind \notin {"invalid", "object"}
    BY DEF Awaited
  <2> QED
    BY <1>1, <1>2, <2>1 DEF ShortInv, ReplyUnderWay
<1>4. /\ at \in 1..Steps /\ theStrangers[at].op = "ask"
      /\ SealedBy(flight[1].box, theStrangers[at],
                  rel[Key(theStrangers[at].heir, "heir")])
  BY <1>2 DEF ReplyUnderWay
<1>5. /\ DoorAt(at, heirs', removed')
      /\ ReplyText(flight[1].box) =
           IF theStrangers[at].want = "stranger" THEN "silence" ELSE "object"
  BY ONLY <1>1, <1>2, <1>3, <1>4, StrangersArrive DEF Steps
<1>6. /\ DOMAIN flight' = {1} /\ flight'[1].box = flight[1].box
      /\ flight'[1].reply = Opened(flight[1].box, flight[1].lid)
  BY <1>1, <1>2
<1>7. Opened(flight[1].box, flight[1].lid).kind =
        IF theStrangers[at].want = "stranger" THEN "invalid" ELSE "object"
  BY <1>5 DEF Opened, Text
<1>8. ReplyUnderWay'
  BY <1>1, <1>4, <1>5, <1>6, <1>7 DEF ReplyUnderWay
<1> QED
  BY <1>1, <1>8 DEF ShortInv

LEMMA ShortInvites ==
  ASSUME ShortInv, SessionInvites
  PROVE  ShortInv'
<1> DEFINE one == Key(1, "heir")
           two == Key(2, "heir")
<1> HIDE DEF Steps
<1>1. /\ scene' = scene /\ at' = at + 1 /\ phase' = phase /\ flight' = flight
      /\ failed' = failed \cup {} /\ rel' = rel /\ removed' = removed
      /\ flight = << >> /\ phase = "play" /\ Now.op = "invite" /\ at <= Steps
      /\ heirs' = [heirs EXCEPT ![HeirOf(Now.heir)] = FreshRelation(Now.reach)]
  BY StrangersMeet
  DEF SessionInvites, Plays, Goes, GoesLate, sessionVars, ShortInv, Now, Invite,
      Steps
<1>2. Now = theStrangers[at] /\ at \in 1..Steps
  BY <1>1, ShortStep DEF Steps
<1>3. at \in 1..2 /\ Now.heir = at /\ Now.reach = "answers"
  <2>1. CASE at \in 1..2
    BY <1>2, <2>1, StepsOfTheScript
  <2>2. CASE at \in {3, 4, Steps - 1, Steps}
    BY <1>1, <1>2, <2>2, StepsOfTheScript DEF Honest
  <2>3. CASE at \in 5..(Steps - 2)
    BY <1>1, <1>2, <2>3, StrangersBetween DEF Foreign
  <2>4. at \in 1..2 \/ at \in {3, 4, Steps - 1, Steps} \/ at \in 5..(Steps - 2)
    BY <1>2, StepsOfTheScript
  <2> QED
    BY <2>1, <2>2, <2>3, <2>4
<1>4. DoorAt(at - 1, heirs, removed) /\ BooksAt(at - 1, rel)
  BY <1>1, ~(DOMAIN << >> = {1}) DEF ShortInv, ReplyUnderWay
<1>5. /\ DOMAIN heirs' = Heirs
      /\ heirs'[Key(at, "heir")] = FreshRelation("answers")
      /\ \A h \in Heirs : h # Key(at, "heir") => heirs'[h] = heirs[h]
  <2>1. HeirOf(Now.heir) = Key(at, "heir")
    BY <1>3 DEF HeirOf
  <2>2. Key(at, "heir") \in Heirs /\ DOMAIN heirs = Heirs
    BY <1>3, <1>4, NamesAre DEF DoorAt
  <2> QED
    BY <1>1, <1>3, <2>1, <2>2
<1>6. DoorAt(at, heirs', removed')
  <2>1. /\ one \in Heirs /\ two \in Heirs /\ one # two
        /\ \A h \in 3..4 : /\ Key(h, "heir") \in Heirs
                          /\ Key(h, "heir") # one /\ Key(h, "heir") # two
    BY NamesAre, NamedApart
  <2>2. /\ \A h \in 1..4 : removed'[Key(h, "heir")].stage = "absent"
        /\ \A h \in 3..4 : heirs'[Key(h, "heir")].stage = "absent"
    BY <1>1, <1>3, <1>4, <1>5, <2>1 DEF DoorAt
  <2>3. heirs'[one] = FreshRelation("answers")
    <3>1. CASE at = 1
      BY <1>5, <3>1
    <3>2. CASE at = 2
      <4>1. heirs[one] = FreshRelation("answers")
        BY <1>4, <3>2, StrangersBetween DEF DoorAt, FirstAt
      <4> QED
        BY <1>5, <2>1, <3>2, <4>1
    <3> QED
      BY <1>3, <3>1, <3>2
  <2>4. at = 2 => heirs'[two] = FreshRelation("answers")
    BY <1>5
  <2> QED
    BY <1>3, <1>5, <2>2, <2>3, <2>4 DEF DoorAt, FirstAt
<1>7. BooksAt(at, rel)
  BY <1>3, <1>4 DEF BooksAt
<1>8. /\ FailsTheStrangers(at, failed)
      /\ \A f \in failed : f[2] \in 1..at
  <2>1. /\ FailsTheStrangers(at - 1, failed) /\ \A f \in failed : f[2] \in 1..(at - 1)
    BY <1>1 DEF ShortInv
  <2>2. theStrangers[at].op # "ask"
    BY <1>1, <1>2
  <2>3. FailsTheStrangers(at, failed \cup {})
    BY <1>2, <2>1, <2>2, CheckIsKept DEF Steps
  <2>4. failed \cup {} = failed
    OBVIOUS
  <2> QED
    BY <1>3, <2>1, <2>3, <2>4
<1>9. at' - 1 = at /\ at' \in 1..(Steps + 1)
  BY <1>1, <1>2, StrangersBetween
<1> QED
  BY <1>1, <1>6, <1>7, <1>8, <1>9 DEF ShortInv, Steps

LEMMA ForeignBetween ==
  ASSUME NEW k \in 1..Steps, Foreign(theStrangers[k])
  PROVE  k \in 5..(Steps - 2) /\ (k - 1 \in 3..(Steps - 2)) /\ k \in 3..(Steps - 2)
<1> HIDE DEF Steps
<1>1. k \in 5..(Steps - 2)
  BY StepsOfTheScript DEF Foreign, Honest
<1> QED
  BY <1>1, StrangersBetween

LEMMA BooksAfterAKnock ==
  ASSUME NEW x, HasBooks(x), NEW s, NEW a, NEW y, y = FirstMove(x, s, a)
  PROVE  /\ y.state = "spent" /\ y.H = Announced(s)
         /\ y.O = KnockEdge(Key(s.heir, CtOf(s))) /\ HasBooks(y)
BY DEF FirstMove, HasBooks

LEMMA BooksAfterAnAsk ==
  ASSUME NEW x, HasBooks(x), NEW s, NEW e, NEW a, NEW y,
         y = LaterMove(x, s, e, a), s.signer = "H"
  PROVE  y.state = x.state /\ y.H = x.H /\ y.O = e
BY DEF LaterMove, HasBooks

(* The books follow the knock and the ask after it.                        *)
LEMMA ShortBooksMove ==
  ASSUME NEW k \in 1..Steps, NEW rs, NEW qs, NEW r,
         BooksAt(k - 1, rs), Honest(theStrangers[k]), k \notin {1, 2},
         NEW sent, sent.box.edge = rs[Key(theStrangers[k].heir, "heir")].O
                   \/ theStrangers[k].under # "O",
         r = MoveOf(rs[Key(theStrangers[k].heir, "heir")], theStrangers[k], sent),
         qs = [rs EXCEPT ![Key(theStrangers[k].heir, "heir")] = r]
  PROVE  BooksAt(k, qs)
<1> DEFINE s == theStrangers[k]
           one == Key(1, "heir")
<1> HIDE DEF Steps
<1>1. DOMAIN qs = Heirs /\ DOMAIN rs = Heirs /\ one \in Heirs
  BY NamesAre DEF BooksAt
<1>2. ~(k <= 2)
  BY StrangersBetween
<1>3. CASE k = 3
  <2>1. qs[one] = r /\ rs[one].state = "fresh" /\ s.heir = 1 /\ s.ct = "ct"
        /\ s.next = "K1" /\ s.signer = "heir"
    BY <1>1, <1>3, TheFour DEF BooksAt
  <2>2. Announced(s) = Key(1, "K1") /\ CtOf(s) = "ct"
    BY <2>1 DEF Announced, CtOf
  <2>3. r = FirstMove(rs[one], s, sent.reply.agreement) /\ HasBooks(rs[one])
    BY <1>3, <2>1 DEF MoveOf, BooksAt
  <2>4. /\ r.state = "spent" /\ r.H = Key(1, "K1") /\ r.O = KnockEdge(Key(1, "ct"))
        /\ HasBooks(r)
    BY ONLY <2>1, <2>2, <2>3, BooksAfterAKnock
  <2> QED
    BY <1>1, <1>2, <2>1, <2>4 DEF BooksAt
<1>4. CASE k = 4
  <2>1. /\ qs[one] = r /\ rs[one].state = "spent" /\ rs[one].H = Key(1, "K1")
        /\ rs[one].O = KnockEdge(Key(1, "ct")) /\ s.heir = 1 /\ s.under = "O"
        /\ s.signer = "H"
    BY <1>1, <1>4, TheFour, StrangersBetween DEF BooksAt
  <2>2. /\ r = LaterMove(rs[one], s, sent.box.edge, sent.reply.agreement)
        /\ HasBooks(rs[one])
    BY <1>4, <2>1 DEF MoveOf, BooksAt
  <2>3. r.state = "spent" /\ r.H = Key(1, "K1") /\ r.O = KnockEdge(Key(1, "ct"))
    <3>1. sent.box.edge = KnockEdge(Key(1, "ct"))
      BY <2>1
    <3> QED
      BY ONLY <2>1, <2>2, <3>1, BooksAfterAnAsk
  <2>4. ~(k <= 3)
    BY <1>4
  <2> QED
    BY ONLY <1>1, <1>2, <2>1, <2>3, <2>4 DEF BooksAt
<1>5. CASE k \in 5..(Steps - 2)
  BY <1>5, StrangersBetween DEF Honest, Foreign
<1>6. CASE k \in {Steps - 1, Steps}
  <2>1. ~(k \in 3..(Steps - 2)) /\ ~(k <= 3)
    BY <1>6, StrangersBetween
  <2> QED
    BY <1>1, <1>2, <2>1 DEF BooksAt
<1> QED
  BY <1>3, <1>4, <1>5, <1>6, StepsOfTheScript

LEMMA ShortJudges ==
  ASSUME ShortInv, SessionJudges
  PROVE  ShortInv'
<1> DEFINE s == theStrangers[at]
           h == Key(theStrangers[at].heir, "heir")
           kind == flight[1].reply.kind
<1> HIDE DEF Steps
<1>1. /\ phase = "play" /\ flight # << >> /\ Now.op = "ask"
      /\ \A i \in DOMAIN flight : flight[i].reply # Awaited
      /\ flight' = << >> /\ heirs' = heirs /\ removed' = removed
  BY DEF SessionJudges, Answered, doorVars
<1>2. /\ at \in 1..Steps /\ DOMAIN flight = {1} /\ BooksAt(at - 1, rel)
      /\ SealedBy(flight[1].box, s, rel[h])
      /\ kind = IF s.want = "stranger" THEN "invalid" ELSE "object"
      /\ DoorAt(at, heirs, removed)
  BY <1>1 DEF ShortInv, ReplyUnderWay
<1>3. /\ Now = s
      /\ (Honest(s) /\ at \notin {1, 2}) \/ Foreign(s)
  <2>1. at <= Steps
    BY <1>2
  <2> QED
    BY <1>1, <2>1, ShortStep DEF Steps
<1>4. HeirOf(s.heir) = h /\ s.heir \in 1..4 /\ s.skips = 0
  <2>1. s.heir \in 1..4 /\ s.skips = 0
    BY <1>3 DEF Honest, Foreign
  <2> QED
    BY <2>1 DEF HeirOf
<1>5. \/ \E whats : Breaks(whats)
      \/ Goes({Takes(s.want, kind)}, 1 + IF kind = "object" THEN 0 ELSE s.skips)
  BY <1>3 DEF SessionJudges
<1>6. CASE \E whats : Breaks(whats)
  BY <1>6, BreaksOnlyHere, ShortBreaksOff
<1>7. CASE Goes({Takes(s.want, kind)}, 1 + IF kind = "object" THEN 0 ELSE s.skips)
  <2> DEFINE X == IF s.want = "stranger" THEN {<< "check", at >>} ELSE {}
  <2>1. at' = at + 1 /\ scene' = scene /\ phase' = phase
    <3>1. 1 + (IF kind = "object" THEN 0 ELSE s.skips) = 1
      BY <1>4
    <3> QED
      BY <1>7, <3>1 DEF Goes, GoesLate
  <2>2. Takes(s.want, kind) <=> s.want # "stranger"
    BY <1>2, <1>3 DEF Takes, Fits, Honest, Foreign
  <2>3. failed' = failed \cup X
    BY <1>7, <2>2 DEF Goes, GoesLate, Record
  <2>4. BooksAt(at, rel')
    <3>1. CASE Foreign(s)
      <4>1. rel' = rel
        BY <1>2, <1>3, <3>1 DEF SessionJudges, Moves, Foreign
      <4>2. BooksAt(at, rel)
        BY <1>2, <1>3, <3>1, ForeignBetween DEF BooksAt
      <4> QED
        BY <4>1, <4>2
    <3>2. CASE Honest(s) /\ at \notin {1, 2}
      <4>1. rel' = [rel EXCEPT ![h] = MoveOf(rel[h], s, flight[1])]
        BY <1>2, <1>3, <1>4, <3>2 DEF SessionJudges, Moves, Honest
      <4>2. flight[1].box.edge = rel[h].O \/ s.under # "O"
        BY <1>2 DEF SealedBy
      <4> QED
        BY <1>2, <3>2, <4>1, <4>2, ShortBooksMove DEF Steps
    <3> QED
      BY <1>3, <3>1, <3>2
  <2>5. /\ FailsTheStrangers(at, failed')
        /\ \A f \in failed' : f[2] \in 1..at
    <3>1. /\ FailsTheStrangers(at - 1, failed)
          /\ \A f \in failed : f[2] \in 1..(at - 1)
      BY <1>1 DEF ShortInv
    <3>2. X \in SUBSET {<< "check", at >>} /\ (s.want = "stranger" <=> X # {})
      OBVIOUS
    <3> HIDE DEF X
    <3> QED
      BY <1>2, <2>3, <3>1, <3>2, CheckIsKept DEF Steps
  <2>6. at' - 1 = at /\ at' \in 1..(Steps + 1)
    BY <1>2, <2>1, StrangersBetween
  <2>7. scene' = "strangers"
    BY <2>1 DEF ShortInv
  <2> QED
    BY <1>1, <1>2, <2>4, <2>5, <2>6, <2>7 DEF ShortInv, Steps
<1> QED
  BY <1>5, <1>6, <1>7

LEMMA ShortSessionKeeps ==
  ASSUME ShortInv, SessionMoves
  PROVE  ShortInv'
<1> HIDE DEF Steps
<1>1. CASE SessionAsks
  BY <1>1, ShortAsks
<1>2. CASE SessionJudges
  BY <1>2, ShortJudges
<1>3. CASE SessionInvites
  BY <1>3, ShortInvites
<1>4. CASE SessionAsksTwice \/ SessionReleases \/ SessionLooks
  <2>1. at <= Steps /\ Now.op \in {"together", "release", "model"}
    BY <1>4, StrangersMeet
    DEF SessionAsksTwice, SessionReleases, SessionLooks, Plays, Now, ShortInv, Steps
  <2> QED
    BY <2>1, ShortStep DEF Steps
<1>5. CASE SessionJudgesTwo
  <2>1. ReplyUnderWay /\ Now.op = "together"
    BY <1>5 DEF SessionJudgesTwo, Answered, ShortInv
  <2>2. at <= Steps
    BY <2>1 DEF ReplyUnderWay
  <2> QED
    BY <2>1, <2>2, ShortStep DEF Steps
<1>6. CASE SessionGivesUp
  BY <1>6, BreaksOnlyHere, ShortBreaksOff DEF SessionGivesUp
<1>7. CASE SessionThrows
  BY <1>7, BreaksOnlyHere, ShortBreaksOff DEF SessionThrows
<1>8. CASE SessionEnds
  BY <1>8, ShortBreaksOff DEF SessionEnds, PlayEnds
<1> QED
  BY <1>1, <1>2, <1>3, <1>4, <1>5, <1>6, <1>7, <1>8 DEF SessionMoves

-----------------------------------------------------------------------------
(* The run of a scenario at the door, and of the two kits that are spoilt. *)

DoorSteps ==
  \/ SessionMoves
  \/ StandMoves
  \/ UNCHANGED << doorVars, rel, flight >> /\ (PlayCloses(~stray) \/ StandDies)

LEMMA SessionPlays ==
  ASSUME SessionMoves
  PROVE  kit' = kit /\ phase' \in {"play", "closing"}
<1>1. CASE SessionAsks \/ SessionAsksTwice \/ SessionInvites \/ SessionReleases
           \/ SessionLooks
  BY <1>1
  DEF SessionAsks, SessionAsksTwice, SessionInvites, SessionReleases, SessionLooks,
      Plays, playVars, Goes, GoesLate
<1>2. CASE SessionJudges
  BY <1>2 DEF SessionJudges, Goes, GoesLate, Breaks
<1>3. CASE SessionJudgesTwo
  BY <1>3 DEF SessionJudgesTwo, Goes, GoesLate
<1>4. CASE SessionGivesUp \/ SessionThrows \/ SessionEnds
  BY <1>4 DEF SessionGivesUp, SessionThrows, SessionEnds, PlayEnds, Breaks
<1> QED
  BY <1>1, <1>2, <1>3, <1>4 DEF SessionMoves

LEMMA PassesAreApart == DOMAIN Passes \cap DOMAIN Script = {}
BY DEF Script, Passes

(* A run judges one kit.                                                   *)
LEMMA KitIsTheSame ==
  ASSUME VerifyNext
  PROVE  kit' = kit
<1>1. CASE DoorScenario(SessionMoves)
  BY <1>1, SessionPlays DEF DoorScenario
<1>2. CASE DoorScenario(StandMoves)
  BY <1>2 DEF DoorScenario, StandMoves, StandArrives, LineIsLate, playVars
<1>3. CASE AskerScenario(AskerMoves)
  BY <1>3
  DEF AskerScenario, DialScenario, AskerMoves, AskerIsRefused, AskerAsks, TakesApart,
      AskerReplies, AskerRoutes, AskerGivesUp, AskerEnds, PlayEnds, Goes, GoesLate,
      Breaks
<1>4. CASE DialScenario(HoldMoves)
  BY <1>4
  DEF DialScenario, HoldMoves, DialSends, HoldTimer, HoldCounts, WaitIsOver, Goes,
      GoesLate, playVars
<1>5. CASE DialScenario(KitDials)
  <2>1. PICK x \in sends : KitSeals(x) \/ HoldTakes(x) \/ KitStops(x)
    BY <1>5 DEF DialScenario, KitDials
  <2> QED
    BY <2>1
    DEF KitSeals, HoldTakes, KitStops, TakesApart, WaitIsOver, Goes, GoesLate, playVars
<1>6. CASE PassScenario(PassMoves)
  BY <1>6
  DEF PassScenario, PassMoves, PassInvites, SecondSends, FirstArrives, SecondReads,
      PassRedelivers, PassGivesUp, PassEnds, PlayEnds, Goes, GoesLate, Breaks, playVars
<1>7. CASE HarnessScenario(HarnessMoves)
  BY <1>7
  DEF HarnessScenario, HarnessMoves, HarnessWrites, HarnessHears, HarnessSkips,
      HarnessGivesUp, HarnessLosesTheRest, HarnessEnds, PlayEnds,
      Goes, GoesLate, Breaks, playVars
<1>8. CASE AnyScenario(PlayCloses(~stray)) \/ AnyScenario(givenUp = {} /\ StandDies)
  BY <1>8 DEF AnyScenario, HarnessScenario, PlayCloses, StandDies
<1>9. CASE HarnessScenario(\E n \in wire : StandSays(n))
  BY <1>9 DEF HarnessScenario, StandSays, playVars
<1> QED
  BY <1>1, <1>2, <1>3, <1>4, <1>5, <1>6, <1>7, <1>8, <1>9 DEF VerifyNext, VerifierMoves

(* While a scenario is played at the door no other moves.                  *)
LEMMA DoorStepsApart ==
  ASSUME VerifyNext, scene \in DOMAIN Script, sends = {}, ~waiter
  PROVE  DoorSteps /\ sends' = {} /\ ~waiter'
<1>0. scene \notin DOMAIN Lists /\ scene \notin DOMAIN Passes /\ scene # "harness"
  BY ListsAreApart, HarnessIsApart, PassesAreApart
<1>1. CASE DoorScenario(SessionMoves) \/ DoorScenario(StandMoves)
  BY <1>1 DEF DoorScenario, DoorSteps, holdVars
<1>2. CASE AskerScenario(AskerMoves)
  BY <1>0, <1>2, AskerKeeps DEF AskerScenario, DialScenario
<1>3. CASE DialScenario(HoldMoves) \/ DialScenario(KitDials)
  BY <1>0, <1>3, HoldKeeps, KitKeeps DEF DialScenario
<1>4. CASE PassScenario(PassMoves)
  BY <1>0, <1>4, PassKeeps DEF PassScenario
<1>5. CASE HarnessScenario(HarnessMoves)
  BY <1>0, <1>5
  DEF HarnessScenario, HarnessMoves, HarnessWrites, HarnessHears, HarnessSkips,
      HarnessGivesUp, HarnessLosesTheRest, HarnessEnds, HarnessPlays, PlayEnds,
      Goes, GoesLate, playVars
<1>6. CASE AnyScenario(PlayCloses(~stray))
  BY <1>6 DEF AnyScenario, HarnessScenario, DoorSteps, sessionVars, holdVars
<1>7. CASE HarnessScenario(\E n \in wire : StandSays(n))
  BY <1>0, <1>7 DEF HarnessScenario, StandSays
<1>8. CASE AnyScenario(givenUp = {} /\ StandDies)
  BY <1>8 DEF AnyScenario, HarnessScenario, DoorSteps, sessionVars, holdVars
<1> QED
  BY <1>1, <1>2, <1>3, <1>4, <1>5, <1>6, <1>7, <1>8 DEF VerifyNext, VerifierMoves

LEMMA ClosesOnlyHere ==
  ASSUME NEW clean, PlayCloses(clean)
  PROVE  /\ scene' = scene /\ kit' = kit /\ at' = at /\ phase' = "done"
         /\ failed \subseteq failed' /\ \A f \in failed' \ failed : f[2] = at
         /\ kit = "stray" => << "stray", at >> \in failed'
<1>1. PICK zero \in BOOLEAN :
        failed' = failed \cup Record("exit", alive \/ zero)
                         \cup Record("stray", clean /\ kit # "stray")
  BY DEF PlayCloses
<1>2. << "exit", at >>[2] = at /\ << "stray", at >>[2] = at
  OBVIOUS
<1> QED
  BY <1>1, <1>2 DEF PlayCloses, Record

(* What did not change in the scenario of strangers.                       *)
LEMMA ShortStill ==
  ASSUME ShortInv, scene' = scene, at' = at, phase' = phase, failed' = failed,
         rel' = rel, flight' = flight, heirs' = heirs, removed' = removed
  PROVE  ShortInv'
BY DEF ShortInv, ReplyUnderWay, Awaited

LEMMA ShortKeeps ==
  ASSUME ShortInv, kit = "short", DoorSteps
  PROVE  ShortInv'
<1>1. CASE SessionMoves
  BY <1>1, ShortSessionKeeps
<1>2. CASE StandMoves
  <2>1. ~(\E arrived \in BOOLEAN : LineIsLate(arrived))
    BY DEF LineIsLate, ShortInv
  <2> QED
    BY <1>2, <2>1, ShortArrives DEF StandMoves
<1>3. CASE PlayCloses(~stray)
  BY <1>3, ClosesOnlyHere, ShortBreaksOff
<1>4. CASE UNCHANGED << doorVars, rel, flight >> /\ StandDies
  BY <1>4, ShortStill DEF StandDies, doorVars
<1> QED
  BY <1>1, <1>2, <1>3, <1>4 DEF DoorSteps

LEMMA StrayKeeps ==
  ASSUME SpoiltInv, kit = "stray", DoorSteps, phase' = "done"
  PROVE  Failures({"stray"})' # {}
<1>1. CASE SessionMoves
  BY <1>1, SessionPlays
<1>2. CASE StandMoves
  <2>1. failed' = failed /\ phase' = phase
    BY <1>2 DEF StandMoves, StandArrives, LineIsLate, playVars
  <2> QED
    BY <2>1 DEF SpoiltInv, Failures
<1>3. CASE PlayCloses(~stray)
  <2>1. << "stray", at >> \in failed' /\ << "stray", at >>[1] = "stray"
    BY <1>3, ClosesOnlyHere
  <2> QED
    BY <2>1 DEF Failures
<1>4. CASE StandDies
  BY <1>4 DEF StandDies
<1> QED
  BY <1>1, <1>2, <1>3, <1>4 DEF DoorSteps

LEMMA DoorStepsSame ==
  ASSUME DoorSteps
  PROVE  scene' = scene /\ kit' = kit
<1>1. CASE SessionMoves
  BY <1>1, SessionKeeps, SessionPlays
<1>2. CASE StandMoves
  BY <1>2 DEF StandMoves, StandArrives, LineIsLate, playVars
<1>3. CASE PlayCloses(~stray) \/ StandDies
  BY <1>3 DEF PlayCloses, StandDies
<1> QED
  BY <1>1, <1>2, <1>3 DEF DoorSteps

LEMMA SpoiltInvHoldsAtFirst ==
  ASSUME VerifyInit
  PROVE  SpoiltInv
<1> HIDE DEF Steps
<1>1. /\ at = 1 /\ failed = {} /\ phase = "play" /\ sends = {} /\ waiter = FALSE
      /\ flight = << >> /\ rel = [h \in Heirs |-> Unknocked]
      /\ heirs = [h \in Heirs |-> NoRelation] /\ removed = [h \in Heirs |-> NoRelation]
  BY DEF VerifyInit, PlayInit, HoldInit, SessionInit, DoorInit
<1>2. /\ kit = "short" => scene = "strangers"
      /\ kit = "stray" => scene = "size"
  BY DEF VerifyInit, PlayInit, PlayedTo
<1>3. {"strangers", "size"} \subseteq DOMAIN Script \ {"carried"}
  BY DEF Script
<1>4. ASSUME kit = "short"
      PROVE  ShortInv
  <2>1. at \in 1..(Steps + 1) /\ at - 1 = 0
    BY <1>1, StrangersBetween
  <2>2. DoorAt(0, heirs, removed)
    <3>1. \A h \in 1..4 : Key(h, "heir") \in Heirs
      BY NamesAre
    <3>2. /\ \A h \in 1..4 : removed[Key(h, "heir")] = NoRelation
          /\ \A h \in 3..4 : heirs[Key(h, "heir")] = NoRelation
      BY <1>1, <3>1
    <3>3. ~(0 \in 1..(Steps - 2)) /\ ~(0 \in 2..(Steps - 1))
      BY StrangersBetween
    <3> QED
      BY <1>1, <3>2, <3>3 DEF DoorAt, NoRelation
  <2>3. BooksAt(0, rel)
    <3>1. rel[Key(1, "heir")] = Unknocked
      BY <1>1, NamesAre
    <3>2. HasBooks(Unknocked) /\ Unknocked.state = "fresh"
      BY DEF HasBooks, Unknocked
    <3>3. ~(0 \in 3..(Steps - 2))
      BY StrangersBetween
    <3> QED
      BY <1>1, <3>1, <3>2, <3>3 DEF BooksAt
  <2>4. FailsTheStrangers(0, failed)
    BY DEF FailsTheStrangers
  <2> QED
    BY <1>1, <1>2, <1>4, <2>1, <2>2, <2>3, <2>4 DEF ShortInv
<1> QED
  BY <1>1, <1>2, <1>3, <1>4 DEF SpoiltInv

(* Of the two kits the verifier's tests spoil: through the scenario of     *)
(* strangers the checks on them, and no other, fail a kit a byte short,    *)
(* and one that says more than its answers is failed for it at the close.  *)
THEOREM SpoiltInvHolds == VerifySpec => []SpoiltInv
<1>1. VerifyInit => SpoiltInv
  BY SpoiltInvHoldsAtFirst
<1>2. SpoiltInv /\ [VerifyNext]_vars => SpoiltInv'
  <2> SUFFICES ASSUME SpoiltInv, [VerifyNext]_vars  PROVE SpoiltInv'
    OBVIOUS
  <2>1. CASE VerifyNext
    <3>1. kit' = kit
      BY <2>1, KitIsTheSame
    <3> SUFFICES ASSUME kit \in {"short", "stray"}
                 PROVE  SpoiltInv'
      BY <3>1 DEF SpoiltInv
    <3>2. scene \in DOMAIN Script \ {"carried"} /\ sends = {} /\ ~waiter
      BY DEF SpoiltInv
    <3>3. DoorSteps /\ sends' = {} /\ ~waiter'
      BY <2>1, <3>2, DoorStepsApart
    <3>4. scene' = scene
      BY <3>3, DoorStepsSame
    <3>5. ASSUME kit = "short"
          PROVE  ShortInv'
      BY <3>3, <3>5, ShortKeeps DEF SpoiltInv
    <3>6. ASSUME kit = "stray", phase' = "done"
          PROVE  Failures({"stray"})' # {}
      BY <3>3, <3>6, StrayKeeps
    <3> QED
      BY <3>1, <3>2, <3>3, <3>4, <3>5, <3>6 DEF SpoiltInv
  <2>2. CASE UNCHANGED vars
    <3>1. /\ scene' = scene /\ kit' = kit /\ at' = at /\ phase' = phase
          /\ failed' = failed /\ rel' = rel /\ flight' = flight
          /\ heirs' = heirs /\ removed' = removed
          /\ sends' = sends /\ waiter' = waiter
      BY <2>2 DEF vars, playVars, sessionVars, doorVars, holdVars
    <3>2. ShortInv => ShortInv'
      BY <3>1, ShortStill
    <3> QED
      BY <3>1, <3>2 DEF SpoiltInv, Failures
  <2> QED
    BY <2>1, <2>2
<1> QED
  BY <1>1, <1>2, PTL DEF VerifySpec

(* A kit the verifier's tests spoil is failed for what is wrong with it:   *)
(* the replies its reading refuses (Stand.raw and judge of verify.js), the *)
(* stray line at the close, whatever exits and waits run out on the way.   *)
THEOREM SpoiltKitsFail == VerifySpec => []FailsAWrongKit
<1>1. SpoiltInv => FailsAWrongKit
  <2> SUFFICES ASSUME SpoiltInv, phase = "done", kit = "short",
                      NEW i \in 1..(at - 1), Script[scene][i].op = "ask"
               PROVE  Script[scene][i].want = "stranger" <=> << "check", i >> \in failed
    BY DEF SpoiltInv, FailsAWrongKit
  <2>1. Script[scene] = theStrangers /\ FailsTheStrangers(at - 1, failed)
    BY StrangersMeet DEF SpoiltInv, ShortInv
  <2> QED
    BY <2>1 DEF FailsTheStrangers
<1> QED
  BY <1>1, SpoiltInvHolds, PTL
=============================================================================
