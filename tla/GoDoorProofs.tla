---------------------------- MODULE GoDoorProofs ----------------------------
(***************************************************************************)
(* The Go kit's door is the door: proved for any number of heirs, names,   *)
(* keys and secrets, and for whatever boxes arrive.  Its one map, its      *)
(* flags and its names are shown to carry what the JavaScript ward keeps   *)
(* in two maps, and its shorter tables of the move to be the same tables.  *)
(***************************************************************************)
EXTENDS GoDoor, TLAPS

(* An heir not yet made has nothing.                                       *)
UnmadeIsBlank == \A h \in Heirs : ~byPK[h].made => byPK[h] = Unmade

(* The key held and the key vouched for are never one key: the tables of   *)
(* the move may then ask which of the two signed in either order.          *)
VouchedIsAnother ==
  \A h \in Heirs : byPK[h].vouched # NoKey => byPK[h].vouched # byPK[h].held

(* Names, in the words an inductive step can use.                          *)
NamedIsHeld ==
  \A n \in Names : named[n] # NoHeir =>
    byPK[named[n]].made /\ ~byPK[named[n]].removed

HeldIsNamedOnce ==
  \A h \in Heirs : byPK[h].made /\ ~byPK[h].removed =>
    \E n \in Names : named[n] = h /\ \A m \in Names : named[m] = h => m = n

GoInv ==
  /\ GoTypeOK
  /\ NamedIsHeld
  /\ HeldIsNamedOnce
  /\ UnmadeIsBlank
  /\ VouchedIsAnother

-----------------------------------------------------------------------------
(* Types.                                                                  *)

LEMMA GoFollowType ==
  ASSUME NEW e \in Edge, NEW a \in Nat
  PROVE  Follow(e, a) \in Edge
BY DEF Follow, Edge, Agreements

LEMMA GoZeroEdge == ZERO32 \in Edge
BY DEF ZERO32, Edge, Agreements

LEMMA GoReachIsTyped ==
  ASSUME GoTypeOK
  PROVE  GoEdgesInReach \subseteq Edge
<1>1. \A h \in Heirs : byPK[h].open \in Edge /\ byPK[h].offered \in Edge
  BY DEF GoTypeOK, GoHeir
<1>2. \A ss \in Secrets : KnockEdge(ss) \in Edge
  BY DEF KnockEdge, Edge, Agreements
<1> QED
  BY <1>1, <1>2, GoZeroEdge DEF GoEdgesInReach

(* A box honoured is for an heir held, signed by a key of its relation,    *)
(* and by the heir itself, announcing another key, if it binds.            *)
LEMMA GoChoiceIsHeld ==
  ASSUME NEW b \in Box(Edge), GoVerdict(b) = "choice"
  PROVE  /\ b.head \in Heirs
         /\ byPK[b.head].made /\ ~byPK[b.head].removed
         /\ \/ ~Spent(b) /\ b.by = b.head /\ NewKey(b)
            \/ /\ Spent(b)
               /\ \/ b.by = byPK[b.head].held
                  \/ byPK[b.head].vouched # NoKey /\ b.by = byPK[b.head].vouched
BY DEF GoVerdict, Stranger, HeldOrKept, Admitted, Box

LEMMA HonoursType ==
  ASSUME NEW heir \in GoHeir, NEW b \in Box(Edge), NEW a \in Nat,
         ~heir.spent => b.next \in Keys
  PROVE  /\ Honours(heir, b, a) \in GoHeir
         /\ Honours(heir, b, a).held \in Keys
<1>1. /\ b.by \in Keys /\ b.next \in Keys \cup {NoKey}
      /\ b.edge \in Edge /\ b.seq \in Nat
  BY BoxesAssumption DEF Box
<1>2. Follow(b.edge, a) \in Edge
  BY <1>1, GoFollowType
<1>3. HoldsAfter(heir, b) \in Keys
  BY <1>1 DEF HoldsAfter
<1>4. VouchesAfter(heir, b) \in Keys \cup {NoKey}
  BY <1>1 DEF VouchesAfter, GoHeir
<1> QED
  BY <1>1, <1>2, <1>3, <1>4 DEF Honours, GoHeir

LEMMA ReleasedType ==
  ASSUME NEW heir \in GoHeir
  PROVE  /\ Released(heir) \in GoHeir
         /\ Released(heir).spent = heir.spent
         /\ Released(heir).held = heir.held
BY DEF Released, GoHeir

LEMMA NewHeirType ==
  ASSUME NEW reach \in Reaches
  PROVE  NewHeir(reach) \in GoHeir /\ ~NewHeir(reach).spent
BY GoZeroEdge DEF NewHeir, GoHeir

(* What an honoured box changes, with the box's own facts at hand.         *)
LEMMA GoHonoured ==
  ASSUME GoTypeOK, NEW b \in Box(Edge), GoVerdict(b) = "choice", GoArrive(b)
  PROVE  LET moved == Honours(byPK[b.head], b, Len(honoured[b.head]) + 1)
             entry == [seq |-> b.seq, by |-> b.by, next |-> b.next,
                       edge |-> b.edge]
         IN  /\ byPK' = [byPK EXCEPT ![b.head] = moved]
             /\ honoured' = [honoured EXCEPT ![b.head] = Append(@, entry)]
             /\ named' = named
             /\ moved \in GoHeir /\ moved.held \in Keys
             /\ entry \in GoEntry
<1>1. Len(honoured[b.head]) + 1 \in Nat /\ byPK[b.head] \in GoHeir
  BY GoChoiceIsHeld DEF GoTypeOK
<1>2. ~byPK[b.head].spent => b.next \in Keys
  BY GoChoiceIsHeld DEF Spent, NewKey, Box
<1>3. [seq |-> b.seq, by |-> b.by, next |-> b.next, edge |-> b.edge] \in GoEntry
  BY BoxesAssumption DEF GoEntry, Box
<1>4. /\ Honours(byPK[b.head], b, Len(honoured[b.head]) + 1) \in GoHeir
      /\ Honours(byPK[b.head], b, Len(honoured[b.head]) + 1).held \in Keys
  BY <1>1, <1>2, HonoursType
<1> QED
  BY <1>3, <1>4 DEF GoArrive

LEMMA GoTypeArrive ==
  ASSUME GoTypeOK, NEW b \in Box(Edge), GoArrive(b)
  PROVE  GoTypeOK'
<1>1. CASE GoVerdict(b) # "choice"
  BY <1>1 DEF GoArrive, goVars, GoTypeOK
<1>2. CASE GoVerdict(b) = "choice"
  <2> DEFINE moved == Honours(byPK[b.head], b, Len(honoured[b.head]) + 1)
             entry == [seq |-> b.seq, by |-> b.by, next |-> b.next,
                       edge |-> b.edge]
  <2>1. /\ byPK' = [byPK EXCEPT ![b.head] = moved]
        /\ honoured' = [honoured EXCEPT ![b.head] = Append(@, entry)]
        /\ named' = named
        /\ moved \in GoHeir /\ moved.held \in Keys
        /\ entry \in GoEntry
    BY <1>2, GoHonoured
  <2>2. b.head \in Heirs
    BY <1>2, GoChoiceIsHeld
  <2> HIDE DEF moved, entry
  <2>3. byPK' \in [Heirs -> GoHeir]
    BY <2>1, <2>2 DEF GoTypeOK
  <2>4. honoured' \in [Heirs -> Seq(GoEntry)]
    BY <2>1, <2>2 DEF GoTypeOK
  <2>5. \A h \in Heirs : byPK'[h].spent => byPK'[h].held \in Keys
    BY <2>1, <2>2 DEF GoTypeOK
  <2> QED
    BY <2>1, <2>3, <2>4, <2>5 DEF GoTypeOK
<1> QED
  BY <1>1, <1>2

LEMMA GoTypeInvite ==
  ASSUME GoTypeOK, NEW n \in Names, NEW h \in Heirs, NEW reach \in Reaches,
         GoInvite(n, h, reach)
  PROVE  GoTypeOK'
BY NewHeirType DEF GoTypeOK, GoInvite

LEMMA GoTypeRelease ==
  ASSUME GoTypeOK, NEW n \in Names, GoRelease(n)
  PROVE  GoTypeOK'
<1>1. named[n] \in Heirs /\ byPK[named[n]] \in GoHeir
  BY DEF GoTypeOK, GoRelease
<1> QED
  BY <1>1, ReleasedType DEF GoTypeOK, GoRelease

-----------------------------------------------------------------------------
(* Names.                                                                  *)

LEMMA NamesInWords ==
  ASSUME GoTypeOK, NamedIsHeld, HeldIsNamedOnce
  PROVE  NamesLeadToTheHeld
<1>1. ASSUME NEW h \in Heirs, byPK[h].made /\ ~byPK[h].removed
      PROVE  \E n \in {m \in Names : named[m] = h} :
               {m \in Names : named[m] = h} = {n}
  <2>1. PICK n \in Names : named[n] = h /\ \A m \in Names : named[m] = h => m = n
    BY <1>1 DEF HeldIsNamedOnce
  <2> QED
    BY <2>1
<1>2. ASSUME NEW h \in Heirs, ~(byPK[h].made /\ ~byPK[h].removed)
      PROVE  {m \in Names : named[m] = h} = {}
  BY <1>2, BoxesAssumption DEF NamedIsHeld
<1> QED
  BY <1>1, <1>2 DEF NamesLeadToTheHeld

LEMMA NamesInvite ==
  ASSUME GoTypeOK, NamedIsHeld, HeldIsNamedOnce, NEW n \in Names,
         NEW h \in Heirs, NEW reach \in Reaches, GoInvite(n, h, reach)
  PROVE  NamedIsHeld' /\ HeldIsNamedOnce'
<1>1. /\ named[n] = NoHeir /\ ~byPK[h].made
      /\ named' = [named EXCEPT ![n] = h]
      /\ byPK' = [byPK EXCEPT ![h] = NewHeir(reach)]
  BY DEF GoInvite
<1>2. NewHeir(reach).made /\ ~NewHeir(reach).removed
  BY DEF NewHeir
<1>3. \A m \in Names : named[m] # h
  BY <1>1, BoxesAssumption DEF NamedIsHeld
<1>4. NamedIsHeld'
  BY <1>1, <1>2 DEF NamedIsHeld, GoTypeOK
<1>5. ASSUME NEW g \in Heirs, byPK'[g].made /\ ~byPK'[g].removed
      PROVE  \E m \in Names :
               named'[m] = g /\ \A o \in Names : named'[o] = g => o = m
  <2>1. CASE g = h
    BY <1>1, <1>3, <2>1 DEF GoTypeOK
  <2>2. CASE g # h
    <3>1. byPK'[g] = byPK[g]
      BY <1>1, <2>2 DEF GoTypeOK
    <3>2. PICK m \in Names :
                 named[m] = g /\ \A o \in Names : named[o] = g => o = m
      BY <1>5, <3>1 DEF HeldIsNamedOnce
    <3>3. named'[m] = g /\ \A o \in Names : named'[o] = g => o = m
      BY <1>1, <2>2, <3>2, BoxesAssumption DEF GoTypeOK
    <3> QED
      BY <3>3
  <2> QED
    BY <2>1, <2>2
<1> QED
  BY <1>4, <1>5 DEF HeldIsNamedOnce

LEMMA NamesRelease ==
  ASSUME GoTypeOK, NamedIsHeld, HeldIsNamedOnce, NEW n \in Names, GoRelease(n)
  PROVE  NamedIsHeld' /\ HeldIsNamedOnce'
<1> DEFINE h == named[n]
<1>1. /\ h # NoHeir /\ h \in Heirs
      /\ named' = [named EXCEPT ![n] = NoHeir]
      /\ byPK' = [byPK EXCEPT ![h] = Released(byPK[h])]
  BY DEF GoRelease, GoTypeOK
<1>2. byPK[h].made /\ ~byPK[h].removed /\ Released(byPK[h]).removed
  BY <1>1 DEF NamedIsHeld, Released
<1>3. \A m \in Names : named[m] = h => m = n
  BY <1>1, <1>2 DEF HeldIsNamedOnce
<1> HIDE DEF h
<1>4. NamedIsHeld'
  BY <1>1, <1>3 DEF NamedIsHeld, GoTypeOK
<1>5. ASSUME NEW g \in Heirs, byPK'[g].made /\ ~byPK'[g].removed
      PROVE  \E m \in Names :
               named'[m] = g /\ \A o \in Names : named'[o] = g => o = m
  <2>1. g # h /\ byPK'[g] = byPK[g]
    BY <1>1, <1>2, <1>5 DEF GoTypeOK
  <2>2. PICK m \in Names :
               named[m] = g /\ \A o \in Names : named[o] = g => o = m
    BY <1>5, <2>1 DEF HeldIsNamedOnce
  <2>3. m # n
    BY <2>1, <2>2 DEF h
  <2>4. named'[m] = g /\ \A o \in Names : named'[o] = g => o = m
    BY <1>1, <2>2, <2>3, <1>5, BoxesAssumption DEF GoTypeOK
  <2> QED
    BY <2>4
<1> QED
  BY <1>4, <1>5 DEF HeldIsNamedOnce

LEMMA NamesArrive ==
  ASSUME GoTypeOK, NamedIsHeld, HeldIsNamedOnce, NEW b \in Box(Edge),
         GoArrive(b)
  PROVE  NamedIsHeld' /\ HeldIsNamedOnce'
<1>1. CASE GoVerdict(b) # "choice"
  BY <1>1 DEF GoArrive, goVars, NamedIsHeld, HeldIsNamedOnce
<1>2. CASE GoVerdict(b) = "choice"
  <2>1. /\ b.head \in Heirs
        /\ byPK[b.head].made /\ ~byPK[b.head].removed
    BY <1>2, GoChoiceIsHeld
  <2>2. /\ named' = named
        /\ byPK' = [byPK EXCEPT ![b.head] =
                      Honours(byPK[b.head], b, Len(honoured[b.head]) + 1)]
    BY <1>2 DEF GoArrive
  <2>3. \A h \in Heirs : /\ byPK'[h].made = byPK[h].made
                         /\ byPK'[h].removed = byPK[h].removed
    <3>1. \A a : /\ Honours(byPK[b.head], b, a).made = TRUE
                 /\ Honours(byPK[b.head], b, a).removed = FALSE
      BY DEF Honours
    <3>2. byPK[b.head].made = TRUE /\ byPK[b.head].removed = FALSE
      BY <2>1 DEF GoTypeOK, GoHeir
    <3> QED
      BY <2>1, <2>2, <3>1, <3>2 DEF GoTypeOK
  <2> QED
    BY <2>2, <2>3 DEF NamedIsHeld, HeldIsNamedOnce, GoTypeOK
<1> QED
  BY <1>1, <1>2

-----------------------------------------------------------------------------
(* The keys held and vouched for.                                          *)

LEMMA HonoursApart ==
  ASSUME NEW heir \in GoHeir, NEW b \in Box(Edge), NEW a,
         heir.vouched # NoKey => heir.vouched # heir.held,
         heir.spent => \/ b.by = heir.held
                       \/ heir.vouched # NoKey /\ b.by = heir.vouched
  PROVE  Honours(heir, b, a).vouched # NoKey =>
           Honours(heir, b, a).vouched # Honours(heir, b, a).held
<1>1. /\ Honours(heir, b, a).held = HoldsAfter(heir, b)
      /\ Honours(heir, b, a).vouched = VouchesAfter(heir, b)
  BY DEF Honours
<1> QED
  BY <1>1 DEF HoldsAfter, VouchesAfter, NewKey

LEMMA InvInit == GoInit => GoInv
<1> SUFFICES ASSUME GoInit PROVE GoInv
  OBVIOUS
<1>1. Unmade \in GoHeir /\ ~Unmade.made /\ ~Unmade.spent
      /\ Unmade.vouched = NoKey
  BY GoZeroEdge DEF Unmade, GoHeir, Reaches
<1>2. GoTypeOK
  BY <1>1 DEF GoInit, GoTypeOK
<1>3. NamedIsHeld /\ HeldIsNamedOnce
  BY <1>1 DEF GoInit, NamedIsHeld, HeldIsNamedOnce
<1> QED
  BY <1>1, <1>2, <1>3 DEF GoInit, GoInv, UnmadeIsBlank, VouchedIsAnother

LEMMA InvInvite ==
  ASSUME GoInv, NEW n \in Names, NEW h \in Heirs, NEW reach \in Reaches,
         GoInvite(n, h, reach)
  PROVE  GoInv'
<1>1. NewHeir(reach).made /\ NewHeir(reach).vouched = NoKey
  BY DEF NewHeir
<1>2. UnmadeIsBlank' /\ VouchedIsAnother'
  BY <1>1 DEF GoInv, GoInvite, GoTypeOK, UnmadeIsBlank, VouchedIsAnother
<1> QED
  BY <1>2, GoTypeInvite, NamesInvite DEF GoInv

LEMMA InvRelease ==
  ASSUME GoInv, NEW n \in Names, GoRelease(n)
  PROVE  GoInv'
<1>1. named[n] \in Heirs /\ byPK[named[n]].made
  BY DEF GoInv, GoTypeOK, GoRelease, NamedIsHeld
<1>2. LET heir == byPK[named[n]]
      IN  /\ Released(heir).made = heir.made
          /\ Released(heir).held = heir.held
          /\ Released(heir).vouched = heir.vouched
  BY DEF Released
<1>3. UnmadeIsBlank' /\ VouchedIsAnother'
  BY <1>1, <1>2 DEF GoInv, GoRelease, GoTypeOK, UnmadeIsBlank, VouchedIsAnother
<1> QED
  BY <1>3, GoTypeRelease, NamesRelease DEF GoInv

LEMMA InvArrive ==
  ASSUME GoInv, NEW b \in Box(Edge), GoArrive(b)
  PROVE  GoInv'
<1>1. CASE GoVerdict(b) # "choice"
  BY <1>1 DEF GoArrive, goVars, GoInv, GoTypeOK, NamedIsHeld,
              HeldIsNamedOnce, UnmadeIsBlank, VouchedIsAnother
<1>2. CASE GoVerdict(b) = "choice"
  <2> DEFINE moved == Honours(byPK[b.head], b, Len(honoured[b.head]) + 1)
  <2>1. b.head \in Heirs /\ byPK[b.head] \in GoHeir
    BY <1>2, GoChoiceIsHeld DEF GoInv, GoTypeOK
  <2>2. byPK' = [byPK EXCEPT ![b.head] = moved]
    BY <1>2 DEF GoArrive
  <2>3. moved.made
    BY DEF Honours
  <2>4. moved.vouched # NoKey => moved.vouched # moved.held
    BY <1>2, <2>1, GoChoiceIsHeld, HonoursApart
    DEF GoInv, VouchedIsAnother, Spent
  <2> HIDE DEF moved
  <2>5. UnmadeIsBlank' /\ VouchedIsAnother'
    BY <2>1, <2>2, <2>3, <2>4
    DEF GoInv, GoTypeOK, UnmadeIsBlank, VouchedIsAnother
  <2> QED
    BY <2>5, GoTypeArrive, NamesArrive DEF GoInv
<1> QED
  BY <1>1, <1>2

LEMMA InvNext ==
  ASSUME GoInv, [GoNext]_goVars
  PROVE  GoInv'
<1>1. CASE UNCHANGED goVars
  BY <1>1 DEF goVars, GoInv, GoTypeOK, NamedIsHeld, HeldIsNamedOnce,
              UnmadeIsBlank, VouchedIsAnother
<1>2. CASE GoNext
  <2>1. Box(GoEdgesInReach) \subseteq Box(Edge)
    BY GoReachIsTyped DEF GoInv, Box
  <2> QED
    BY <1>2, <2>1, InvInvite, InvRelease, InvArrive DEF GoNext
<1> QED
  BY <1>1, <1>2

(* What is held at every step of every run.                                *)
LEMMA GoInductive == GoSpec => []GoInv
<1> QED
  BY InvInit, InvNext, PTL DEF GoSpec

(* Every heir of the Go ward has keys and edge keys of the right kind, and *)
(* a spent one has a key (ward.go, Heir).                                  *)
THEOREM GoDoorTyped == GoSpec => []GoTypeOK
<1>1. GoInv => GoTypeOK
  BY DEF GoInv
<1> QED
  BY <1>1, GoInductive, PTL

(* For any names, used and used again in any order: a held heir has one    *)
(* name, and no name leads to an heir that was let go (ward.go, Invite and *)
(* Release).                                                               *)
THEOREM GoNamesLead == GoSpec => []NamesLeadToTheHeld
<1>1. GoInv => NamesLeadToTheHeld
  BY NamesInWords DEF GoInv
<1> QED
  BY <1>1, GoInductive, PTL

-----------------------------------------------------------------------------
(* The Go ward read as the JavaScript ward.                                *)

LEMMA ReadOff ==
  ASSUME NEW h \in Heirs
  PROVE  /\ ~byPK[h].made \/ byPK[h].removed => HeirsOf[h] = Nothing0
         /\ byPK[h].made /\ ~byPK[h].removed =>
              HeirsOf[h] =
                [stage |-> StageIn(byPK[h]), H |-> byPK[h].held,
                 V |-> byPK[h].vouched, O |-> byPK[h].open,
                 F |-> byPK[h].offered, high |-> byPK[h].highest,
                 reach |-> byPK[h].reach]
         /\ ~byPK[h].removed => RemovedOf[h] = Nothing0
         /\ byPK[h].removed =>
              RemovedOf[h] =
                [stage |-> StageIn(byPK[h]), H |-> byPK[h].held,
                 V |-> byPK[h].vouched, O |-> byPK[h].open,
                 F |-> byPK[h].offered, high |-> 0, reach |-> "silent"]
BY DEF HeirsOf, RemovedOf

(* Its edge keys are in one of the two maps, and the other has none.       *)
LEMMA ReadOffEdges ==
  ASSUME GoInv, NEW h \in Heirs
  PROVE  \/ /\ HeirsOf[h].O = byPK[h].open /\ HeirsOf[h].F = byPK[h].offered
            /\ RemovedOf[h].O = ZERO32 /\ RemovedOf[h].F = ZERO32
         \/ /\ HeirsOf[h].O = ZERO32 /\ HeirsOf[h].F = ZERO32
            /\ RemovedOf[h].O = byPK[h].open /\ RemovedOf[h].F = byPK[h].offered
<1>1. Nothing0.O = ZERO32 /\ Nothing0.F = ZERO32
  BY DEF Nothing0
<1>2. CASE ~byPK[h].made
  <2>1. byPK[h] = Unmade
    BY <1>2 DEF GoInv, UnmadeIsBlank
  <2>2. /\ Unmade.open = ZERO32 /\ Unmade.offered = ZERO32
        /\ ~Unmade.made /\ ~Unmade.removed
    BY DEF Unmade
  <2> QED
    BY <1>1, <2>1, <2>2, ReadOff
<1>3. CASE byPK[h].made /\ ~byPK[h].removed
  <2>1. HeirsOf[h].O = byPK[h].open /\ HeirsOf[h].F = byPK[h].offered
    BY <1>3 DEF HeirsOf
  <2> QED
    BY <1>1, <1>3, <2>1, ReadOff
<1>4. CASE byPK[h].made /\ byPK[h].removed
  <2>1. RemovedOf[h].O = byPK[h].open /\ RemovedOf[h].F = byPK[h].offered
    BY <1>4 DEF RemovedOf
  <2> QED
    BY <1>1, <1>4, <2>1, ReadOff
<1> QED
  BY <1>2, <1>3, <1>4

(* Both doors open a body with the same edge keys.                         *)
LEMMA SameReach ==
  ASSUME GoInv
  PROVE  Doors!EdgesInReach = GoEdgesInReach
<1> DEFINE ofKnocks == {ZERO32} \cup {KnockEdge(ss) : ss \in Secrets}
           ofJS(h) == {HeirsOf[h].O, HeirsOf[h].F, RemovedOf[h].O, RemovedOf[h].F}
           ofGo(h) == {byPK[h].open, byPK[h].offered}
<1>1. Doors!EdgesInReach = ofKnocks \cup UNION {ofJS(h) : h \in Heirs}
  BY DEF Doors!EdgesInReach, Doors!ZERO32, Doors!KnockEdge, ZERO32, KnockEdge
<1>2. GoEdgesInReach = ofKnocks \cup UNION {ofGo(h) : h \in Heirs}
  BY DEF GoEdgesInReach
<1>3. \A h \in Heirs : ofJS(h) \subseteq {ZERO32} \cup ofGo(h) /\ ofGo(h) \subseteq ofJS(h)
  BY ReadOffEdges
<1>4. ZERO32 \in ofKnocks
  OBVIOUS
<1> HIDE DEF ofKnocks, ofJS, ofGo
<1>5. ASSUME NEW e \in UNION {ofJS(h) : h \in Heirs}
      PROVE  e \in ofKnocks \cup UNION {ofGo(h) : h \in Heirs}
  BY <1>3, <1>4, <1>5
<1>6. ASSUME NEW e \in UNION {ofGo(h) : h \in Heirs}
      PROVE  e \in UNION {ofJS(h) : h \in Heirs}
  BY <1>3, <1>6
<1> QED
  BY <1>1, <1>2, <1>5, <1>6

(* A head is fresh, spent, kept or nothing to both.                        *)
LEMMA SameStages ==
  ASSUME GoInv, NEW b \in Box(Edge)
  PROVE  /\ Doors!Held(b, "fresh") <=> HeldOrKept(b) /\ ~Spent(b)
         /\ Doors!Held(b, "spent") <=>
              HeldOrKept(b) /\ Spent(b) /\ ~byPK[b.head].removed
         /\ Doors!Kept(b) <=>
              HeldOrKept(b) /\ Spent(b) /\ byPK[b.head].removed
<1> DEFINE h == b.head
<1>1. CASE h \notin Heirs
  BY <1>1 DEF Doors!Held, Doors!Kept, HeldOrKept
<1>2. CASE h \in Heirs /\ ~byPK[h].made
  <2>1. HeirsOf[h].stage = "absent"
    BY <1>2 DEF HeirsOf, Nothing0
  <2>2. ~byPK[h].removed
    BY <1>2 DEF GoInv, UnmadeIsBlank, Unmade
  <2>3. RemovedOf[h].stage = "absent"
    BY <1>2, <2>2 DEF RemovedOf, Nothing0
  <2> QED
    BY <1>2, <2>1, <2>3 DEF Doors!Held, Doors!Kept, HeldOrKept
<1>3. CASE h \in Heirs /\ byPK[h].made /\ ~byPK[h].removed
  <2>1. HeirsOf[h].stage = StageIn(byPK[h])
    BY <1>3 DEF HeirsOf
  <2> QED
    BY <1>3, <2>1 DEF Doors!Held, Doors!Kept, HeldOrKept, Spent, StageIn
<1>4. CASE h \in Heirs /\ byPK[h].made /\ byPK[h].removed
  <2>1. HeirsOf[h].stage = "absent"
    BY <1>4 DEF HeirsOf, Nothing0
  <2>2. RemovedOf[h].stage = StageIn(byPK[h])
    BY <1>4 DEF RemovedOf
  <2> QED
    BY <1>4, <2>1, <2>2 DEF Doors!Held, Doors!Kept, HeldOrKept, Spent, StageIn
<1> QED
  BY <1>1, <1>2, <1>3, <1>4

(* And a spent one is judged by the same keys and edge keys.               *)
LEMMA SameKeys ==
  ASSUME GoInv, NEW b \in Box(Edge), HeldOrKept(b), Spent(b)
  PROVE  /\ Doors!KeysOf(b).H = byPK[b.head].held
         /\ Doors!KeysOf(b).V = byPK[b.head].vouched
         /\ Doors!KeysOf(b).O = byPK[b.head].open
         /\ Doors!KeysOf(b).F = byPK[b.head].offered
<1>1. b.head \in Heirs /\ byPK[b.head].made
  BY DEF HeldOrKept
<1>2. CASE ~byPK[b.head].removed
  <2>1. Doors!KeysOf(b) = HeirsOf[b.head]
    BY <1>2, SameStages DEF Doors!KeysOf
  <2> QED
    BY <1>1, <1>2, <2>1 DEF HeirsOf
<1>3. CASE byPK[b.head].removed
  <2>1. Doors!KeysOf(b) = RemovedOf[b.head]
    BY <1>3, SameStages DEF Doors!KeysOf
  <2> QED
    BY <1>1, <1>3, <2>1 DEF RemovedOf
<1> QED
  BY <1>2, <1>3

LEMMA SameOpens ==
  ASSUME GoInv, NEW b \in Box(Edge)
  PROVE  Doors!Opens(b) <=> BodyOpens(b)
<1>1. CASE HeldOrKept(b) /\ ~Spent(b)
  BY <1>1, SameStages DEF Doors!Opens, BodyOpens, Doors!KnockEdge, KnockEdge
<1>2. CASE HeldOrKept(b) /\ Spent(b)
  BY <1>2, SameStages, SameKeys DEF Doors!Opens, BodyOpens
<1>3. CASE ~HeldOrKept(b)
  BY <1>3, SameStages DEF Doors!Opens, BodyOpens, Doors!ZERO32, ZERO32
<1> QED
  BY <1>1, <1>2, <1>3

LEMMA SameStrangers ==
  ASSUME GoInv, NEW b \in Box(Edge)
  PROVE  Doors!Refused(b) <=> Stranger(b)
<1>1. Doors!PayloadReads(b) <=> WellFormed(b)
  BY DEF Doors!PayloadReads, WellFormed
<1>2. b.by \in Keys /\ b.by # NoKey
  BY BoxesAssumption DEF Box
<1>3. HeldOrKept(b) => (Doors!SignedBy(b) # "nobody" <=> Admitted(b))
  <2>1. CASE HeldOrKept(b) /\ ~Spent(b)
    BY <2>1, SameStages DEF Doors!SignedBy, Admitted
  <2>2. CASE HeldOrKept(b) /\ Spent(b)
    BY <1>2, <2>2, SameStages, SameKeys DEF Doors!SignedBy, Admitted
  <2> QED
    BY <2>1, <2>2
<1>4. HeldOrKept(b) <=>
        Doors!Held(b, "fresh") \/ Doors!Held(b, "spent") \/ Doors!Kept(b)
  BY SameStages
<1>5. HeldOrKept(b) => b.head # NoHeir
  BY BoxesAssumption DEF HeldOrKept
<1> QED
  BY <1>1, <1>3, <1>4, <1>5, SameOpens DEF Doors!Refused, Stranger

LEMMA SameVerdict ==
  ASSUME GoInv, NEW b \in Box(Edge)
  PROVE  Doors!Verdict(b) = GoVerdict(b)
<1>1. CASE Stranger(b) \/ b.head = NoHeir
  BY <1>1, SameStrangers DEF Doors!Verdict, GoVerdict
<1>2. CASE ~Stranger(b) /\ b.head # NoHeir
  <2>1. HeldOrKept(b) /\ b.head \in Heirs
    BY <1>2 DEF Stranger, HeldOrKept
  <2>2. byPK[b.head].removed => Spent(b)
    BY <2>1 DEF HeldOrKept, Spent
  <2>3. Doors!Announces(b) <=> NewKey(b)
    BY DEF Doors!Announces, NewKey
  <2>4. ~byPK[b.head].removed => HeirsOf[b.head].high = byPK[b.head].highest
    BY <2>1 DEF HeirsOf, HeldOrKept
  <2> QED
    BY <1>2, <2>1, <2>2, <2>3, <2>4, SameStrangers, SameStages
    DEF Doors!Verdict, GoVerdict, Doors!Unannounced, Doors!Repeated
<1> QED
  BY <1>1, <1>2

LEMMA SameReply ==
  ASSUME GoInv, NEW b \in Box(Edge)
  PROVE  Doors!ReplyText(b) = GoReplyText(b)
<1>1. GoVerdict(b) = "choice" => HeirsOf[b.head].reach = byPK[b.head].reach
  BY GoChoiceIsHeld DEF HeirsOf
<1> QED
  BY <1>1, SameVerdict DEF Doors!ReplyText, GoReplyText

-----------------------------------------------------------------------------
(* Each step of the Go ward is the step of the same name.                  *)

LEMMA InitIsInit == GoInit => Doors!DoorInit
<1> SUFFICES ASSUME GoInit PROVE Doors!DoorInit
  OBVIOUS
<1>1. Nothing0 = Doors!NoRelation
  BY DEF Nothing0, Doors!NoRelation, Doors!ZERO32, ZERO32
<1>2. ~Unmade.made /\ ~Unmade.removed
  BY DEF Unmade
<1>3. HeirsOf = [h \in Heirs |-> Nothing0] /\ RemovedOf = [h \in Heirs |-> Nothing0]
  BY <1>2 DEF GoInit, HeirsOf, RemovedOf
<1> QED
  BY <1>1, <1>3 DEF GoInit, Doors!DoorInit

LEMMA InviteIsInvite ==
  ASSUME GoInv, NEW n \in Names, NEW h \in Heirs, NEW reach \in Reaches,
         GoInvite(n, h, reach)
  PROVE  Doors!Invite(h, reach)
<1>1. ~byPK[h].made /\ byPK' = [byPK EXCEPT ![h] = NewHeir(reach)]
      /\ honoured' = honoured
  BY DEF GoInvite
<1>2. ~byPK[h].removed
  BY <1>1 DEF GoInv, UnmadeIsBlank, Unmade
<1>3. HeirsOf[h].stage = "absent" /\ RemovedOf[h].stage = "absent"
  BY <1>1, <1>2 DEF HeirsOf, RemovedOf, Nothing0
<1>4. /\ byPK'[h] = NewHeir(reach)
      /\ \A g \in Heirs \ {h} : byPK'[g] = byPK[g]
  BY <1>1 DEF GoInv, GoTypeOK
<1>5. HeirsOf'[h] = Doors!FreshRelation(reach)
  BY <1>4 DEF HeirsOf, NewHeir, StageIn, Doors!FreshRelation, Doors!ZERO32, ZERO32
<1>6. \A g \in Heirs \ {h} : HeirsOf'[g] = HeirsOf[g]
  BY <1>4 DEF HeirsOf
<1>7. HeirsOf' = [HeirsOf EXCEPT ![h] = Doors!FreshRelation(reach)]
  <2>1. /\ HeirsOf = [g \in Heirs |-> HeirsOf[g]]
        /\ HeirsOf' = [g \in Heirs |-> HeirsOf'[g]]
    BY DEF HeirsOf
  <2> QED
    BY <1>5, <1>6, <2>1
<1>8. \A g \in Heirs : byPK'[g].removed <=> byPK[g].removed
  BY <1>2, <1>4 DEF NewHeir
<1>9. \A g \in Heirs : RemovedOf'[g] = RemovedOf[g]
  BY <1>2, <1>4, <1>8 DEF RemovedOf
<1>10. RemovedOf' = RemovedOf
  BY <1>9 DEF RemovedOf
<1> QED
  BY <1>1, <1>3, <1>7, <1>10 DEF Doors!Invite

LEMMA ReleaseIsRelease ==
  ASSUME GoInv, NEW n \in Names, GoRelease(n)
  PROVE  named[n] \in Heirs /\ Doors!Release(named[n])
<1> DEFINE h == named[n]
<1>1. /\ h \in Heirs /\ byPK[h].made /\ ~byPK[h].removed
      /\ byPK' = [byPK EXCEPT ![h] = Released(byPK[h])]
      /\ honoured' = honoured
  BY DEF GoRelease, GoInv, GoTypeOK, NamedIsHeld
<1> HIDE DEF h
<1>2. /\ byPK'[h] = Released(byPK[h])
      /\ \A g \in Heirs \ {h} : byPK'[g] = byPK[g]
  BY <1>1 DEF GoInv, GoTypeOK
<1>3. HeirsOf[h] =
        [stage |-> StageIn(byPK[h]), H |-> byPK[h].held,
         V |-> byPK[h].vouched, O |-> byPK[h].open, F |-> byPK[h].offered,
         high |-> byPK[h].highest, reach |-> byPK[h].reach]
  BY <1>1, ReadOff
<1>4. HeirsOf[h].stage # "absent"
  BY <1>3 DEF StageIn
<1>5. HeirsOf'[h] = Doors!NoRelation
  BY <1>1, <1>2
  DEF HeirsOf, Released, Nothing0, Doors!NoRelation, Doors!ZERO32, ZERO32
<1>6. RemovedOf'[h] = Doors!KeptOf(HeirsOf[h])
  BY <1>1, <1>2, <1>3 DEF RemovedOf, Released, StageIn, Doors!KeptOf
<1>7. \A g \in Heirs \ {h} : HeirsOf'[g] = HeirsOf[g] /\ RemovedOf'[g] = RemovedOf[g]
  BY <1>2 DEF HeirsOf, RemovedOf
<1>8. HeirsOf' = [HeirsOf EXCEPT ![h] = Doors!NoRelation]
  <2>1. /\ HeirsOf = [g \in Heirs |-> HeirsOf[g]]
        /\ HeirsOf' = [g \in Heirs |-> HeirsOf'[g]]
    BY DEF HeirsOf
  <2> QED
    BY <1>5, <1>7, <2>1
<1>9. RemovedOf' = [RemovedOf EXCEPT ![h] = Doors!KeptOf(HeirsOf[h])]
  <2>1. /\ RemovedOf = [g \in Heirs |-> RemovedOf[g]]
        /\ RemovedOf' = [g \in Heirs |-> RemovedOf'[g]]
    BY DEF RemovedOf
  <2> QED
    BY <1>6, <1>7, <2>1
<1> QED
  BY <1>1, <1>4, <1>8, <1>9 DEF Doors!Release, h

(* The move: two ways to write one table, since no key is both.            *)
LEMMA SameMove ==
  ASSUME GoInv, NEW b \in Box(Edge), GoVerdict(b) = "choice", NEW a
  PROVE  LET heir == byPK[b.head]
             rel == HeirsOf[b.head]
         IN  /\ Doors!HeldAfter(rel, b) = HoldsAfter(heir, b)
             /\ Doors!VouchedAfter(rel, b) = VouchesAfter(heir, b)
             /\ Doors!Follow(b.edge, a) = Follow(b.edge, a)
             /\ rel.reach = heir.reach
<1> DEFINE heir == byPK[b.head]
           rel == HeirsOf[b.head]
<1>1. /\ rel.stage = StageIn(heir) /\ rel.H = heir.held
      /\ rel.V = heir.vouched /\ rel.reach = heir.reach
  BY GoChoiceIsHeld DEF HeirsOf
<1>2. heir.vouched # NoKey => heir.vouched # heir.held
  BY GoChoiceIsHeld DEF GoInv, VouchedIsAnother
<1>3. heir.spent => \/ b.by = heir.held
                    \/ heir.vouched # NoKey /\ b.by = heir.vouched
  BY GoChoiceIsHeld DEF Spent
<1>4. rel.stage = "fresh" <=> ~heir.spent
  BY <1>1 DEF StageIn
<1>5. Doors!Announces(b) <=> NewKey(b)
  BY DEF Doors!Announces, NewKey
<1> HIDE DEF heir, rel
<1>6. Doors!HeldAfter(rel, b) = HoldsAfter(heir, b)
  BY <1>1, <1>3, <1>4 DEF Doors!HeldAfter, HoldsAfter
<1>7. Doors!VouchedAfter(rel, b) = VouchesAfter(heir, b)
  BY <1>1, <1>2, <1>3, <1>4, <1>5 DEF Doors!VouchedAfter, VouchesAfter
<1>8. Doors!Follow(b.edge, a) = Follow(b.edge, a)
  BY DEF Doors!Follow, Follow
<1> QED
  BY <1>1, <1>6, <1>7, <1>8 DEF heir, rel

LEMMA ArriveIsArrive ==
  ASSUME GoInv, NEW b \in Box(Edge), GoArrive(b)
  PROVE  Doors!Arrive(b)
<1>1. CASE GoVerdict(b) # "choice"
  <2>1. UNCHANGED goVars
    BY <1>1 DEF GoArrive
  <2>2. HeirsOf' = HeirsOf /\ RemovedOf' = RemovedOf /\ honoured' = honoured
    BY <2>1 DEF goVars, HeirsOf, RemovedOf
  <2> QED
    BY <1>1, <2>2, SameVerdict DEF Doors!Arrive, Doors!doorVars
<1>2. CASE GoVerdict(b) = "choice"
  <2> DEFINE h == b.head
             a == Len(honoured[h]) + 1
             heir == byPK[h]
  <2>1. /\ h \in Heirs /\ heir.made /\ ~heir.removed
        /\ byPK' = [byPK EXCEPT ![h] = Honours(heir, b, a)]
        /\ honoured' = [honoured EXCEPT ![h] =
                          Append(@, [seq |-> b.seq, by |-> b.by,
                                     next |-> b.next, edge |-> b.edge])]
    BY <1>2, GoChoiceIsHeld DEF GoArrive
  <2>2. /\ byPK'[h] = Honours(heir, b, a)
        /\ \A g \in Heirs \ {h} : byPK'[g] = byPK[g]
    BY <2>1 DEF GoInv, GoTypeOK
  <2>3. /\ Doors!HeldAfter(HeirsOf[h], b) = HoldsAfter(heir, b)
        /\ Doors!VouchedAfter(HeirsOf[h], b) = VouchesAfter(heir, b)
        /\ Doors!Follow(b.edge, a) = Follow(b.edge, a)
        /\ HeirsOf[h].reach = heir.reach
    BY <1>2, SameMove
  <2> HIDE DEF h, a, heir
  <2>4. Doors!Moved(HeirsOf[h], b, a) =
          [stage |-> "spent", H |-> HoldsAfter(heir, b),
           V |-> VouchesAfter(heir, b), O |-> b.edge,
           F |-> Follow(b.edge, a), high |-> b.seq, reach |-> heir.reach]
    BY <2>3 DEF Doors!Moved, Doors!StageAfter, Doors!OpenAfter, Doors!OfferedAfter
  <2>5. HeirsOf'[h] =
          [stage |-> StageIn(byPK'[h]), H |-> byPK'[h].held,
           V |-> byPK'[h].vouched, O |-> byPK'[h].open, F |-> byPK'[h].offered,
           high |-> byPK'[h].highest, reach |-> byPK'[h].reach]
    BY <2>1, <2>2 DEF HeirsOf, Honours
  <2>6. HeirsOf'[h] = Doors!Moved(HeirsOf[h], b, a)
    BY <2>2, <2>4, <2>5 DEF Honours, StageIn
  <2>7. \A g \in Heirs \ {h} : HeirsOf'[g] = HeirsOf[g] /\ RemovedOf'[g] = RemovedOf[g]
    BY <2>2 DEF HeirsOf, RemovedOf
  <2>8. RemovedOf'[h] = RemovedOf[h]
    BY <2>1, <2>2 DEF RemovedOf, Honours, heir
  <2>9. HeirsOf' = [HeirsOf EXCEPT ![h] = Doors!Moved(HeirsOf[h], b, a)]
    <3>1. /\ HeirsOf = [g \in Heirs |-> HeirsOf[g]]
          /\ HeirsOf' = [g \in Heirs |-> HeirsOf'[g]]
      BY DEF HeirsOf
    <3> QED
      BY <2>6, <2>7, <3>1
  <2>10. RemovedOf' = RemovedOf
    BY <2>7, <2>8 DEF RemovedOf
  <2> QED
    BY <1>2, <2>1, <2>9, <2>10, SameVerdict
    DEF Doors!Arrive, Doors!NextAgreement, Doors!Logged, h, a
<1> QED
  BY <1>1, <1>2

LEMMA StepIsStep ==
  ASSUME GoInv, [GoNext]_goVars
  PROVE  [Doors!DoorNext]_(Doors!doorVars)
<1>1. CASE UNCHANGED goVars
  BY <1>1 DEF goVars, Doors!doorVars, HeirsOf, RemovedOf
<1>2. ASSUME NEW n \in Names, NEW h \in Heirs, NEW reach \in Reaches,
             GoInvite(n, h, reach)
      PROVE  Doors!DoorNext
  BY <1>2, InviteIsInvite DEF Doors!DoorNext, Doors!Reaches, Reaches
<1>3. ASSUME NEW n \in Names, GoRelease(n)
      PROVE  Doors!DoorNext
  BY <1>3, ReleaseIsRelease DEF Doors!DoorNext
<1>4. ASSUME NEW b \in Box(GoEdgesInReach), GoArrive(b)
      PROVE  Doors!DoorNext
  <2>1. b \in Box(Edge)
    BY GoReachIsTyped DEF GoInv, Box
  <2>2. b \in Doors!Box(Doors!EdgesInReach)
    BY SameReach DEF Box, Doors!Box, Doors!Faults, Faults
  <2> QED
    BY <1>4, <2>1, <2>2, ArriveIsArrive DEF Doors!DoorNext
<1> QED
  BY <1>1, <1>2, <1>3, <1>4 DEF GoNext

(* The Go door implements the door, for any number of heirs and names: it  *)
(* honours the same asks and is left with the same keys (door.go, judge    *)
(* and move, against quo.js, arrive).                                      *)
THEOREM GoDoorIsTheDoor == GoSpec => IsTheDoor
<1> QED
  BY InitIsInit, InvInit, InvNext, StepIsStep, GoInductive, PTL
  DEF GoSpec, IsTheDoor, Doors!DoorSpec

(* And every box hears the same reply from it as from the JavaScript door, *)
(* in every state either can reach.                                        *)
THEOREM GoDoorSaysTheSame == GoSpec => []SaysTheSame
<1>1. GoInv => SaysTheSame
  <2> SUFFICES ASSUME GoInv, NEW b \in Box(GoEdgesInReach)
               PROVE  GoReplyText(b) = Doors!ReplyText(b)
    BY DEF SaysTheSame
  <2>1. b \in Box(Edge)
    BY GoReachIsTyped DEF GoInv, Box
  <2> QED
    BY <2>1, SameReply
<1> QED
  BY <1>1, GoInductive, PTL
=============================================================================
