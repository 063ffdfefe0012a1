# Quo, specified

A TLA+ development of Quo: the door of a ward, the standing that asks at it,
the carriers between them, and the programs of this repository that stand
them. The definitions follow the code under `src/`; where a document and the
code differ, the code is what is modelled and the difference is a finding.

## The system

Quo is a protocol between two ends. A *ward* makes *heirs* and hands out
*invitations*; whoever holds one *stands* on the heir, and *asks* at the
ward's *door*. An ask and its reply are sealed boxes; a *carrier* takes the
ask's bytes to a ward and brings the reply's bytes, or nothing, back. The
first ask, the *knock*, *binds* the heir to a key of the asker's own. From
then on both ends *move*: the door on every ask it honours, the standing on
every object it reads. The two ends never agree on anything in one step, so
what each keeps must meet what the other kept, whatever was lost between.

The repository holds five *kits* that implement both ends and the carriers
(JavaScript, Go, Rust, Python, Zig), each with a *stand*, a program driven by
JSON lines; and a *verifier* that drives any stand and judges it.

| Component | State | Operations | Where it meets others | What makes it correct |
| --- | --- | --- | --- | --- |
| Boxes and edge keys (`box.js`, `box.go`, `box.py`, ...) | none | seal and open asks and replies, follow an edge key | both ends | a box opens with the one secret it was sealed to |
| Door (`quo.js` Ward, `door.go`+`ward.go`, `quo.rs` Door, `door.py`, `quo.zig` Door) | relations by heir, kept keys of released ones | invite, release, arrive | answers every carrier | a number is honoured once, a heir binds once, words reach admitted keys only, a release is final |
| Standing (`quo.js` Standing, `asker.go`, `quo.rs` Standing, `standing.py`, `quo.zig` Standing) | phase, signing key, edge key, numbers, the knock, the last ask | ask, read | seals for a carrier, reads what it brings | it is bound only if its own knock bound the heir; what it asks next is admitted |
| Stand (`stand`, `main.go`, `bin/stand.rs`, `main.zig`) | wards, names, routes, listeners, sends in flight | ward, invite, release, arrive, ask, read, listen, route, send | drives the two ends and the carriers | one send at a time on a relation, every send ends |
| TCP carrier (`tcp.js`, `carrier.go`, `carrier.rs`, `carrier.py`, `tcp.zig`) | connections, pending asks by id, timers | ask, frame read, timeout, close | dial to listener | an ask gets its own reply or nothing, once, and no reply of another |
| Web carrier (`web.js`, `web.go`, `web.py`) | posts, held lines, fragments of a message | post, open, message, close | dial to listener | as TCP; a line closing finishes what it took |
| Addresses (`address.js`, `address.go`, ...) | none | read an address, pick the dialable | stand | an address reads one way |
| Values (`json.js`, `value.go`, `json.rs`, `values.py`) | none | parse, refuse doubled keys | payloads and replies | a payload two readers would read differently is refused |
| Cryptography (`crypto.js`, `ed25519.js`, `crypto.rs`, `crypto.py`, `mlkem.js`, `primitives.js`) | none | primitives | boxes | abstracted: draws are fresh, HKDF is injective, a signature is by its key |
| Verifier sessions (`verify.js`, `carried.js`) | its own books of a kit's relations, a stand's channel of waiters | ask, judge, move, bind; reply, follow; catch, forward | drives a stand over pipes | its books are what a right kit holds; a right kit passes and a wrong one does not; a line answers one waiter; every scenario ends |
| Verifier hold (`hold.js`, `frame.js`, `web.js`, `websocket.js`) | a waiter, a frame line | wait for the next ask, answer it | stands in for a carrier | an ask reaches the wait it was sent for; one nobody waits for is answered nothing |
| Vectors (`vectors/arithmetic.json`) | none | data | tests | not code |

What is hard in it:

- *Loss at every point.* The door moves before its reply is delivered, so
  after any loss the door is one move ahead of the standing, and it must keep
  both the keys the standing has and the keys the standing would have moved
  to.
- *The knock in doubt.* A knock that brought no object back may have bound or
  not. Sending it again and probing alternate; both may be under way at once
  when a dial was given up but its bytes still arrive.
- *Replay and reordering.* Anyone may send a box again. Only the number and
  the edge key decide, and the number is the asker's.
- *Two hands on one invitation.* An invitation is text; two parties may knock
  on one heir.
- *Release under way.* An heir may be released between an ask and its reply.
- *Dials that end.* A timer, a close and a reply race for one pending ask.
- *Two sets of books.* The verifier judges a kit it cannot look into: what it derives
  of the kit's keys must stay what the kit holds, through every choice a right kit
  has and every answer that does not come.
- *State between a seal and a read.* What a reply is read against is kept in
  `Standing.last`; an operation outside the send's chain overwrites it.

## The modules

| Module | Models | State | Composes |
| --- | --- | --- | --- |
| `Boxes` | `lib/box.js` | none: what a box is to the two ends | |
| `Door` | `Ward` of `lib/quo.js` | `heirs`, `removed` (the two maps of `Ward`), `honoured` (a history) | `Boxes` |
| `Standing` | `Standing` of `lib/quo.js` | `st`: the fields of every standing | `Boxes` |
| `Promise` | what both ends promise, with no box in it | `stage`, `holder`, `count`, `learnt` | |
| `Exchange` | the ops `invite`, `release`, `ask`, `arrive`, `read` of `stand` | and `asks`, `replies`: all that was ever sealed or answered | `Door`, `Standing`; refines `Promise` |
| `Send` | the op `send` of `stand` | and `carrier` (what the carriers may do), `dial`, `late`, `failures` | `Exchange` |
| `Dial` | what any carrier gives whoever dials it | `outcome`, `taken` | |
| `Lines` | `lib/tcp.js`, dialer and listener, and the held line of `lib/web.js`, at one address | `carrier` (which of them), `current`, `pending`, `next`, `sock`, frames `held`, `up` and `down`, the promises `dials` | refines `Dial` |
| `GoDoor` | `ward.go`, `door.go` | `byPK` and `named` (the two maps of the Go `Ward`), `honoured` | `Boxes`; refines `Door` |
| `GoStanding` | `asker.go` | `gs`: the fields of every Go standing | `Boxes` |
| `GoExchange` | the ops of `main.go`, sends overlapping | and `asks`, `replies`, `flight` (the `Sent` each goroutine holds) | `Door`, `GoStanding`; refines `Promise` |
| `GoSend` | the op `send` of `main.go`, `carryFirst` of `carrier.go` | and `way`, `late`, `failures` | `GoExchange` |
| `GoCarrier` | the tcp line of `carrier.go`, dialer and listener, by goroutine | `stands` (`Kit.dials` at one address), `dmu`; of each line `conn`, `closed`, `nextID`, `waiting`, `reader`; of each ask `chan`, `carry`; the far end | refines `Dial` |
| `Play` | the loop of `verify` over its scenarios, `Verifier.record`, what the verifier's tests do to a kit | `scene`, `kit`, `at`, `failed`, `phase`, `alive`; `late` (a history) | |
| `Scenarios` | the scenarios at a door of `verify.js`, `wholeRelation` of `carried.js`: as data | none | `Boxes` |
| `Session` | `Session` of `verify.js`: the verifier's books, its judging, its following of the move | `rel`, `flight` | `Door`, `Scenarios`, `Play` |
| `AskerRun` | `AskerRun` of `verify.js`, the lists of replies of `verify.js` and `carried.js` | `mints`, `taken` | `Standing`, `Play` |
| `Hold` | `Hold` of `hold.js`, `Dial` and `AtDial` of `carried.js` | `waiter`, `sends`, `unwaited`, `reached` | `AskerRun` |
| `TwoKits` | `Pass`, `twoKits` and `verifyTwo` of `carried.js` | `caught`, `forwarded`, `answer`, `heldBack` | `Door`, `Standing`, `Play` |
| `Harness` | `Stand` and `harnessErrors` of `verify.js`, at the other end the book of the JavaScript `stand` | `waiters`, `nullWaiters`, `wire`, `said`, `book`, `knows`; histories `matched`, `givenUp`; `stray` | `Play` |
| `Verify` | the verifier's run | | `Session`, `Hold`, `TwoKits`, `Harness` |
| `DoorProofs`, `GoDoorProofs`, `ExchangeProofs`, `SendProofs`, `LinesProofs`, `GoExchangeProofs`, `GoCarrierProofs`, `VerifyProofs` | theorems about `Door`, `GoDoor`, `Exchange`, `Send`, `Lines`, `GoExchange` with `GoSend`, `GoCarrier`, and `Verify` | | |
| `MC...` | small instances for TLC | | |

How they stand on one another:

    Promise <== Exchange = Door + Standing       Dial <== Lines, GoCarrier
                   ^                               :
                 Send  . . . . . . . . . . . . . . :  (stands on what Dial gives)

    Promise <== GoExchange = Door + GoStanding   Door <== GoDoor
                   ^
                GoSend

    Verify = Session (Door) + Hold (Standing) + TwoKits (Door, Standing) + Harness

`X <== Y` reads "Y implements X", and each is checked by TLC as a property of
a run or proved. `GoExchange` stands on `Door` and not on `GoDoor`: that the two
doors are one door to whoever asks is what `GoDoorProofs` proves.

### How state and actions correspond to the code

*Door.* A relation of `Ward.heirs` is a record with the fields of the code
(`H`, `V`, `O`, `F`, `high`) and a stage: `fresh` until it is bound, `spent`
after, `absent` when the map has no entry. `Arrive(b)` is the whole of
`Ward.arrive`: `Refused` gathers the cases that are answered silence, in the
order the code tries them; `Verdict` the words; `Moved` the tables of the move. A
box is judged by what it was sealed with, so a box that does not open is a box
under another edge key or with a `fault`; its bytes do not appear. `MaxCount`
stands for 2^53 - 1. The history `honoured` is read by no guard: it names
the agreement of a move, drawn in the code, by the place of the move in it.

*Standing.* `StandingAsk` is `Standing.ask`, with the choice between knock,
probe and plain ask; `StandingRead` is `Standing.read`, which reads against
`last`, whatever was sealed last. `moved` is the highest number an object was
read for. The standing draws a key for every ask: `Drawn(p, n)` is the key party
`p` draws for its n-th.

*Send.* One send at a time holds a relation, as the code chains them.
`SendStarts` seals; `DialArrives` is the listener handing the box to the door
and the reply to the dial; `SendReads` reads it; `DialGivesUp` is a dial's
timer or a closing socket, which leaves the bytes under way (`late`) and tries
the next address; `CarrierAlters` is a carrier that is not honest.

*Lines.* `pending[c]` is the map of the connection, `dials` the promises the
asks wait on. `DialerReads` takes one frame; `SocketCloses` is the handler that
`error` and `close` share on a tcp socket and may run twice for it. What the listener
of another program may send is `RogueFrame`. The `LineDialer` of `web.js` keeps the
same map and differs where its line is opened: an ask waits on the promise `open`
(`held`), `LineOpens` writes what waited, the asks given up meanwhile too, and
`LineRefuses` ends what waited on a line that did not open or opened as no line of Quo.

*The verifier.* `kit` says what it is run against: a `right` kit, one that stands a
`door` alone, the two its tests spoil (`short`, a byte short to strangers, and
`stray`, with a line of its own on stdout), and the two its manual names (`silent`,
`nothing`). A right kit is not written anew: at its door stands `Door`, as its asker
`Standing`, and at its end of the pipes the book of `examples/javascript/stand`.
The verifier does not know what these hold. It keeps books of its own, `rel` of a kit's
door and `mints` of a kit's standing, from what it sent and what came back, and
chooses its next step by them. Each `check` of the code is an element of `failed`, with the
step it stands at.

A scenario of the door is a sequence of steps (`Script`), each what one call of
`Session.ask` passes: who signs, under which edge key, what is announced, which
number, what may come back. `SessionAsks` resolves it against the books and sends it,
`StandArrives` is the kit's door, `SessionJudges` is the rest of `Session.ask`: the
judgement, `move`, `bind`. `SessionAsksTwice` and `SessionJudgesTwo` are
`atOneMoment`, where two asks are under way. `Written`, `Times` and the like spell
the loops of the code out; payloads that a door refuses alike are one step each, of
one fault.

A scenario of an asker is a list of replies (`Lists`). `AskerRun.ask` is `AskerAsks`,
where the kit gives the box over its channel, or `DialSends`, `KitSeals` and `HoldTakes`, where
it dials a listener of the verifier: then the ask, the program's own answer
(`KitStops`) and the timer (`HoldTimer`) race for one `waiter`, and a send that was given up
may dial into a later wait. `TakesApart` opens the box under the keys a right kit may
ask under (`Ways`), and `Followed` keeps the books by the reply.

Between two kits (`TwoKits`) each step is an ask caught from the second kit, what is
delivered of it to the first, and what the second may read for it. `Harness` is the channel itself:
a line written, a line answered, an answer matched to its waiter, a wait given up, and answers
that come after it.

*Go.* `GoDoor` keeps every heir it made in one map, with flags, and a map of
names. `GoStanding.Seal` returns a `Sent` that the caller reads its reply
against, so sends of one relation may be under way together: `flight[p]` has a
slot for each. Every call is made under the kit's mutex, so each is one action.
What the mutex does not order is the order of the calls: `GoExchange` takes any.

*Go lines.* An action of `GoCarrier` is what a goroutine does from one lock, channel
or socket to the next. `carry[a]` is where the goroutine of an ask stands in
`Kit.carry`, `reader[c]` where the one of a line stands in `dialed.read`: between
`ReadsFrame`, which takes the waiter out under `dialed.mu`, and `HandsOver`, which
sends on its channel, anything may happen. `dmu` is a variable because a dial holds
it over several steps; `dialed.mu` never outlives an action. A channel is
`NoFrame`, the one frame it has room for, or `Shut`.

## What is checked

Each run is one question; `PROJECT.json` has for every property a mutant of
the code's definitions that breaks it.

| Run | Asks | Shows |
| --- | --- | --- |
| `door` | everyone sends any box to one ward | numbers honoured climb; the heir's key dies at its knock; the asks honoured are one chain of edge keys; the keys admitted are what the history says; a release is final |
| `exchange` | one invitation, two parties, boxes and replies in any order, repeated or never | who is bound is who bound it; what a standing moves on was honoured from it; strangers hear silence; both ends keep `Promise` |
| `send` | `send` over two addresses, three failed dials; carriers that deliver late, or that alter | a bound standing is admitted; a knock in doubt is settled |
| `send_stuck` | carriers that do both | **a bound standing left outside**: see the findings |
| `lines` | two asks, two connections of tcp or two held lines, two frames of a foreign listener | each dial ends, once, with its own reply, a forged one or nothing; at most one connection stands; it is the `Dial` that `Send` stands on |
| `go_door` | everyone sends any box to a Go ward | it implements `Door` and says what `Door` says; each heir held has one name, and a name leads to no other |
| `go_echo` | asks with args in which a key is repeated | **an honoured ask answered with silence by a reach that echoes**: see the findings |
| `go_exchange` | one invitation in two Go hands, asks and sends overlapping, in any order | a standing that moved is admitted unless a later ask of its own was honoured; who is bound is who bound it; `Promise` is kept |
| `go_send` | two sends at once over two addresses, one dial given up or altered | a knock in doubt is settled; while nothing was lost, the next send is admitted |
| `go_carrier` | two asks, two lines, one frame of a foreign listener; the listener reads | no channel is sent on when closed or full, nor closed twice; no ask is left in a line that was shut; every ask ends; it is a `Dial` |
| `go_carrier_unread` | the listener may stop reading | **an ask that never ends**: see the findings |
| `verify` | every scenario modelled, against every kit it can tell something of | a right kit fails no check, whatever it chooses and even when its program exits; the verifier's books are what the kit's door and standing hold; a spoilt kit fails, and a kit with strangers' silences a byte short in just those checks; **a mute kit fails**, each of the two in its own way: see the findings; an answer goes to its own request; every scenario ends |

### The findings

`send_stuck` refutes, for the code, a sentence of the kit's own
`ANSWERS.md` (line 24): that once the move bound the relation only a knock is ever
in doubt. While the knock is in doubt, `Standing.ask` (`quo.js:335`) sends
the knock again and probes in turn. The knock is altered on its way and reads as
silence; the probe after it is given up, its bytes under way; the knock again
binds, and its object moves the standing; then the probe arrives, signed by the
key held, under an open edge key, and numbered above: the door honours it and
drops the edge key the standing moved to. The standing is bound, neither
knocks nor probes, and everything it asks meets silence. `send` shows that it
takes both an altered reply and a late arrival: with carriers that do one of them
alone the property holds.

The Go kit's document says of the Go standing that a lost later reply may leave
it behind (question 22 of its `ANSWERS.md`), so there the model is not in
disagreement: `AdmittedUnlessPassed` says exactly when it may happen, and
`QuietIsAdmitted` that it does not when nothing is lost.

`go_carrier_unread` refutes what the Go kit's `ANSWERS.md` says of its waits (line
100): five seconds to reach an address, ten for the reply, then nothing. `Kit.carry`
writes the ask before it starts the timer, and the write has no deadline. When a
listener keeps the connection and does not read, the sockets fill and the write
waits, with every later ask on that line behind its write lock. While the listener
reads, every ask ends.

`go_echo` refutes what the Go kit's `ANSWERS.md` says of args (item 27, line 193): that
repeated keys in them are taken and that `echo`, `marked` and `moved` answer with them.
The payload's reader passes over the args (`value.go:131-179`), so the ask is honoured; the
echoing reach gives them back as its object; `replyText` (`door.go:82`) parses that
object, now the outermost one, and `Parse` refuses a key twice (`value.go:195-198`). The
relation moves and silence goes out. Only the args' own keys matter: a key repeated in a value
inside them is never looked at. The JavaScript kit does the same
(`SaysTheSame`), and its own `ANSWERS.md` (line 32) says that it does.

`verify` shows that a sentence of the verifier's manual (`VERIFIER.md`, line 8) is not
so: that a kit that answers every arrival with silence, or with nothing, passes.
`FailsAMuteKit` says how the two fail, and it is not alike. *Silence*:
`Session.judge` wants an object where the reach of the heir gives one
(`verify.js:522-523`), and its check (`verify.js:552`) fails; but a silence moves the
verifier's books (`verify.js:656-660`), so `bind` does not throw and the scenario runs
to its end. *Nothing*: `judge` accepts it at every ask (`verify.js:447-455`) and no check of a
reply fails, but it moves no books, so `bind` finds the heir unspent after its knock
and throws (`verify.js:693`), and the scenario is recorded as one that did not run to
its end.

### Bounds

- *One heir* in most runs. An action of the door touches one relation, and no
  guard reads two. The theorems are for any number of heirs. `go_door` has *two*, with
  *two names*: a name is given again after its heir was let go, spent or not, while another
  may hold the other name. Of two heirs each is asked with success *once* at most (`Within`
  in `MCGoDoor`); alone, an heir whose reach answers is asked as often as the numbers allow.
- *Two parties* on one invitation, the fewest that can dispute it. Runs about one
  relation's own order (`send`, `send_stuck`, `go_send`) have one party.
- `door`, `go_door`, `go_echo`: *three keys* (the heir's and two more) and *numbers to 3*:
  a held key, a vouched key and their exchange; a repeated, a lower and a higher
  number; plus 0 and 4, which the door refuses. The number also bounds the length
  of a history, so chains of three moves are reached.
- `exchange`: *two asks* each, the knock and one after it, each
  repeated freely. `go_exchange`: three for one party alone, so that the latest, the one
  before and the knock can be read in every order, and two each once both have
  sealed one (`MaxShared`); *one send* of a party under way beside its asks.
- `send`: *five asks, three failures*: the finding takes three asks and two
  failures, and the two asks beyond the failures let doubt be settled. `MaxAsks`
  bounds the probes a party has left, so `Settles` needs more asks than failures:
  with as many failures as asks the standing would run out of asks, which the code
  does not.
- `lines`: *two asks* to be mistaken for one another, *two connections*, so that the
  second close of the first meets its successor, *two foreign frames*.
- `go_carrier`: *two asks, two lines*, so that one ask may be registering on a line
  another's failure shuts, and a line be dialed after it; *one foreign frame*; *room
  for one ask* in the sockets, so that a write waits.
- `go_send`: *two slots* of overlapping sends, *one failure*, four asks: the knock, its
  probe and two more.

- `verify`: the scenarios are data and are played to their ends, with
  every heir, party and number they name; `MaxCount` is 99 for 2^53 - 1, above every
  number the scenarios count to by themselves. What may go wrong by the clock is bounded, and
  each bound is named at its definition: *one* answer of a kit too late in a
  scenario of an asker or of two kits, and with it one ask astray (a second one ends
  the scenario, as `Left` says); *two* requests given up over the channel (`MaxGivenUp`),
  *three* requests followed after each (`MaxAfter`), from the first of the four lines
  with no id to the last of them; a program that was given up on does not exit as
  well. After a missed answer, which of the later checks of the channel fail is
  left out: they depend on the request that was missed alone.

`SYMMETRY` is used in the runs without liveness properties only, over keys, names
or parties no definition tells apart.

`CHECK_DEADLOCK FALSE` where a run may stop: a caller may have no more to ask
(`MaxAsks`), a dialed ask is dialed once (`Lines`, `GoCarrier`), and a verified scenario is
done. In `door`, `exchange`, `go_door` and `go_exchange` some box can always arrive, or some
reply be read, again.

### Fairness

- `Send`: weak fairness of `DialArrives`, `SendReads` (the listener answers what
  reaches it; a promise that was settled runs its continuation) and of
  `SendStarts` (whoever holds a relation in doubt goes on asking: that is the user's,
  and without it no knock is ever settled). Failures are bounded and not fair:
  they may come anywhere or never. The ward's steps are not fair.
- `GoSend`: the same of `Goes`, `Arrives`, `Reads`, per slot: goroutines run.
- `Lines`: weak fairness of `TimerFires` alone: `setTimeout` fires. Nothing is
  assumed of the network or of the listener.
- `Verify`: weak fairness of `VerifierEnds`, the verifier's own steps and timers: `raw`
  and `nextAsk` set a timer for every wait, and `close` kills a program that does not end.
  Nothing is assumed of the kit, which may answer, hang or exit.
- `GoCarrier`: weak fairness of each goroutine of the dialer: `CarrySteps` (a dial ends
  by its deadlines, a wait by its timer) and `ReadSteps`. `AttendedSpec` adds that the
  listener reads on, as `serveFrames` does whatever its door does; that it answers
  is not assumed.

## What is proved

TLC checks an instance; TLAPS proves the following for all sets of heirs, keys, secrets,
parties and asks, and behaviours of any length. None of the invariants is inductive as
it stands; each proof module states the one that is, and why.

`DoorProofs`:

- `DoorTyped`: types, with the fact that no relation is bound to null.
- `HonouredOnce`, `HeirSignsOnce`, `HonouredOnOneChain`: the invariants
  `NumbersClimb`, `HeirDiesAtItsKnock` and `OneChain`. They speak of the history
  alone, and the door reads its relation. `DoorInv` adds what ties the two:
  `KeepsTrack` (a spent relation has the number and the edge keys of
  the last ask honoured, and neither key it admits is the heir's) and `StartsEmpty`
  (a fresh relation has no history, and what is removed is not held).
  `ChoiceExtends` then says of an honoured ask all that the three need.
- `AdmitsWhatItWasTold`: `AdmitsByHistory`, for which the two keys admitted must
  be shown to be two (`AdmitsTwo`); `WaitingAppend` says what one more ask does to
  the announced keys that wait.
- `ReleaseIsFinal`: the action property `ReleasedForGood`.

`GoDoorProofs`, for any number of names as well:

- `GoDoorTyped`, `GoNamesLead`: types and names.
- `GoDoorIsTheDoor`: `GoSpec` implements `DoorSpec` under the mapping `HeirsOf`,
  `RemovedOf`: initial states to initial states, `GoInvite` to `Invite`,
  `GoRelease` to `Release`, `GoArrive` to `Arrive`. The Go tables of the move ask
  which key signed in another order than the JavaScript ones; they are the same
  table because the key held and the key vouched for are never one key, the part
  `VouchedIsAnother` of the inductive invariant. That a name leads to a held
  heir is what makes a Go release a release.
- `GoDoorSaysTheSame`: every box hears the same from both.

`ExchangeProofs`, for any number of parties with any invitations:

- `ExchangeTyped`, `OnlyTheBinderIsBound`, `MovesAreHonoured`, `StrangersHearSilence`:
  the four invariants of `exchange`. What makes them inductive is in `ExchangeInv`:
  where every box comes from (`OwnAsk`: a party's first box is its knock and the only one
  the heir's key signs, and every later one is sealed on a chain rooted in its own knock),
  that a standing stands by what it sent (`StandsAsSent`), and that a relation's edge
  keys, held or kept, are rooted in the knock that bound it (`Rooted`). So a box that
  opens is the binder's (`AnswerIsTheHolders`), which is why a word or an object a
  standing reads says that its own knock bound.
- `PromiseKept`: `Exchange` implements `Promise`. An arrival binds, honours or changes
  nothing; a read learns or changes nothing; the rest is an invitation or a release.

`SendProofs`, for any number of addresses and failures as well:

- `SendIsAnExchange`: what is dialed or late was asked and what is read was answered
  (`SendKnown`), so a send, whatever its carrier does, is a run of `Exchange`, and
  `SendKeepsThePromise` follows.
- `BoundStaysAdmitted`: `BoundIsAdmitted`, if no carrier both delivers late and alters, as in
  the run `send`; `send_stuck` refutes it of one that does. A relation moves when an ask
  arrives and the standing when a reply is read, so `SendInv` says of every moment between
  that whatever of a party's asks may still move the relation is sealed under the keys the
  standing has (`InStep`), and that while an object waits to be read, the relation admits
  what it moves the standing to and nothing above it is under way (`ObjectAwaits`). The
  hypothesis is what makes the second inductive: the case left is a knock that binds
  with a probe of the same party late, and a party went on past its knock only because
  something answered it (`KnowsItsFate`); when nothing is altered, that answer
  says that the heir is fresh no more, so the knock binds nothing.

`LinesProofs`, for any number of asks, connections and foreign frames, of both carriers:

- `LinesTyped`, `WaitingStandsPending`, `OneStandsAtMost`: the invariants of `lines`.
  `LinesInv` adds that ids are counted, as many as asks were dialed on a connection, so none
  is given twice (`IdsCounted`); that a connection stands exactly while it is the
  current one (`OneStands`); and that a reply on its way answers an ask that was taken, under
  the id that ask went out with (`FramesMeant`).
- `LinesAreACarrier`: `Lines` implements `Dial`: each dial ends once, with the reply
  to its own ask, taken before, with what was forged, or with nothing. A close or a
  timer that ends many dials at once is one abstract step for all of them.

`GoExchangeProofs`, for any number of sends under way together:

- `GoExchangeTyped`, `GoOnlyTheBinderIsBound`, `OnlyPassedIsRefused`, `GoPromiseKept`: as above, with
  `AdmittedUnlessPassed`: a standing that moved is refused only when a later ask of its
  own was honoured. A reply is read against the `Sent` its goroutine holds, so the
  invariant says for each object what the relation keeps for whoever reads it
  (`ObjectStands`), until a higher number is honoured.
- `QuietIsInStep`: `QuietIsAdmitted` of `GoSend`, if the kit reads the args of its asks
  (`UnreadArgs \subseteq {FALSE}`, as in its run). An ask with args the kit does not read
  is honoured and answered with silence, and nobody is brought up by that: the property
  is false of a standing that sends one, so the hypothesis is needed.

`GoCarrierProofs`, for any number of asks, lines, foreign frames and any room in the
sockets, whether the listener reads or not:

- `OneHandEach`, `NobodyForgotten`, `OneLineStands`: the invariants of `go_carrier`.
  `GoCarrierInv` says by place where each carry may be found: in the map of its line
  (`InMaps`), in a reader's hand between two locks (`InHands`), or told
  (`Remembered`); and that a line not shut is the one `Kit.dials` holds or is being
  dialed by whoever holds its lock (`LastStands`, `LockHeld`).
- `GoLinesAreACarrier`: `GoCarrier` implements `Dial`. A carry ends when its goroutine
  reads its channel; what it then finds is its own (`GotItsOwn`), because a frame is
  taken out of the map under the id that its own ask was written with (`FramesMeant`).

`VerifyProofs`, for the whole run of the verifier and any bounds on what it gives up and
follows:

- `EveryAnswerIsOwn`: `AnswerIsOwn`. While the channel is tried no step of another
  scenario is taken (`StepsApart`), though they share the step counter. `VerifyInv` says
  that the request that waits is the one the scenario stands at and is outstanding once
  (`SentOnce`), and that an answer without an id comes for an earlier request only when
  that one, or one before it, was given up (`LateOnesWereGivenUp`). The second is what
  shifts: an answer taken by the wrong request leaves its own to come late in turn,
  and the one given up is then the cause of both.
- `KitStandsAsFollowed`: `TracksTheStanding`. A kit that asks or dials has no step of
  another scenario beside its own (`ListStepsApart`), and what it plays is one of four lists
  of asks and replies, of which the proof uses only that they are in order (`ListsInOrder`): a
  reply has its ask before it, and where a relation is given up nothing of it is left.
  `AskerInv` then carries, besides the equality the property states, three things it is
  not inductive without. A standing that moved on nothing signs with the key of its
  knock, and a box with a ciphertext is that knock (`Stands`): so a reply that brings no object
  leaves it where the books have it, whether it knocked again or probed. A reply still to be
  written is to the box the kit sealed last, and was taken apart into that box's own
  key, number and lid (`InStep`, for each relation that is `Unanswered`): so an object moves
  both by the same box. And a send the verifier stopped waiting for is of a relation the list
  is through with, at most one of each (`SendsInTurn`): so the ask that still comes
  changes no books in use.
- `SpoiltKitsFail`: `FailsAWrongKit`, of the two kits the verifier's tests spoil. For the
  one a byte short, `ShortInv` follows the scenario of strangers: after so many steps, what the
  door holds of its four heirs (`DoorAt`) and what the verifier has of the first
  (`BooksAt`); a reply under way is the one a right kit gives, but that silence does not read
  (`ReplyUnderWay`). The script is not unrolled: every step between the fourth and the last two
  is `Foreign` (`StrangersBetween`), and as long as the first heir is bound and the second
  fresh the door refuses whatever is (`StrangersAreRefused`). That invariant is as short
  as it is because strangers move nothing.

Assumed are the `ASSUME`s of the modules, which every run evaluates: `BoxesAssumption` (heirs are
keys; the zero head, null and no ciphertext are none; at least one number),
`StandingAssumption` and `GoStandingAssumption` (what a party draws is a key and a secret and no
heir), `AskerAssumption` (the relations the verifier's lists name are parties, each with an invitation
of its own), `SessionAssumption` (every heir, key and secret a script names is one, and no number it
counts to is out of range), `LinesAssumption` and `GoCarrierAssumption` (finitely many asks, so that
ids can be counted; the values that stand for none and for forged are no asks), and that the bounds are
numbers.

### What is only model-checked

- *Liveness*: `Settles`, `EveryDialEnds`, `EveryCarryEnds`,
  `EndsEveryScenario`. Fairness and ENABLED are out of this prover's reach.
- *The verifier's verdict on a right kit*: `PassesARightKit` and `TracksTheDoor`. They follow from
  all thirteen scripts of `Scenarios` as data, step by step: what one step makes of the heirs
  is what the next is judged by, and but for the scenario of strangers no invariant is
  shorter than the script. TLC plays each script to its end against every choice a kit
  has, and there is no constant in them to generalise over.

## What is not modelled

- *Cryptography*: a signature is by its key, a box opens with one secret, draws do not
  collide, HKDF is injective. Bytes and JSON text are reduced to what the door tells
  apart (`fault`, `unread`).
- *Ids of frames* do not wrap at 2^32, numbers do not reach 2^53 - 1.
- The *stands'* routes and listeners: one map each, and no two meet. What a JavaScript stand
  answers by its maps of wards, names and routes is in `Harness`.
- *Posts* (`web.js` of the kit and of the verifier): one exchange on a connection of
  its own. The *readers* of frames, of HTTP heads and of WebSocket messages (`tcp.js` 17-49,
  `wsReader`, `frame.js`, `websocket.js`) turn one stream into messages with nothing beside
  them; the models take whole messages, and one that cannot be read ends the line.
- The *held line* shares `line`, `read`, `shut` and `carry` with the Go tcp line, but its
  reader also writes (pongs, a close), which `GoCarrier` leaves out.
- Of the *verifier*: the scenarios of a listener at work, which play `theRelation` and
  `wholeRelation` over lines (`wholeRelation` is in `Scenarios`, as the scenario `carried`) and
  add checks on framing; the two strangers at a ward whose zero head has no reach, as the wards
  of a script are one door; a send with no route; checks on bytes that no state
  hangs on (lengths of the other replies, hex in its canonical form, texts). Its own values, addresses
  and primitives (`value.js`, `address.js`, `mlkem.js`, `primitives.js`) are pure functions on
  bytes.
- The *Rust, Python and Zig kits*: the protocol's ends again, with differences of their own:
  planned below.

## Plan

In this order:

1. *The other kits' ends*, each refining `Door` or keeping `Promise`: `quo.rs`
   (what was unsent, what settled), `door.py` and `standing.py`, `quo.zig` with
   its bounded tables. The doors are best driven together: one run in which every
   kit's door hears each box, and all must answer alike.
2. *Carriers*: the held line of `web.go`, whose reader writes, and the verifier's
   listeners at work.
3. *Pure algorithms*: addresses and the doubled-key rule of the JSON readers, over
   bounded inputs.
