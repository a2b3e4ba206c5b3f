# GalaxiE: specifications, model checks and proofs

GalaxiE is a client for Thousand Parsec games, written in C on top of Ecore.
It opens a TCP connection to a game server, logs a player in, and keeps a local
copy of what the server publishes: objects, order descriptions, resources,
designs and message boards.  The program has one thread.  What makes it hard is
not locking but order: bytes that arrive in pieces, answers that arrive long
after their requests, several requests in flight at once, frames nobody asked
for, callbacks that run while a frame is dispatched, and events that run later
from a queue.

This directory holds TLA+ modules translated from the C source, TLC
configurations that check them on small instances, and proofs checked by TLAPS
that hold for every instance.  The paths below are relative to `src/`.

## The system

`main()` (`galaxie.c:173`) initialises the modules in a fixed order (server,
comm, sequence, objects, orders, resources, boards, designs), connects, and
enters Ecore's main loop.  From then on code runs only when Ecore calls it.

| Component | State | Operations | Talks to | Hard behaviour |
|---|---|---|---|---|
| Byte stream (`server.c:323`) | the bytes saved between two calls | `server_receive` | frames to dispatch | TCP cuts anywhere |
| Requests and dispatch (`server.c`) | sequence number, callback list | `server_send`, `server_cb_add`, `server_handle_packet` | callbacks, then an event | answers of many frames under one number; callbacks that send |
| Event queue (`tpe_event.c`, Ecore) | events in order | `tpe_event_send`, handlers | all modules | an event is handled later than its frame |
| Connection and turn (`tpe_comm.c`) | turn, player, timer, `triedcreate` | login, timer, end of turn | `Connected`, `NewTurn` | refusals, answers mixed with announcements |
| Keeping in step (`tpe_sequence.c`) | `position` of each list | start, page of ids | every kind's cache | overlapping lists, pages, stale times |
| Objects (`objects.c`) | cache by id, tree, home | receive, siblings, children | `ObjectNew`, `ObjectChanged` | fetched later than listed |
| Orders (`tpe_orders.c`) | descriptions, orders of an object | receive descriptions; ask for orders, probe, insert, submit | objects, server | slots fetched again while orders are under way; two-pass writing |
| Resources, designs (`tpe_resources.c`, `tpe_ship.c`) | a list each | receive, look up | sequence | appended or replaced |
| Boards (`tpe_board.c`) | boards, slots, unread counts | receive, read, move | `BoardUpdate`, the reader in `tpe_gui.c` | refused messages leave gaps; boards fetched again while messages are under way |
| Parsing, formatting (`tpe_util.c`, `server.c:600`) | none | pure | all | sizes measured and written in two passes |
| Browser (`browser.c`) | list of servers | one request after another | server | none of note |
| Start (`galaxie.c`) | options | parse arguments and URLs, initialise, connect | all | handlers before their event types; options that override each other |
| Computer player (`ai_smith.c`) | none that matters | give an order to a planet without | `PlanetNoOrders`, orders | the planet is fetched again meanwhile |

The Makefile builds nothing else: the graphical interface, the computer players
(but for `ai_util.c`, which only they call), the EWL widgets and the Scheme
binding are commented out of it or never named.

What makes the components correct:

* the stream: frames whole, once, in order, whatever the pieces; no byte lost; no
  complete frame waiting; the exit for bad magic only at a bad frame;
* dispatch: the callback table holds exactly the requests whose answer has not
  begun; one callback per answer; events behind callbacks;
* connection: nothing before login, no refusal taken for a login, the turn in step
  with the game and each end counted once, an end to connecting;
* keeping in step: pages in order, all that the server has is cached when nothing
  is under way, nothing cached that is newer than the server's, versions never
  go back, objects announced as new once and first;
* orders: the slots show the orders the server has, an order comes after its
  description, and a planet is not given two;
* formatting and parsing: the two passes agree on sizes, what is sent is what was
  meant, what is read is what was sent, up to the end of the frame;
* boards: each message asked for once, stored in its slot, counted once, and found
  by the reader;
* start: the client logs in where and as whom it was told, and no handler is
  refused.

## Modules

| Module | What it models |
|---|---|
| `FrameChannel` | the promise of the receive path: an ordered channel of frames that may break at a frame the client cannot take |
| `ServerStream` | `server_receive()` on bytes, shown to implement `FrameChannel` |
| `ServerStreamProofs` | its inductive invariant and theorems |
| `Requests` | the promise of the callback table: requests answered once each and in order |
| `Server` | `server_connect()`, `server_con_event_server_add()`, `server_send()`, `server_cb_add()`, `server_handle_packet()` and the event queue, shown to implement `Requests` |
| `ServerProofs` | its inductive invariant and theorems |
| `Comm` | `tpe_comm.c` on top of `Server` |
| `BoardProofs`, `CommProofs`, `OrdersProofs`, `SequenceProofs`, `StartProofs` | inductive invariants and theorems of the module they are named after |
| `Lists` | sorting a set of numbers and selecting from a list, in a form that can be proved about |
| `QueueLemmas` | lemmas about `Lists` and about counting in queues, for the proofs |
| `Sequence` | `tpe_sequence.c` and the kinds registered with it, on top of `Server` |
| `Board` | `tpe_board.c`, and the icon and message boxes of `tpe_gui.c`, on top of `Server` |
| `Orders` | the orders on planets: `objects.c`, `tpe_orders.c`, `ai_smith.c`, on top of `Server` |
| `Start` | `galaxie.c`, the registry of `tpe_event.c`, each module's initialisation, `browser.c` |
| `Wire` | numbers, strings and lists as the protocol encodes them: the reference for the next four |
| `Packet` | `format_server()`, `server_send_strings()`, `tpe_util_parse_packet()` on bytes |
| `OrderArgs` | the arguments of an order, read, measured and written again |
| `OrderInserts` | the requests to move, colonise, build and probe |
| `Blocks` | `parse_block()`, with the descriptions of messages and of object descriptions |
| `MC...` | the instances TLC checks |

**ServerStream.**  A byte is its offset in the stream, because offsets are all
that the code can get wrong.  `held` is `server->buf`, `work` is the buffer of
the call in progress from `start` on.  `Receive` joins the saved bytes with the
new ones, `HandlePacket` is one round of the loop, `BadMagic` the exit, and
`SaveRest` the end of the call.  The assertion at the top of
`server_handle_packet()` is part of `HandlePacket`: a frame without a payload
ends the program, because the data pointer is never NULL.

**Server.**  One step is one call from the main loop: `ServerAdd` (connected),
`HandlePacket` (a frame, with its callback and all that it sends),
`HandleEvent` (a handler with all that it sends), `ClientSends` (a timer).  What
a callback or handler sends is a parameter, so that the client modules supply
it.  `cbs` is the list of `struct server_cb` as a set, and an entry is made
without a callback too, as in the code.  `toServer` and `fromServer` are the two
directions of the wire, with frames in the order `FrameChannel` promises.  The
peer is modelled from how the client uses it: it answers requests in order, with
one frame or with several under one number.  The field `first` of a frame is for
the properties; no client action reads it.

**Comm.**  `SocketConnect`, `MayLogin`, `LoginRefused`, `LoginAccepted`,
`PlayerId`, `TimeRemaining` and `GetTime` are the functions of those names in
`tpe_comm.c`.  `exit(1)` and the failing assertion are values of `ended`.
`connect->accountregister` is read in `tpe_comm_logged_in()` and set nowhere
(the feature handler is a stub), so what follows `MsgCreateAccount` is left out.

**Sequence.**  `Start` is `tpe_sequence_start()`, `HandleOids` is
`tpe_sequence_handle_oids()`, `Receive` is the receiving handler of each kind.
`cache[k]` is a list, since two of the kinds (order descriptions, designs)
append what arrives and look it up from the front, while objects and resources
are replaced in place.  Boards and object descriptions are registered in the
code too and are not kinds here: boards have a module of their own, and object
descriptions are printed and not kept.

**Board.**  `BoardReceive`, `MessageReceive`, `BoardUpdate` and the functions that
walk the slots (`TurnGet`, `NextOf`, `PrevOf`, `NextTurnSlot`, `PrevTurnSlot`) are
those of `tpe_board.c`; `IconUpdate`, `OpenBoard` and `Click` are what
`tpe_gui.c` does with a board's icon and a message box.  In the code as it is no
message is kept, for two reasons: the list of boards stays `NULL`
(`tpe_board.c:129`), and messages are parsed into no structure
(`tpe_board.c:211`).  The set `repaired` says which of the two are taken to work.
With `{}` the module is the code, and everything is fetched anew each turn; with
both the rest of the component can be checked.

**Orders.**  `DataReceive` is `tpe_obj_data_receive()`, `ObjectUpdate`,
`OrderReceive` and `StrGet` are the functions of `tpe_orders.c`,
`SmithOrderPlanet` and `SmithInserts` those of `ai_smith.c`.  How many orders an
object has stands in parameters that nothing reads since protocol 4, so in the
program as it is an object has none (`paramsRead = FALSE`), and the computer
player is not built.  `paramsRead = TRUE` takes the number to be read.  `patient`
says whether turns wait until nothing is under way.

**Start.**  An argument is the entries of the table it begins with, a value
behind `=`, and the fields of the URL it is.  One step is one argument, then one
module's initialisation, then what `main()` starts.  `talloced` tells names that
came from a URL from those that did not, because the two are freed by different
means.

**Packet, OrderArgs, OrderInserts, Blocks.**  A byte has `Radix` values, a string
is its characters.  Writing keeps the two passes apart: the first counts words
(`measured`), the second puts bytes at the positions it reaches (`payload`).
Reading keeps the offset, the pointer a `p` saves, the values stored and the
reason to stop.  A behaviour is one frame: from the client (any format it sends),
from the server (any format it reads, whole or with fields missing at the end),
an order that is read and submitted again, a request written by hand, or a frame
read into a structure.  An answer to a probe goes on as an order.

## Runs

| Run | Shows | Bounds |
|---|---|---|
| `stream` | the four properties of the stream and that it implements `FrameChannel`, liveness included | headers of 2 bytes, payloads of 0 to 2, 3 frames, good and bad magic |
| `server` | the table and the wire agree, numbers are unique, events follow callbacks, and `Requests` is implemented, liveness included | numbers up to 4, up to 2 requests a step, answers of 1 or 2 frames, 1 unasked frame |
| `comm` | connecting and following the turn, with or without an account | numbers up to 8 (the timer fires twice), 3 turns |
| `comm_player` | a **disagreement**: player data behind a sequence header never reaches the client | as `comm` |
| `sequence` | objects and designs kept in step over ends of turn | 2 ids, pages of 1 or 2, up to 2 lists started by ends of turn |
| `sequence_overlap` | a **disagreement**: a turn that ends while pages arrive leaves an object out of date | the same, `Patient = FALSE` |
| `sequence_design` | a **disagreement**: a changed design is never found | the same, designs only |
| `board` | counts, requests, what is kept and shown, and where the reader is taken | 1 board, 3 messages, 1 refused, 2 turns, 2 boxes, as the code is and repaired |
| `board_saved` | a **disagreement**: no message is ever kept | the same, as the code is |
| `orders` | slots show the server's orders, orders come after their descriptions, one order at a time | 1 planet, 2 types, pages of 1 or 2, 3 orders fetched 2 at a time, 2 turns, parameters read or not, patient or not |
| `start` | logging in as told, no fault with a plain line, every handler heard | 20 arguments, lines of up to 3 |
| `packet` | what is sent is meant, what is read was sent, orders come back as they were | bytes of 4 values, strings of 0, 1 and 4 characters, lists of up to 2, orders of up to 2 arguments of every type |

Why the bounds are enough.  In `stream`, a header of two bytes and payloads of
up to two let a piece end in a header, between header and payload, in a payload
and between frames, and three frames give a handled one, one being handled and
one behind; the proof covers the rest.  In `server`, two requests in flight, one
of them with a second frame still to come, and a third sent by the first's
callback are within the numbers up to 4; the proof covers the rest.  In `comm`,
six numbers are used by connecting, so two remain for timers, and with three
turns an end of turn may come before, during and after login.  In `sequence`, two ids
with pages of one id give a list in two pages, and a thing may appear, change
and go; a kind that is replaced and one that is appended stand for the four,
which differ in nothing else the model keeps.  `Patient = TRUE` in the passing
run keeps a turn from ending while a list in several pages is under way: without
it the code is wrong, which is what `sequence_overlap` shows.  It does not keep
turns from ending at any other moment.

In `board`, three messages over two turns with one refused give gaps at either
end and in the middle, and two boxes a box that is moved beside one that is
not.  In `orders`, three orders with portions of two give a full and a partial
portion, and two the empty one; two types in pages of one let an order overtake
its description, and two turns let an object be fetched again, with fewer
orders, while its orders are under way.  In `start`, three arguments are an
option, its value and something that overrides it.  In `packet`, a number has
four digits and its bytes differ, so that a wrong byte order shows; strings of
one character need padding, of four none, and the empty one is written
differently; two arguments put each type in front of each other.  Lists of
types with a range anywhere but last are walked and not judged, for the reason
given under the disagreements.

`FirstTime = 1` in the runs of `Sequence`: an object that is not cached counts
as updated at time 0, so a thing that the server dates 0 is never fetched and
`CatchesUp` fails with `FirstTime = 0`.  Servers date things by the clock.

The passing runs stop when their bounds are used up, and the program of course
stops when it exits, so deadlock is not checked.

### Fairness

Ecore's main loop reads what has arrived and works through the event queue: weak
fairness of handling a frame and of handling an event.  Data that TCP has taken
is delivered: weak fairness of `Arrival`; and a call once begun goes on: weak
fairness of `Parse`.  That the server answers is an assumption on the
environment, without which no client makes progress.  Nothing is assumed of
timers, ends of turn or frames sent unasked.  `Board`, `Orders`, `Start` and the
modules of frames state safety alone and assume no fairness.

## Disagreements between code and comments

* `tpe_comm.c:278` "Ahh.. just the sequence header... drop it".  The callback is
  called for the first frame under its number and removed (`server.c:440`); the
  data behind the header finds no callback (`comm_player`).
* `tpe_sequence.c:52` "A registered sequence will automatically handle sequence
  updates".  Two lists that overlap share `position` (`sequence_overlap`), and what is
  appended is looked up from the front (`sequence_design`).
* `tpe_board.c:198` "Saves the new message in the boards list of messages."  The
  list of boards is lost and the message is refused by the parser (`board_saved`).

What modelling showed besides, without a run of its own:

* `tpe_comm.c:171` "it will try once to register the account first".  Nothing
  sets `accountregister` (185).
* `tpe_gui.c:1217` says that going back shows the first message of the turn
  before; `tpe_board_board_message_prev_turn()` returns the last.  The walk to
  another turn follows slots that may be empty (`tpe_board.c:382`, `399`), and a
  middle click that finds no message leaves a box whose next click fails an
  assertion (`tpe_gui.c:1232`).  `TripsOnlyAtGaps` says that nothing else stops
  the reader.
* A message the server refuses is never asked for again (`tpe_board.c:188`).
* `tpe_orders.c:249`: when an object has a multiple of a hundred orders, the last
  portion asked for is empty.  `OrdersShown` states exactly which slots stay empty.
* `tpe_orders.c:497` follows a description that may still be under way when
  descriptions come in pages; `OrdersFindTheirPlace` states when.  The check of the
  slot (314) lets one too many through.
* `tpe_orders.c:374`, `386`: reading a range or a player does not save where the next
  argument begins.  `928`, `966`: a relative place and a list are not written as they
  are read, so that `tpe_orders_order_update()` does not submit the order it got.
* A probe has two words too many for each list (`tpe_orders.c:47`), ends the program
  when it is refused (809), and building does not look at whether its type is known
  (`tpe_orders.c:677`).
* `tpe_util.c:122` looks for the end before a field and not behind it: one field
  missing at the end of a frame is not noticed.
* `tpe_board.c:48` reads the number of a message's types as its unread count and
  does not read the types.
* `galaxie.c:260`: `rv += i` does not move past an option's value, so that `-p -bob` also
  starts the browser.  `galaxie.c:455`: the game of a URL is never taken.  `--ais` is
  shadowed by `--ai`; `--port` without a value reads `NULL`; a user name given after a
  URL that has one is freed by the wrong means (287).  The browser goes to
  `localhost` whatever server it is given.

## Proofs

Each proof module proves an inductive invariant `IInv` of its component and
derives the properties from it, for every value of the constants that satisfies
the named assumptions.

| Module | Theorems |
|---|---|
| `ServerStreamProofs` | `TypeCorrect`, `FramesInOrder`, `BufferIsExact`, `NoFrameWaits`, `ExitsAreJustified`, `ImplementsChannel` |
| `ServerProofs` | `TypeCorrect`, `TableIsExact`, `NumbersAreUnique`, `EventsFollowCallbacks`, `ImplementsRequests` |
| `CommProofs` | `TypeCorrect`, `LoginIsAgreed`, `TurnIsInStep`, `EachTurnIsSentOnce`, `TurnNeverGoesBack` |
| `SequenceProofs` | `TypeCorrect`, `NewIsAnnouncedOnce`, `PagesComeInOrder`, `SyncIsComplete`, `CacheNeverGoesBack` |
| `BoardProofs` | `CountsAlwaysAgree`, `AlwaysAskedOnce`, `AlwaysSavedAndShown`, `ReaderAlwaysFinds`, `AlwaysTripsAtGaps` |
| `OrdersProofs` | `OrdersAlwaysShown`, `OrdersAlwaysFindTheirPlace`, `AlwaysOneOrderAtATime` |
| `StartProofs` | `HandlersAreHeard`, `PlainLinesAreSafe`, `LoginIsAsTold` |
| `QueueLemmas` | no theorems of its own: counting in sequences, sorted sets, selections |

**ServerStreamProofs** assumes `HeaderSizeAssumption` (a header has bytes),
`LensAssumption`, `MagicsAssumption` and `MaxFramesAssumption` (types).
`NoByteLost` says that the buffer is the interval of the stream from the end of
the last handled frame to the last byte that arrived; with it, the front of the
buffer is always the start of a frame.  It is not inductive alone.  `Layout`
adds that frames lie in the stream one behind the other, and that what arrived
lies between the last handled frame and the end of what was written.
`ImplementsChannel`: every step maps to a step of `FrameChannel` or to a
stutter.

**ServerProofs** assumes `HeardAssumption`, `NoCallbackAssumption` and
`BoundAssumption` (types, and that the first number, 1, is within `MaxSeq`).
That the table is exact (`TableMatchesWire`) needs to know that removing the
entry of one frame removes no other open request and leaves none behind.
`NumbersUsed` (nothing carries a number not given out), `WireInOrder` (requests
and beginnings of answers are in the order of their numbers) and
`RestBehindFirst` (the rest of an answer whose request is open is behind its
beginning) give that.  In `ImplementsRequests`, handling the beginning of an
answer is `Answer` of `Requests`, sending is `Ask`, and all else is a stutter.
`WireInOrder` is what makes the request answered the oldest open one.

The modules that run on `Server` cite its lemmas with their own requests,
replies and callbacks in the place of the constants; so every one of their
steps is shown to be a step of the server as well, and its invariant is a part
of theirs.

**CommProofs** assumes `BoundAssumption` (types).  While the client connects, one
thing is under way at a time: a request, the first frame of its answer, or an
event that sends the next.  So the number of the client's last request tells how
far it is (`Stage`), and the number of a frame what it answers (`ByNumber`).
`LetIn` says when the server has let the player in: `LoginAgrees` alone is not
inductive, because a refusal and an acceptance are told apart by the request they
answer.  `TurnInStep` holds since the turns on their way rise from the client's
to the server's (`TurnsRise`) and the server's is known, asked for or on its way
(`TurnKnown`); `EachTurnOnce`, since the ends of turns handled and under way add
up to those the server has announced (`TurnsCounted`).

**SequenceProofs** assumes `BoundAssumption`: a finite set of numbers as ids, page
sizes of at least one, types, and a first time above 0 (see the runs).  Four parts
of `IInv` hold always: the server's own invariant; `Typed` (each request, frame
and event has the fields of its type, and a list's key is sorted and its page
within it); `Dated` (nothing cached or passing is newer than what the server has
of it, and nothing the server has is newer than its time) with `VersionsRise` (of
the versions of a thing in the cache and under way, those that come later are not
older); and `Announcing`, which counts what is told, queued and cached.  `NewOnceFirst` and
`CacheMonotone` follow from these.  The other two are proved under `Patient`:
`Pages` (a list in pages is alone under way for its kind, and `position` is where
its next page begins) and `Covered` (each thing of the server's is cached in its
version, or a list, a request, a frame or an event that is under way will bring
it).  The hypothesis is not for convenience: a turn that ends while pages arrive
makes two lists share `position`, `Pages` is then false, and so are the two
properties (`sequence_overlap`).  `PagesComeInOrder` and `SyncIsComplete` say
`ASSUME Patient`; nothing else does.

**BoardProofs** assumes `RepairsAssumption` and `BoundAssumption`: the boards are a
finite set of numbers, the bounds are numbers of any size.  `Posted` and `Meant`
say what the server has, and that what passes is said of it: a description is of
some time, a request is for messages that exist, a message has its turn.  Then, by
what they account for:

* `BoardsKept`, `BoardsGrow`: a board in the cache is as it was described, and
  the descriptions under way are of ever larger boards, none smaller than the one
  kept.  So copying the slots (`tpe_board.c:167`) never drops a message.
* `InOnePlace`: a message is in one place at most: asked for, in a frame, in an
  event, or held; with both repairs in one at least, unless it was refused.
  `AskedOnce` says this of two requests and is not inductive, since a request turns
  into a frame, the frame into an event and the event into a held message.
* `BoardsCome`: a board that lacks slots is asked for or on its way, described as
  the server has it.
* `IconsFollow`: the updates under way for an icon are newer than what it shows and
  than each other, and the last says how the board is.  `SavedAndShown` speaks of
  the moments when nothing is under way, and follows from these three.
* `BoxesHold`: a box that shows a message shows one that is held; `TripsOnlyAtGaps`
  follows from it and from where the walks over the slots stop (`WalkStops`).

**OrdersProofs** assumes `FlagsAssumption`, `TypesAssumption` and `BoundAssumption`:
finitely many planets and types of orders, numbered; pages and portions of at
least one; types.  `IInv` has three layers, by what they suppose of the server.

* Always: the server's own invariant, types, `ObjectsKept` (an object has a slot
  for each of its orders and is not newer than its planet), `Meant` (what is said
  is said about planets and objects there are) and `SmithCalled` (the callback of
  `ai_smith.c` is entered for probes alone, so that no other answer sends an
  order).  `NoneRead` adds that without the parameters of objects nothing about
  orders is ever under way.
* When descriptions come in one page: `DescriptionsFirst`.  A description that is
  not known yet is ahead of every request and every order that could need it, in
  each queue and from queue to queue (`Behind`): the page ahead of the objects it
  is asked for with, then its descriptions ahead of the orders.  It has to speak of
  all three queues, because the page is handled, and gives way to a request for
  descriptions, while the objects are still on their way.
* When turns end only in quiet moments and the parameters are read: `OneErrand`
  counts, for each planet, the requests, frames and events that may end in
  fetching it or giving it an order, and finds at most one.  It is what keeps
  `AllTrue`, that everything under way still agrees with the server: the server
  changes a planet only by the one order that is on errand, when nothing else is
  being said of the planet, or at the end of a turn, when nothing is said at all.
  `Renewed` (an object that is not as its planet is will be fetched, or has no
  orders to be wrong about) and `Filled` (a slot holds its order, will never be
  asked for, or is waited for) become `OrdersShown` when nothing is under way.
  `FewGiven` is what remains of an order once it is carried to the server.

`OrdersAlwaysFindTheirPlace` needs the last two layers, each for the reason its
property names: without them the program does stop.  `orders` reaches a missing
description.  A missing slot takes more turns than its bounds have: of two requests
for a planet's object the first is answered with one order and the second with
none, an order is given next, and the request for the first order's slot is
answered last.  With `MaxTurns = 4`, `MaxOrders = 1`, one type, and turns that end
at any moment TLC finds this in 74 steps.  How `Portions` cuts
the slots into requests is proved for every `Portion` and number of orders
(`PortionsAre`): the slots asked for are all but those of `Unasked`.

**StartProofs** assumes `TextAssumption` and `NumberAssumption` (types).  The
invariant follows the options through the arguments: where each string came
from, so which are freed by which means, what a plain line has set so far, and
which event types are registered at each stage of `main()`.

Only model-checked, and why:

* Liveness (`ChannelSpec` and `RequestsSpec` include it, the theorems are about
  their safety parts; `ConnectSettles`, `PlayerLearned`, `CatchesUp`): the prover
  does not do ENABLED or fairness.
* `Packet`, `OrderArgs`, `OrderInserts` and `Blocks`: recursive over data, which is
  out of the prover's reach.
* `IInv` of a module is not a run's invariant by itself: its parts that state
  properties are checked, and the strengthening is established by the proof.

## Not modelled, and why

* Several servers at once: each has its own buffer, numbers and callbacks, and
  the client connects to one.
* Losing the connection: the code has no handler for it.
* Things that disappear: `tpe_obj_list_end()` and `tpe_obj_cleanup()` are
  commented out, so the cache keeps what the server has dropped.  The server in
  `Sequence` drops things all the same, and the properties are about what it
  still has.
* The tree of objects (`objects.c:405`): siblings, children and parents are looked
  up by the graphical interface alone.
* The parameters of objects (`object_param.c`): tables no code reads.
* The fleets of the computer player: `o->fleet` is set nowhere,
  `tpe_obj_obj_list()` returns `NULL` and `PlanetColonised` is never sent.
  `ai_jones.c`, which is not built, builds two fleets instead of one.
* Clearing the orders of an object, which only that code calls, and the text an
  argument is printed as.
* In the formats: reading a header (`H`), which no caller asks for; arguments
  of players, whose reading is undefined, and of references, which have no writer.
  Messages with types, which are misread.  `parse_array()` and its tests.
* References of messages: read into the structure (`Blocks`), and shown nowhere.
* Drawing: the rest of `tpe_gui.c`, `gui_window.c`, `gui_list.c`, `gui/`,
  `tpe_gui_orders.c`, and the EWL widgets and Scheme, none of which is built.
* Themes, packaging: data.

## Plan

1. `CallbackList`: the callback list with its pointers, walked while callbacks
   append to it, shown to implement the set of `Server`.
2. `ObjectTree`: children, siblings and parents over a cache that is received
   object by object.  Properties: next and previous are inverse, walks end.
3. Liveness of `Board` and `Orders`: that what the server has is shown in the end.
