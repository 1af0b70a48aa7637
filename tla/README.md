# Chat Grid in TLA+

Chat Grid is an audio world on a grid: a Python server (`src/server/app`) owns
the world - people, items, walls, accounts - and a TypeScript browser client
(`src/client/src`) shows, sounds and predicts it. This directory models the
parts of it in which several activities share state: on the server elevators,
teleports, carried items, accounts, the piano recorder and the walls; in the
browser the session, the voices, the sounds of items and the menus. TLC checks
the models on small instances, and TLAPS proves the main invariants of all of them
but the sounds for all instances.

## 1. The system

### 1.1 How the server runs

The server is one asyncio event loop. Every websocket has a task
(`server.py`, `_handle_client`) that handles its packets one after the other.
Elevators, teleports, piano recordings and playbacks, clocks and radios have
tasks of their own. Nothing runs in parallel except password hashing and stream
metadata, which use worker threads; but every `await` lets any other task run.
Most handlers contain several: `delivery.broadcast` gathers one send per
connection of the roster, and a loop that delivers once per item or per person
suspends at every turn. So the hard questions of this code are what a handler
read before an `await` and uses after it, and what another task did in between.

All modules follow one rule from this: **what runs between two awaits is one
action; a handler or a task that is suspended is a program counter**, kept only
where something of the model's state is still changed, or sent, after the await.

The browser is single threaded in the same way: an event handler or a timer runs
with the promise reactions that follow it, and a promise that waits for the
network, a device or the audio context is where other events come in.

### 1.2 Components

| Component | State | Operations | What is hard | What must hold | Here |
|---|---|---|---|---|---|
| Elevator items (`items/types/elevator/runtime.py`) | the car's parameters in the item, one timer task per car, `client.elevator_id` and `client.z` | call, board, leave, door and travel timers, delete, disconnect, restart | a timer and several handlers write one state machine between awaits | one driver; never stuck; doors and floors agree; no rider locked in | `Elevator`, `Lift` |
| Teleport (`teleport_runtime.py`, browser `teleportTransition.ts`) | `_active`, `_tasks`, the client's place, the browser's phase | begin, two timed halves, disconnect, shutdown | the reservation outlives the handler; failures and disconnects at any await | a reservation is always released; only its task moves the client | `Teleport` |
| Carried items (`item_runtime.py`, `item_service.py`) | `items`, `carrierId`, place | add, pick up, drop, hand over, delete, follow the carrier | delivery loops over a list made before their first await | limit of the hands; no carrier that is gone; items are where their carrier is; a failing save or a restart leaves none behind | `CarriedItems` |
| Accounts and permissions (`auth_service.py`, handlers in `server.py`) | SQLite tables, every connection's copy of its permissions | register, log in, roles, ban, delete, live refresh, restart | the copy is refreshed by loops over a live roster | an administrator always remains; a change reaches everybody | `Accounts` |
| Piano recorder (`items/types/piano/runtime.py`, browser `runtime.ts`) | recording sessions, playback tasks, songs, the browser's mode and recording state | toggle, stop, play back, automatic stop, delete, disconnect | tasks that cancel each other (and themselves), status messages under way | recording and playback exclude each other; the browser shows the truth | `Piano` |
| Dispatch, roster and delivery (`server.py`, `delivery.py`) | roster, nicknames, movement budget | welcome, activation, moves, chat, departure | a connection is between log-in and roster for a while | unique nicknames, bounded speed | in part: `Teleport`, `Walls` and the other server modules |
| World persistence (`item_service.py`, `structure_service.py`, `ambiance_service.py`) | in-memory world, a debounce timer, three JSON files | request, flush, load | crash between a change and its save, or in a write | bounded loss, consistent reload | the walls' file in `Walls`, the reload of items in `Elevator` and `CarriedItems` |
| Structures and doors (`structure_service.py`, browser `structureGeometry.ts`) | runs of walls | add, resize, slide, rotate, remove, crossing tests | corners; two implementations of one geometry | steps never pass a closed wall; both sides agree; walls survive a restart | `Walls` |
| Ambiances (`ambiance_service.py`) | rectangles with a sound | add, edit, remove | as structures | no overlap the code forbids | the editor, in `Builder` |
| Clock and radio loops | markers, stream metadata | poll, announce, refresh | iteration of live dictionaries across awaits | the loops survive; no announcement twice | no, see 5 |
| Item catalogue and plug-ins | none | validation of one packet | - | - | inputs of the models |
| Network security | none | address checks of one call | - | - | no |
| Browser connection (`signalingClient.ts`, `connectionFlow.ts`, `reconnect.ts`, `authController.ts`) | socket generation, pending connect, attempts | connect, welcome, time out, reconnect, cancel | callbacks of replaced sockets, late welcomes | old sockets touch nothing; a cancelled reconnect stays cancelled | `Session` |
| Browser voice (`peerManager.ts`, `mediaSession.ts`) | LiveKit room, recovery timer and attempts, media generation | join, lose, recover, replace a track | results of asynchronous calls after they were superseded | one room; recovery ends | `Voice` |
| Browser world replica (`messageHandlers.ts`) | copies of people, items, walls | apply messages, predict moves | order of upsert and remove, predictions a round trip old | copies converge | `CarriedItems` (items), `Walls` (walls, position), `Builder` (edits shown early), `ItemMenus` |
| Browser menus (`input/*.ts`, `items/item*.ts`, `main.ts`) | one mode, shared dialogs, what each menu was opened about | Enter, Escape and side keys of 30 modes, answers that open menus | an answer or another user's edit arrives in the middle of a menu | no menu is a trap; what is sent is about what was asked; previews end where the server is | `Menus`, `Builder`, `AdminMenu`, `ItemMenus`, `MainModes` |
| Browser audio of items (`radioStationRuntime.ts`, `itemEmitRuntime.ts`, elevator `runtime.ts`, `main.ts`) | shared media elements, outputs, starts under way, retries, layers | refresh, start, retry, retune, layer on and off, disconnect | a sync that waits for the audio context; `play()` that settles late or never | every element is counted and owned; nothing bars a start for ever | `Sounds` |
| Synthesis and rendering | derived from the replica | - | - | - | no: outputs are sounds and pixels |
| Deployment scripts, media proxy | none | - | - | - | no |

Components interact through the roster (`clients`), the item map and the
clients' position. The three writers of a position - steps, elevators and
teleports - are kept apart only by guards at the head of the handlers; items in
the hands follow all three. The browser learns everything over one ordered
socket.

The hazards of this code, each with its line and the properties that watch it,
are in `PROJECT.json`.

## 2. The models

### 2.1 Elevator and Lift

`Elevator` is one car: its persisted parameters, the `run_cycle` tasks with the
sleep or delivery each is suspended in, and for every client the status of the
connection, `elevator_id`, `z` and where its `use` handler is suspended. The
actions are the transitions of `run_cycle` (`BeginTravel`, `Travel`, `Publish`,
`Arrive`, `Sleep`, `DoorOpens`, `Board`, `DoorCloses`, ..., `End`), the branches of
`use` (`Exit`, `BeginOpening`, `QueueCall`, `Dispatch`, `Enter`), the rest of a
suspended handler (`SelectDestination`, `Restart`), deletion, disconnect, the end of
the server (`ServerStops`) and its start with what `load_state` resets
(`ServerStarts`). `_restart_task` replaces the task in the slot and cancels the old
one; `OneDriver` depends on exactly that. `_move_occupants` forces each rider's place
into the database, and `run_cycle` catches nothing but its cancellation: `SaveFails`,
which `DoorOpens` and `Board` may take instead of a rider's turn, ends the task with
the door open and its entry cleared. `unattended` is a history variable: such a save
ended the last task, and no other was made since. `Driven` excepts that one state,
and only it: an unattended car stands with an open door, and any use starts it again.

`Lift` is what a landing sees: a floor, a door, a destination, and whether the trip
there has begun (`sure`). A car sent away from an open door may be called back by the
old dwell timer, so `CallOff` exists; a trip that has begun is called off by nothing.
While the server runs the floor changes in `Arrive` alone, to the destination;
`Stop` and `Start` are the server's. `IsALift` states that `Elevator` implements it,
with `dest <- targetZ` while the state is `moving` and `sure` once no old dwell timer
is left (`LiftOfElevator`).

A trip announces some of the heights in between, and moves its riders there one
delivery at a time, so riders really are between floors. Squares are left out: whoever
is outside may walk onto the shaft's square of its floor.

### 2.2 Teleport

The places a client can be at, with their heights, and the three writers of a
place. `Begin` and `StartTask` are the two halves of `begin`, on each side of its
delivery; `Midpoint`, `MidpointFails`, `Arrive`, `Complete` and `End` are the
phases of `_run` with its failing save and its `finally`; `BeginDisconnect` and
`FinishDisconnect` are the two halves of a departure; `ServerRestarts` takes every
connection and task away at once. `screen` is the phase of the browser's controller, which
blocks the arrow keys.

### 2.3 CarriedItems

Extends `Teleport`: each of its actions is a step of a client, a step of an item
handler, or a turn of one of the delivery loops. A client's handler, its
transition's task, its elevator's task and its departure may each be in such a
loop (`Mover`), over a list taken when it began. A step of a client is the action of
`Teleport` with what it does to the items, so that `Teleport`'s invariants hold of
it (`StepMoves`), which is how the module is written and no property of the code.
A departure saves the client's last place and presence before it drops the items,
with nothing around the two calls: in `FinishDisconnectFails` one of them raises and
nothing is dropped. `lost` is a history variable: whose clean-up ended that way since
the last start. `RestartWith` reads a file that may be older than the last change, and
lands what was carried (`LoadState`).

### 2.4 Accounts

The store is one variable per table; each method of `AuthService` is one step,
because it runs in one turn of the loop. An administration handler then is a
loop (`task`) that refreshes the connections of the accounts concerned and, for
a ban or a deletion, closes them in a second one. The first delivery's refresh
happens in the turn of the change. A loop over the live dictionary raises when
the roster's size changed; the handler's connection then ends. `missed` is a
history variable: the connections a change passed by, in the two ways the code
allows. Session tokens are left out and a resumed session is a log-in. SQLite
never reuses an id (`AUTOINCREMENT`), so an account deleted stays deleted.

### 2.5 Piano

Recording sessions, playback tasks with their cancellation states, the handlers
of the six packets that concern a piano, the automatic stop, deletions and
departures; on the other side the browser's piano mode and recording state.
Packets are queues in both directions, because the interesting states are those
in which a status message meets a mode left meanwhile. `unsaid` is a history
variable: the recordings whose owner was never told of their end.

Whether a client may use a piano (permission, square, carrier) can change at any
time, so every packet may also be refused. The notes themselves, the keys held
and the demo are left out.

### 2.6 Session

One page on its way into and out of the grid. `client` is its memory: the socket
in use with its generation (`gen`, `ws`, `handlers`, `cleanup`), the pending
`connect()` and its timer, the connection flow that waits for a welcome, the abort
controllers, the retry loop, the heartbeat and the sign-in form. A flow and the
socket it opens have one name. An action is a user's key (`PressConnect`,
`PressDisconnect`, `LogOut`, `EditForm`), a timer (`OpenTimeout`, `WelcomeTimeout`,
`RetryTimer`, `HeartbeatTick`) or an event of a socket (`SocketOpens`, `SocketLost`,
`RecvAuthRequired`, `RecvAuthResult`, `RecvWelcome`, `RecvPong`); functions from
records to records are the functions the handlers call, in the order of the
calls. `FinishLoading` is the rest of a welcome after its awaited first audio
refresh. The network is `link` and the server `peer`, one value per socket: a
link may die without a word (`LinkDies`), a server may refuse or be upgraded,
which makes the page reload. `wanted` is a history variable: whether the user
asked to be in and has neither left nor been refused since.

### 2.7 Voice

The other half of a session: `page` holds the LiveKit room in use, the joins and
the recovery under way, the people known with their zone and the graph of their
voice, and the microphone with every capture still being set up. `library` is
LiveKit, external: rooms, who publishes, what was asked for and delivered. A track
is delivered and taken back in the order it was asked for, some time after. A join
is two promises (`JoinResolves`/`JoinRejects`, `JoinPublished`), a capture three
(`asking`, `configuring`, `publishing`), and all other actions may come in between.
`attachRemoteStream` waits for its element to play (`plays`) and looks at nothing
afterwards: `PlayBegins` wires the graph of whoever has left earshot meanwhile, and a
graph whose place in the peer was taken by a later one is `stray`.

### 2.8 Sounds

Radios with the media element each stream shares, emitted sounds, the elevator's
cabin, and the refreshes and layer switches of `main.ts`. `page.tasks` holds the
refreshes and syncs that wait for a suspended audio context, with the item each
had read; `plays`, `emitPlays`, `alarms` and `loads` hold the promises and timers
of media elements. Distance is one of four places, because starting, keeping and
dropping a source have different ranges. A retry waits until its time has come,
which is any later moment. `stray` is a history variable, see 6.

### 2.9 Menus, Builder, AdminMenu, ItemMenus, MainModes

`Menus` has what all menus share: the mode, the dialogs, the text field and the
two queues of the socket. `Builder` is World Builder with walls and ambiances,
`AdminMenu` users and roles, `ItemMenus` selection, management and properties of
items. `MainModes` EXTENDS the three: the commands of normal mode and the
palette, the dispatch of a key to the mode's controller, the messages that reach
the controllers, and the server, which answers in order while other people edit
the same world. A handler is an operator from the page before to the page after
it. A list's cursor is abstracted: Enter stands for the arrows to an entry and
the Enter. Fields that only closed menus read are forgotten (`Shown`), so that
states no menu tells apart are one. Escape chosen in the palette disconnects like
the key: whatever empties the page's queue by disconnecting empties the server's
(`Become`). `EscapeLeadsOut` allows five Escapes, the depth of the deepest menu.

### 2.10 Walls

The service with its runs of walls and its index of unit edges, every request of
a builder with its validation, the debounced save whose write may be cut off, the
load that checks what it reads; one user's connection, steps, arrivals and departure;
and that user's page, with its copy of the walls and its own index, its predicted
steps, its animated move to a user or an item (`SetOut`, `MoveOn`, `Arrive`) and what
it muffles. Two handlers write the user's position. `HandleStep` has a budget and asks
the walls; `HandleArrival` takes the `teleport_complete` that ends an animated move to
any square of the grid and asks neither. The geometry is what both programs compute:
the edges of a run, what crosses a step or a diagonal one, the ray of a sound through the
edges it touches, each translated from its own source and compared with a
reference in the properties. Transmission is counted in quarters, the low-pass
on a scale where half is exact. `missed` and `unheard` are history variables:
an edit passed this page by, a step of it was ignored without an answer.

## 3. What is checked

`CHECK_DEADLOCK FALSE` is set where every connection of the instance may have
left for good, or the page is left alone for good.

| Run | Instance | Shows |
|---|---|---|
| `elevator` | 2 clients, 2 tasks, floors 0 and 3, failing saves, restarts | `CarConsistent`, the inductive invariant; `IsALift`: it arrives where it was sent and nowhere else; `CarMovesOnlyRiders`: a task never carries somebody who got out; `CarSettles`: a car comes to rest; `RidersSeeTheDoor`: a rider that keeps asking is at an open door, whoever else calls |
| `elevator_stranded` | the same, without restarts | a finding, see 6 |
| `teleport` | 2 clients, 4 squares on and between two floors, failing saves, restarts | `TransitionsConsistent`: the movers exclude each other, a reservation has its task; blocked keys are released; every transition ends |
| `carried` | 2 clients, 2 items, one slot each, failing saves, restarts | `Capacity`; `HandsConsistent`: no carrier that is gone, but one whose clean-up a failed save ended |
| `carried_together` | 2 clients, 2 items, two slots | a finding |
| `accounts` | 2 accounts, 2 connections, 3 roles, 2 permissions, restarts | `FullAdminRemains`; `RosterConsistent`: whom a change may pass by |
| `piano` | 2 clients, 1 piano, 2 tasks, limit 1, 2 packets under way | `PlaybackConsistent`: one playback, never with a recording; `LightTrue`: the browser's light; recordings end |
| `session` | 1 page, 3 flows, 3 attempts, 2 missed pongs | old sockets are silent and every session is watched (`SessionConsistent`), the Connect button returns, nobody is brought back who left, a flow has one outcome, a lost link is noticed and retries end |
| `voice` | 1 other person, 2 rooms, 3 captures, 3 delays | `VoicesConsistent`: the tracks kept are those of people in earshot, each sounds or waits to, and none with the layer off; who speaks in earshot is heard; one room; the microphone obeys mute, permission and the latest choice; recovery ends |
| `sounds` | 2 radios, 1 emitter, 1 cabin, 2 streams | elements are counted and owned; what bars a start or a refresh is under way; a superseded start's answer changes nothing; pending starts end |
| `menus` | 2 objects of each kind, 2 accounts, 3 roles | five Escapes lead out, but under World Builder's root only who may build; previews end where the server is; lists are of what was asked, and of those it applies to unless others changed them since; what is sent is about what the user was asked |
| `walls` | 3 by 3 squares, 2 walls, 2 presets | both indexes are those of the walls, over edits, torn files and restarts; no step passes a wall; a quiet page agrees with the server; sound and steps agree |

A property named `...Consistent` is a conjunction of a module's type invariant
and of invariants with names of their own, which belong together: the parts of
one inductive argument, or the facts about one table and its users.

Eleven further configurations belong to section 6. TLC refutes the one property of
each; they are kept to be run by hand: `ElevatorOpenDoor.cfg`, `CarriedLost.cfg`,
`CarriedGhost.cfg`, `AccountsLive.cfg`, `PianoLight.cfg`, `VoiceLayerOff.cfg`,
`VoiceLate.cfg`, `SoundsLayer.cfg`, `MenusStuck.cfg`, `WallsTorn.cfg` and
`WallsMissed.cfg`.

### Bounds, and why they are enough

* Two connections: every hazard of the list is a race of one connection's
  handler with a task or with one other handler. A third adds a second
  bystander. The proofs hold for any number.
* Two task names per car: the old task and its successor; a name is reused when
  its task is dead, so a third would only matter if two could be alive, which
  is what `OneDriver` denies. Two playback tasks: the cancelled one that still
  releases its keys and its successor.
* Floors 0 and 3: a rider can be at two different intermediate heights.
* Two items with one slot test the limit; with two slots a list may hold an item
  that has changed hands and one that follows it.
* Two accounts and three roles: an administrator can demote the other, itself,
  and whoever holds a role about to be deleted.
* `Limit` 1 in `Piano`: a recording is under or at the limit, and the clock
  passes from one to the other only while it is not paused.
* `MaxQueue` 2: one packet each way, or two in one queue, such as the pair the
  C key sends. It bounds only what the browsers send; answers are never
  dropped. The proof of `LightTrue` is for queues of any length.
* `Session`: three flows are the one in use, one whose welcome is still loading
  and one to be opened. `MaxTries` 3 and `StaleAfter` 2 are the code's own.
* `Voice`: two rooms are the one in use and one given up while it connects;
  three captures are the one in use, a newer one and a late one; `Delays` 3 is
  the code's own. `MaxTokens` and `MaxPlays` 2: a credential or a `play()` and a
  second one that overtakes it. Voices of different people share nothing but
  their room. The instance has three casts (listener, recorder, speaker),
  because voices and microphone meet in the room only.
* `Sounds`: two radios share a stream or one radio changes between two; two
  failures until a longer pause; two waiting refreshes or syncs. In four casts
  (duet, retuned, emitter, cabin), because the three runtimes share only the
  refresh and the context.
* `Menus`: a behaviour stays in the menus of one cast (commands, walls,
  ambiances, users, items); at most one change by others, or disconnection, per
  behaviour, at any key; one object of each kind changes while the other only is
  there; two messages under way; one unanswered request, so that the
  administrator of `ListFollowsServer` is a patient one. The rights granted to a
  role are changed for one role, and only while no role was created. Other
  administrators and registrations count as changes by others, in every cast.
* `Walls`: runs of length 1 to 3 on a grid of 3 meet at corners, at the rim and
  in the middle. One preset stops people and sound, one neither fully. Two
  edits of a builder, or one during a walk; two steps and one message to the
  page under way. In four casts (building, walking, moving, listening): a step reads
  walls and writes a position, an edit of a wall reads no position. An animated move
  goes to one of two squares, on either side of the wall, and is among steps.

### Fairness

* The event loop runs every task that is ready: weak fairness of the tasks and of
  suspended handlers. Sleeps have constant lengths, and a send ends because the
  websocket library closes a connection whose keep-alive fails.
* In `Piano` time passes while a recording goes on: strong fairness of `Tick`,
  because a user may pause and resume for ever and time is counted in between.
* In `Session` the timers of the page fire and a loading welcome ends; no message
  and no event of a socket ever has to come.
* In `Voice` the recovery's timer fires, and LiveKit settles a join and delivers
  or takes back the track it was asked for. Devices and permissions owe nothing.
* In `Sounds` only the timer of a start fires; `play()` may never settle.
* Nothing is assumed of users. `RidersSeeTheDoor` has its own premise: the rider
  keeps asking, as `src/docs/item-types.md` tells it to.

## 4. What is proved

`tlapm` checks every proof to its leaves. Theorems hold for every value of the
constants that satisfies the named assumptions (`FloorsAssumption`,
`SquareAssumption`, `CarryAssumption`, `AccountsAssumption`, `PianoAssumption`,
...), which only say what the code says: distinct floors in order, squares
with heights, a positive limit, an `admin` role with every permission.

**`ElevatorProofs`.** `IInv` is the conjunction of the type invariant,
`OneDriver`, `Driven`, `MovingHasTarget`, `DoorMatchesState` and
`SleepMatchesState`. None is inductive alone: that a task finds the state it
slept in needs that no second task drives the car; that a car is driven needs
that a handler about to restart the task has set a state the task can continue, and
that a task ended by a failed save left the door open, so that a use can start it.
The proof goes by the transitions of a task, the handlers, and the server's. From
`IInv` follow the refinement of `Lift` (`ImplementsLift`) and the action property
`CarriesOnlyRiders`. Its mapping looks at the tasks, too: a trip is `sure` once no
old dwell timer sleeps any more (`NoOldDwell`).

**`CarriedItemsProofs`.** First of `Teleport` alone: `TInv` is the type invariant and
a predicate `Local(c)` on one connection: which combinations of handler, task,
reservation, ride and screen occur together. A step of one connection leaves the
others' `Local` alone (`Frame`), so one lemma per connection suffices for any number
of them. Every step of `CarriedItems` is one of `Teleport` or a stutter (`StepMoves`),
so that `TInv` need not be proved again. `CInv` adds `NoOrphan` and that items not
yet created have no carrier. `Capacity` counts, with the cardinality facts of the
library: a step adds at most one item to one pair of hands, and only after it looked.

**`AccountsProofs`.** `AdminInv`: the type invariant, at least one active account
with role admin, admin's permissions complete, and `admin` and `user` never
deleted. Every demotion, ban and deletion looks at the number of active
administrators, and the proof is that a second one exists when the guard lets the
step pass (`AnotherAdmin`). `FollowInv` says of every connection that it is
fresh, or in some loop's remainder, or `missed`; from it `UpToDate`.

**`PianoProofs`.** `PlaybackInv` for `OnePlayback`. For `LightTrue` the invariant
speaks about messages under way: of every browser, what it shows is settled
unless a message on that piano is under way (`ScreenOf`), and the last such
message in the queue is settled (`MailOf`), where settled means true of the
session, excused by `unsaid`, or about to be corrected by a suspended handler.
Two lemmas about queues (`Unheard`, `Heard`) carry it through all actions.

**`SessionProofs`.** The handlers are functions from the page to the page after
it, composed of each other, and so are their lemmas. `PageInv` says which fields of
the page occur together: `Sockets` (a socket, its handlers, its clean-up and its
pending connect are of one flow), `Attempts` (a flow whose socket is in use has not
failed; while it waits to be let in a timer of its own runs) and `Flags`. `Ends` is a
relation that everything short of beginning a flow or being let in satisfies: it can
only end the newest flow, and the session with it; what `SessionInv` adds about links,
peers, the half-loaded welcomes and `wanted` follows from the relation alone.
`OutcomeIsFinal` is the action property from the same invariant.

**`VoiceProofs`.** The runs check one cast at a time, the theorems the whole `Next`.
`PeersInv`, `TracksInv` and `VoicesInv` are about people, tracks and graphs: within a
handler a voice may be out of earshot until the subscriptions are put in order at its
end, so the last holds only there. `VoicesAreConsistent` follows; it says where tracks
are kept and that graphs follow the layer, not that a graph is in earshot, which the
code does not see to: a late one gets its gain, nought out of earshot, from the next
frame. `RoomBase` and `RoomInv` are about the room, the
joins and the recovery; `DeviceInv` and `MicrophoneInv` about the captures, with what
each stage of a capture still owes; `OfferInv` about the offer of the microphone to
the room. Functions that do not concern a part are related to it by a step relation
(`Quiet`, `Aside`, `Timing`, `Booked`, `Released`), one lemma for each.

**`WallsProofs`.** Every request of a builder is refused or `EditTo`: a good map (no
two walls overlap, none leaves the grid) becomes another one, with the index the map
would be given anew. It rests on two lemmas, to take a wall out of the index
(`WithoutIs`) and to put one on free edges (`WithWall`), for walls of any length.
`Follows` says of the page that its walls and the news under way lead, through good
maps, to the server's walls; without recursion it is the existence of a history.
`PositionInv` says that the last answer under way is the server's position. Both
programs' decisions about a step are shown equal to one formula over edges
(`BlockedIs`, `BlockingIs`) and that one to the reference (`WayIs`), by cases of the
eight directions; `WalkersStopAtWalls` and `QuietPagesAgree` follow. An animated move is
in the invariant too, because its steps and its end write the position: who changes
squares has stepped through no wall or has arrived. The proofs need `MaxSteps = 1`,
the code's own value: a longer step is not looked at (section 6).

**`MenusProofs`.** The runs check one cast of menus at a time and one change by
others, the theorems all of `MainModes`, with queues of any length. The keys and
answers are some eighty functions from the page to the page after it, and every key's
is shown to be one of three kinds: it sends one message (`Asks`), it sends nothing and
changes neither the world nor what the page knows of a list of users on the screen
(`Quiet`), or it disconnects (`Leaves`). What each kind and each answer may do to the
rest of the page (`Previews`, `Live`, `Meant`, `AdminKept`, `Listed`) is all that the
invariants need to know of them, and `StepKinds` says so of `Next`. Four invariants
follow one another:

* `BaseInv`: every field holds what it is declared to, and what an open dialog or text
  field acts on is what the user was told (`AskedAbout`); the queues carry known
  requests and answers. From it alone `SendsAreMeant`, and `EscapeLeadsOut`: each
  Escape goes to a mode that is one Escape nearer home (`FromOne` to `FromFour`).
* `WorldInv` for `PreviewsSettle`: of every wall and ambiance, the last message under
  way about it says what the server has (`Word`); when there is none, the page agrees
  with the server or has sent an edit of that object which the server has still to
  take up (`Awaited`), and whose answer will be such a message.
* `ListInv` for `ListFollowsServer` in `PageConsistent`: one request of an
  administrator's, or its answer, is under way at a time (`Orderly`); while it is a
  ban, an unban or a deletion, the page remembers it (`Asked`), and the answer, when
  it comes, makes the list on the screen the one the server would send (`Comes`), but
  for the accounts that others have changed since it was sent (`touched`).

The assumptions say that the bounds are numbers, that the built-in roles are roles,
and that `None` is no action.

**Consistency.** `CarIsConsistent`, `TransitionsAreConsistent`,
`HandsAreConsistent`, `RosterIsConsistent` and `PlaybackIsConsistent` put the parts
together that the runs check as one property each.

Only model-checked:

* the liveness properties (`CarSettles`, `RidersSeeTheDoor`, `TransitionEnds`,
  `RecordingEnds`, `SessionSettles`, `RecoveryEnds`, `VoicesInEarshotAreHeard`,
  `PendingStartsEnd`), which are outside what the prover does with fairness;
* `EarsAgreeWithFeet`: a mix is a product over the edges a ray crosses, a fold, and
  a fact about a fold over a set of any size needs an induction over data;
* `Sounds`: its handlers fold over the items and the shared sources in their order,
  and what a fold keeps is again such an induction;
* the violations of section 6.

## 5. Not modelled

Left out inside the modelled components: permissions and ownership of items in
`CarriedItems` (every client may do everything: more behaviours, none fewer),
uses and cooldowns, item parameters, session tokens and expiry, failed-login
throttling, live piano notes with their held keys, chat and
wording, gains and filters, text editing by the character, the mobile controls. In
`Sounds` an output is made anew for another stream only; the code also does so when the
channel alone changes, of the same stream (`radioStationRuntime.ts:439`).
Each is listed with its component or hazard in `PROJECT.json`. And:

* **Clock and radio loops.** Each loop reads the items, awaits, and writes what it
  found into one item's parameters. Nothing reads them but the display. What
  can go wrong, an item that was deleted during the await and is broadcast once
  more, is what `CarriedItems` shows of another loop.
* **Saves of items and ambiances.** The same debounce and the same in-place write as
  the walls', of which `Walls` models the timer, the torn write and the load. No
  code or document relates the three files to each other.
* **Nicknames.** A roster entry copies the stored name, compared when it is
  changed and not when a connection with a stored one is activated. No modelled
  state depends on names.
* **SQLite's shared transaction.** All threads share one connection. `Accounts`
  takes a method of the store as one step, because those that change roles and
  accounts run on the loop; the few that run in threads store a place or a name.
* **The ambiance service and the playing of regions.** Validation of one packet, and
  a function of the listener's place. The editor with its answers is in `Builder`.
* **Item catalogue and plug-ins, network security.** Decided by one packet or one
  call; nothing is kept in between.
* **Synthesis, rendering, spatial audio.** Functions of the replica.
* **Deployment, media proxy.** Scripts without state.

## 6. Where the code and the documents disagree

Two runs check a sentence of the documents and find it violated:

* `elevator_stranded`: the door is marked open before the riders are moved, one
  delivery at a time; a rider that gets out before its turn stands between the
  floors, where nothing lets it move to a floor again.
* `carried_together`: an item stays behind, or is put back with its former holder,
  when a delivery loop works through a list that is no longer true, when it is cut
  short, or when the save before it raises.

Eleven configurations do the same and are run by hand:

* `ElevatorOpenDoor.cfg`: "The fully open door closes after the configured
  `doorOpenSeconds`" (`src/docs/item-types.md:259`): a save that raises while a rider
  is moved onto the landing ends the car's task (`elevator/runtime.py:329`), and the
  door stays open until somebody uses the car.
* `CarriedLost.cfg`: held items "drop at the final tile on disconnect"
  (`src/docs/item-types.md:9`): a save that raises at the disconnect (`server.py:985`)
  skips the drop, and nobody can pick the items up before the next start.
* `VoiceLayerOff.cfg`: with the layer off a voice's "graph is detached"
  (`src/docs/audio-architecture.md:28`): switched off and on while an element waits to
  play, two graphs of one voice are wired and one is forgotten (`audioEngine.ts:372`);
  it sounds on, whatever the layer.
* `WallsTorn.cfg`: "Structures persist" (`src/docs/world-builder.md:28`): a crash in the
  middle of the in-place write (`structure_service.py:310`) leaves a file that is read
  as no walls at all.
* `CarriedGhost.cfg`: the delivery loops send an item that was deleted meanwhile,
  after its removal; browsers show it until they reconnect.
* `AccountsLive.cfg`: a role changed between a connection's welcome and its
  activation never reaches it; and a roster that changes under the refreshing
  loop ends the loop and the administrator's connection.
* `PianoLight.cfg`: the automatic stop cancels the task it runs in, so neither the
  stored recording nor the end of the recording is sent, and the owner's browser
  keeps showing a recording.
* `VoiceLate.cfg`: "Late captures after cleanup or a newer device selection are
  discarded" (`src/docs/runtime-flow.md:106`): a capture whose permission was
  given before the clean-up, and that is still being set up, stays live after it.
* `SoundsLayer.cfg`: with the media layer off no stream is fetched
  (`src/docs/audio-architecture.md:30`): a sync that waited for the audio context
  makes its output after the layer was switched off, or after a disconnect.
* `MenusStuck.cfg`: "Return to the previous menu" (`src/docs/controls.md:122`, 187):
  without the permission to build, Escape does nothing in World Builder's menus,
  and a permission can be taken away while one is open.
* `WallsMissed.cfg`: edits are received "immediately" (`src/docs/controls.md:69`): an
  edit between a connection's welcome snapshot and its activation is sent to a
  roster that has not got it yet, and never reaches that page.

Observed while modelling, without a property of their own:

* Elevator: a call made while a car has a queued call overwrites or drops it; a
  car dispatched from an open door leaves without the closing phase; the old
  dwell timer may call a dispatched car back; an item dropped by a rider in a
  moving car stays in the shaft.
* Accounts: a built-in role that an administrator emptied gets its defaults back
  at the next start, against the comment in `_seed_permissions_and_roles`.
* Piano: a departure that lists two recordings may end one that another client
  has begun meanwhile; a playback cancelled while it broadcasts a note-off
  leaves that note ringing for those not yet sent to; `src/docs/item-types.md:228`
  gives the piano keys `,` and `.` where the client has Z and X.
* Items: one given away while it is held can be dropped by its holder only with
  the permission for any item.
* Session: when the socket or the welcome timer ends an attempt while the
  welcome's audio refresh is awaited, the attempt is reported as failed and the
  session runs without a socket until the heartbeat notices; its continuation
  then sends `welcome_ready` on whatever socket is current; a second `gameLoop`
  may be started; a microphone may be captured by the settings while nobody is
  connected; the Disconnect button may stay visible after a reconnect was
  replaced by a failing attempt.
* Voice: a capture whose publication fails stays the local track without being
  published; an element that begins to play after its person left earshot is wired
  all the same, at full gain until the next frame.
* Sounds: when two syncs of one emitted sound or cabin wait for the first audio
  context, both make an output; the first one's element plays on with nobody to
  stop it (`itemEmitRuntime.ts:227`, elevator `runtime.ts:119`). These are the
  `stray` elements that `OnlyOwnedElementsPlay` leaves out. An emitted sound
  whose stream fails after it began is not paused, so no retry starts it; a
  disconnect resets the mark of a refresh under way while the refresh waits.
* Users and roles: the page keeps one change it expects an answer to, so that of
  two quick bans the answer to the first takes the second's user off the list;
  a failed answer or another's result clears it; nobody tells the page of a ban or a
  deletion by another administrator, or of a registration, so that its list is out of
  date until it is asked for again (`adminController.ts` changes it on the answers to
  its own requests only); a refused change of a role's
  permissions is never shown as refused; the user and the action chosen in the
  menu survive a disconnect and a new session.
* Answers to list requests, additions and removals set the mode whatever the
  user is doing; when one does in the middle of the microphone's gain, the
  monitoring loopback stays on; the first of the two Escapes that disconnect is
  remembered across the palette and forced modes (`src/docs/controls.md:25`).
* World Builder: an edit shown early is not taken back when the server refuses it;
  `PreviewsSettle` therefore speaks of users whose permission was not taken.
* Items: a confirmation does not look again whether the item and the permission
  are still there; the list of properties is not renewed while one is edited.
* Walls: a key held while the page loads is sent before `welcome_ready` and
  ignored without an answer, which leaves the page a square off until the next
  answer; `walls_crossed` says nothing of a step longer than one square, so that
  only the movement budget keeps steps from passing walls, and `teleport_complete`,
  with which an animated move ends, asks neither budget nor walls.

## 7. Plan

The order is by how much can go wrong, and by what builds on what.

1. Done: `Elevator` with `Lift`, `Teleport`, `CarriedItems` on `Teleport`,
   `Accounts`, `Piano`, and their proofs.
2. Done: `Session`, `Voice`, `Sounds`, the menus and `Walls`, model-checked.
3. Done: the proofs of `Session`, `Voice`, `Walls` and the menus.
4. Later: the clock and radio loops, the roster's nicknames with the store's
   shared transaction, the ambiance service, and the three files of one save.

## 8. Running

    tlc -config Elevator.cfg MCElevator
    tlapm ElevatorProofs.tla

The `MC` modules give the constants their model values and the symmetry sets,
which are not used with liveness. A definition marked "Fault" in a module is a
plausible mistake in the action after it; no behaviour of the model takes it. It
serves to see that a property notices: with the action's body replaced by the
fault, the run of that property fails (`mutants` in `PROJECT.json`). The longest
runs (`walls`, `menus`, `carried`) take two to three minutes,
the others less.
