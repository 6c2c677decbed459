# CowEngine: TLA+ models, model checking and proofs

CowEngine is a small game engine with a desktop editor, a script language and
authoritative multiplayer: a browser (WebAssembly) client moves its own player,
is corrected by the server and interpolates the rest, a Rust sidecar relays its frames to a headless C++ room server, and
a Rust control plane stores published games and starts and stops room processes.
This directory models its core, checks it with TLC and proves the main safety
properties of its servers with TLAPS.

    editor ---(publish, https)------------------> control plane: catalog, bundles
                                                         |  spawn, probe, kill
    browser: NetClient + CowNet --(WebTransport / wss)--> sidecar --(UDP)--> room process
         \                                                  |                GameServer + scripts
          \--(https: list, join)--> control plane: rooms <-----/ (token -> port)

Paths below are relative to the repository root.

## 1. Inventory

What each part keeps, what it does, and what makes it correct.

| Component | State it keeps | Operations | Correct when |
|---|---|---|---|
| **Room server** `src/server/GameServer.cpp` | session table, player and spawn id counters, scene id list, replay list of spawned objects, queues of despawns and blasts, reset window | onConnect, onMessage (hello, input), onDisconnect, tick() in fixed phases | ids are unique and fresh; what every client was told agrees with the room; inputs never go back; silent sessions leave |
| **Replication client** `src/net/NetClient.cpp` | joined flag, own id, representations by net id with their samples, input counter | one hello, input every tick, processIncoming, reconcile, interpolate | shows what the room has: nothing missing, no ghosts, never itself; shows nothing further back but for a snapshot that came late; stays near the server's pose of its own player |
| **Browser transport** `src/net/WebClientTransport.cpp`, `src/templates/GameTemplate.html` | connection, inbox queue | connect over WebTransport, fall back to WebSocket, send, receive | the ordered stream stays ordered |
| **Wire protocol** `src/net/Protocol.cpp`, `include/net/*` | none | encode and decode messages and frames | decode inverts encode; a frame cut short is refused |
| **Room main loop** `src/server/main.cpp` | session to address map, tick accumulator, idle clock | drain datagrams, tick, answer status frames, idle exit | drains before it ticks; an empty room ends |
| **Sidecar** `sidecar/src/main.rs`, `webtransport.rs` | session table, connections per address, id counter, room lookups | admit, resolve token, register, forward both ways, sweep mute upstreams, deregister | slots are never lost; packets reach another world than the token's only through a connection that outlasts a cooldown; browsers of dead rooms are let go |
| **Room orchestration** `control/src/rooms.rs` | rooms by token, ports with expiry, child processes | join (find, count, claim, spawn, await, insert), reap_once, stop | a port has one user; no process is orphaned; empty rooms stop; joins end |
| **Control API, catalog, bundles** `control/src/api.rs`, `db.rs`, `bundle.rs` | SQLite catalog, content-addressed bundle directories | publish, republish, change, delete, list, join, serve | a listed version is playable; rooms of one version run one world; deleted games stay deleted |
| **Script host** `src/script/ScriptHost.cpp`, `src/ecs/systems/ScriptSystem.cpp` | bound scripts, per-entity instances, body cap | load, start, update, builtins (spawn, destroy, attach, ...), handles | each script gets its turn once; caps hold; a client in play leaves the world to the server |
| **CowScript** `src/script/CowScript.cpp` | declarations, globals, budgets of one call | lex, parse, interpret | means what is written; every call ends within its budgets and leaves nothing behind |
| **Scene and ECS** `src/core/Scene.cpp`, `src/ecs/` | entities, bodies in the physics world, file and its time stamp, reset request | load, save, instantiate, destroy, reset, hot reload | bodies belong to living entities; a changed file is loaded |
| **Application and game menu** `src/app/Application.cpp`, `GameMenu.cpp` | step accumulator, menu selection, packed settings, play/stop state | frame, menu, pointer lock, test and restore | one press acts once; settings survive a reload; a test leaves no trace in the file |
| **Editor** `src/editor/`, `src/app/CodeEditor.cpp` | selection, clipboard, open buffers with undo | select, edit, save, open, paste, console; typing, undo, redo, tabs | the selection is what is shown; undo inverts edit; characters stay whole |
| **Game builder** `src/app/GameBuilder.cpp` | keys of published games in local storage, one request under way | publish, update, poll; export to a directory or zip | a key is not lost; an update goes to the last game |
| **Physics, rendering, platform, meshes** | Bullet world, GPU objects | step, draw | numerics and drawing: no property here |
| **Pages, deployment, tools** `deploy/`, `tools/` | none | static pages, restarts | appear only as the environment |

How they interact:

- *browser -> sidecar -> room*: CONNECT, MESSAGE and DISCONNECT frames over UDP,
  each of which may be lost; the reliable stream back to a browser is ordered,
  but over WebTransport snapshots are datagrams beside it.
- *room scripts -> server*: scripts run inside tick(); observers on NetId
  destruction and on explosions queue what tick() sends later in the same tick.
- *control plane -> room*: a child process, UDP status probes that may be lost,
  kill and wait. *sidecar -> control plane*: token to port, on every connection.
- *editor -> catalog*: one POST or PUT per publish; its answer holds the only copy
  of the key, and waits in the page until a frame draws the publish window.
- *scripts -> host -> scene*: builtins create, destroy and attach while the host
  walks the list of scripted entities; the editor's test mode runs the same
  scripts and then reloads the scene from its file.
- *deployment*: the sidecar is restarted for new certificates while rooms run on.

Where it is hard: every C++ process is single threaded, but its state is shared
between callbacks inside one frame or tick; the sidecar and the control plane are
async Rust, whose locks never span an await; datagrams are lost, late and
reordered; processes crash, restart and are killed with their requests; four
time-outs of different processes have to fit together; and the editor's files
change behind its back. `PROJECT.json` lists each hazard at its line with the
properties that watch it.

## 2. Modules

| Module | Models | Checked through | Proofs |
|---|---|---|---|
| `GameServer` | room server: session table, bodies and ids, tick() phase by phase | `MCGameServer` | `ReplicationProofs` |
| `Replication` | `GameServer` composed with its clients, the stream and the datagrams | `MCReplication` | `ReplicationProofs` |
| `RoomManager` | join requests, port pool, room processes, reaper | `MCRoomManager` | `RoomManagerProofs` |
| `Relay` | connections of the sidecar, sweep, rooms coming and going on ports | `MCRelay` | `RelayProofs` |
| `Catalog` | requests of the control API over database and bundle store | `MCCatalog` | `CatalogProofs` |
| `Ledger` | abstract: what the catalog promises | by refinement, in the run of `Catalog` | `CatalogProofs` |
| `Publisher` | the editor's publish window composed with `Catalog` | `MCCatalog` | `CatalogProofs` |
| `Lexer`, `CowScript` | the script language | `MCCowScript` | |
| `ScriptHost` | scripts at work in a world | `MCScriptHost` | `ScriptHostProofs` |
| `Studio` | scene, its file, the editor's panels and tests | `MCStudio` | `StudioProofs` |
| `CodeEditor` | the script editor | `MCCodeEditor` | `CodeEditorProofs` |
| `Protocol`, `Page` | the wire format; a game in the browser with its menu and `NetClient` | `MCPage` | `PageProofs` |

The `MC` modules add only what TLC needs; constants get their values in the `.cfg`
files. An operator named `...Fault` is a seeded bug: the definition after it,
changed as a slip in the code would change it. No action uses one; each shows that
a property notices the slip (`mutants` in `PROJECT.json`).

### GameServer

State: `registered`, `spawned`, `netId`, `idle`, `lastSeq`, `applied` are the
fields of `Session` and of the player's `PlayerInput`; `body` maps a handle to the
NetId of a dynamic body (`Unnamed` until it is announced); `sceneNetIds`,
`spawnedObjects`, `pendingDespawns`, `pendingExplosions`, the two id counters and
`serverTick` are the members of that name. `phase` is where the main loop stands.
Two history variables carry no code state: `told[s]` is what a client has a
representation for after applying every reliable message sent to it in order, and
`lapsed` remembers sessions that were swept and may still have a page open.

Actions: `OnConnect`, `OnDisconnect`, `HelloAccepted`, `HelloRefused`, `OnInput`,
`OnOtherMessage` are the branches of onConnect, onDisconnect and onMessage.
`BeginTick` is tick() up to the physics step (idle sweep, input folding); then
come the script phases, `ApplyReset`, `AnnounceSpawn` (one turn of
detectAndAnnounceSpawns), `FlushExplosions`, `FlushDespawns` and `SendSnapshots`,
in the code's order. Scripts are the environment: `ScriptSpawn`, `ScriptDestroy`,
`ScriptExplode` and `ScriptRequestReset` may occur in any number and order while
scripts run.

Abstracted: poses, names, colours, physics. The population cap counts players and
dynamic bodies; static bodies, which the code counts too, are a constant offset.
Scripts that destroy a player entity are left out: tick() then reads a component
of a dead entity, which is undefined behaviour (see the hazards).

### Replication

Every server step is the `GameServer` action conjoined with what it sends:
`wire[s]` is the ordered stream, `datagrams[s]` the snapshots of a WebTransport
session, received in any order or lost. `client[s]` is the `NetClient`: `joined_`,
`myNetId_` and the keys of `reps_`; `Applied` is processIncoming's switch. A page
closes with notice (`Close`) or without (`CloseUnnoticed`). A session id is used
for one connection only, which is the sidecar's promise between two of its
restarts. What NetClient does with poses and inputs is in `Page`.

### RoomManager

An action is what happens between two awaits: `FindRoom`, `CountRooms`,
`ClaimAndSpawn`, `RoomReady` or `StartFails`, `Insert`, `GiveUp` are join() and
spawn(); `ListRooms`, `Probe`, `Judge`, `StopRoom`, `ReleaseStopped`,
`ReaperSleeps` are reap_once() and stop(). `HangUp` drops a request at any of its
awaits, which kills its child (kill_on_drop) and runs nothing else. A process is
`dying` from its kill until it is gone, and holds its socket until then. Tokens
are random and used once, so a token is identified with the join that makes it.
Time is abstracted to outcomes: a start times out, a probe goes unanswered, the
idle window passes, a port cools down. `stop_all`, which runs when the control
plane shuts down, is not modelled.

### Relay

Every connection is a task with a `stage`; `charged`/`connsPerIp`, `sessions` and
`nextId` are the relay's tables. WebSocket charges the address before it looks the
room up, WebTransport after (`ChargeDue`, `LookupDue`). `Second` is one period of
sweep_upstreams: it signals overdue bridges, and a bridge in the middle of a frame
misses the signal, as `notify_waiters` leaves no permit behind. Nothing else holds
the clock: a handshake takes as long as it takes (`webtransport.rs:124`, `129` await
without a time-out), and a WebTransport message that was begun may never end (`189`).
Two history variables keep what a property needs of this: `took[c]`, the seconds
the handshake had taken, and `signals[c]`, the signals the bridge has not acted on. Rooms come and go
on ports as RoomManager lets them (`RoomStarts`, `RoomExits`, `RoomStopped` with
the cooldown). `Restart` forgets all of it and counts sessions from 1 again. The
cap and the sweep are on, as in the deployment.

### Catalog, Ledger and Publisher

`current`, `public` and `versions` are the two tables; `dbHolder` is the request
that holds the lock of the connection; `stored` and `staging` are the paths in a
bundle's directory and in its staging directory; `job[r]` is where a handler
stands. A bundle is the set of its paths and the set of paths its scene names;
equal bundles have equal hashes, so a bundle stands for its sha. `PublishArrives`
and `RepublishArrives` are the handlers up to store(); `StoreLooks`,
`StoreClears`, `StoreWrites`, `StoreFails`, `StoreRenames`, `RenameLost` and
`StoreRechecks` are its file operations, each a step that those of another request
may come between. `InsertGame`, `AddVersion` and `AddVersionFails` are the rows;
`PatchGame`, `DeleteGame`, the four steps of a join and `GetBundle` the other
handlers. `HungUp` drops a request where axum can, and `Crash` kills the server
between any two steps: what is on disk and what SQLite committed stay.

`Ledger` has neither locks nor files nor requests: a game is a list of bundles
that grows at its end until the game is deleted for ever. `ImplementsLedger`
maps `versions` to the lists, and the ids that were issued and have no row to the
deleted games. Nothing keeps two requests from writing one bundle at a time; `raced`
is a history variable, the bundles whose staging directory one request has cleared
while another was using it.

`Publisher` adds tabs of the editor: `store` is local storage, `fetch` the one
request of a tab. Its steps are `PublishStart`, `PublishPoll` (what a drawn frame
of the publish window does), `Reload`, a lost connection and the answers of the
server. The requests of all other people run beside it. Exporting to a directory
or a zip, and the native build's blocking upload, are not modelled.

### Lexer and CowScript

A source text is a sequence of characters, and `Lex` returns its tokens. `Parse...`
operators follow the recursive descent; `Eval` and `Exec` operators the tree walk,
with environments, the step, depth and loop limits, and the clock that is read
every `Sample` steps. The state machine compiles sources and calls the events of a
`Script`, as ScriptHost does. Numbers are whole. Lines and columns, the maths and
string builtins are left out.

### ScriptHost

`comp[e]` holds the script instances of an entity, `task` what ScriptSystem is
doing (loading, start, update) and where it stands in its pass, `stack` the scripts
that run: attach_script compiles inside a call, and what it compiles runs at once.
`Spawn`, `Destroy`, `Attach`, `Ask` (blast, reset), `TransformSet` and `SelfSet`
are the builtins, in any order until `EventEnds` or `CompileEnds`. `phase` is where
the program stands: a page compiles and starts its scripts in init() with spawns on
(`boot`), and turns them off only then if it joins a room (`InitEnds`,
`Application.cpp:203-215`); as a `client` its builtins must leave the world alone and
`spawn` answers with a sink. Nothing in the code bounds how deep top levels that
attach scripts nest; at `MaxNest` the native stack is full, which ends the program
(the task `overflow`). `GetProperty` and `SetProperty` say what a handle
gives. Not modelled: a `destroy` at a script's top level. The pool that moves
while `attach_script` holds a pointer into it is undefined behaviour, recorded
among the hazards.

### Studio

A frame is two steps: `Frame` (hot reload, the edges of the test mode, scripts and
physics, a pending reset) and one event of the user in the panels. `sc` is the
`Scene` with its file's time stamp (`stale`, `cool`), the bodies in Bullet
(`inWorld`) and the compiled scripts; `ui` the editor's `Context`. `EditFile` is
another program that writes a scene file, at any time. Abstracted: transforms and
colours are one mark, whether a simulation has moved the object (`sim`); a plane
is a cube of another size; the default world is one cube. Outside a test, the top
level of a script is taken to leave the scene alone. The code tab's Apply belongs to
editing: while a test runs, every frame asks for the scene tab again
(`Application.cpp:402`).

### CodeEditor

A text is a sequence of bytes, told apart as the code tells them apart (a letter, a
blank, a line break, the two bytes of a character outside ASCII). `buffers` are the
open tabs with caret, anchor, undo and redo stacks; an action is what the keyboard,
the mouse or a button does in one frame. A script may lie in another directory than
it is named from (`Elsewhere`), and is then opened again under its full path. Saving
empties the file first and does not look at what became of the write (`Written`). The
history field `behind` marks a tab whose file was written from another tab since, or
whose own write fell short.

### Protocol and Page

`Protocol` lists the fields of each message as writeBody writes them and as decode
reads them, and decodes frames that are cut short. `Page` is one frame of a
standalone game (`Frame`: menu, pointer lock, fixed steps) with keys, mouse and
frame lengths in any order, and, in a room, NetClient on what the server sends: the
own player's reconcile, samples of the others and their interpolation. NetClient
keeps no inputs and reads neither `ackSeq` nor `serverTick`. `Deliver` brings the
welcome and what happens in the room in order, as the stream does, and snapshots of
any moment so far in any order, and before the welcome, as datagrams do. A pose is a
number on a line. Settings are packed into the bits of
one integer, as in the code.

## 3. Runs

| Run | Instance | Shows |
|---|---|---|
| `server_world` | 3 sessions for 2 places, 1 scene body, 2 spawns, 2 joins | ids unique and fresh, told = room, across joins, sweeps, spawns, destroys, resets |
| `server_sessions` | 2 sessions, 3 joins, inputs 1..2, snapshot every third tick | inputs never go back, silent sessions leave |
| `clients` | 1 WebSocket and 1 WebTransport client, 1 spawn, 2 snapshots | no representation missing, caught-up client right, only avatars of others may linger |
| `clients_fair` | 2 WebSocket clients, no spawns | a leaver's avatar fades |
| `rooms` | 3 joins of 2 games, 1 port, 1 room | ports exclusive and accounted for, no orphan, empty rooms stop, joins end |
| `relay` | 2 browsers on 1 address with cap 1, 2 worlds in turn on 1 port, 1 restart | slots match, packets stay out unless a connection outlasts the cooldown, dead rooms let go |
| `catalog` | 2 requests at a time, 3 ids, 4 bundles (2 of them refused), 1 tab, 1 mishap | bundles whole and versions playable but for raced uploads, one world per version, keys kept, refinement of `Ledger` |
| `script` | 10 programs, all token sequences to length 4, all expressions of two levels | texts and trees mean what was written; calls start afresh |
| `host` | 2 entities of a scene with 3 scripts, a player, 3 entities ever, 2 updates, server and page from init() to play | every script its turn, caps, authority, the sink, passes end |
| `studio` | 2 objects and the player, 4 events, 3 files | bodies owned, selection shown, tests not saved, changes loaded |
| `editor` | a script found elsewhere and one that is not there, texts to 5 bytes, undo cap 2, 5 events | history whole, characters whole |
| `page` | alone: 5 inputs; in a room: 2 inputs, 3 frames of the server, late ones among them | one press acts once, settings survive, the server is followed, frames understood |

Why the bounds are enough.

- *Servers.* Three sessions for two places is the least in which somebody is
  refused while two others see each other come and go; one scene body, one spawn
  that is destroyed and one that replaces it exercise both id ranges and the replay
  list, and a reset needs no more. A bound on ids ever given (`MaxJoins`,
  `MaxSpawns`) stands for the counters of the code, which never wrap in practice.
  The input run has an empty scene, and the world run no inputs, since inputs and
  bodies do not touch. In `clients`, one snapshot datagram in flight suffices to
  overtake or lag behind the stream, and the second snapshot makes old and new ones
  differ. In `rooms`, three joins of two games race for one port, so that the pool
  runs out, a dropped join keeps the port and another fails on it, and a port is
  used again by another game. In `relay`, one port makes two worlds follow each
  other on it; the time-outs keep the order of the real ones (3 s silence, 10 s
  first reply, 60 s cooldown) with the smallest gaps. With a cooldown of 3 and a grace
  of 2, a connection strays once its handshake and its missed signals come to 2 s, so
  both what `PacketsStayOut` allows and what it forbids are in reach.
- *Catalog.* Two requests at a time are what any two file operations or statements
  need to interleave, and requests follow one another without end; two versions and
  three ids give a republish, a delete and a second game beside them; two uploads of
  one bundle may race. One failure
  or restart lets the rest of the run recover from it.
- *Scripts.* `MaxSteps = 80`, two levels of calls and 30 turns of a loop are small
  enough that runaway programs of the instance hit each limit, and large enough
  that modest ones do not; the clock is looked at every 32 steps instead of 1024. An expression of two
  levels puts every pair of operators side by side. In `host`, an entity with one
  script, one with two (one of them unreadable), and one more that a script
  may spawn are what it takes to skip, repeat or reorder a turn.
- *Editor and page.* Four events of `studio` are enough to test, edit the file
  behind the test's back, stop and save. Five events of `editor` type a burst, move,
  type, undo and redo with a cap of two. In `page`, five changes of keys, mouse and
  lock cover a press, its release and a press of another kind around a menu that
  opens and closes. In a room two are enough to walk and to open the menu: frames pile
  up without one too, since they may come between any two frames of the page. Three
  frames of the server, with snapshots of three moments, overtake one another and a
  welcome.

The safety properties proved in section 5 hold for every instance; there the
bounds matter only to TLC. `server_world` uses the symmetry of sessions and
`catalog` that of requests and ids; they check no liveness. Deadlock is checked but
for five modules in which everything may be at rest: `Catalog` (no request left to
serve and no id left to give), `CowScript`, `ScriptHost`, `CodeEditor` and `Page`
(the bounds on calls, frames and events are used up).

## 4. Fairness

- `GameServer`: weak fairness of `Tick`. The main loop drains what has arrived
  and then runs the due ticks; a script call is cut off by its step and time
  budgets. Nothing is assumed of clients or scripts.
- `Replication`: the same for the server, and weak fairness of receiving: a page
  runs its client every frame, an open stream delivers. Nobody has to say hello.
- `RoomManager`: weak fairness of join steps and of the reaper (the runtime polls
  ready tasks, await_ready has a deadline, the timer ticks), of the idle window,
  and of the end of a killed process. Probes may be lost for ever.
- `Relay`: weak fairness of `Second`, and strong fairness of a second that meets a
  bridge waiting, for every bridge that waits again and again: no tick is tied to the
  frames of a browser. Strong fairness of `KillTaken`: tokio's select! picks among
  ready branches at random, so it does not for ever prefer the next frame to a signal
  that is ready again and again. Weak fairness of `Forward` for WebSocket only, whose
  messages have been read when they are taken; one of WebTransport may never end.
- `ScriptHost`: weak fairness of the passes over the scripts, and at every depth
  strong fairness of the end of the call that runs there: each call it makes is a
  step, so its budget ends it at the latest.
- `Studio`: weak fairness of the two halves of a frame, and strong fairness of the
  debounce of a changed file (`Cools`): time passes. The user need do nothing.
- `Catalog`, `CowScript`, `CodeEditor` and `Page` promise nothing that must happen,
  and state no fairness.

## 5. Proofs

All theorems hold for every value of the constants that meets the named
assumptions of the modules (`BasesAssumption`, `LimitsAssumption`,
`SessionsAssumption`; `ChannelAssumption`; `RoomConfigAssumption`;
`ConnsAssumption`, `CapAssumption`, `TimesAssumption`, `PortsAssumption`;
`UploadsAssumption`, `BoundsAssumption`, `NamesAssumption`, `TabsAssumption`;
`HostAssumption`, `ScriptsAssumption`; `StudioAssumption`; `EditorAssumption`,
`TextsAssumption`, `BurstsAssumption`; `PageAssumption`), each of which a run evaluates.
No theorem about a system has any other hypothesis.

**ReplicationProofs, the server.** `TypeCorrect`, then `Invariance` of
`IInv = TypeOK /\ AllocationInv /\ ReplayInv /\ AudienceInv`, and from it
`UniqueIds`, `RostersAgree`, `SpawnsAgreeBetweenTicks` and, as an action property,
`FreshIds`. `NetIdsUnique` alone is not inductive: a new id is unused only because
every id in use lies below its counter and in its own range (`AllocationInv`).
`SpawnsAgree` speaks of the time between ticks; within a tick the replay list also
holds ids whose despawn is queued, which is `ReplayInv`. `AudienceInv` ties
`told` to the replay list and the roster, except for sessions that were swept as
idle and come back with a late hello: they missed leaves and despawns. The inputs
have an invariant of their own, `InputInvariance` of `InputInv` (no player is driven
by an input newer than the last one received, and within a tick it is that one), from
which `InputsGoForward` follows as an action property.

**ReplicationProofs, the system.** `SystemIsAGameServer`: every step of a room with its
browsers, streams and datagrams is one of `GameServer` or leaves it alone, so all of
the above holds in the system (`SystemKeepsItsIds`), whatever the network does.
`SystemInvariance` is of `SystemInv`: `IInv`, `ChannelsOK`, `HelloInv`, `ToldInv`, and
`OwnAvatarInv` of every client. Its core is `ToldInv`: a client that applied all that is still on its
stream would hold what the server has told it, and beyond that only avatars that
snapshots may bring. Each message that is sent adds to both sides at once, and each
that is applied takes from the front. `HelloInv` says that a page says hello once
and is neither spawned nor welcomed before the server has heard it; `OwnAvatarInv`
that a client has no avatar of itself, and that no join ahead of its welcome, on the
stream or already applied, will turn out to have been its own. From it `NothingIsMissing`, `NothingElseLingers` and, for
sessions on one ordered stream, `CaughtUpClients`. The effect of a whole stream is a
recursive function (`AfterAll`); that it is defined at every length, and what it
does to a message added at the end, is proved by looking at the least length at
which it would fail.

**RoomManagerProofs.** `RoomsInvariance` of `RoomsInv`, and from it
`RoomsTypeCorrect`, `PortsStayExclusive`, `NoProcessOrphaned`,
`PortsStayAccounted`. The strengthening names the holders of ports: everyone from
claim to release, and dropped requests for ever (`HoldersInv`); `StageInv` says
where a request stands and that the reaper has at most one room out of the map
whose port is not released.

**RelayProofs.** `RelayInvariance` of `RelayInv`, and from it `RelayTypeCorrect`,
`SlotsAccounted` and `PacketsReachNoOtherWorld`. The last needs a bound on how long
a connection can go on without a word of its room (`QuietInv`: the grace, and a second
for each signal it has not acted on), and that a gone room's port has not cooled for
longer than its connections have been quiet, unless they outlived it (`StaleInv`). So a
bridge strays into another world only if `Cooldown < took + Grace + signals`: its
handshake took, or a message of it stalled through, what the cooldown leaves beside the
grace. No line of the sidecar bounds either, and no line of the control plane, whose
cooldown it is, asks for it; the theorem assumes nothing of them and says what each
connection pays.

**CatalogProofs, the catalog.** `CatalogInvariance` of
`CatalogInv = CatalogTypeOK /\ RowsAgree /\ RowsIssued /\ JobsOK /\ ClaimsHold`,
and from it `CatalogTypeCorrect`, `RoomsShareTheirWorld` and `CatalogIsALedger`.
`SameVersionSameWorld` compares two rooms that may have read the tables at
different times, so the invariant says of every claim, a room's or that of a join
under way, that what it took from the tables is still there as long as its game is
(`ClaimsHold`). The refinement needs that a row carries an id that was issued
(`RowsIssued`): an id that is issued without a row is gone, and stays so, because
`AddVersion` looks for the row under the lock it writes under. A second invariant,
`DiskInv = StoredIsComplete /\ JobsDisk /\ WritersApart /\ RecordedWhole`, carries
`BundlesAreWhole` and `ListedGamesArePlayable`: but for a bundle that was raced for,
a staging directory has one user, who finds in it what it has written so far, and a
version is recorded only after its directory was found whole. Identical uploads may
meet at any step; what the theorems except is only the bundle whose staging directory
one of them cleared under the other, and section 6 says what becomes of that one.

**CatalogProofs, the publisher.** `PublisherInvariance` of
`PubInv = CatalogInv /\ LockInv /\ ClientInv /\ Accounts`, and from it
`PublisherIsACatalog` (`PSpec => Spec`: every step of the composition is a step of
`Catalog` or leaves it alone, so the theorems above hold of the composition),
`PublisherKeepsALedger` and `KeysAreNotLost`. `KeysAreKept` only counts; the
invariant says which games are meant. A game of this browser has its key in local
storage, or a tab is due to bring it (`Expected`), or it is lost, and each lost
game was paid for by a mishap (`Accounts`). Two facts carry this: one crash loses
one game only, because `publish()` holds the lock from its first row to its second
(`LockInv`); and every tab that may still make a game began when no key was held,
which stops as soon as the first key arrives (`KeysOK`).

**ScriptHostProofs.** `HostInvariance` of `HostInv = ShapesOK /\ StackInv /\ PassInv
/\ SoundInv /\ TurnInv /\ EventInv`. What a script may do depends on what it runs
inside of, so the invariant describes the stack of calls: an event alone at its
bottom, the compiling of an attached script only above the call that attached it and
for a living entity, nothing destroyed while a world is loaded (`StackInv`). Then
the flags of a script agree with what has been called (`SoundInv`), and where a pass
stands divides the scripts: those it has passed are done, those ahead have had no
turn in this frame (`PassInv`, `TurnInv`). From it `ScriptsGetTheirTurn`,
`TheWorldIsKept` and `TheSinkStandsIn`, for scripts that call builtins in any
number, order and depth.

**StudioProofs.** `StudioInvariance` of `StudioInv = EditorOK /\ Shown(sc,
ui.selection) /\ EditsAreClean`, and from it `BodiesStayOwned`, `SelectionStaysShown`
and `TestsAreNeverSaved`. Every step of the editor is a sequence of methods of
`Scene`, so the lemmas speak of scenes: each method keeps `Shape` (every body of the
physics world is that of one living object, once; player, tags and compiled scripts
belong to living objects), and what else it leaves alone is one of a few relations
(`Keeps`, `Shrinks`, `KeepsTags`). `BodiesAreOwned` alone is not inductive: a scene
that is loaded must find a handle for every object of its file, which
`StudioAssumption` grants and a count of the handles in use shows (`Fits`).
`SimulationIsNotSaved` needs that only from the start of a test to the frame after its
end the scene differs from what was edited, the clipboard never (`EditsAreClean`), so
that nothing which is saved at any other moment has been simulated.

**CodeEditorProofs.** `EditorInvariance`: every tab is of its type, has its caret
in its text, and `BufferInv = BufferOK /\ UndoIsWhole /\ RunsAgree` holds of it.
`UndoIsWhole` alone is not inductive: that one undo takes back a whole run of typing
needs that the mark by which the code continues a run (`last`) and the run that is
really going on never disagree (`RunsAgree`). The lemmas follow the code: pushing a
snapshot with the cap on their number, erasing, inserting, restoring, each of which
changes only the fields it names. `UndoKeepsAll` states it for every tab.
`HistoryStaysWhole` adds that a tab without the mark of unsaved work holds what is on
disk (`DiskInv`). That is an invariant only with the history field `behind` in it: a
file may be open in two tabs, of which one is saved, and a write may fall short without
the editor's notice. Both are in the model; of both section 6 says more.

`CharactersStay` is the action property `CharactersStayWhole`. A text is whole when
every first byte of a character is followed by its second one and nothing else; the
keyboard delivers whole texts (`BurstsAssumption`). The argument has two halves. The
places the caret goes to by character, word and line lie between characters
(`BackIsBoundary`, `OnIsBoundary`, `LineIsBoundary`): a run of like bytes begins and
ends at a boundary since the two bytes of a character are of one kind. And a whole
text cut at a boundary, or two whole texts joined, are whole and meet at a boundary
(`PrefixIsWhole`, `SuffixIsWhole`, `JoinIsWhole`). A tab that moves
up when another is closed is not the tab that stood there: the property leaves out that
step.

**PageProofs.** Of the wire format, `DecodeInvertsEncode`: every message, a snapshot
of any number of entities up to 65535 included, is read as it was written, and a
frame cut short after any field is refused. The writer's and the reader's accounts of
the fields are two tables in the code, and `LayoutsAgree` compares them; a layout
that names a field twice, or the kind of message as a field, would break the
reading back (`OneFields` to `FiveFields`). `FramesStayUnderstood` carries it to every
frame that arrives. Of the menu, `MenuInvariance` of `MenuInv`, from which
`SettingsAreKept` and `PressesStayMeant` follow. `SettingsSurvive` needs that neon is
never on without a strength (`Visible`), for the strength is not stored, and that a
number packed from bits gives each of them back: below a flag's bit lies less than its
power of two, above it a multiple of the next (`BitsRange`, `BitsRead`,
`DigitRead`). `PressesAreMeant` is not inductive: a press that began while the menu
was closed, or has acted, must be one that the open menu has seen, through the
edge flags that `setOpen` primes and `update` keeps.

Of the client that follows a server, `ServerStaysFollowed`, where `PageAssumption` says
that the soft threshold of a correction lies below the hard one, as in `NetClient.hpp`,
and that the others are not the player. A snapshot that comes late does show a body
further back, so the theorem speaks of a body that has only gone forward in what the
client holds and has heard of it (`Onward`), at any moment and of any body: then what is
held of it puts it nowhere before the place it is shown at (`Settled`), and neither does
what waits (`Forward`). This is a promise its samples make (`Behind`): followed from a
moment on, none of them puts it before a place. The first sample may lie before that
place, when the body is between it and the second, so the promise is not one about
poses alone. It outlives a new sample; the loss of the oldest when a buffer is full; a
body that leaves and comes back within a step, which starts anew; and the clock, after
which it holds of the place the body has come to (`FollowedKeeps`). That frames wait in
another order than they were sent matters to none of this: the invariant (`FollowInv`)
says only what they are, and where each body is settled. The interpolation divides only by a span that is
positive, which `Trimmed` sees to. A snapshot leaves the player within the hard
threshold (`ReconciledNear`), and each step adds one that is walked. A snapshot, the
frames of a step and the steps of a frame are taken in by recursive functions
(`Sampled`, `Heard`, `Advanced`); each has a state after every part
(`SampledRun`, `HeardRun`, `AdvancedRun`), and the proofs go from one to the next.

Only model-checked, and why:

- all liveness (`SilentSessionLeaves`, `LeaverFades`, `EmptyRoomStops`,
  `JoinIsAnswered`, `DeadRoomLetsGo`, `PassEnds`, `ChangesAreLoaded`), which is
  beyond the prover;
- `Lexer` and `CowScript`, which compute over texts and trees with recursive
  operators: the prover has no induction over data, and its main backend is lost
  where an operator is declared recursive.

## 6. Where the code and what is said of it differ

None of the passing runs states what follows; each point was met while modelling.
The first group are definitions of the modules, with a small instance that refutes
them: put the definition in the place of the run's properties to see it.

| Definition | What is said | What happens | Instance |
|---|---|---|---|
| `SceneBodiesKnown` | `src/server/GameServer.cpp:471`: a client's representation stays valid through a reset | a scene body that a script destroys is announced as gone, and a reset rebuilds it under its old id without announcing it | `server_world` with 1 session |
| `TrafficKeepsAlive` | `GameServer.cpp:310`: any traffic keeps a session alive | a hello after the idle sweep makes a session that counts as silent since time 0; the next tick reaps it | `server_sessions` |
| `RoomCap` | `control/src/main.rs:17`: a cap on concurrent rooms | the cap is checked before an await and used after it (`rooms.rs:178`) | `rooms` with 2 joins of 1 game and 2 ports |
| `PortsInUse` | `control/src/rooms.rs:84`: ports in use or cooling down | a request dropped while its room starts never releases its port (`rooms.rs:181`) | the same with 2 rooms |
| `OneConnectionPerSession` | `sidecar/README.md:5`: a per-connection session id | a restarted sidecar reuses ids that rooms still hold (`sidecar/src/main.rs:314`) | `relay` |
| `RacesAreHarmless` | `control/src/bundle.rs:202`: never a half-populated bundle that looks complete; `219`: two identical uploads racing are fine | two identical uploads share a staging directory: one clears what the other is writing, and what is left is moved into place and recorded | `catalog` |
| `CompileAnswers` | `CowScript.hpp`: compile() answers with an error message | a `return` at the top level leaves compile() as a C++ exception | `script` |
| `UpdatesRun` | `help.md:117`: a script runs every frame while testing | a scene that is reloaded in a test has no compiled scripts | `studio` |
| `FileIsOpenOnce` | `CodeEditor.hpp:55`: the buffer is created if not already open | a script found in another directory is kept under its full path and opened again; each tab then saves over the other | `editor` |
| `ReplacingIsOneStep` | `CodeEditor.cpp:375`: replacing a selection stays a single undo step | deleteSelection pushes a step and insertText another | `editor` |
| `NestingEnds` | `ScriptHost.cpp:578`: attach_script must not be a way to get an unbounded script running | each compilation has a budget of its own, and a top level that attaches itself under another spelling of its path recurses until the native stack is full | `host` |
| `PacketsStayOut` without `Outlived` | `control/src/rooms.rs:37`: the cooldown keeps a late relay from feeding a fresh room | a handshake or a WebTransport message that takes longer than the cooldown is not cut short | `relay` |

Others that a property is stated around, or that no definition expresses:

- *Replication.* An older snapshot datagram is applied over a newer one
  (`NetClient.cpp:193`). A late one brings back an avatar, without its name.
  A client that a full room refused never says hello again.
- *Publishing.* Local storage belongs to all projects and tabs of a browser: what
  is updated is the game published last. A page that is reloaded with its window
  closed loses the key of an answer it had (`GameBuilder.cpp:704`); an answer lost
  after the commit makes the retry a second game; a game deleted on the server is
  updated in vain for ever. What is sent is the live scene, simulated or not.
- *Scripts.* An unterminated string swallows the rest of the source without an
  error; `1.2.3` is read as 1.2. Start scripts of a world that was reset may ask
  for a reset again, in every frame. A client compiles and starts its scripts before
  its spawning is switched off (`Application.cpp:203-215`), so what these spawn and
  destroy there is its own; `WorldIsKept` speaks of what runs afterwards.
- *Studio.* Saving does not take note of the file's new time stamp, so the save
  itself triggers a reload, which loses objects without a shape. A scene without a
  file is not restored after a test, and a later save writes the simulated world
  (`stuck` excepts it in `SimulationIsNotSaved`). Testing always saves to
  `scenes/scene.json` from one panel and to the scene's own path from another, and
  not at all from the mode menu. A static object whose mesh does not load is
  dropped at the next load. `WorkspacePanel.cpp:572` reads a component of a
  selection that may be gone.
- *Script editor.* Closing a tab loses its edits without a question. A save clears
  the mark of an edited tab whether or not the write succeeded
  (`CodeEditor.cpp:155`). Replacing a
  selection, and Cut in the menu, push two undo steps. Up, Down and Page keys move
  by byte columns and may land inside a character, and so may an anchor that a
  selection of nothing leaves behind: `CharactersStayWhole` excepts the two.
- *Game page.* Resume by click returns before the cursor is captured again
  (`GameMenu.cpp:439`), and the space that chose Resume is a jump in the next frame.
  Esc with W held moves the selection at once. The menu stops NetClient too: no
  input is sent, and frames pile up until it closes, all with one time stamp.

## 7. Not modelled

- *Physics, rendering, platform, meshes*: numerics and drawing, with caches of GPU
  objects as their only state. Which bodies the physics world holds is in `Studio`.
- *Pages, deployment and tools*: static pages and configuration. What they
  configure appears as constants (time-outs, caps) and actions (restarts).
- *Of components that are modelled in part*: byte encodings and the relay's stream
  framing (a message is forwarded whole), the fallback between the two browser
  transports, the tick accumulator and `sessionAddr` of the room's main loop,
  `stop_all` of the control plane, name sanitising, layout and gizmos of the editor,
  cameras, the export of a game to a directory or zip, and the builtins that only
  compute. Scripts that destroy a player, or anything at their own top level, are
  undefined behaviour or left out, as the modules say.

## 8. Plan

What would come next, in this order:

1. An abstract specification of a room's audience (who sees whom), which
   `GameServer` implements.
2. The room's main loop with `sessionAddr` and its accumulator, composed with `Relay`.
