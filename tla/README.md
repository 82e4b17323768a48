# RLO: a verification project

RLO is a small three-player game over Valve's GameNetworkingSockets (GNS).
This directory holds TLA+ specifications of its networked core, the TLC
configurations that check them on small instances, and theorems about them
checked by TLAPS. Paths below are relative to the repository: `LobbyServer.cpp`
is `src/net/LobbyServer.cpp` and `main.cpp` is `src/main.cpp`.

## 1. Inventory

Every program is one thread: a loop that runs GNS callbacks
(`NetRuntime::pumpCallbacks`), reads messages and does its own work. The GNS
service thread fills message queues and the callback queue at any moment, so
what interleaves is the network with the parts of a loop, and the programs with
each other.

| Component | State | Operations | What makes it correct |
|---|---|---|---|
| Lobby server (`LobbyServer`, `lobby_main.cpp`) | `m_sessions` (key to record: owner, address, counts, state, two time points), `m_connToSession` | start, stop, connection status, Announce, Claim, Heartbeat, ListReq, clean-up | one owner per active session, its address listed; sessions are leases: renewed, orphaned, claimed, deleted; the loss of an owner is noticed |
| Lobby client (`LobbyClient`) | connection, `m_connected`, announcement, session key, latest list | connect, disconnect, announce, claim, heartbeat, list | announces when connected; hears of the end of its connection |
| Game host (`GameHost`) | `m_clients`, `m_connToId`, stored moves, positions, tick, `m_gameStarted` | start, stop, connection status, Input, updateSim, startGame, restoreState | slots are not shared; a slot is handed over at rest; every client hears of its slot and of the start; the move of a client is the key it holds |
| Game client (`GameClient`) | connection, `m_connected`, `m_myId`, `m_gameStarted`, `m_hostDisconnected`, latest snapshot | connect, disconnect, connection status, messages, sendInput | its flags are about the connection it has; it agrees with the host on slot and start; it waits for the start; it comes to show what the host has |
| Host program (`main.cpp`, host mode) | heartbeat timer, camera | one frame | heartbeats often enough for the lobby |
| Client program (`main.cpp`, client mode) | phase, list, selection, saved migration state | one frame, events | no connection leaks; a start is seen; a lost host ends the game |
| World, tiles (`World`, `PlaceholderTileset`) | map, tiles, rectangles of the tileset; the camera (in main) | generate, setTile, getTile, isWalkable, conversions, loadTileset, render; pan, zoom | one cell for each tile; a new map is closed; a point in a tile is taken for that tile; sprites are drawn back to front and none is left out |
| Runtime (`NetCommon`) | GNS interface, router | init, shutdown, pumpCallbacks | routes a callback to its owner |

Interaction: a host program announces its session to the lobby (reliable) and
keeps it alive with heartbeats (unreliable, a second and up to a frame apart). A client program
asks the lobby for the list (every half second), joins a listed host, waits for
its `StartGame`, and then leaves the lobby, sends its moves (unreliable) and
draws the host's snapshots (unreliable). When a host is lost its session is
`Migrating` for a grace period in which another program may Claim it.

What is hard: messages and closes of several connections about one session in
any order; two ends of a connection that learn of its end at different times;
time-outs that race late heartbeats; callbacks and messages that arrive between
two parts of a frame; objects (`GameClient`, slots) that are used again;
unreliable messages that nobody numbers (`serverTick` and `clientTick` are sent
and never read); a projection under a camera, computed in floats that end in a
floor. `PROJECT.json` lists these hazards at their lines, with the properties
that cover them.

## 2. Modules

| Module | Models | Composed with |
|---|---|---|
| `LobbyServer` | `LobbyServer.cpp`, any well-formed messages from any connection | |
| `SessionLease` | abstract: a session is a lease (held, orphaned, vacant) of a lobby that opens and closes | |
| `LobbyLease` | refinement mapping from `LobbyServer` to `SessionLease` | both |
| `LobbyServerProofs` | theorems about the above | |
| `LobbySystem` | `LobbyServer` with the host programs and their lobby clients over a lossy network | extends `LobbyServer` |
| `LobbySystemProofs` | theorems about the composition | |
| `GameHost` | `GameHost.cpp`: slots, greeting, moves, start | |
| `GameSeats` | abstract: seats at a table, and who was told of the start | |
| `GameHostSeats` | refinement mapping from `GameHost` to `GameSeats` | both |
| `GameHostProofs` | theorems about the above | |
| `GameSession` | the host with its simulation and snapshots, the `GameClient`s at the other end of its connections, the network between | extends `GameHost` |
| `GameSessionProofs` | theorems about the composition | |
| `ClientApp` | the client loop of `main.cpp` with `GameClient`, against hosts and a network that act at any moment | |
| `ClientAppProofs` | theorems about it: safety, and what a first join may rely on | |
| `ClientAppLiveness` | theorems about it: liveness, given that the loop runs | |
| `World` | `World.cpp` and the camera of the host program | |
| `WorldProofs` | theorems about it, one of them about what `render` leaves out | |
| `MC*` | small instances for TLC | |

### From code to model

*Atomicity.* Each program is single-threaded, so one handler is one action. In
`LobbyServer` the variable `loop` keeps the order of main's loop (callbacks,
then clean-up, then messages). In `ClientApp` a frame is cut where the network
can be noticed: `pc` runs through events, callbacks, lobby block, pump while
waiting, second pump, play, end of frame.

*Connections.* A connection handle is never used again by GNS, so each member
of `Conn` lives once. A GNS callback is an action of its own, enabled in the
part of the loop that dispatches it. Messages on a reliable connection are
delivered in order; a message under way may be cut off by a close.
Unreliable messages are a set under way: one in the set stands for any number
of copies of it, may be read in any order and more than once, and leaves at any
moment.

*Time.* Code compares `now - t` with a limit. The models keep the age `now - t`
in ticks and stop counting one tick past the limit, after which no comparison
changes. In `LobbySystem` a second is `Second` ticks: main sends a heartbeat in
the first frame in which a second has passed and starts to count from 0 again
(`hbAccum = 0.f`, `main.cpp:295-297`), so that heartbeats are up to
`Period == Second + MaxFrame` ticks apart. `SystemSpec` lets programs and network
be as slow as they like; in `PromptSpec` a frame is at most `MaxFrame` ticks late
and a heartbeat at most `MaxDelay` ticks under way. `NotSet` is the unset `time_point{}`. In `GameSession` time counts
1/240 s, in which a player moves one pixel (`speed = 240`), and a frame takes one
of the times of `FrameTime`.

*Numbers.* `World` counts the camera's position and zoom in units of `1 / Grain`
and the screen in `1 / Grain^2` of a pixel, so that products are whole numbers.
What float arithmetic makes of a conversion is a choice (`Floats`): any number up
to `Rounding` off, before the floor is taken. So `WorldToScreen` is a set of
positions, and `ScreenToWorld` the set of the tiles a point may be taken for.

*State left out.* Names, ports, seeds, packet layout, the random generator
(any roll it may make is a choice of `Generate`), colours. The
size and protocol checks drop a packet without a change of state, so dropped
packets are no steps. In `GameHost` and `GameSession` both axes of a move are
treated alike, so one is kept. In `ClientApp` a list is the set of hosts it shows as open, and the
row that is selected is left to the player.

*Faults.* Operators marked `FAULT` are broken forms of the operator that
follows them. No specification uses them; they are what each property is tried
against (`mutants` in `PROJECT.json`).

## 3. What the runs check

Bounds are stated in each `.cfg`. Deadlock is checked except in `ClientApp` and
`GameSession`, whose programs stop. `system_prompt` uses a symmetry set (two
hosts may change places, each with its key), since it checks only invariants.

| Run | Instance | Shows |
|---|---|---|
| `lobby` | three connections, of which one keeps to a key, one uses both keys and one only asks for lists; fair loop and clock | types; owners, addresses and states agree; the grace clock runs exactly while Migrating; the registry holds open connections, and the owner of a session if it keeps to one key; lists are current; a session is orphaned only with cause; the table implements the lease of `SessionLease`; overdue leases are swept; the time left to a session is prolonged only by a message or a close for it and runs down with the clock and the clean-up; nothing lives for ever without messages |
| `system_prompt` | two hosts; a second of 2 ticks, frames up to 1 tick late, a delay up to 1 tick, one heartbeat lost in a row, TTL of 7 ticks | a host that is heard stays listed (with a TTL of 6 it does not); a listed host is connected |
| `system_late` | one host, no promptness, fair loops and clock | the session of an ended host leaves the list for good |
| `host_safety` | four connections, two slots | slots distinct, handed over at rest; greeting complete and in order; implements `GameSeats` |
| `session` | two clients of which one at a time is connected, while the host may still hold the other; frames shorter and longer than the time between snapshots; fair loops and network | types and the field; both ends of a connection agree on slot and start; nobody moves before the start; what has settled stays: a key in effect while it is held, a view while nothing moves; a key that is held or let go is what the host moves the player by in the end; when keyboards rest a client comes to show what the host has |
| `client` | two hosts, two joins, fair loop | no connection leaks; the player id is from the connected host; a start that arrives is seen; a lost host ends the game |
| `world` | maps of 2x3 and 3x3, panned by a fraction of a pixel in and out of the window, at zooms of .5, .9, 1, 1.6 and 2; every rounding up to a hundredth of a pixel | types; a point in the diamond of a tile is taken for that tile; overlapping sprites are drawn back to front; setTile changes one tile; nobody can walk off a new map |

Why the bounds are enough: two connections for one key are what a take-over
needs, and the second key shows that sessions do not disturb each other. TTLs of
one to three ticks let every order of expiry, message and close happen. Four
connections for two slots let a slot be used again while another connection
waits for one and a fourth is refused. Two joins
let state be carried from one connection to the next. In `session` two different messages under way are enough for
one to overtake another; one client at a time has a connection (`MaxConnected`),
and the host learns late that the other has left, so a slot passes from one to
the next with messages of both under way; the two clients otherwise do not
touch each other's state. Two connections are never one too many for two slots:
the refusals are checked in `host_safety`, which has four. Two frame times
let a frame send a snapshot, or none, or leave time over. In `world` the 3x3 map
is the smallest with an inner tile and the other is not square; sprites
that overlap belong to neighbours, so nothing larger is needed, and the theorems
hold for every size. One step of the keys pans and zooms further than a frame
does, so that few cameras show all cases; the theorems hold for all steps. In
`system_prompt` the second has two ticks, so that a frame can be late and an
arrival be delayed by less than a second. The bounds on counters are `MaxConn` (`ClientApp`),
`MaxInFlight` (`LobbySystem`, `GameSession`), `MaxFrame` (`LobbySystem`: how late
a frame is told apart), `MaxAccum` (time left over for
snapshots, which grows without end in the code: at 60 frames a second every
frame is longer than the 1/80 s between snapshots), `MaxConnected`
(`GameSession`), `PanLimit` and `Rounding` (`World`); `missed` stops one past `MaxLost`.

Fairness. The lobby loops are `for(;;)` and call `pump` in every round, so
`BeginPump`, `EndPump` and the clock are weakly fair. The client and host
programs draw a frame every 1/60 s, so the parts of a frame (`Frame`,
`HostFrame`) are weakly fair. In these modules nothing is assumed of players,
connections or messages. `GameSession` has to assume something of the network
as well, because its liveness is about what unreliable messages bring about:
`SessionFairness` makes the frames of the host, `sendInput` (called in every
frame, `main.cpp:957`) and the reading of reliable messages weakly fair; a
message that is out of date does not stay under way for ever (weak fairness of
its leaving); and of unreliable messages that are sent again and again GNS does
not lose all (strong fairness of reading one of those under way, since it may
leave and be sent again). Players never have to press a key or stay.

### Where code and comments disagree

Each of these runs checks one property, taken from a comment, and TLC finds it
violated.

| Run | The code |
|---|---|
| `lobby_stale_close` | "If this connection owned a session" (`LobbyServer.cpp:90`): the session the connection announced last is orphaned, also when another connection owns it by then; `m_connToSession` is not "only for current owner conns" (`LobbyServer.hpp:60`). |
| `system_keep_alive` | Heartbeats do not "keep alive" (`LobbyProtocol.hpp:11`) a session that has once expired; its host never announces again and stays unlisted. |
| `client_stale_start` | "wait for host StartGame" (`GameClient.cpp:125`): a start seen on an earlier connection counts for the next. |
| `client_stale_loss` | "host disconnected during gameplay" (`GameClient.cpp:56`): a loss while waiting ends a later game. |
| `client_no_migration` | "Attempting migration..." (`main.cpp:764`): the `break` on line 789 ends the program. |

## 4. What is proved

The theorems hold for all values of the constants that satisfy the named
assumptions of the modules (`LobbyAssumption`, `SystemAssumption`,
`HostAssumption`, `SessionAssumption`, `ClientAssumption`, `WorldAssumption`):
any number of connections, keys, hosts, any TTLs, any size of map.

*`LobbyServerProofs`.* `Invariance` proves an inductive invariant: types, the
agreement of owner, address and state, the grace clock, the registry. Types are
needed to know that every record is a session; the registry conjunct needs that
only open connections send messages; the ownership conjunct is preserved because
`MarkMigrating` clears the owner in the same step as the state. From it follow
`TypeCorrectness`, `OwnershipCorrectness`, `GraceClockCorrectness`,
`RegistryCorrectness`, the action property `OrphaningHasCause`, `ListsAreCurrent`, and `Implementation`: every step of
the server is a step of `SessionLease` or a stutter. `OwnersStayRegistered`:
a connection that keeps to one key, as the host program does, stays registered
while it owns the session, whatever the other connections announce. For one
that uses several keys it is false, since `m_connToSession` holds one of them
(a hazard). `SessionsAreMortal` (`SessionsRunDown`) is the variant behind the
end of an abandoned session: `TimeLeft`, what is left of its TTL and of the
grace to follow, is a natural number that no step raises but an announcement, a claim, a
heartbeat or a close for it; a tick lowers it until the session is overdue, and
then the next pump does. Only the descent itself, that such a number cannot
shrink for ever, and the fairness that makes it shrink are left to TLC.

*`LobbySystemProofs`.* `SystemImplementsServer`: the composition is a behaviour
of `LobbyServer`, so all of the above holds for it. `HeardHostStaysListed`: if
`Period * (MaxLost + 1) + MaxDelay <= kActiveTTL` and `MaxDelay < Second`, then
`PromptSpec` keeps every heard host listed. The argument is a budget: the age of
the session never exceeds the time since the last frame that sent, and a period
for each heartbeat missed or under way, and at most one is under way. With the
constants of the code (12 s, frames of 1/60 s), and a delay of at most half a
second, a host may lose 10 heartbeats in a row. Not 11: the twelfth leaves more
than 12 s after the last one that arrived, and unless that one was under way for
longer `cleanupExpired` (`LobbyServer.cpp:195`) orphans the session first.
`ListedHostStaysConnected` and `SystemTypeCorrectness` hold without promptness,
and so does `SystemImplementsLease`: with any number of hosts each session is a
lease. `EndedHostsLeaveTheList` proves liveness from liveness: from
`AbandonedSessionExpires`, which the run `lobby` checks of the server, and
`HeartbeatsRunOut`, an assumption about GNS (it stops delivering what an ended
program has sent), it follows that the session of an ended host leaves the list for good. Proved
is what lies between: a host that has ended sends nothing more
(`HostMoves`); its one announcement, which may still be under way, must have
arrived for the session to be listed (`NotYetListed`); once it has arrived
nothing lists the session again (`OnlyAnnounceLists`); and of the steps that
renew the time of a listed session only a heartbeat leaves it listed
(`OnlyHeartbeatRenews`). So either it is deleted, or heartbeats renew it again
and again, which `HeartbeatsRunOut` excludes.

*`GameHostProofs`.* `HostInvariance` proves types, the agreement of the two
containers with GNS, rest of free slots, what each client was told, and that a
connection without a history has an empty stream (needed because `OnConnected`
appends to it). `SeatsStayDistinct`, `HandedOverAtRest`, `ClientsHearOfStart`
follow, and `HostImplementation`: the host implements `GameSeats`.

*`GameSessionProofs`.* `SessionImplementsHost`: a session is a behaviour of
`GameHost`, so all of the above holds for it. The inductive invariant
`SessionInv` relates the two ends: a stream is a greeting as far as it goes, its
`StartGame` is a start of the host, and what a client knows is what it has read
of its stream (`KnowsWhatItRead`), so a client that has heard of the start is
right about it. Hence nothing is under way to the host before the start
(`Quiet`): each connection is its client's first, and what it knows of a start
it was told on this one. From it
follow `SessionTypeCorrectness`, `ClientsStayInAgreement` and
`NobodyMovesTooEarly`. That the last one is about first connections matters:
the run `client_stale_start` shows a later one that does not wait.
`SettledThingsStay` is the half of `HeldKeyCounts` and `EveryoneSeesTheSame`
that needs no fairness: if the host moves a player by the key that is held, and
nothing older is under way (`KeyInEffect`), this stays so until the key changes
or the connection ends, whatever the others do; a view that shows what the host
has, with nothing older under way (`ViewUpToDate`), stays so until something
moves. `SessionImplementsSeats`: the composition implements `GameSeats`.

*`ClientAppProofs`.* `ClientTypeCorrectness`: `played` holds only connections
because a client that is connected has one (`ConnectedOnConn`), which is part of
the invariant. `ConnectionsDoNotLeak` adds that a program that shows the list,
or has stopped, has no game connection (`GameLink`): a join then opens the only
one. `IdComesFromTheHost` adds that a message that waits to be read was sent on
its own connection (`InboxWasTold`).

Two comments about the client are refuted by runs, because `disconnect` leaves
`m_gameStarted` and `m_hostDisconnected` set. How far that reaches is proved from
an invariant about handles, which are used in order, the client holding the
last one or none (`HandlesInOrder`): an Input follows the start of a game on
its connection or on an earlier one (`InputFollowsAStart`), and main leaves a
game whose host is there only if an earlier connection was closed
(`FirstLossIsReal`). So both comments are true for a player who joins once
(`FirstGameIsStarted`, `OneJoinMigratesOnlyWhenLost`: `MaxConn = 1`), and the
runs that refute them, with two joins, are as small as they can be.

*`ClientAppLiveness`.* `StartIsSeenIfLoopRuns` and `LostHostEndsGameIfLoopRuns`
prove the two liveness properties of the client, for any number of hosts and
joins, from an assumption about the thread that runs it, `LoopRuns`: the program
stops, or frames end and begin again and again. It is what the fairness of
`FairSpec` comes to, and says nothing of starts and losses. Proved is that one more frame is enough: a start that waits to be read,
or was read by the second pump, stays there until the phase is looked at
(`StartIsIn`); the closed callback of a lost host stays in the queue until the
part of the frame that empties it (`LostIsQueuedStep`), the flag it sets stays until main
tests it, and the test stops the program.

*`WorldProofs`.* `WorldTypeCorrectness` and the index lemmas (`IndexInRange`,
`CellOfIndex`, `RowAndColumn`: a row-major index determines its cell) give
`PlacementIsLocal` and `GeneratedMapIsClosed`. `PickIsInverse` rests on
`PointIsPicked`: a point of the screen is taken for the tile in whose diamond it
lies if it is clear of the edges by four times the rounding, twice in the sum of
the coordinates that `screenToWorld` takes, once in each of the two that
`worldToScreen` gives for the tile; then no rounding carries either sum over a
multiple of the tile, whatever the camera. At the very edge of a tile rounding
decides, in the model as in the code, and nothing is claimed.
`DrawnBackToFront`: sprites that overlap, however their positions are rounded,
belong to tiles at most two apart, for which the order of rows is the order of
depth.
`CullingLeavesOutTiles` refutes what `render` means by "Rough culling bounds
(expand a bit to avoid edge artifacts)" (`World.cpp:121`): the bounds are the
tiles at the top left and bottom right of the window, but rows have
their extremes at the other two corners. With the map, window and camera of the
host program only rows up to 5 are looked at, so that the tile in column 35 of
row 10, which belongs at (160, 360) of the window, is not drawn, however floats
are rounded. Columns are in order: `ColumnsAreLookedAt` shows, for every window
and camera, that the bounds keep the column of every tile whose sprite begins in the window or up to 98
pixels outside it (100 but for the rounding), which is what the expansion of the
bounds is for.

### Only model-checked

Every invariant and action property of the passing runs is a theorem. Of the
liveness properties three follow, by theorems, from others:
`EndedHostIsDelisted`, `StartIsSeen` and `LostHostEndsGame`. Only checked are

- `AbandonedSessionExpires` and `ImplementsFairLease`: from fairness and a number
  that cannot go down for ever (`TimeLeft`), an induction over a temporal
  formula. The step of that induction is `SessionsRunDown` for the first. Fairness
  is defined by ENABLED, for which the prover has no rule here;
- `HeldKeyCounts` and `EveryoneSeesTheSame`: from strong fairness of the
  network; that what they bring about stays is `SettledStays`.

## 5. Not modelled, and why

- The migration code of `main.cpp:792-947`, with `restoreState`, `sendClaimNow`
  and `setSessionKey` as its callers: unreachable (`client_no_migration`).
  `Claim` itself is an action of `LobbyServer`.
- `serverTick` and `clientTick`: sent and never read, except by the unreachable
  migration.
- The rounding of `float` in the positions and moves of players and in the zoom
  and position of the camera, which may be any multiple of `1 / Grain`; the second
  axis of a move. A player may stand at any of the pixels of `FieldX`.
- `World` and the session do not meet in the code: `updateSim` never asks
  `isWalkable`, a client generates its map and never renders it, and nobody
  calls `setTile`. So no module composes them.
- The row that is selected in the list of a client (`selectedIdx`), and the
  order of a list.
- Drawing other than which tiles are drawn and in which order; fonts, windows,
  the picture of the placeholder tileset.
- Arguments and start-up; failures of socket creation there, which end the
  program.

## 6. Plan

Done: the lobby with its hosts, the game host, the session of host and clients,
the client program, the map. What is left, in order:

1. `ClientApp` over `GameSession`: one `GameClient` with several connections and
   a host that answers, in place of the hosts that act at any moment, so that
   the effect of a stale start on the host is seen in one run.
2. The list as a sequence, with the selected row, in `ClientApp`.
3. `LobbySystem` with browsers and lists, and a lobby that restarts, which the
   hosts do not notice as a reason to announce again.
4. Proofs: the descent of `TimeLeft`, if the induction over a temporal formula
   can be put in a form the prover takes.
