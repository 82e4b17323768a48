----------------------------- MODULE GameSession -----------------------------
(***************************************************************************)
(* A game: the host of GameHost, with its simulation (updateSim), and the  *)
(* clients of src/net/GameClient.cpp at the other end of its connections,  *)
(* over the network GNS gives them.                                        *)
(*                                                                         *)
(* Reliable messages of a connection are read in order.  Inputs and        *)
(* snapshots are unreliable: a set of those under way stands for any       *)
(* number of copies of each, which arrive in any order or not at all.      *)
(* What is under way to an end that has closed is gone.                    *)
(*                                                                         *)
(* Time counts 1/240 s, in which a player moves one pixel (speed = 240).   *)
(* A GameClient has one connection here, its first; ClientApp is about one *)
(* that has several.  Left out: the second axis, treated as the first, and *)
(* ticks, which nothing reads.                                             *)
(***************************************************************************)
EXTENDS GameHost

CONSTANTS
  FrameTime,     \* how long a frame of the host may take
  SnapTime,      \* time between two snapshots (1/80 s)
  FieldX,        \* the width of the field
  StartX,        \* where each player starts
  HostMove,      \* what the host's keyboard may say
  MaxAccum,      \* bound: time left over for later snapshots
  MaxInFlight,   \* bound: different unreliable messages under way, each way
  MaxConnected   \* bound: clients that hold a connection at one time

Move == {-1, 0, 1}
Place == [Player -> 0..FieldX]
NoSnap == [p \in Player |-> -1]

ASSUME SessionAssumption ==
  /\ 0 \in RawMove
  /\ FrameTime \subseteq Nat
  /\ SnapTime \in Nat
  /\ FieldX \in Nat
  /\ StartX \in Place
  /\ HostMove \subseteq Move
  /\ MaxAccum \in Nat

VARIABLES
  m_state,       \* host: the place of each player
  m_snapAccum,   \* host: time that has not been spent on a snapshot
  m_conn,        \* client: has it a connection?
  m_connected,   \* client: has it heard that it is connected?
  m_myId,        \* client: its slot, as far as it knows
  gameStarted,   \* client: has it heard of the start?
  m_latest,      \* client: the places of the players as it shows them
  got,           \* client: how many messages of its stream it has read
  key,           \* the key each client's player holds down
  first,         \* the places in the snapshot of each client's greeting
  inputs,        \* unreliable messages under way, to the host
  snaps          \* and to each client

simVars == <<m_state, m_snapAccum>>
clientVars == <<m_conn, m_connected, m_myId, gameStarted, m_latest, got, key>>
netVars == <<first, inputs, snaps>>
sessionVars == <<vars, simVars, clientVars, netVars>>

-----------------------------------------------------------------------------

SessionInit ==
  /\ Init
  /\ m_state = NoSnap
  /\ m_snapAccum = 0
  /\ m_conn = [c \in Conn |-> "none"]
  /\ m_connected = [c \in Conn |-> FALSE]
  /\ m_myId = [c \in Conn |-> NoSlot]
  /\ gameStarted = [c \in Conn |-> FALSE]
  /\ m_latest = [c \in Conn |-> NoSnap]
  /\ got = [c \in Conn |-> 0]
  /\ key = [c \in Conn |-> 0]
  /\ first = [c \in Conn |-> NoSnap]
  /\ inputs = [c \in Conn |-> {}]
  /\ snaps = [c \in Conn |-> {}]

(* The host *)

\* main starts its host once.
HostStarts ==
  /\ Start
  /\ m_state = NoSnap
  /\ m_state' = StartX
  /\ UNCHANGED <<m_snapAccum, clientVars, netVars>>

HostStops ==
  /\ Stop
  /\ inputs' = [c \in Conn |-> {}]
  /\ UNCHANGED <<simVars, clientVars, first, snaps>>

Admit(c) ==
  /\ m_conn[c] # "none"
  /\ OnConnecting(c)
  /\ UNCHANGED <<simVars, clientVars, netVars>>

\* Connected: the client is greeted if there is a slot for it, and turned away
\* otherwise.
Greet(c) ==
  /\ OnConnected(c) \/ OnConnectedNoSlot(c)
  /\ first' = IF FreeSlot # NoSlot THEN [first EXCEPT ![c] = m_state] ELSE first
  /\ UNCHANGED <<simVars, clientVars, inputs, snaps>>

\* The host learns that the client has left, or is told so by GNS.
Unseat(c) ==
  /\ OnClosed(c)
  /\ inputs' = [inputs EXCEPT ![c] = {}]
  /\ UNCHANGED <<simVars, clientVars, first, snaps>>

StartGameFor ==
  /\ PressStart
  /\ UNCHANGED <<simVars, clientVars, netVars>>

\* A message that finds the network full is lost.
Sent(msgs, m) == IF Cardinality(msgs) < MaxInFlight THEN msgs \cup {m} ELSE msgs

ReceiveInput(c, x) ==
  /\ x \in inputs[c]
  /\ HandleInput(c, x)
  /\ UNCHANGED <<simVars, clientVars, netVars>>

\* FAULT: places leave the field.
MovedFreely(x, move, dt) == x + move * dt

Moved(x, move, dt) == Clamp(x + move * dt, 0, FieldX)

\* FAULT: a snapshot is sent only when it says something new.
BroadcastNews ==
  snaps' = [c \in Conn |-> IF c \in m_clients /\ m_conn[c] = "open" /\ m_state' # m_state
                           THEN Sent(snaps[c], m_state') ELSE snaps[c]]

\* broadcastSnap: unreliable, to every client.
Broadcast ==
  snaps' = [c \in Conn |-> IF c \in m_clients /\ m_conn[c] = "open"
                           THEN Sent(snaps[c], m_state') ELSE snaps[c]]

\* updateSim: one snapshot at most, however long the frame was.  The time left
\* over is kept, and past MaxAccum is forgotten here.
HostFrame(dt, hostMoveX) ==
  /\ UpdateSim(hostMoveX)
  /\ m_state' = [p \in Player |-> Moved(m_state[p], m_inputX'[p], dt)]
  /\ LET accum == m_snapAccum + dt
     IN  \/ /\ accum >= SnapTime
            /\ m_snapAccum' = Clamp(accum - SnapTime, 0, MaxAccum)
            /\ Broadcast
         \/ /\ accum < SnapTime
            /\ m_snapAccum' = accum
            /\ UNCHANGED snaps
  /\ UNCHANGED <<clientVars, first, inputs>>

(* The clients *)

Connect(c) ==
  /\ m_conn[c] = "none"
  /\ Cardinality({d \in Conn : m_conn[d] = "open"}) < MaxConnected
  /\ m_conn' = [m_conn EXCEPT ![c] = "open"]
  /\ UNCHANGED <<vars, simVars, m_connected, m_myId, gameStarted, m_latest, got, key, netVars>>

\* Connected: the host has accepted.  Hello changes nothing at the host.
OnClientConnected(c) ==
  /\ m_conn[c] = "open"
  /\ ~m_connected[c]
  /\ link[c] \in {"accepted", "open"}
  /\ m_connected' = [m_connected EXCEPT ![c] = TRUE]
  /\ UNCHANGED <<vars, simVars, m_conn, m_myId, gameStarted, m_latest, got, key, netVars>>

\* pumpNetwork reads the next reliable message; handleMessage.
ReadReliable(c) ==
  /\ m_conn[c] = "open"
  /\ got[c] < Len(stream[c])
  /\ got' = [got EXCEPT ![c] = @ + 1]
  /\ LET msg == stream[c][got[c] + 1]
     IN  \/ /\ msg.type = "Welcome"
            /\ m_myId' = [m_myId EXCEPT ![c] = msg.yourId]
            /\ UNCHANGED <<gameStarted, m_latest, first>>
         \/ /\ msg.type = "Snap"
            /\ m_latest' = [m_latest EXCEPT ![c] = first[c]]
            /\ first' = [first EXCEPT ![c] = NoSnap]
            /\ UNCHANGED <<m_myId, gameStarted>>
         \/ /\ msg.type = "StartGame"
            /\ gameStarted' = [gameStarted EXCEPT ![c] = TRUE]
            /\ UNCHANGED <<m_myId, m_latest, first>>
  /\ UNCHANGED <<vars, simVars, m_conn, m_connected, key, inputs, snaps>>

\* handleMessage(Snap): the last to arrive counts, however old it is.
ReadSnap(c, s) ==
  /\ m_conn[c] = "open"
  /\ s \in snaps[c]
  /\ m_latest' = [m_latest EXCEPT ![c] = s]
  /\ UNCHANGED <<vars, simVars, m_conn, m_connected, m_myId, gameStarted, got, key, netVars>>

PressKey(c, x) ==
  /\ m_conn[c] = "open"
  /\ key' = [key EXCEPT ![c] = x]
  /\ UNCHANGED <<vars, simVars, m_conn, m_connected, m_myId, gameStarted, m_latest, got, netVars>>

\* FAULT: a client that has its slot does not wait for the start.
MaySendEarly(c) == m_connected[c] /\ m_myId[c] # NoSlot

\* FAULT: a key that is let go is not reported.
MaySendMoves(c) == m_connected[c] /\ m_myId[c] # NoSlot /\ gameStarted[c] /\ key[c] # 0

\* The early returns of sendInput.
MaySend(c) == m_connected[c] /\ m_myId[c] # NoSlot /\ gameStarted[c]

\* sendInput, in every frame: the key as it is now.
SendInput(c) ==
  /\ MaySend(c)
  /\ inputs' = IF link[c] = "open" THEN [inputs EXCEPT ![c] = Sent(@, key[c])] ELSE inputs
  /\ UNCHANGED <<vars, simVars, clientVars, first, snaps>>

\* disconnect, or the closed status of onConnStatusChanged.  The player sees
\* nothing of this game any more.
ClientEnds(c) ==
  /\ m_conn[c] = "open"
  /\ m_conn' = [m_conn EXCEPT ![c] = "closed"]
  /\ m_connected' = [m_connected EXCEPT ![c] = FALSE]
  /\ m_myId' = [m_myId EXCEPT ![c] = NoSlot]
  /\ m_latest' = [m_latest EXCEPT ![c] = NoSnap]
  /\ first' = [first EXCEPT ![c] = NoSnap]
  /\ snaps' = [snaps EXCEPT ![c] = {}]
  /\ key' = [key EXCEPT ![c] = 0]
  /\ got' = [got EXCEPT ![c] = 0]
  /\ UNCHANGED <<vars, simVars, gameStarted, inputs>>

(* The network: of the copies of a message none is left, whether it was lost *)
(* or read.                                                                  *)

InputLeaves(c, x) ==
  /\ x \in inputs[c]
  /\ inputs' = [inputs EXCEPT ![c] = @ \ {x}]
  /\ UNCHANGED <<vars, simVars, clientVars, first, snaps>>

SnapLeaves(c, s) ==
  /\ s \in snaps[c]
  /\ snaps' = [snaps EXCEPT ![c] = @ \ {s}]
  /\ UNCHANGED <<vars, simVars, clientVars, first, inputs>>

SessionNext ==
  \/ HostStarts
  \/ HostStops
  \/ \E c \in Conn : Admit(c)
  \/ \E c \in Conn : Greet(c)
  \/ \E c \in Conn : Unseat(c)
  \/ StartGameFor
  \/ \E c \in Conn : \E x \in inputs[c] : ReceiveInput(c, x) \/ InputLeaves(c, x)
  \/ \E dt \in FrameTime, x \in HostMove : HostFrame(dt, x)
  \/ \E c \in Conn : Connect(c)
  \/ \E c \in Conn : OnClientConnected(c)
  \/ \E c \in Conn : ReadReliable(c)
  \/ \E c \in Conn : \E s \in snaps[c] : ReadSnap(c, s) \/ SnapLeaves(c, s)
  \/ \E c \in Conn, x \in RawMove : PressKey(c, x)
  \/ \E c \in Conn : SendInput(c)
  \/ \E c \in Conn : ClientEnds(c)

SessionSpec == SessionInit /\ [][SessionNext]_sessionVars

\* The loops of the host and of the clients run.  GNS delivers what is reliable,
\* holds no message for ever, and of the unreliable messages it is given again
\* and again it does not lose all.
SessionFairness ==
  /\ WF_sessionVars(\E dt \in FrameTime, x \in HostMove : HostFrame(dt, x))
  /\ \A c \in Conn :
       /\ WF_sessionVars(ReadReliable(c))
       /\ WF_sessionVars(SendInput(c))
       /\ WF_sessionVars(\E x \in inputs[c] \ {key[c]} : InputLeaves(c, x))
       /\ WF_sessionVars(\E s \in snaps[c] \ {m_state} : SnapLeaves(c, s))
       /\ SF_sessionVars(\E x \in inputs[c] : ReceiveInput(c, x))
       /\ SF_sessionVars(\E s \in snaps[c] : ReadSnap(c, s))

FairSessionSpec == SessionSpec /\ SessionFairness
-----------------------------------------------------------------------------
(* Properties *)

SessionTypeOK ==
  /\ TypeOK
  /\ m_state \in Place \cup {NoSnap}
  /\ m_snapAccum \in Nat
  /\ m_conn \in [Conn -> {"none", "open", "closed"}]
  /\ m_connected \in [Conn -> BOOLEAN]
  /\ m_myId \in [Conn -> ClientSlot \cup {NoSlot}]
  /\ gameStarted \in [Conn -> BOOLEAN]
  /\ m_latest \in [Conn -> Place \cup {NoSnap}]
  /\ got \in [Conn -> Nat]
  /\ key \in [Conn -> RawMove]
  /\ first \in [Conn -> Place \cup {NoSnap}]
  /\ inputs \in [Conn -> SUBSET RawMove]
  /\ snaps \in [Conn -> SUBSET Place]

\* While both ends of a connection are open they agree: the slot a client plays
\* in is the one the host moves for it, a client that has heard of the start
\* knows its slot and is right about the start, and one that has read all it
\* was sent knows both (startGame, and the greeting of a late client).
ClientsAgreeWithHost ==
  \A c \in Conn :
    m_conn[c] = "open" /\ link[c] = "open" =>
      /\ m_myId[c] \in {NoSlot, m_connToId[c]}
      /\ gameStarted[c] => m_gameStarted /\ m_myId[c] # NoSlot
      /\ got[c] = Len(stream[c]) => m_myId[c] # NoSlot /\ gameStarted[c] = m_gameStarted

\* Before the start nobody but the host moves: the host stores every Input it
\* reads, and it is the clients that wait (GameClient::sendInput).  This is so
\* for clients on their first connection; ClientApp shows that a later one may
\* not wait.
NobodyMovesBeforeStart ==
  m_listen /\ ~m_gameStarted => \A p \in ClientSlot : m_inputX[p] = 0

Playing(c) == m_connected[c] /\ link[c] = "open" /\ gameStarted[c]

\* A key that is held down, or let go, is what the host moves the player by in
\* the end, although Inputs are lost, repeated and reordered and the host does
\* not look at their clientTick.
HeldKeyCounts ==
  \A c \in Conn : \A x \in RawMove :
    <>[](Playing(c) /\ key[c] = x)
      => <>[](\A p \in ClientSlot : m_connToId[c] = p => m_inputX[p] = Clamp(x, -1, 1))

\* When the players leave the keyboard alone, a client comes to show every
\* player where the host has it, although snapshots are lost, repeated and
\* reordered and the client does not look at their serverTick.
EveryoneSeesTheSame ==
  \A c \in Conn :
    <>[]Playing(c) => []<><<key' # key>>_sessionVars \/ <>[](m_latest[c] = m_state)

\* The host moves the player of c by the key that is held, and no Input of an
\* earlier key is under way.
KeyInEffect(c) ==
  /\ Playing(c)
  /\ inputs[c] \subseteq {key[c]}
  /\ m_inputX[m_connToId[c]] = Clamp(key[c], -1, 1)

\* The client shows what the host has, and no older snapshot is under way.
ViewUpToDate(c) ==
  /\ Playing(c)
  /\ snaps[c] \subseteq {m_state}
  /\ m_latest[c] = m_state

\* What has settled stays so while the client plays, whatever the others do,
\* join or leave: a key until it is let go, a view until somebody moves
\* (handleMessage and onConnStatusChanged of the host, handleMessage of the client).
SettledStays ==
  [][\A c \in Conn : Playing(c)' =>
       /\ KeyInEffect(c) /\ key'[c] = key[c] => KeyInEffect(c)'
       /\ ViewUpToDate(c) /\ m_state' = m_state => ViewUpToDate(c)']_sessionVars
=============================================================================
