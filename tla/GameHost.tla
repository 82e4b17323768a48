------------------------------ MODULE GameHost ------------------------------
(***************************************************************************)
(* The authoritative game host of src/net/GameHost.cpp: it accepts client  *)
(* connections, gives each a player slot (1 or 2; the host plays slot 0),  *)
(* greets it, stores the moves it sends and tells it when the game starts. *)
(*                                                                         *)
(* The clients are the environment: a connection may be opened, reach the  *)
(* connected state, send moves and close at any time.  GNS reports each of *)
(* these with a callback; main runs callbacks, messages and the simulation *)
(* in one thread, so every handler is one step.                            *)
(*                                                                         *)
(* Left out: positions, ticks and unreliable snapshots, which GameSession  *)
(* models; the second axis of a move, treated as the first; the order of   *)
(* m_clients, which has no effect.                                         *)
(***************************************************************************)
EXTENDS Integers, Sequences, FiniteSets

CONSTANTS
  Conn,      \* handles of game connections; GNS never reuses one
  RawMove    \* what an Input message may hold in moveX, any int8_t

ASSUME HostAssumption == RawMove \subseteq -128..127

ClientSlot == {1, 2}
NoSlot == 255
Player == {0} \cup ClientSlot    \* game::kMaxPlayers = 3

VARIABLES
  m_listen,      \* is the listen socket (with its poll group) open?
  link,          \* GNS: the host's end of each connection
  m_clients,     \* the connections that receive snapshots
  m_connToId,    \* connection -> slot, NoSlot if it has none
  m_gameStarted,
  m_inputX,      \* the stored move of each player
  stream         \* all reliable messages sent on each connection, in order

vars == <<m_listen, link, m_clients, m_connToId, m_gameStarted, m_inputX, stream>>

-----------------------------------------------------------------------------

Welcome(slot) == [type |-> "Welcome", yourId |-> slot]
Snap == [type |-> "Snap"]
StartGame == [type |-> "StartGame"]
Message == {Welcome(slot) : slot \in ClientSlot} \cup {Snap, StartGame}

\* FAULT: no lower bound.
ClampAbove(n, lo, hi) == IF n > hi THEN hi ELSE n

Clamp(n, lo, hi) == IF n < lo THEN lo ELSE IF n > hi THEN hi ELSE n

Seated == {c \in Conn : m_connToId[c] # NoSlot}

Taken(slot) == \E c \in Conn : m_connToId[c] = slot

\* FAULT: the slot is the number of clients.
FreeSlotByCount == IF Cardinality(m_clients) < 2 THEN Cardinality(m_clients) + 1 ELSE NoSlot

\* FAULT: slot 2 is given without a look.
FreeSlotUnchecked == IF ~Taken(1) THEN 1 ELSE 2

\* pickFreeClientSlot
FreeSlot == IF ~Taken(1) THEN 1 ELSE IF ~Taken(2) THEN 2 ELSE NoSlot

\* FAULT: a late joiner is not told.
GreetingNoStart(slot) == <<Welcome(slot), Snap>>

\* What a connection that gets a slot is sent: its id, a snapshot, and the
\* start of the game if it came late.
Greeting(slot) ==
  IF m_gameStarted THEN <<Welcome(slot), Snap, StartGame>>
                   ELSE <<Welcome(slot), Snap>>

-----------------------------------------------------------------------------

Init ==
  /\ m_listen = FALSE
  /\ link = [c \in Conn |-> "none"]
  /\ m_clients = {}
  /\ m_connToId = [c \in Conn |-> NoSlot]
  /\ m_gameStarted = FALSE
  /\ m_inputX = [p \in Player |-> 0]
  /\ stream = [c \in Conn |-> <<>>]

Start ==
  /\ ~m_listen
  /\ m_listen' = TRUE
  /\ m_inputX' = [p \in Player |-> 0]
  /\ UNCHANGED <<link, m_clients, m_connToId, m_gameStarted, stream>>

\* The stored moves and m_gameStarted outlive a stop.  Closing the listen
\* socket also closes the connections that have no slot yet.
Stop ==
  /\ m_listen
  /\ m_listen' = FALSE
  /\ link' = [c \in Conn |-> IF link[c] = "none" THEN "none" ELSE "closed"]
  /\ m_clients' = {}
  /\ m_connToId' = [c \in Conn |-> NoSlot]
  /\ UNCHANGED <<m_gameStarted, m_inputX, stream>>

\* Connecting: refused when two clients are playing, else accepted, which may
\* fail.  A connection that is accepted has no slot yet.
OnConnecting(c) ==
  /\ m_listen
  /\ link[c] = "none"
  /\ \/ /\ Cardinality(m_clients) >= 2
        /\ link' = [link EXCEPT ![c] = "closed"]
     \/ /\ Cardinality(m_clients) < 2
        /\ \E l \in {"accepted", "closed"} : link' = [link EXCEPT ![c] = l]
  /\ UNCHANGED <<m_listen, m_clients, m_connToId, m_gameStarted, m_inputX, stream>>

OnConnected(c) ==
  /\ m_listen
  /\ link[c] = "accepted"
  /\ FreeSlot # NoSlot
  /\ link' = [link EXCEPT ![c] = "open"]
  /\ m_clients' = m_clients \cup {c}
  /\ m_connToId' = [m_connToId EXCEPT ![c] = FreeSlot]
  /\ stream' = [stream EXCEPT ![c] = @ \o Greeting(FreeSlot)]
  /\ UNCHANGED <<m_listen, m_gameStarted, m_inputX>>

\* Connected, and no slot is free: more connections were accepted than fit.
OnConnectedNoSlot(c) ==
  /\ m_listen
  /\ link[c] = "accepted"
  /\ FreeSlot = NoSlot
  /\ link' = [link EXCEPT ![c] = "closed"]
  /\ UNCHANGED <<m_listen, m_clients, m_connToId, m_gameStarted, m_inputX, stream>>

\* FAULT: the player keeps moving.
OnClosedKeepsMove(c) ==
  /\ m_listen /\ link[c] \in {"accepted", "open"}
  /\ link' = [link EXCEPT ![c] = "closed"]
  /\ m_connToId' = [m_connToId EXCEPT ![c] = NoSlot]
  /\ m_clients' = m_clients \ {c}
  /\ UNCHANGED <<m_listen, m_gameStarted, m_inputX, stream>>

\* FAULT: the moves of all players are forgotten.
OnClosedStopsAll(c) ==
  /\ m_listen /\ link[c] \in {"accepted", "open"}
  /\ link' = [link EXCEPT ![c] = "closed"]
  /\ m_inputX' = [p \in Player |-> 0]
  /\ m_connToId' = [m_connToId EXCEPT ![c] = NoSlot]
  /\ m_clients' = m_clients \ {c}
  /\ UNCHANGED <<m_listen, m_gameStarted, stream>>

\* ClosedByPeer or ProblemDetectedLocally.
OnClosed(c) ==
  /\ m_listen
  /\ link[c] \in {"accepted", "open"}
  /\ link' = [link EXCEPT ![c] = "closed"]
  /\ m_inputX' = [p \in Player |-> IF p = m_connToId[c] THEN 0 ELSE m_inputX[p]]
  /\ m_connToId' = [m_connToId EXCEPT ![c] = NoSlot]
  /\ m_clients' = m_clients \ {c}
  /\ UNCHANGED <<m_listen, m_gameStarted, stream>>

\* handleMessage(Input): the slot is the connection's, whatever playerId says.
HandleInput(c, moveX) ==
  /\ m_listen
  /\ link[c] \in {"accepted", "open"}
  /\ m_connToId[c] # NoSlot
  /\ m_inputX' = [m_inputX EXCEPT ![m_connToId[c]] = Clamp(moveX, -1, 1)]
  /\ UNCHANGED <<m_listen, link, m_clients, m_connToId, m_gameStarted, stream>>

\* updateSim: the keyboard of the host moves player 0.
UpdateSim(hostMoveX) ==
  /\ m_listen
  /\ m_inputX' = [m_inputX EXCEPT ![0] = Clamp(hostMoveX, -1, 1)]
  /\ UNCHANGED <<m_listen, link, m_clients, m_connToId, m_gameStarted, stream>>

\* startGame, the host's button.
PressStart ==
  /\ m_listen
  /\ ~m_gameStarted
  /\ m_gameStarted' = TRUE
  /\ stream' = [c \in Conn |-> IF c \in m_clients THEN Append(stream[c], StartGame)
                                                  ELSE stream[c]]
  /\ UNCHANGED <<m_listen, link, m_clients, m_connToId, m_inputX>>

Next ==
  \/ Start
  \/ Stop
  \/ \E c \in Conn : OnConnecting(c)
  \/ \E c \in Conn : OnConnected(c)
  \/ \E c \in Conn : OnConnectedNoSlot(c)
  \/ \E c \in Conn : OnClosed(c)
  \/ \E c \in Conn, moveX \in RawMove : HandleInput(c, moveX)
  \/ \E moveX \in {-1, 0, 1} : UpdateSim(moveX)
  \/ PressStart

Spec == Init /\ [][Next]_vars
-----------------------------------------------------------------------------
(* Properties *)

TypeOK ==
  /\ m_listen \in BOOLEAN
  /\ link \in [Conn -> {"none", "accepted", "open", "closed"}]
  /\ m_clients \subseteq Conn
  /\ m_connToId \in [Conn -> ClientSlot \cup {NoSlot}]
  /\ m_gameStarted \in BOOLEAN
  /\ m_inputX \in [Player -> -1..1]
  /\ stream \in [Conn -> Seq(Message)]

\* The two containers of GameHost agree with each other and with GNS, and no
\* slot is given twice, though a connection is admitted by the one container
\* and seated by the other, several callbacks later.
SeatsAgree ==
  /\ m_clients = Seated
  /\ Seated = {c \in Conn : link[c] = "open"}
  /\ \A c, d \in Seated : m_connToId[c] = m_connToId[d] => c = d

\* The player of a slot that nobody holds stands still, so the client that
\* takes the slot over does not inherit a move (onConnStatusChanged, start).
FreeSlotsIdle ==
  m_listen => \A p \in ClientSlot : ~Taken(p) => m_inputX[p] = 0

\* A client is told its slot first and the start of the game once, whether it
\* came before the start (startGame) or after it (onConnStatusChanged).
ClientsAreTold ==
  \A c \in Seated : stream[c] = Greeting(m_connToId[c])
=============================================================================
