------------------------------ MODULE ClientApp ------------------------------
(***************************************************************************)
(* A player's program: the client mode of src/main.cpp with the GameClient *)
(* it drives.  The player picks a host from the lobby's list, waits for it *)
(* to start the game, plays, and leaves when the host is lost.             *)
(*                                                                         *)
(* The program is one loop; pc is the part of the frame it is in.  Hosts   *)
(* and the network run beside it and put messages in inboxes and status    *)
(* changes in the queue of callbacks between any two parts.                *)
(*                                                                         *)
(* Left out: snapshots and drawing; which row of the list is selected; the *)
(* code for the phases MigrationAttempt and MigrationReconnect (lines      *)
(* 792-947), which the program stops without reaching.                     *)
(***************************************************************************)
EXTENDS Integers, Sequences, FiniteSets

CONSTANTS
  Host,       \* game hosts the lobby may list
  MaxConn     \* how many times the player may join

ASSUME ClientAssumption == MaxConn \in Nat

Conn == 1..MaxConn      \* handles, in the order GNS gives them out
NoConn == 0             \* k_HSteamNetConnection_Invalid
NoHost == "no host"
NoId == 255
SomeId == 1             \* the slot a Welcome brings; which one does not matter

VARIABLES
  pc,                  \* the part of the frame that runs next
  windowOpen,
  phase,
  hasGameClient,
  m_conn, m_connected, m_hostDisconnected, m_myId, m_gameStarted,  \* GameClient
  hasLobbyClient,
  lobbyLink,           \* GNS: the connection to the lobby
  list,                \* the hosts the last list shows as open
  joined,              \* connection -> its host; the handles used so far
  link,                \* GNS: the client's end of each connection
  inbox,               \* GNS: messages received and not read yet
  callbacks,           \* GNS: status changes not dispatched yet
  gameOn,              \* the hosts that have started their game
  told,                \* what the host has sent on each connection
  played               \* connections on which an Input was sent

gameClient == <<m_conn, m_connected, m_hostDisconnected, m_myId, m_gameStarted>>
lobby == <<hasLobbyClient, lobbyLink, list>>
network == <<link, inbox, callbacks>>
hosts == <<gameOn, told>>
vars == <<pc, windowOpen, phase, hasGameClient, gameClient, lobby, joined,
          network, hosts, played>>

Live == {"connecting", "connected", "broken"}    \* not closed by the client

-----------------------------------------------------------------------------
(* GameClient *)

\* FAULT: the handle is forgotten and not closed.
DisconnectForgets ==
  /\ m_conn' = NoConn
  /\ m_connected' = FALSE
  /\ m_myId' = NoId
  /\ UNCHANGED <<link, inbox>>

\* FAULT: the slot of the old game is kept.
DisconnectKeepsId ==
  /\ link' = [c \in Conn |-> IF c = m_conn THEN "closed" ELSE link[c]]
  /\ inbox' = [c \in Conn |-> IF c = m_conn THEN <<>> ELSE inbox[c]]
  /\ m_conn' = NoConn
  /\ m_connected' = FALSE
  /\ UNCHANGED m_myId

\* FAULT: the slot becomes the host's.
DisconnectIdZero ==
  /\ link' = [c \in Conn |-> IF c = m_conn THEN "closed" ELSE link[c]]
  /\ inbox' = [c \in Conn |-> IF c = m_conn THEN <<>> ELSE inbox[c]]
  /\ m_conn' = NoConn
  /\ m_connected' = FALSE
  /\ m_myId' = 0

\* The connection is closed and forgotten.  Neither m_gameStarted nor
\* m_hostDisconnected is reset.
Disconnect ==
  /\ link' = [c \in Conn |-> IF c = m_conn THEN "closed" ELSE link[c]]
  /\ inbox' = [c \in Conn |-> IF c = m_conn THEN <<>> ELSE inbox[c]]
  /\ m_conn' = NoConn
  /\ m_connected' = FALSE
  /\ m_myId' = NoId

\* FAULT: the first message is read and the rest dropped.
PumpNetworkOne ==
  LET read == IF m_conn = NoConn THEN {}
              ELSE {inbox[m_conn][i] : i \in DOMAIN inbox[m_conn] \cap {1}}
  IN /\ m_myId' = IF "Welcome" \in read THEN SomeId ELSE m_myId
     /\ m_gameStarted' = (m_gameStarted \/ "StartGame" \in read)
     /\ inbox' = [c \in Conn |-> IF c = m_conn THEN <<>> ELSE inbox[c]]

\* pumpNetwork: every message that has arrived is handled.
PumpNetwork ==
  LET read == IF m_conn = NoConn THEN {}
              ELSE {inbox[m_conn][i] : i \in DOMAIN inbox[m_conn]}
  IN /\ m_myId' = IF "Welcome" \in read THEN SomeId ELSE m_myId
     /\ m_gameStarted' = (m_gameStarted \/ "StartGame" \in read)
     /\ inbox' = [c \in Conn |-> IF c = m_conn THEN <<>> ELSE inbox[c]]

\* FAULT: the loss of the host is not noted.
OnClosedUnnoted ==
  /\ Disconnect
  /\ UNCHANGED <<m_hostDisconnected, m_gameStarted>>

\* onConnStatusChanged: the host closed the connection or it failed.
OnClosed ==
  /\ m_hostDisconnected' = TRUE
  /\ Disconnect
  /\ UNCHANGED m_gameStarted

\* onConnStatusChanged: connected.
OnConnected ==
  /\ m_connected' = TRUE
  /\ UNCHANGED <<m_conn, m_hostDisconnected, m_myId, m_gameStarted, link, inbox>>

-----------------------------------------------------------------------------

Init ==
  /\ pc = "events"
  /\ windowOpen = TRUE
  /\ phase = "LobbyBrowse"
  /\ hasGameClient = FALSE
  /\ m_conn = NoConn
  /\ m_connected = FALSE
  /\ m_hostDisconnected = FALSE
  /\ m_myId = NoId
  /\ m_gameStarted = FALSE
  /\ hasLobbyClient = TRUE
  /\ lobbyLink = "connecting"
  /\ list = {}
  /\ joined = [c \in Conn |-> NoHost]
  /\ link = [c \in Conn |-> "unused"]
  /\ inbox = [c \in Conn |-> <<>>]
  /\ callbacks = <<>>
  /\ gameOn = {}
  /\ told = [c \in Conn |-> "nothing"]
  /\ played = {}

(* What the player does, in the event loop *)

\* tryJoinIndex, on Enter or a double click.  A connect that fails at once
\* changes nothing.
Join(h, c) ==
  /\ pc = "events"
  /\ phase = "LobbyBrowse"
  /\ h \in list
  /\ link[c] = "unused"
  /\ \A d \in 1..(c - 1) : link[d] # "unused"
  /\ hasGameClient' = TRUE
  /\ m_conn' = c
  /\ link' = [link EXCEPT ![c] = "connecting"]
  /\ joined' = [joined EXCEPT ![c] = h]
  /\ phase' = "WaitingForStart"
  /\ UNCHANGED <<pc, windowOpen, m_connected, m_hostDisconnected, m_myId,
                 m_gameStarted, lobby, inbox, callbacks, hosts, played>>

\* Esc while waiting.
CancelWait ==
  /\ pc = "events"
  /\ phase = "WaitingForStart"
  /\ Disconnect
  /\ hasGameClient' = FALSE
  /\ phase' = "LobbyBrowse"
  /\ UNCHANGED <<pc, windowOpen, m_hostDisconnected, m_gameStarted, lobby, joined,
                 callbacks, hosts, played>>

\* The window is closed, by Esc when not waiting or by the system.  No event
\* follows, and the frame still runs to its end.
CloseWindow ==
  /\ pc = "events"
  /\ windowOpen' = FALSE
  /\ pc' = "callbacks"
  /\ UNCHANGED <<phase, hasGameClient, gameClient, lobby, joined, network, hosts, played>>

(* The rest of the frame *)

EventsDone ==
  /\ pc = "events"
  /\ pc' = "callbacks"
  /\ UNCHANGED <<windowOpen, phase, hasGameClient, gameClient, lobby, joined,
                 network, hosts, played>>

\* pumpCallbacks and routeConnStatus: a status change of a connection that is
\* no longer the client's is ignored.
Dispatch ==
  /\ pc = "callbacks"
  /\ callbacks # <<>>
  /\ LET info == Head(callbacks) IN
       \/ /\ hasGameClient /\ info.conn = m_conn /\ info.state = "connected"
          /\ OnConnected
       \/ /\ hasGameClient /\ info.conn = m_conn /\ info.state = "closed"
          /\ OnClosed
       \/ /\ ~(hasGameClient /\ info.conn = m_conn)
          /\ UNCHANGED <<gameClient, link, inbox>>
  /\ callbacks' = Tail(callbacks)
  /\ UNCHANGED <<pc, windowOpen, phase, hasGameClient, lobby, joined, hosts, played>>

\* LobbyClient::onConnStatusChanged: connected, or lost for good.
DispatchLobby ==
  /\ pc = "callbacks"
  /\ hasLobbyClient
  /\ \/ lobbyLink = "connecting" /\ lobbyLink' = "connected"
     \/ lobbyLink \in {"connecting", "connected"} /\ lobbyLink' = "closed"
  /\ UNCHANGED <<pc, windowOpen, phase, hasGameClient, gameClient, hasLobbyClient,
                 list, joined, network, hosts, played>>

CallbacksDone ==
  /\ pc = "callbacks"
  /\ callbacks = <<>>
  /\ pc' = "lobby"
  /\ UNCHANGED <<windowOpen, phase, hasGameClient, gameClient, lobby, joined,
                 network, hosts, played>>

\* The list may have been answered since the last frame, if the lobby is there.
PumpLobby ==
  /\ pc = "lobby"
  /\ pc' = "waiting"
  /\ \/ UNCHANGED list
     \/ /\ hasLobbyClient /\ lobbyLink = "connected"
        /\ phase \in {"LobbyBrowse", "WaitingForStart"}
        /\ list' \in SUBSET Host
  /\ UNCHANGED <<windowOpen, phase, hasGameClient, gameClient, hasLobbyClient,
                 lobbyLink, joined, network, hosts, played>>

\* The game starts for this player, who leaves the lobby.
EnterGame ==
  /\ phase' = "InGame"
  /\ hasLobbyClient' = FALSE
  /\ lobbyLink' = "closed"

PumpWaiting ==
  /\ pc = "waiting"
  /\ pc' = "pump"
  /\ IF phase = "WaitingForStart"
       THEN /\ PumpNetwork
            /\ IF m_gameStarted' THEN EnterGame
                                 ELSE UNCHANGED <<phase, hasLobbyClient, lobbyLink>>
       ELSE UNCHANGED <<m_myId, m_gameStarted, inbox, phase, hasLobbyClient, lobbyLink>>
  /\ UNCHANGED <<windowOpen, hasGameClient, m_conn, m_connected, m_hostDisconnected,
                 list, joined, link, callbacks, hosts, played>>

\* The second pump, after the phase has been looked at.
PumpAgain ==
  /\ pc = "pump"
  /\ pc' = IF phase = "InGame" THEN "play" ELSE "frame end"
  /\ IF hasGameClient THEN PumpNetwork ELSE UNCHANGED <<m_myId, m_gameStarted, inbox>>
  /\ UNCHANGED <<windowOpen, phase, hasGameClient, m_conn, m_connected, m_hostDisconnected,
                 lobby, joined, link, callbacks, hosts, played>>

\* A lost host, in the game.  The phase becomes MigrationAttempt and the loop
\* is left, so the cleanup at the end of main follows at once.
LeaveLostGame ==
  /\ pc = "play"
  /\ m_hostDisconnected
  /\ m_hostDisconnected' = FALSE
  /\ phase' = "MigrationAttempt"
  /\ hasLobbyClient' = TRUE
  /\ pc' = "stopped"
  /\ Disconnect
  /\ lobbyLink' = "closed"
  /\ UNCHANGED <<windowOpen, hasGameClient, m_gameStarted, list, joined, callbacks,
                 hosts, played>>

\* The game's own part of the frame.  An Input is sent if sendInput allows it.
Play ==
  /\ pc = "play"
  /\ ~m_hostDisconnected
  /\ PumpNetwork
  /\ played' = IF m_connected /\ m_myId' # NoId /\ m_gameStarted'
                 THEN played \cup {m_conn} ELSE played
  /\ pc' = "frame end"
  /\ UNCHANGED <<windowOpen, phase, hasGameClient, m_conn, m_connected,
                 m_hostDisconnected, lobby, joined, link, callbacks, hosts>>

NextFrame ==
  /\ pc = "frame end"
  /\ windowOpen
  /\ pc' = "events"
  /\ UNCHANGED <<windowOpen, phase, hasGameClient, gameClient, lobby, joined,
                 network, hosts, played>>

\* The window is closed: the cleanup at the end of main.
Stop ==
  /\ pc = "frame end"
  /\ ~windowOpen
  /\ pc' = "stopped"
  /\ Disconnect
  /\ lobbyLink' = "closed"
  /\ UNCHANGED <<windowOpen, phase, hasGameClient, m_hostDisconnected, m_gameStarted,
                 hasLobbyClient, list, joined, callbacks, hosts, played>>

-----------------------------------------------------------------------------
(* The hosts and the network *)

program == <<pc, windowOpen, phase, hasGameClient, gameClient, lobby, joined, played>>

HostAccepts(c) ==
  /\ link[c] = "connecting"
  /\ link' = [link EXCEPT ![c] = "connected"]
  /\ callbacks' = Append(callbacks, [conn |-> c, state |-> "connected"])
  /\ UNCHANGED <<program, inbox, hosts>>

\* The host refuses or leaves, or the connection fails.
ConnBreaks(c) ==
  /\ link[c] \in {"connecting", "connected"}
  /\ link' = [link EXCEPT ![c] = "broken"]
  /\ callbacks' = Append(callbacks, [conn |-> c, state |-> "closed"])
  /\ UNCHANGED <<program, inbox, hosts>>

WelcomeArrives(c) ==
  /\ link[c] = "connected"
  /\ told[c] = "nothing"
  /\ told' = [told EXCEPT ![c] = "welcome"]
  /\ inbox' = [inbox EXCEPT ![c] = Append(@, "Welcome")]
  /\ UNCHANGED <<program, link, callbacks, gameOn>>

HostStartsGame(h) ==
  /\ h \notin gameOn
  /\ gameOn' = gameOn \cup {h}
  /\ UNCHANGED <<program, network, told>>

StartGameArrives(c) ==
  /\ link[c] = "connected"
  /\ told[c] = "welcome"
  /\ joined[c] \in gameOn
  /\ told' = [told EXCEPT ![c] = "start"]
  /\ inbox' = [inbox EXCEPT ![c] = Append(@, "StartGame")]
  /\ UNCHANGED <<program, link, callbacks, gameOn>>

-----------------------------------------------------------------------------

User ==
  \/ \E h \in Host, c \in Conn : Join(h, c)
  \/ CancelWait
  \/ CloseWindow

Frame ==
  \/ EventsDone
  \/ Dispatch
  \/ DispatchLobby
  \/ CallbacksDone
  \/ PumpLobby
  \/ PumpWaiting
  \/ PumpAgain
  \/ LeaveLostGame
  \/ Play
  \/ NextFrame
  \/ Stop

Environment ==
  \/ \E c \in Conn : HostAccepts(c)
  \/ \E c \in Conn : ConnBreaks(c)
  \/ \E c \in Conn : WelcomeArrives(c)
  \/ \E h \in Host : HostStartsGame(h)
  \/ \E c \in Conn : StartGameArrives(c)

Next == User \/ Frame \/ Environment

Spec == Init /\ [][Next]_vars

\* The loop runs on; the player, the hosts and the network need do nothing.
FairSpec == Spec /\ WF_vars(Frame)

-----------------------------------------------------------------------------
(* Properties *)

TypeOK ==
  /\ pc \in {"events", "callbacks", "lobby", "waiting", "pump", "play",
             "frame end", "stopped"}
  /\ windowOpen \in BOOLEAN
  /\ phase \in {"LobbyBrowse", "WaitingForStart", "InGame", "MigrationAttempt"}
  /\ hasGameClient \in BOOLEAN
  /\ m_conn \in Conn \cup {NoConn}
  /\ m_connected \in BOOLEAN
  /\ m_hostDisconnected \in BOOLEAN
  /\ m_myId \in {SomeId, NoId}
  /\ m_gameStarted \in BOOLEAN
  /\ hasLobbyClient \in BOOLEAN
  /\ lobbyLink \in {"connecting", "connected", "closed"}
  /\ list \subseteq Host
  /\ joined \in [Conn -> Host \cup {NoHost}]
  /\ link \in [Conn -> {"unused", "closed"} \cup Live]
  /\ inbox \in [Conn -> Seq({"Welcome", "StartGame"})]
  /\ callbacks \in Seq([conn : Conn, state : {"connected", "closed"}])
  /\ gameOn \subseteq Host
  /\ told \in [Conn -> {"nothing", "welcome", "start"}]
  /\ played \subseteq Conn

\* However the player joins, cancels and leaves, the program never loses a
\* connection it has not closed: the one game connection it has open is m_conn,
\* it has a lobby connection only outside the game, and none when it stops.
NoConnectionLeak ==
  /\ \A c \in Conn : link[c] \in Live <=> c = m_conn
  /\ m_conn # NoConn => pc # "stopped"
  /\ lobbyLink # "closed" => pc # "stopped" /\ phase \in {"LobbyBrowse", "WaitingForStart"}

\* The slot a client plays in, and that sendInput tests, was given by the host
\* it is connected to and not by an earlier one (GameClient::disconnect).
IdIsTheHosts ==
  m_myId # NoId => m_conn # NoConn /\ told[m_conn] # "nothing"

\* A client that waits sees a start of the game that reaches it, unless the
\* connection is gone first (main's two pumps and its change of phase).
StartIsSeen ==
  \A c \in Conn :
    (/\ phase = "WaitingForStart" /\ c = m_conn
     /\ \E i \in DOMAIN inbox[c] : inbox[c][i] = "StartGame")
      ~> (phase = "InGame" \/ link[c] \in {"broken", "closed"})

\* A player whose host is lost during the game does not go on playing alone:
\* the program stops (onConnStatusChanged, then main's test in the next frame).
LostHostEndsGame ==
  \A c \in Conn : (phase = "InGame" /\ c = m_conn /\ link[c] = "broken") ~> (pc = "stopped")

\* "wait for host StartGame" (GameClient::sendInput): an Input is sent on a
\* connection only after the host of that connection started the game there.
PlaysOnlyStartedGames == \A c \in played : told[c] = "start"

\* "Signal to main that host disconnected during gameplay": main acts on the
\* signal only when the host it plays with is gone.
MigratesOnlyWhenLost ==
  [][phase = "InGame" /\ phase' = "MigrationAttempt" => m_conn = NoConn]_vars

\* "Host disconnected! Attempting migration...": the program that says so is
\* still there to attempt it.
MigrationIsAttempted == phase = "MigrationAttempt" => pc # "stopped"
=============================================================================
