-------------------------- MODULE ClientAppProofs --------------------------
(***************************************************************************)
(* Proofs about ClientApp: its types, that no connection is lost, and that *)
(* the slot the client plays in came from the host it is connected to, for *)
(* every number of hosts and of joins.                                     *)
(***************************************************************************)
EXTENDS ClientApp, TLAPS

LEMMA SeqFacts ==
  ASSUME NEW T, NEW s \in Seq(T)
  PROVE  /\ \A e \in T : Append(s, e) \in Seq(T)
         /\ s # <<>> => Head(s) \in T
OBVIOUS

LEMMA ConnFacts == Conn \subseteq Nat /\ NoConn \notin Conn
BY ClientAssumption DEF Conn, NoConn

-----------------------------------------------------------------------------
(* Types, in two parts: the flags and the rest *)

FlagsOK ==
  /\ windowOpen \in BOOLEAN
  /\ hasGameClient \in BOOLEAN
  /\ m_connected \in BOOLEAN
  /\ m_hostDisconnected \in BOOLEAN
  /\ m_gameStarted \in BOOLEAN
  /\ hasLobbyClient \in BOOLEAN

DataOK ==
  /\ pc \in {"events", "callbacks", "lobby", "waiting", "pump", "play",
             "frame end", "stopped"}
  /\ phase \in {"LobbyBrowse", "WaitingForStart", "InGame", "MigrationAttempt"}
  /\ m_conn \in Conn \cup {NoConn}
  /\ m_myId \in {SomeId, NoId}
  /\ lobbyLink \in {"connecting", "connected", "closed"}
  /\ list \subseteq Host
  /\ joined \in [Conn -> Host \cup {NoHost}]
  /\ link \in [Conn -> {"unused", "closed"} \cup Live]
  /\ inbox \in [Conn -> Seq({"Welcome", "StartGame"})]
  /\ callbacks \in Seq([conn : Conn, state : {"connected", "closed"}])
  /\ gameOn \subseteq Host
  /\ told \in [Conn -> {"nothing", "welcome", "start"}]
  /\ played \subseteq Conn

\* A client that is connected has a connection.
ConnectedOnConn == m_connected => m_conn \in Conn

LEMMA TypesSplit == TypeOK <=> FlagsOK /\ DataOK
BY Zenon DEF TypeOK, FlagsOK, DataOK

LEMMA ClientTypeInit == Init => TypeOK
<1>1. Init => FlagsOK
  BY Zenon DEF Init, FlagsOK
<1>2. Init => DataOK
  BY DEF Init, DataOK, Live
<1> QED
  BY <1>1, <1>2, TypesSplit

LEMMA FlagsStep == FlagsOK /\ [Next]_vars => FlagsOK'
<1> SUFFICES ASSUME FlagsOK, [Next]_vars PROVE FlagsOK'
  OBVIOUS
<1> USE DEF FlagsOK, gameClient, lobby, network, hosts, program
<1>1. CASE \E h \in Host, c \in Conn : Join(h, c)
  BY <1>1, Zenon DEF Join
<1>2. CASE CancelWait
  BY <1>2, Zenon DEF CancelWait, Disconnect
<1>3. CASE CloseWindow
  BY <1>3, Zenon DEF CloseWindow
<1>4. CASE EventsDone \/ CallbacksDone \/ NextFrame
  BY <1>4, Zenon DEF EventsDone, CallbacksDone, NextFrame
<1>5. CASE Dispatch
  BY <1>5, Zenon DEF Dispatch, OnConnected, OnClosed, Disconnect
<1>6. CASE DispatchLobby
  BY <1>6, Zenon DEF DispatchLobby
<1>7. CASE PumpLobby
  BY <1>7, Zenon DEF PumpLobby
<1>8. CASE PumpWaiting
  BY <1>8, Zenon DEF PumpWaiting, PumpNetwork, EnterGame
<1>9. CASE PumpAgain
  BY <1>9, Zenon DEF PumpAgain, PumpNetwork
<1>10. CASE LeaveLostGame
  BY <1>10, Zenon DEF LeaveLostGame, Disconnect
<1>11. CASE Play
  BY <1>11, Zenon DEF Play, PumpNetwork
<1>12. CASE Stop
  BY <1>12, Zenon DEF Stop, Disconnect
<1>13. CASE Environment
  BY <1>13, Zenon DEF Environment, HostAccepts, ConnBreaks, WelcomeArrives,
     HostStartsGame, StartGameArrives
<1>14. CASE UNCHANGED vars
  BY <1>14, Zenon DEF vars
<1> QED
  BY <1>1, <1>2, <1>3, <1>4, <1>5, <1>6, <1>7, <1>8, <1>9, <1>10,
     <1>11, <1>12, <1>13, <1>14 DEF Next, User, Frame

\* What Disconnect and PumpNetwork store.
LEMMA DisconnectData ==
  ASSUME DataOK, Disconnect
  PROVE  /\ m_conn' = NoConn /\ m_myId' = NoId
         /\ link' \in [Conn -> {"unused", "closed"} \cup Live]
         /\ inbox' \in [Conn -> Seq({"Welcome", "StartGame"})]
<1>1. <<>> \in Seq({"Welcome", "StartGame"})
  OBVIOUS
<1> QED
  BY <1>1, Zenon DEF DataOK, Disconnect

LEMMA PumpNetworkData ==
  ASSUME DataOK, PumpNetwork
  PROVE  /\ m_myId' \in {SomeId, NoId}
         /\ inbox' \in [Conn -> Seq({"Welcome", "StartGame"})]
<1>1. <<>> \in Seq({"Welcome", "StartGame"})
  OBVIOUS
<1>2. m_myId' \in {SomeId, NoId}
  BY Zenon DEF DataOK, PumpNetwork
<1>3. inbox' \in [Conn -> Seq({"Welcome", "StartGame"})]
  BY <1>1, Zenon DEF DataOK, PumpNetwork
<1> QED
  BY <1>2, <1>3

LEMMA DataStep == DataOK /\ ConnectedOnConn /\ [Next]_vars => DataOK'
<1> SUFFICES ASSUME DataOK, ConnectedOnConn, [Next]_vars PROVE DataOK'
  OBVIOUS
<1> USE DEF DataOK, Live, gameClient, lobby, network, hosts, program
<1>1. CASE \E h \in Host, c \in Conn : Join(h, c)
  BY <1>1 DEF Join
<1>2. CASE CancelWait
  BY <1>2 DEF CancelWait, Disconnect
<1>3. CASE CloseWindow
  BY <1>3 DEF CloseWindow
<1>4. CASE EventsDone \/ CallbacksDone \/ NextFrame
  BY <1>4 DEF EventsDone, CallbacksDone, NextFrame
<1>5. CASE Dispatch
  <2>1. callbacks' \in Seq([conn : Conn, state : {"connected", "closed"}])
    BY <1>5 DEF Dispatch
  <2>2. CASE Disconnect
    BY <1>5, <2>1, <2>2, DisconnectData DEF Dispatch
  <2>3. CASE UNCHANGED <<m_conn, m_myId, link, inbox>>
    BY <1>5, <2>1, <2>3 DEF Dispatch
  <2> QED
    BY <1>5, <2>2, <2>3, Zenon DEF Dispatch, OnConnected, OnClosed
<1>6. CASE DispatchLobby
  BY <1>6 DEF DispatchLobby
<1>7. CASE PumpLobby
  BY <1>7 DEF PumpLobby
<1>8. CASE PumpWaiting
  <2>1. /\ m_myId' \in {SomeId, NoId}
        /\ inbox' \in [Conn -> Seq({"Welcome", "StartGame"})]
    BY <1>8, PumpNetworkData, Zenon DEF PumpWaiting
  <2> QED
    BY <1>8, <2>1 DEF PumpWaiting, EnterGame
<1>9. CASE PumpAgain
  <2>1. /\ m_myId' \in {SomeId, NoId}
        /\ inbox' \in [Conn -> Seq({"Welcome", "StartGame"})]
    BY <1>9, PumpNetworkData, Zenon DEF PumpAgain
  <2> QED
    BY <1>9, <2>1 DEF PumpAgain
<1>10. CASE LeaveLostGame
  BY <1>10, DisconnectData DEF LeaveLostGame
<1>11. CASE Play
  <2>1. /\ m_myId' \in {SomeId, NoId}
        /\ inbox' \in [Conn -> Seq({"Welcome", "StartGame"})]
    BY <1>11, PumpNetworkData, Zenon DEF Play
  <2>2. played' = played \/ (played' = played \cup {m_conn} /\ m_conn \in Conn)
    BY <1>11, Zenon DEF Play, ConnectedOnConn
  <2> QED
    BY <1>11, <2>1, <2>2 DEF Play
<1>12. CASE Stop
  BY <1>12, DisconnectData DEF Stop
<1>13. CASE Environment
  <2>1. ASSUME NEW c \in Conn, HostAccepts(c) \/ ConnBreaks(c) PROVE DataOK'
    <3> DEFINE Change == [conn : Conn, state : {"connected", "closed"}]
    <3>1. /\ [conn |-> c, state |-> "connected"] \in Change
          /\ [conn |-> c, state |-> "closed"] \in Change
      OBVIOUS
    <3>2. callbacks \in Seq(Change)
      OBVIOUS
    <3> HIDE DEF Change
    <3>3. \E i \in Change : callbacks' = Append(callbacks, i)
      BY <2>1, <3>1, Zenon DEF HostAccepts, ConnBreaks
    <3>4. \A i \in Change : Append(callbacks, i) \in Seq(Change)
      BY <3>2, SeqFacts
    <3>5. callbacks' \in Seq(Change)
      BY <3>3, <3>4, Zenon
    <3> QED
      BY <2>1, <3>5 DEF HostAccepts, ConnBreaks, Change
  <2>2. ASSUME NEW c \in Conn, WelcomeArrives(c) \/ StartGameArrives(c) PROVE DataOK'
    <3>1. \A m \in {"Welcome", "StartGame"} : Append(inbox[c], m) \in Seq({"Welcome", "StartGame"})
      BY SeqFacts
    <3>2. inbox' \in [Conn -> Seq({"Welcome", "StartGame"})]
      BY <2>2, <3>1, Zenon DEF WelcomeArrives, StartGameArrives
    <3>3. told' \in [Conn -> {"nothing", "welcome", "start"}]
      BY <2>2 DEF WelcomeArrives, StartGameArrives
    <3> QED
      BY <2>2, <3>2, <3>3 DEF WelcomeArrives, StartGameArrives
  <2>3. ASSUME NEW h \in Host, HostStartsGame(h) PROVE DataOK'
    BY <2>3 DEF HostStartsGame
  <2> QED
    BY <1>13, <2>1, <2>2, <2>3 DEF Environment
<1>14. CASE UNCHANGED vars
  BY <1>14 DEF vars
<1> QED
  BY <1>1, <1>2, <1>3, <1>4, <1>5, <1>6, <1>7, <1>8, <1>9, <1>10,
     <1>11, <1>12, <1>13, <1>14 DEF Next, User, Frame

LEMMA ConnectedOnConnStep == DataOK /\ ConnectedOnConn /\ [Next]_vars => ConnectedOnConn'
<1> SUFFICES ASSUME DataOK, ConnectedOnConn, [Next]_vars PROVE ConnectedOnConn'
  OBVIOUS
<1> USE DEF ConnectedOnConn, gameClient, lobby, network, hosts, program
<1>1. CASE \E h \in Host, c \in Conn : Join(h, c)
  BY <1>1, Zenon DEF Join
<1>2. CASE CancelWait
  BY <1>2, Zenon DEF CancelWait, Disconnect
<1>3. CASE CloseWindow
  BY <1>3, Zenon DEF CloseWindow
<1>4. CASE EventsDone \/ CallbacksDone \/ NextFrame
  BY <1>4, Zenon DEF EventsDone, CallbacksDone, NextFrame
<1>5. CASE Dispatch
  <2>1. Head(callbacks).conn \in Conn
    <3> DEFINE Change == [conn : Conn, state : {"connected", "closed"}]
    <3>1. callbacks \in Seq(Change) /\ callbacks # <<>>
      BY <1>5 DEF Dispatch, DataOK
    <3>2. \A i \in Change : i.conn \in Conn
      OBVIOUS
    <3> HIDE DEF Change
    <3> QED
      BY <3>1, <3>2, SeqFacts
  <2>2. CASE Disconnect
    BY <2>2, Zenon DEF Disconnect
  <2>3. CASE OnConnected /\ Head(callbacks).conn = m_conn
    BY <2>1, <2>3, Zenon DEF OnConnected
  <2>4. CASE UNCHANGED gameClient
    BY <2>4, Zenon
  <2> QED
    BY <1>5, <2>2, <2>3, <2>4, Zenon DEF Dispatch, OnClosed
<1>6. CASE DispatchLobby
  BY <1>6, Zenon DEF DispatchLobby
<1>7. CASE PumpLobby
  BY <1>7, Zenon DEF PumpLobby
<1>8. CASE PumpWaiting
  BY <1>8, Zenon DEF PumpWaiting
<1>9. CASE PumpAgain
  BY <1>9, Zenon DEF PumpAgain
<1>10. CASE LeaveLostGame
  BY <1>10, Zenon DEF LeaveLostGame, Disconnect
<1>11. CASE Play
  BY <1>11, Zenon DEF Play
<1>12. CASE Stop
  BY <1>12, Zenon DEF Stop, Disconnect
<1>13. CASE Environment
  BY <1>13, Zenon DEF Environment, HostAccepts, ConnBreaks, WelcomeArrives,
     HostStartsGame, StartGameArrives
<1>14. CASE UNCHANGED vars
  BY <1>14, Zenon DEF vars
<1> QED
  BY <1>1, <1>2, <1>3, <1>4, <1>5, <1>6, <1>7, <1>8, <1>9, <1>10,
     <1>11, <1>12, <1>13, <1>14 DEF Next, User, Frame

ClientTypes == FlagsOK /\ DataOK /\ ConnectedOnConn

LEMMA ClientTypesInvariant == Spec => []ClientTypes
<1>1. Init => ClientTypes
  BY ClientTypeInit, TypesSplit, Zenon DEF ClientTypes, ConnectedOnConn, Init
<1>2. ClientTypes /\ [Next]_vars => ClientTypes'
  BY FlagsStep, DataStep, ConnectedOnConnStep DEF ClientTypes
<1> QED
  BY <1>1, <1>2, PTL DEF Spec

\* Type correctness of the client program (main.cpp and GameClient).
THEOREM ClientTypeCorrectness == Spec => []TypeOK
<1>1. ClientTypes => TypeOK
  BY TypesSplit DEF ClientTypes
<1> QED
  BY <1>1, ClientTypesInvariant, PTL

-----------------------------------------------------------------------------
(* The connections *)

\* The one game connection that is open is m_conn, and a program that shows
\* the lobby's list has none.
GameLink ==
  /\ \A c \in Conn : link[c] \in Live <=> c = m_conn
  /\ phase = "LobbyBrowse" \/ pc = "stopped" => m_conn = NoConn

\* The lobby's connection is given up with the lobby.
LobbyLink ==
  lobbyLink # "closed" => pc # "stopped" /\ phase \in {"LobbyBrowse", "WaitingForStart"}

LEMMA DisconnectCloses ==
  ASSUME DataOK, GameLink, Disconnect
  PROVE  m_conn' = NoConn /\ \A c \in Conn : link'[c] \notin Live
BY Zenon DEF DataOK, GameLink, Disconnect, Live

LEMMA GameLinkStep == DataOK /\ GameLink /\ [Next]_vars => GameLink'
<1> SUFFICES ASSUME DataOK, GameLink, [Next]_vars PROVE GameLink'
  OBVIOUS
<1> USE ConnFacts DEF gameClient, lobby, network, hosts, program
<1>1. ASSUME Disconnect PROVE GameLink'
  BY <1>1, DisconnectCloses DEF GameLink
<1>2. ASSUME UNCHANGED <<m_conn, link>>, phase' # "LobbyBrowse" \/ phase' = phase,
             pc' # "stopped" \/ pc' = pc
      PROVE  GameLink'
  BY <1>2 DEF GameLink
<1>3. CASE CancelWait \/ LeaveLostGame \/ Stop
  BY <1>1, <1>3 DEF CancelWait, LeaveLostGame, Stop
<1>4. CASE \/ CloseWindow \/ EventsDone \/ CallbacksDone \/ NextFrame \/ DispatchLobby
           \/ PumpLobby \/ PumpWaiting \/ PumpAgain \/ Play \/ UNCHANGED vars
  BY <1>2, <1>4 DEF CloseWindow, EventsDone, CallbacksDone, NextFrame, DispatchLobby,
     PumpLobby, PumpWaiting, PumpAgain, Play, EnterGame, vars
<1>5. ASSUME NEW h \in Host, NEW c \in Conn, Join(h, c) PROVE GameLink'
  <2>1. \A d \in Conn : link[d] \notin Live
    BY <1>5 DEF Join, GameLink
  <2>2. link' = [link EXCEPT ![c] = "connecting"] /\ m_conn' = c
    BY <1>5 DEF Join
  <2>3. \A d \in Conn : link'[d] \in Live <=> d = c
    BY <2>1, <2>2 DEF DataOK, Live
  <2> QED
    BY <1>5, <2>2, <2>3 DEF Join, GameLink
<1>6. CASE Dispatch
  <2>1. CASE UNCHANGED <<m_conn, link>>
    BY <1>2, <1>6, <2>1 DEF Dispatch
  <2> QED
    BY <1>1, <1>6, <2>1 DEF Dispatch, OnConnected, OnClosed
<1>7. ASSUME NEW c \in Conn, HostAccepts(c) \/ ConnBreaks(c) PROVE GameLink'
  <2>1. link[c] \in Live /\ link'[c] \in Live
        /\ \A d \in Conn \ {c} : link'[d] = link[d]
    BY <1>7 DEF HostAccepts, ConnBreaks, DataOK, Live
  <2>2. UNCHANGED <<m_conn, phase, pc>>
    BY <1>7 DEF HostAccepts, ConnBreaks
  <2> QED
    BY <2>1, <2>2 DEF GameLink
<1>8. ASSUME NEW c \in Conn, WelcomeArrives(c) \/ StartGameArrives(c) PROVE GameLink'
  BY <1>2, <1>8 DEF WelcomeArrives, StartGameArrives
<1>9. ASSUME NEW h \in Host, HostStartsGame(h) PROVE GameLink'
  BY <1>2, <1>9 DEF HostStartsGame
<1> QED
  BY <1>3, <1>4, <1>5, <1>6, <1>7, <1>8, <1>9 DEF Next, User, Frame, Environment

LEMMA LobbyLinkStep == DataOK /\ LobbyLink /\ [Next]_vars => LobbyLink'
<1> SUFFICES ASSUME DataOK, LobbyLink, [Next]_vars PROVE LobbyLink'
  OBVIOUS
<1> USE DEF DataOK, LobbyLink, gameClient, lobby, network, hosts, program
<1>1. CASE Environment
  BY <1>1 DEF Environment, HostAccepts, ConnBreaks, WelcomeArrives, StartGameArrives,
     HostStartsGame
<1>2. CASE User
  BY <1>2 DEF User, Join, CancelWait, CloseWindow
<1>3. CASE DispatchLobby \/ EventsDone \/ CallbacksDone \/ NextFrame \/ Dispatch
           \/ PumpLobby \/ UNCHANGED vars
  BY <1>3 DEF DispatchLobby, EventsDone, CallbacksDone, NextFrame, Dispatch, PumpLobby, vars
<1>4. CASE PumpWaiting \/ PumpAgain \/ LeaveLostGame \/ Play \/ Stop
  BY <1>4 DEF PumpWaiting, EnterGame, PumpAgain, LeaveLostGame, Play, Stop
<1> QED
  BY <1>1, <1>2, <1>3, <1>4 DEF Next, Frame

\* However the player joins, cancels, plays and leaves, no connection is lost
\* without being closed (GameClient::disconnect and its callers in main.cpp).
THEOREM ConnectionsDoNotLeak == Spec => []NoConnectionLeak
<1>1. Init => GameLink /\ LobbyLink
  BY ConnFacts DEF Init, GameLink, LobbyLink, Live
<1>2. ClientTypes => DataOK
  BY DEF ClientTypes
<1>3. GameLink /\ LobbyLink => NoConnectionLeak
  BY DEF GameLink, LobbyLink, NoConnectionLeak
<1> QED
  BY <1>1, <1>2, <1>3, GameLinkStep, LobbyLinkStep, ClientTypesInvariant, PTL DEF Spec

-----------------------------------------------------------------------------
(* The slot the client plays in *)

\* A message that waits to be read was sent on that connection.
InboxWasTold == \A c \in Conn : inbox[c] # <<>> => told[c] # "nothing"

IdInv == InboxWasTold /\ IdIsTheHosts

LEMMA PumpNetworkKeeps ==
  ASSUME DataOK, IdInv, PumpNetwork, UNCHANGED <<m_conn, told>>
  PROVE  IdInv'
<1>1. InboxWasTold'
  BY DEF DataOK, IdInv, InboxWasTold, PumpNetwork
<1>2. ASSUME m_myId' # m_myId PROVE m_conn # NoConn /\ inbox[m_conn] # <<>>
  BY <1>2 DEF PumpNetwork
<1>3. IdIsTheHosts'
  BY <1>2 DEF DataOK, IdInv, InboxWasTold, IdIsTheHosts
<1> QED
  BY <1>1, <1>3 DEF IdInv

LEMMA DisconnectKeeps ==
  ASSUME DataOK, IdInv, Disconnect, UNCHANGED told
  PROVE  IdInv'
BY DEF DataOK, IdInv, InboxWasTold, IdIsTheHosts, Disconnect

LEMMA IdStep == DataOK /\ GameLink /\ IdInv /\ [Next]_vars => IdInv'
<1> SUFFICES ASSUME DataOK, GameLink, IdInv, [Next]_vars PROVE IdInv'
  OBVIOUS
<1> USE ConnFacts DEF gameClient, lobby, network, hosts, program
<1>1. ASSUME UNCHANGED <<m_conn, m_myId, inbox, told>> PROVE IdInv'
  BY <1>1 DEF IdInv, InboxWasTold, IdIsTheHosts
<1>2. CASE CancelWait \/ LeaveLostGame \/ Stop
  BY <1>2, DisconnectKeeps DEF CancelWait, LeaveLostGame, Stop
<1>3. CASE \/ CloseWindow \/ EventsDone \/ CallbacksDone \/ NextFrame \/ DispatchLobby
           \/ PumpLobby \/ UNCHANGED vars
  BY <1>1, <1>3 DEF CloseWindow, EventsDone, CallbacksDone, NextFrame, DispatchLobby,
     PumpLobby, vars
<1>4. ASSUME NEW h \in Host, NEW c \in Conn, Join(h, c) PROVE IdInv'
  <2>1. m_myId' = NoId
    BY <1>4 DEF Join, GameLink, IdInv, IdIsTheHosts
  <2>2. UNCHANGED <<inbox, told>>
    BY <1>4 DEF Join
  <2> QED
    BY <2>1, <2>2 DEF IdInv, InboxWasTold, IdIsTheHosts
<1>5. CASE Dispatch
  <2>1. CASE UNCHANGED <<m_conn, m_myId, inbox>>
    BY <1>1, <1>5, <2>1 DEF Dispatch
  <2> QED
    BY <1>5, <2>1, DisconnectKeeps DEF Dispatch, OnConnected, OnClosed
<1>6. CASE PumpWaiting \/ PumpAgain \/ Play
  <2>1. CASE UNCHANGED <<m_myId, inbox>>
    BY <1>1, <1>6, <2>1 DEF PumpWaiting, PumpAgain, Play
  <2> QED
    BY <1>6, <2>1, PumpNetworkKeeps DEF PumpWaiting, PumpAgain, Play
<1>7. ASSUME NEW c \in Conn, HostAccepts(c) \/ ConnBreaks(c) PROVE IdInv'
  BY <1>1, <1>7 DEF HostAccepts, ConnBreaks
<1>8. ASSUME NEW c \in Conn, WelcomeArrives(c) \/ StartGameArrives(c) PROVE IdInv'
  <2>1. /\ told'[c] # "nothing"
        /\ \A d \in Conn \ {c} : told'[d] = told[d] /\ inbox'[d] = inbox[d]
        /\ UNCHANGED <<m_conn, m_myId>>
    BY <1>8 DEF WelcomeArrives, StartGameArrives, DataOK
  <2> QED
    BY <2>1 DEF IdInv, InboxWasTold, IdIsTheHosts, DataOK
<1>9. ASSUME NEW h \in Host, HostStartsGame(h) PROVE IdInv'
  BY <1>1, <1>9 DEF HostStartsGame
<1> QED
  BY <1>2, <1>3, <1>4, <1>5, <1>6, <1>7, <1>8, <1>9 DEF Next, User, Frame, Environment

\* The slot a client plays in was given by the host it is connected to, for any
\* number of games it joined before (GameClient::disconnect, handleMessage).
THEOREM IdComesFromTheHost == Spec => []IdIsTheHosts
<1>1. Init => GameLink /\ IdInv
  BY ConnFacts DEF Init, GameLink, Live, IdInv, InboxWasTold, IdIsTheHosts
<1>2. ClientTypes => DataOK
  BY DEF ClientTypes
<1>3. IdInv => IdIsTheHosts
  BY DEF IdInv
<1> QED
  BY <1>1, <1>2, <1>3, GameLinkStep, IdStep, ClientTypesInvariant, PTL DEF Spec

-----------------------------------------------------------------------------
(* What is left of an earlier game *)

\* Handles are used in order, and the client holds the last one or none.
HandlesInOrder ==
  /\ \A c \in Conn : link[c] # "unused" => \A d \in 1..(c - 1) : link[d] # "unused"
  /\ m_conn # NoConn => \A c \in Conn : link[c] # "unused" => c <= m_conn

\* A StartGame that waits to be read, or was read, was sent by a host the
\* client has joined, though perhaps not by the one it is connected to.
StartWasSent ==
  /\ \A c \in Conn : told[c] # "nothing" => link[c] # "unused"
  /\ \A c \in Conn, i \in Nat :
       i \in DOMAIN inbox[c] /\ inbox[c][i] = "StartGame" => told[c] = "start"
  /\ m_gameStarted => \E d \in Conn : told[d] = "start"

\* An Input is sent on a connection only after a host started a game on it or
\* on an earlier one: what PlaysOnlyStartedGames leaves standing.
SomeGameHasStarted == \A c \in played : \E d \in 1..c : told[d] = "start"

\* The signal that the host is lost was given by a connection that is closed.
LossHasHappened == m_hostDisconnected => \E d \in Conn : link[d] = "closed"

\* main acts on the signal while it is connected only in a later game than the
\* first: what MigratesOnlyWhenLost leaves standing.
StaleLossNeedsEarlierGame ==
  [][phase = "InGame" /\ phase' = "MigrationAttempt" /\ m_conn # NoConn
       => \E d \in 1..(m_conn - 1) : link[d] = "closed"]_vars

HandlesOK == HandlesInOrder /\ StartWasSent /\ LossHasHappened /\ SomeGameHasStarted

LEMMA HandlesInOrderKept ==
  ASSUME HandlesInOrder, m_conn' \in {m_conn, NoConn},
         \A c \in Conn : link'[c] = "unused" <=> link[c] = "unused"
  PROVE  HandlesInOrder'
<1>1. ASSUME NEW c \in Conn, link'[c] # "unused", NEW d \in 1..(c - 1)
      PROVE  link'[d] # "unused"
  <2>1. d \in Conn
    BY ClientAssumption DEF Conn
  <2> QED
    BY <1>1, <2>1 DEF HandlesInOrder
<1>2. ASSUME m_conn' # NoConn, NEW c \in Conn, link'[c] # "unused"
      PROVE  c <= m_conn'
  BY <1>2 DEF HandlesInOrder
<1> QED
  BY <1>1, <1>2 DEF HandlesInOrder

LEMMA HandlesKept ==
  ASSUME HandlesOK, UNCHANGED <<m_conn, m_gameStarted, m_hostDisconnected, told, inbox, played>>,
         \A c \in Conn : link'[c] = "unused" <=> link[c] = "unused",
         \A c \in Conn : link[c] = "closed" => link'[c] = "closed"
  PROVE  HandlesOK'
BY HandlesInOrderKept DEF HandlesOK, StartWasSent, LossHasHappened, SomeGameHasStarted

LEMMA HandlesDisconnect ==
  ASSUME DataOK, GameLink, HandlesOK, Disconnect, UNCHANGED <<m_gameStarted, told, played>>,
         m_hostDisconnected' => m_hostDisconnected \/ m_conn \in Conn
  PROVE  HandlesOK'
<1>1. \A c \in Conn : /\ link'[c] = IF c = m_conn THEN "closed" ELSE link[c]
                      /\ inbox'[c] = IF c = m_conn THEN <<>> ELSE inbox[c]
  BY Zenon DEF Disconnect
<1>2. m_conn' = NoConn
  BY Zenon DEF Disconnect
<1>3. \A c \in Conn : /\ link'[c] = "unused" <=> link[c] = "unused"
                      /\ link[c] = "closed" => link'[c] = "closed"
  BY <1>1 DEF GameLink, Live
<1>4. HandlesInOrder'
  BY <1>2, <1>3, HandlesInOrderKept DEF HandlesOK
<1>5. StartWasSent'
  BY <1>1, <1>3 DEF HandlesOK, StartWasSent
<1>6. LossHasHappened' /\ SomeGameHasStarted'
  BY <1>1, <1>3 DEF HandlesOK, LossHasHappened, SomeGameHasStarted
<1> QED
  BY <1>4, <1>5, <1>6 DEF HandlesOK

LEMMA HandlesPump ==
  ASSUME DataOK, HandlesOK, PumpNetwork,
         UNCHANGED <<m_conn, m_hostDisconnected, link, told>>,
         \/ UNCHANGED played
         \/ played' = played \cup {m_conn} /\ m_gameStarted' /\ m_conn \in Conn
  PROVE  HandlesOK'
<1>1. HandlesInOrder' /\ LossHasHappened'
  BY HandlesInOrderKept DEF HandlesOK, LossHasHappened
<1>2. \A c \in Conn : inbox'[c] = inbox[c] \/ inbox'[c] = <<>>
  BY Zenon DEF PumpNetwork
<1>3. ASSUME m_gameStarted', ~m_gameStarted PROVE told[m_conn] = "start" /\ m_conn \in Conn
  <2>1. /\ m_conn # NoConn
        /\ \E i \in DOMAIN inbox[m_conn] : inbox[m_conn][i] = "StartGame"
    BY <1>3 DEF PumpNetwork
  <2>2. m_conn \in Conn /\ inbox[m_conn] \in Seq({"Welcome", "StartGame"})
    BY <2>1 DEF DataOK
  <2>3. DOMAIN inbox[m_conn] \subseteq Nat
    BY <2>2
  <2> QED
    BY <2>1, <2>2, <2>3 DEF HandlesOK, StartWasSent
<1>4. m_gameStarted' => \E d \in Conn : told[d] = "start"
  BY <1>3 DEF HandlesOK, StartWasSent
<1>5. StartWasSent'
  BY <1>2, <1>4 DEF HandlesOK, StartWasSent
<1>6. ASSUME m_gameStarted', m_conn \in Conn
      PROVE  \E d \in 1..m_conn : told[d] = "start"
  <2>1. PICK d \in Conn : told[d] = "start"
    BY <1>4, <1>6
  <2>2. d <= m_conn
    BY <1>6, <2>1, ConnFacts DEF HandlesOK, StartWasSent, HandlesInOrder
  <2>3. d \in 1..m_conn
    BY <1>6, <2>1, <2>2, ClientAssumption DEF Conn
  <2> QED
    BY <2>1, <2>3
<1>7. SomeGameHasStarted'
  BY <1>6 DEF HandlesOK, SomeGameHasStarted
<1> QED
  BY <1>1, <1>5, <1>7 DEF HandlesOK

LEMMA HandlesJoin ==
  ASSUME DataOK, GameLink, HandlesOK, NEW h \in Host, NEW c \in Conn, Join(h, c)
  PROVE  HandlesOK'
<1>1. /\ link' = [link EXCEPT ![c] = "connecting"] /\ m_conn' = c /\ link[c] = "unused"
      /\ \A d \in 1..(c - 1) : link[d] # "unused"
      /\ UNCHANGED <<m_gameStarted, m_hostDisconnected, told, inbox, played>>
  BY DEF Join, hosts
<1>2. \A d \in Conn : link'[d] = IF d = c THEN "connecting" ELSE link[d]
  BY <1>1 DEF DataOK
<1>3. ASSUME NEW d \in Conn, link[d] # "unused" PROVE d < c
  <2>1. ~(c < d)
    <3>1. c < d => c \in 1..(d - 1)
      BY DEF Conn
    <3> QED
      BY <1>1, <1>3, <3>1 DEF HandlesOK, HandlesInOrder
  <2>2. c # d
    BY <1>1, <1>3
  <2> QED
    BY <2>1, <2>2, ConnFacts
<1>4. ASSUME NEW e \in Conn, link'[e] # "unused", NEW d \in 1..(e - 1)
      PROVE  link'[d] # "unused"
  <2>1. d \in Conn
    BY ClientAssumption DEF Conn
  <2>2. link[d] # "unused"
    BY <1>1, <1>2, <1>4 DEF HandlesOK, HandlesInOrder
  <2> QED
    BY <1>2, <2>1, <2>2
<1>5. HandlesInOrder'
  BY <1>1, <1>2, <1>3, <1>4, ConnFacts DEF HandlesInOrder
<1>6. StartWasSent' /\ LossHasHappened' /\ SomeGameHasStarted'
  BY <1>1, <1>2 DEF HandlesOK, StartWasSent, LossHasHappened, SomeGameHasStarted
<1> QED
  BY <1>5, <1>6 DEF HandlesOK

LEMMA HandlesTold ==
  ASSUME DataOK, HandlesOK, NEW c \in Conn, WelcomeArrives(c) \/ StartGameArrives(c)
  PROVE  HandlesOK'
<1>1. /\ link[c] = "connected"
      /\ UNCHANGED <<link, m_conn, m_gameStarted, m_hostDisconnected, played>>
  BY DEF WelcomeArrives, StartGameArrives, program, gameClient
<1>2. PICK m \in {"Welcome", "StartGame"} :
        /\ inbox' = [inbox EXCEPT ![c] = Append(@, m)]
        /\ m = "StartGame" => told'[c] = "start"
  BY DEF WelcomeArrives, StartGameArrives, DataOK
<1>3. \A d \in Conn : /\ told[d] = "start" => told'[d] = "start"
                      /\ d # c => told'[d] = told[d]
  BY DEF WelcomeArrives, StartGameArrives, DataOK
<1>4. ASSUME NEW d \in Conn, NEW i \in Nat, i \in DOMAIN inbox'[d], inbox'[d][i] = "StartGame"
      PROVE  told'[d] = "start"
  <2>1. CASE d # c
    <3>1. inbox'[d] = inbox[d]
      BY <1>2, <2>1
    <3> QED
      BY <1>3, <1>4, <3>1 DEF HandlesOK, StartWasSent
  <2>2. CASE d = c
    <3>1. inbox[c] \in Seq({"Welcome", "StartGame"}) /\ inbox'[c] = Append(inbox[c], m)
      BY <1>2 DEF DataOK
    <3>2. CASE i = Len(inbox[c]) + 1
      BY <1>2, <1>4, <2>2, <3>1, <3>2
    <3>3. CASE i # Len(inbox[c]) + 1
      <4>1. i \in DOMAIN inbox[c] /\ inbox[c][i] = "StartGame"
        BY <1>4, <2>2, <3>1, <3>3
      <4> QED
        BY <1>3, <2>2, <4>1 DEF HandlesOK, StartWasSent
    <3> QED
      BY <3>2, <3>3
  <2> QED
    BY <2>1, <2>2
<1>5. StartWasSent'
  BY <1>1, <1>3, <1>4 DEF HandlesOK, StartWasSent
<1>6. HandlesInOrder' /\ LossHasHappened'
  BY <1>1, HandlesInOrderKept DEF HandlesOK, LossHasHappened
<1>7. SomeGameHasStarted'
  <2>1. \A e \in Conn : 1..e \subseteq Conn
    BY ClientAssumption DEF Conn
  <2>2. played \subseteq Conn
    BY DEF DataOK
  <2> QED
    BY <1>1, <1>3, <2>1, <2>2 DEF HandlesOK, SomeGameHasStarted
<1> QED
  BY <1>5, <1>6, <1>7 DEF HandlesOK

LEMMA HandlesStep ==
  DataOK /\ ConnectedOnConn /\ GameLink /\ HandlesOK /\ [Next]_vars => HandlesOK'
<1> SUFFICES ASSUME DataOK, ConnectedOnConn, GameLink, HandlesOK, [Next]_vars
             PROVE  HandlesOK'
  OBVIOUS
<1> USE DEF gameClient, lobby, network, hosts, program
<1>1. CASE \/ CloseWindow \/ EventsDone \/ CallbacksDone \/ NextFrame \/ DispatchLobby
           \/ PumpLobby \/ UNCHANGED vars
  BY <1>1, HandlesKept DEF CloseWindow, EventsDone, CallbacksDone, NextFrame,
     DispatchLobby, PumpLobby, vars
<1>2. CASE CancelWait \/ LeaveLostGame \/ Stop
  <2>1. m_hostDisconnected' => m_hostDisconnected
    BY <1>2, Zenon DEF CancelWait, LeaveLostGame, Stop
  <2> QED
    BY <1>2, <2>1, HandlesDisconnect, Zenon DEF CancelWait, LeaveLostGame, Stop
<1>3. ASSUME NEW h \in Host, NEW c \in Conn, Join(h, c) PROVE HandlesOK'
  BY <1>3, HandlesJoin
<1>4. CASE Dispatch
  <2>1. CASE UNCHANGED <<gameClient, link, inbox>>
    BY <1>4, <2>1, HandlesKept DEF Dispatch
  <2>2. CASE OnConnected
    BY <1>4, <2>2 DEF Dispatch, OnConnected, HandlesOK, HandlesInOrder, StartWasSent,
       LossHasHappened, SomeGameHasStarted
  <2>3. CASE OnClosed /\ Head(callbacks).conn = m_conn
    <3>1. Head(callbacks).conn \in Conn
      <4> DEFINE Change == [conn : Conn, state : {"connected", "closed"}]
      <4>1. callbacks \in Seq(Change) /\ callbacks # <<>>
        BY <1>4 DEF Dispatch, DataOK
      <4>2. \A i \in Change : i.conn \in Conn
        OBVIOUS
      <4> HIDE DEF Change
      <4> QED
        BY <4>1, <4>2, SeqFacts
    <3> QED
      BY <1>4, <2>3, <3>1, HandlesDisconnect DEF Dispatch, OnClosed
  <2> QED
    BY <1>4, <2>1, <2>2, <2>3, Zenon DEF Dispatch
<1>5. CASE PumpWaiting \/ PumpAgain \/ Play
  <2>1. CASE ~PumpNetwork
    BY <1>5, <2>1, HandlesKept DEF PumpWaiting, PumpAgain, Play
  <2>2. CASE PumpNetwork /\ (PumpWaiting \/ PumpAgain)
    BY <2>2, HandlesPump DEF PumpWaiting, PumpAgain
  <2>3. CASE PumpNetwork /\ Play
    <3>1. \/ UNCHANGED played
          \/ played' = played \cup {m_conn} /\ m_gameStarted' /\ m_connected
      BY <2>3, Zenon DEF Play
    <3>2. m_connected => m_conn \in Conn
      BY DEF ConnectedOnConn
    <3> QED
      BY <2>3, <3>1, <3>2, HandlesPump, Zenon DEF Play
  <2> QED
    BY <1>5, <2>1, <2>2, <2>3
<1>6. ASSUME NEW c \in Conn, HostAccepts(c) \/ ConnBreaks(c) PROVE HandlesOK'
  <2>1. \A d \in Conn : /\ link'[d] = "unused" <=> link[d] = "unused"
                        /\ link[d] = "closed" => link'[d] = "closed"
    BY <1>6 DEF HostAccepts, ConnBreaks, DataOK
  <2> QED
    BY <1>6, <2>1, HandlesKept DEF HostAccepts, ConnBreaks
<1>7. ASSUME NEW c \in Conn, WelcomeArrives(c) \/ StartGameArrives(c) PROVE HandlesOK'
  BY <1>7, HandlesTold
<1>8. ASSUME NEW h \in Host, HostStartsGame(h) PROVE HandlesOK'
  BY <1>8, HandlesKept DEF HostStartsGame
<1> QED
  BY <1>1, <1>2, <1>3, <1>4, <1>5, <1>6, <1>7, <1>8 DEF Next, User, Frame, Environment

LEMMA HandlesHold == Spec => [](DataOK /\ GameLink /\ HandlesOK)
<1>1. Init => GameLink
  BY ConnFacts DEF Init, GameLink, Live
<1>2. Init => HandlesOK
  BY DEF Init, HandlesOK, HandlesInOrder, StartWasSent, LossHasHappened, SomeGameHasStarted
<1>3. ClientTypes => DataOK /\ ConnectedOnConn
  BY DEF ClientTypes
<1> QED
  BY <1>1, <1>2, <1>3, GameLinkStep, HandlesStep, ClientTypesInvariant, PTL DEF Spec

\* A flag that a disconnect leaves set is all that can let an Input out early:
\* a host joined on this connection or on an earlier one did start its game
\* (GameClient::sendInput, handleMessage).
THEOREM InputFollowsAStart == Spec => []SomeGameHasStarted
<1>1. HandlesOK => SomeGameHasStarted
  BY DEF HandlesOK
<1> QED
  BY <1>1, HandlesHold, PTL

\* So PlaysOnlyStartedGames, which a run refutes with two joins, holds for a
\* player who joins one host.
THEOREM FirstGameIsStarted == MaxConn = 1 => (Spec => []PlaysOnlyStartedGames)
<1>1. MaxConn = 1 /\ DataOK /\ SomeGameHasStarted => PlaysOnlyStartedGames
  <2> SUFFICES ASSUME MaxConn = 1, DataOK, SomeGameHasStarted, NEW c \in played
               PROVE  told[c] = "start"
    BY DEF PlaysOnlyStartedGames
  <2>1. c \in 1..1
    BY DEF DataOK, Conn
  <2>2. PICK d \in 1..c : told[d] = "start"
    BY DEF SomeGameHasStarted
  <2>3. d = c
    BY <2>1, <2>2
  <2> QED
    BY <2>2, <2>3
<1>2. SUFFICES ASSUME MaxConn = 1 PROVE Spec => []PlaysOnlyStartedGames
  OBVIOUS
<1>3. DataOK /\ SomeGameHasStarted => PlaysOnlyStartedGames
  BY <1>1, <1>2
<1> QED
  BY <1>3, InputFollowsAStart, HandlesHold, PTL

\* main leaves a game whose host is there only if the player lost or left an
\* earlier one: in a player's first game the signal is true
\* (GameClient::onConnStatusChanged, main's test of the signal).
THEOREM FirstLossIsReal == Spec => StaleLossNeedsEarlierGame
<1>1. DataOK /\ GameLink /\ HandlesOK /\ [Next]_vars
        => [phase = "InGame" /\ phase' = "MigrationAttempt" /\ m_conn # NoConn
              => \E d \in 1..(m_conn - 1) : link[d] = "closed"]_vars
  <2> SUFFICES ASSUME DataOK, GameLink, HandlesOK, Next, m_conn # NoConn,
                      phase = "InGame", phase' = "MigrationAttempt"
               PROVE  \E d \in 1..(m_conn - 1) : link[d] = "closed"
    OBVIOUS
  <2>1. m_hostDisconnected
    BY DEF Next, User, Frame, Environment, Join, CancelWait, CloseWindow, EventsDone,
       Dispatch, DispatchLobby, CallbacksDone, PumpLobby, PumpWaiting, EnterGame, PumpAgain,
       LeaveLostGame, Play, NextFrame, Stop, HostAccepts, ConnBreaks, WelcomeArrives,
       HostStartsGame, StartGameArrives, program
  <2>2. PICK d \in Conn : link[d] = "closed"
    BY <2>1 DEF HandlesOK, LossHasHappened
  <2>3. d <= m_conn /\ d # m_conn
    BY <2>2 DEF HandlesOK, HandlesInOrder, GameLink, Live
  <2>4. m_conn \in Conn
    BY DEF DataOK
  <2>5. d \in 1..(m_conn - 1)
    BY <2>3, <2>4, ClientAssumption DEF Conn
  <2> QED
    BY <2>2, <2>5
<1> QED
  BY <1>1, HandlesHold, PTL DEF Spec, StaleLossNeedsEarlierGame

\* So MigratesOnlyWhenLost, which a run refutes with two joins, holds for a
\* player who joins one host.
THEOREM OneJoinMigratesOnlyWhenLost == MaxConn = 1 => (Spec => MigratesOnlyWhenLost)
<1> SUFFICES ASSUME MaxConn = 1 PROVE Spec => MigratesOnlyWhenLost
  OBVIOUS
<1>1. DataOK /\ [phase = "InGame" /\ phase' = "MigrationAttempt" /\ m_conn # NoConn
                   => \E d \in 1..(m_conn - 1) : link[d] = "closed"]_vars
        => [phase = "InGame" /\ phase' = "MigrationAttempt" => m_conn = NoConn]_vars
  <2>1. DataOK => m_conn = NoConn \/ m_conn \in 1..1
    BY Zenon DEF DataOK, Conn
  <2>2. m_conn \in 1..1 => 1..(m_conn - 1) = {}
    OBVIOUS
  <2> QED
    BY <2>1, <2>2
<1> QED
  BY <1>1, FirstLossIsReal, HandlesHold, PTL DEF StaleLossNeedsEarlierGame, MigratesOnlyWhenLost
=============================================================================
