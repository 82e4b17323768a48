-------------------------- MODULE ClientAppLiveness --------------------------
(***************************************************************************)
(* The liveness properties of ClientApp, for every number of hosts and of  *)
(* joins, from one assumption about the thread that runs the program:      *)
(* LoopRuns, that its loop goes round.  What is proved is that one more    *)
(* frame is enough, whatever the player, the hosts and the network do      *)
(* meanwhile.                                                              *)
(***************************************************************************)
EXTENDS ClientAppProofs

\* The loop over the window goes round until the program stops: the fairness
\* of FairSpec, told by its effect.
LoopRuns ==
  \/ <>(pc = "stopped")
  \/ []<>(pc = "events") /\ []<>(pc = "frame end")

LEMMA ClientFacts == Spec => [](DataOK /\ GameLink)
<1>1. Init => GameLink
  BY ConnFacts DEF Init, GameLink, Live
<1>2. ClientTypes => DataOK
  BY DEF ClientTypes
<1> QED
  BY <1>1, <1>2, GameLinkStep, ClientTypesInvariant, PTL DEF Spec

\* A program that has stopped does not come back.
LEMMA StoppedStays == pc = "stopped" /\ [Next]_vars => (pc = "stopped")'
BY DEF Next, User, Frame, Environment, Join, CancelWait, CloseWindow, EventsDone, Dispatch,
   DispatchLobby, CallbacksDone, PumpLobby, PumpWaiting, PumpAgain, LeaveLostGame, Play,
   NextFrame, Stop, HostAccepts, ConnBreaks, WelcomeArrives, HostStartsGame,
   StartGameArrives, vars, program

-----------------------------------------------------------------------------
(* A start of the game is seen *)

\* The start has reached the client on connection c: it waits to be read, or
\* the second pump of a frame has read it and the phase has still to follow.
StartIsIn(c) ==
  /\ phase = "WaitingForStart"
  /\ c = m_conn
  /\ m_gameStarted \/ \E i \in DOMAIN inbox[c] : inbox[c][i] = "StartGame"

\* The same, from the events of a frame on until its first pump.
StartIsInBeforePump(c) ==
  StartIsIn(c) /\ pc \in {"events", "callbacks", "lobby", "waiting"}

StartOutcome(c) == phase = "InGame" \/ link[c] \in {"broken", "closed"}

\* A message that is appended leaves those before it where they are.
LEMMA AppendKeeps ==
  ASSUME NEW T, NEW s \in Seq(T), NEW e \in T, NEW m,
         \E i \in DOMAIN s : s[i] = m
  PROVE  \E i \in DOMAIN Append(s, e) : Append(s, e)[i] = m
<1>1. PICK i \in DOMAIN s : s[i] = m
  OBVIOUS
<1>2. i \in DOMAIN Append(s, e) /\ Append(s, e)[i] = m
  BY <1>1
<1> QED
  BY <1>2

\* The pump of a client that waits finds the start.
LEMMA PumpFinds ==
  ASSUME NEW c \in Conn, StartIsIn(c), PumpNetwork
  PROVE  m_gameStarted'
<1>1. m_conn # NoConn
  BY ConnFacts DEF StartIsIn
<1> QED
  BY <1>1, Zenon DEF StartIsIn, PumpNetwork

\* Once in, the start stays in until the phase follows or the connection goes,
\* and the part of the frame only advances.
LEMMA StartStays ==
  ASSUME NEW c \in Conn, DataOK, GameLink, StartIsIn(c), [Next]_vars
  PROVE  /\ StartIsIn(c)' \/ StartOutcome(c)'
         /\ StartIsInBeforePump(c) => StartIsInBeforePump(c)' \/ StartOutcome(c)'
<1> USE DEF gameClient, lobby, network, hosts, program
<1>1. link[c] \in Live /\ m_conn # NoConn /\ pc # "stopped" /\ phase = "WaitingForStart"
  BY ConnFacts DEF StartIsIn, GameLink
<1>2. ASSUME Disconnect PROVE StartOutcome(c)'
  BY <1>2 DEF StartIsIn, Disconnect, StartOutcome
<1>3. ASSUME UNCHANGED <<phase, m_conn, m_gameStarted, inbox>> PROVE StartIsIn(c)'
  BY <1>3 DEF StartIsIn
<1>4. CASE CancelWait \/ LeaveLostGame \/ Stop
  BY <1>2, <1>4 DEF CancelWait, LeaveLostGame, Stop
<1>5. CASE \/ CloseWindow \/ EventsDone \/ CallbacksDone \/ DispatchLobby
           \/ PumpLobby \/ UNCHANGED vars
  BY <1>3, <1>5 DEF CloseWindow, EventsDone, CallbacksDone, DispatchLobby,
     PumpLobby, vars, StartIsInBeforePump
<1>6. CASE NextFrame
  BY <1>3, <1>6 DEF NextFrame, StartIsInBeforePump
<1>7. ASSUME NEW h \in Host, NEW d \in Conn, Join(h, d) PROVE FALSE
  BY <1>1, <1>7 DEF Join
<1>8. CASE Dispatch
  <2>1. CASE Disconnect
    BY <1>2, <2>1
  <2>2. CASE UNCHANGED <<m_conn, m_gameStarted, inbox>>
    BY <1>3, <1>8, <2>2 DEF Dispatch, StartIsInBeforePump
  <2> QED
    BY <1>8, <2>1, <2>2 DEF Dispatch, OnConnected, OnClosed
<1>9. CASE PumpWaiting
  <2>1. m_gameStarted' /\ EnterGame
    BY <1>1, <1>9, PumpFinds, Zenon DEF PumpWaiting
  <2> QED
    BY <2>1 DEF EnterGame, StartOutcome
<1>10. CASE PumpAgain
  <2>1. hasGameClient => m_gameStarted'
    BY <1>10, PumpFinds DEF PumpAgain
  <2>2. ~hasGameClient => UNCHANGED <<m_gameStarted, inbox>>
    BY <1>10 DEF PumpAgain
  <2>3. pc = "pump" /\ UNCHANGED <<phase, m_conn>>
    BY <1>10 DEF PumpAgain
  <2> QED
    BY <2>1, <2>2, <2>3 DEF StartIsIn, StartIsInBeforePump
<1>11. CASE Play
  <2>1. m_gameStarted' /\ pc = "play" /\ UNCHANGED <<phase, m_conn>>
    BY <1>11, PumpFinds DEF Play
  <2> QED
    BY <2>1 DEF StartIsIn, StartIsInBeforePump
<1>12. ASSUME NEW d \in Conn, HostAccepts(d) \/ ConnBreaks(d) PROVE StartIsIn(c)' /\ UNCHANGED pc
  BY <1>3, <1>12 DEF HostAccepts, ConnBreaks
<1>13. ASSUME NEW d \in Conn, WelcomeArrives(d) \/ StartGameArrives(d)
       PROVE  StartIsIn(c)' /\ UNCHANGED pc
  <2>1. PICK e \in {"Welcome", "StartGame"} : inbox' = [inbox EXCEPT ![d] = Append(@, e)]
    BY <1>13, Zenon DEF WelcomeArrives, StartGameArrives
  <2>2. UNCHANGED <<phase, m_conn, m_gameStarted, pc>>
    BY <1>13 DEF WelcomeArrives, StartGameArrives
  <2>3. ASSUME \E i \in DOMAIN inbox[c] : inbox[c][i] = "StartGame"
        PROVE  \E i \in DOMAIN inbox'[c] : inbox'[c][i] = "StartGame"
    <3>1. inbox[c] \in Seq({"Welcome", "StartGame"})
      BY DEF DataOK
    <3>2. inbox'[c] = inbox[c] \/ inbox'[c] = Append(inbox[c], e)
      BY <2>1, Zenon DEF DataOK
    <3>3. \E i \in DOMAIN Append(inbox[c], e) : Append(inbox[c], e)[i] = "StartGame"
      BY <2>3, <3>1, AppendKeeps
    <3> QED
      BY <2>3, <3>2, <3>3, Zenon
  <2> QED
    BY <2>2, <2>3 DEF StartIsIn
<1>14. ASSUME NEW h \in Host, HostStartsGame(h) PROVE StartIsIn(c)' /\ UNCHANGED pc
  BY <1>3, <1>14 DEF HostStartsGame
<1>15. CASE Environment
  BY <1>12, <1>13, <1>14, <1>15 DEF Environment, StartIsInBeforePump
<1> QED
  BY <1>4, <1>5, <1>6, <1>7, <1>8, <1>9, <1>10, <1>11, <1>15 DEF Next, User, Frame

\* Whatever else happens, a client whose loop runs sees a start of the game that
\* reaches it, also one that comes between the two pumps of a frame (main.cpp).
THEOREM StartIsSeenIfLoopRuns == Spec /\ LoopRuns => StartIsSeen
<1> SUFFICES ASSUME NEW c \in Conn
             PROVE  Spec /\ LoopRuns =>
                      ((/\ phase = "WaitingForStart" /\ c = m_conn
                        /\ \E i \in DOMAIN inbox[c] : inbox[c][i] = "StartGame")
                         ~> (phase = "InGame" \/ link[c] \in {"broken", "closed"}))
  BY DEF StartIsSeen
<1> DEFINE P == /\ phase = "WaitingForStart" /\ c = m_conn
                /\ \E i \in DOMAIN inbox[c] : inbox[c][i] = "StartGame"
           In == StartIsIn(c)
           Before == StartIsInBeforePump(c)
           Q == StartOutcome(c)
           Facts == DataOK /\ GameLink
<1>1. P => In
  BY DEF StartIsIn
<1>2. Facts /\ In /\ [Next]_vars => In' \/ Q'
  BY StartStays
<1>3. Facts /\ Before /\ [Next]_vars => Before' \/ Q'
  BY StartStays DEF StartIsInBeforePump
<1>4. In /\ pc = "events" => Before
  BY DEF StartIsInBeforePump
<1>5. Before => ~(pc = "frame end")
  BY DEF StartIsInBeforePump
<1>6. Facts /\ In => ~(pc = "stopped")
  BY ConnFacts DEF StartIsIn, GameLink
<1>7. Q => phase = "InGame" \/ link[c] \in {"broken", "closed"}
  BY DEF StartOutcome
<1>8. Spec => []Facts
  BY ClientFacts
<1> HIDE DEF P, In, Before, Q, Facts
<1>9. Spec /\ LoopRuns => (P ~> Q)
  BY <1>1, <1>2, <1>3, <1>4, <1>5, <1>6, <1>8, StoppedStays, PTL
     DEF Spec, LoopRuns
<1> QED
  BY <1>7, <1>9, PTL DEF P

-----------------------------------------------------------------------------
(* A lost host ends the game *)

\* The loss of a connection waits to be dispatched, and the client that will be
\* told of it is there.
LostIsQueued ==
  /\ \A c \in Conn : link[c] = "broken" =>
       \E i \in DOMAIN callbacks : callbacks[i] = [conn |-> c, state |-> "closed"]
  /\ m_conn # NoConn => hasGameClient

\* What is behind the head of a queue is in its tail.
LEMMA TailKeeps ==
  ASSUME NEW T, NEW s \in Seq(T), NEW m, s # <<>>, Head(s) # m,
         \E i \in DOMAIN s : s[i] = m
  PROVE  \E i \in DOMAIN Tail(s) : Tail(s)[i] = m
<1>1. PICK i \in DOMAIN s : s[i] = m
  OBVIOUS
<1>2. i # 1 /\ i - 1 \in DOMAIN Tail(s) /\ Tail(s)[i - 1] = m
  BY <1>1
<1> QED
  BY <1>2

LEMMA AppendHas ==
  ASSUME NEW T, NEW s \in Seq(T), NEW e \in T
  PROVE  \E i \in DOMAIN Append(s, e) : Append(s, e)[i] = e
<1>1. Len(s) + 1 \in DOMAIN Append(s, e) /\ Append(s, e)[Len(s) + 1] = e
  OBVIOUS
<1> QED
  BY <1>1

LEMMA LostIsQueuedStep == DataOK /\ GameLink /\ LostIsQueued /\ [Next]_vars => LostIsQueued'
<1> SUFFICES ASSUME DataOK, GameLink, LostIsQueued, [Next]_vars PROVE LostIsQueued'
  OBVIOUS
<1> DEFINE Change == [conn : Conn, state : {"connected", "closed"}]
<1> USE DEF gameClient, lobby, network, hosts, program
<1>0. callbacks \in Seq(Change)
  BY DEF DataOK
<1>1. ASSUME UNCHANGED <<m_conn, hasGameClient, link, callbacks>> PROVE LostIsQueued'
  BY <1>1 DEF LostIsQueued
<1>2. ASSUME Disconnect PROVE LostIsQueued'
  BY <1>2, DisconnectCloses DEF LostIsQueued, Live
<1>3. CASE CancelWait \/ LeaveLostGame \/ Stop
  BY <1>2, <1>3 DEF CancelWait, LeaveLostGame, Stop
<1>4. CASE \/ CloseWindow \/ EventsDone \/ CallbacksDone \/ NextFrame \/ DispatchLobby
           \/ PumpLobby \/ PumpWaiting \/ PumpAgain \/ Play \/ UNCHANGED vars
  BY <1>1, <1>4 DEF CloseWindow, EventsDone, CallbacksDone, NextFrame, DispatchLobby,
     PumpLobby, PumpWaiting, PumpAgain, Play, EnterGame, vars
<1>5. ASSUME NEW h \in Host, NEW c \in Conn, Join(h, c) PROVE LostIsQueued'
  BY <1>5 DEF Join, LostIsQueued, DataOK
<1>6. CASE Dispatch
  <2>1. CASE UNCHANGED <<m_conn, link>>
    <3>1. UNCHANGED hasGameClient /\ callbacks' = Tail(callbacks) /\ callbacks # <<>>
      BY <1>6 DEF Dispatch
    <3>2. ASSUME NEW c \in Conn, link[c] = "broken"
          PROVE  Head(callbacks) # [conn |-> c, state |-> "closed"]
      <4>1. c = m_conn /\ hasGameClient
        BY <3>2, ConnFacts DEF GameLink, Live, LostIsQueued
      <4>2. ASSUME OnClosed PROVE link'[c] = "closed"
        BY <4>1, <4>2 DEF OnClosed, Disconnect
      <4> QED
        BY <1>6, <2>1, <3>2, <4>1, <4>2 DEF Dispatch
    <3>3. ASSUME NEW c \in Conn, link[c] = "broken"
          PROVE  \E i \in DOMAIN Tail(callbacks) :
                   Tail(callbacks)[i] = [conn |-> c, state |-> "closed"]
      <4> DEFINE lost == [conn |-> c, state |-> "closed"]
      <4>1. \E i \in DOMAIN callbacks : callbacks[i] = lost
        BY <3>3 DEF LostIsQueued
      <4>2. callbacks # <<>> /\ Head(callbacks) # lost
        BY <3>1, <3>2, <3>3
      <4> HIDE DEF Change, lost
      <4>3. \E i \in DOMAIN Tail(callbacks) : Tail(callbacks)[i] = lost
        BY <1>0, <4>1, <4>2, TailKeeps
      <4> QED
        BY <4>3 DEF lost
    <3> QED
      BY <2>1, <3>1, <3>3 DEF LostIsQueued
  <2> QED
    BY <1>2, <1>6, <2>1 DEF Dispatch, OnConnected, OnClosed
<1>7. ASSUME NEW c \in Conn, HostAccepts(c) \/ ConnBreaks(c) PROVE LostIsQueued'
  <2>1. PICK e \in Change :
          /\ callbacks' = Append(callbacks, e)
          /\ link' = [link EXCEPT ![c] = IF e.state = "closed" THEN "broken" ELSE "connected"]
          /\ e.conn = c
    <3>1. /\ [conn |-> c, state |-> "connected"] \in Change
          /\ [conn |-> c, state |-> "closed"] \in Change
      OBVIOUS
    <3>2. CASE HostAccepts(c)
      BY <3>1, <3>2 DEF HostAccepts
    <3>3. CASE ConnBreaks(c)
      BY <3>1, <3>3 DEF ConnBreaks
    <3> QED
      BY <1>7, <3>2, <3>3
  <2>2. e.state = "closed" => e = [conn |-> c, state |-> "closed"]
    BY <2>1
  <2>3. ASSUME NEW d \in Conn, link'[d] = "broken"
        PROVE  \E i \in DOMAIN Append(callbacks, e) :
                 Append(callbacks, e)[i] = [conn |-> d, state |-> "closed"]
    <3> HIDE DEF Change
    <3>1. CASE d = c
      <4>1. e = [conn |-> c, state |-> "closed"]
        BY <2>1, <2>2, <2>3, <3>1 DEF DataOK
      <4>2. \E i \in DOMAIN Append(callbacks, e) : Append(callbacks, e)[i] = e
        BY <1>0, AppendHas
      <4> QED
        BY <3>1, <4>1, <4>2
    <3>2. CASE d # c
      <4>1. link[d] = "broken"
        BY <2>1, <2>3, <3>2 DEF DataOK
      <4> DEFINE lost == [conn |-> d, state |-> "closed"]
      <4>2. \E i \in DOMAIN callbacks : callbacks[i] = lost
        BY <4>1 DEF LostIsQueued
      <4> HIDE DEF lost
      <4>3. \E i \in DOMAIN Append(callbacks, e) : Append(callbacks, e)[i] = lost
        BY <1>0, <4>2, AppendKeeps
      <4> QED
        BY <4>3 DEF lost
    <3> QED
      BY <3>1, <3>2
  <2>4. UNCHANGED <<m_conn, hasGameClient>>
    BY <1>7 DEF HostAccepts, ConnBreaks
  <2> QED
    BY <2>1, <2>3, <2>4 DEF LostIsQueued
<1>8. ASSUME NEW c \in Conn, WelcomeArrives(c) \/ StartGameArrives(c) PROVE LostIsQueued'
  BY <1>1, <1>8 DEF WelcomeArrives, StartGameArrives
<1>9. ASSUME NEW h \in Host, HostStartsGame(h) PROVE LostIsQueued'
  BY <1>1, <1>9 DEF HostStartsGame
<1> QED
  BY <1>3, <1>4, <1>5, <1>6, <1>7, <1>8, <1>9 DEF Next, User, Frame, Environment

LEMMA LostIsQueuedAlways == Spec => []LostIsQueued
<1>1. Init => LostIsQueued
  BY DEF Init, LostIsQueued
<1> QED
  BY <1>1, LostIsQueuedStep, ClientFacts, PTL DEF Spec

HostIsLost(c) == phase = "InGame" /\ c = m_conn /\ link[c] = "broken"

\* The loss has been dispatched; main has still to test m_hostDisconnected.
LossIsTold == phase = "InGame" /\ m_hostDisconnected

\* A loss stays until it is dispatched, which is before the callbacks of the
\* frame are done if the loss is there when the frame begins.
LEMMA LossStays ==
  ASSUME NEW c \in Conn, DataOK, GameLink, LostIsQueued, HostIsLost(c), [Next]_vars
  PROVE  /\ HostIsLost(c)' \/ LossIsTold' \/ (pc = "stopped")'
         /\ pc \in {"events", "callbacks"} =>
              \/ HostIsLost(c)' /\ pc' \in {"events", "callbacks"}
              \/ LossIsTold'
              \/ (pc = "stopped")'
<1> USE DEF HostIsLost, gameClient, lobby, network, hosts, program
<1>1. hasGameClient /\ callbacks # <<>>
  BY ConnFacts DEF LostIsQueued
<1>2. CASE \/ EventsDone \/ CloseWindow \/ CallbacksDone \/ NextFrame \/ DispatchLobby
           \/ PumpLobby \/ PumpWaiting \/ PumpAgain \/ Play \/ UNCHANGED vars
  BY <1>1, <1>2 DEF EventsDone, CloseWindow, CallbacksDone, NextFrame, DispatchLobby,
     PumpLobby, PumpWaiting, PumpAgain, Play, vars
<1>3. CASE (\E h \in Host, d \in Conn : Join(h, d)) \/ CancelWait
  BY <1>3 DEF Join, CancelWait
<1>4. CASE Dispatch
  BY <1>4 DEF Dispatch, OnConnected, OnClosed, LossIsTold
<1>5. CASE LeaveLostGame \/ Stop
  BY <1>5 DEF LeaveLostGame, Stop
<1>6. CASE Environment
  BY <1>6 DEF Environment, HostAccepts, ConnBreaks, WelcomeArrives, StartGameArrives,
     HostStartsGame, DataOK
<1> QED
  BY <1>2, <1>3, <1>4, <1>5, <1>6 DEF Next, User, Frame

\* A loss that main has been told of is acted on in the game's part of the same
\* frame, before the frame can end.
LEMMA LossIsActedOn ==
  ASSUME LossIsTold, [Next]_vars
  PROVE  /\ LossIsTold' \/ (pc = "stopped")'
         /\ pc # "frame end" => pc' # "frame end"
<1> USE DEF LossIsTold, gameClient, lobby, network, hosts, program
<1>1. CASE \/ EventsDone \/ CloseWindow \/ CallbacksDone \/ NextFrame \/ DispatchLobby
           \/ PumpLobby \/ PumpWaiting \/ PumpAgain \/ Play \/ UNCHANGED vars
  BY <1>1 DEF EventsDone, CloseWindow, CallbacksDone, NextFrame, DispatchLobby,
     PumpLobby, PumpWaiting, PumpAgain, Play, vars
<1>2. CASE (\E h \in Host, d \in Conn : Join(h, d)) \/ CancelWait
  BY <1>2 DEF Join, CancelWait
<1>3. CASE Dispatch
  BY <1>3 DEF Dispatch, OnConnected, OnClosed
<1>4. CASE LeaveLostGame \/ Stop
  BY <1>4 DEF LeaveLostGame, Stop
<1>5. CASE Environment
  BY <1>5 DEF Environment, HostAccepts, ConnBreaks, WelcomeArrives, StartGameArrives,
     HostStartsGame
<1> QED
  BY <1>1, <1>2, <1>3, <1>4, <1>5 DEF Next, User, Frame

\* A player whose host is lost does not go on playing alone, however many status
\* changes of older connections are dispatched first (main.cpp, GameClient).
THEOREM LostHostEndsGameIfLoopRuns == Spec /\ LoopRuns => LostHostEndsGame
<1> SUFFICES ASSUME NEW c \in Conn
             PROVE  Spec /\ LoopRuns =>
                      ((phase = "InGame" /\ c = m_conn /\ link[c] = "broken") ~> (pc = "stopped"))
  BY DEF LostHostEndsGame
<1> DEFINE Lost == phase = "InGame" /\ c = m_conn /\ link[c] = "broken"
           Early == Lost /\ pc \in {"events", "callbacks"}
           Facts == DataOK /\ GameLink /\ LostIsQueued
<1>1. Facts /\ Lost /\ [Next]_vars => Lost' \/ LossIsTold' \/ (pc = "stopped")'
  BY LossStays DEF HostIsLost
<1>2. Facts /\ Early /\ [Next]_vars => Early' \/ LossIsTold' \/ (pc = "stopped")'
  BY LossStays DEF HostIsLost
<1>3. Lost /\ pc = "events" => Early
  OBVIOUS
<1>4. Early => ~(pc = "frame end")
  OBVIOUS
<1>5. LossIsTold /\ [Next]_vars => LossIsTold' \/ (pc = "stopped")'
  BY LossIsActedOn
<1>6. LossIsTold /\ ~(pc = "frame end") /\ [Next]_vars => ~(pc = "frame end")'
  BY LossIsActedOn
<1>7. pc = "events" => ~(pc = "frame end")
  OBVIOUS
<1>8. Spec => []Facts
  BY ClientFacts, LostIsQueuedAlways, PTL
<1> HIDE DEF Lost, Early, Facts
<1>9. Spec /\ LoopRuns => (Lost ~> (pc = "stopped"))
  BY <1>1, <1>2, <1>3, <1>4, <1>5, <1>6, <1>7, <1>8, StoppedStays, PTL
     DEF Spec, LoopRuns
<1> QED
  BY <1>9 DEF Lost

=============================================================================
