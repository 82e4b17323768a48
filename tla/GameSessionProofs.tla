-------------------------- MODULE GameSessionProofs --------------------------
(***************************************************************************)
(* Proofs about a game of any number of clients, however long the frames   *)
(* and the field are, and whatever bounds are put on the network.          *)
(*                                                                         *)
(* The host of a session is a GameHost, so what is proved of that holds    *)
(* here.  The rest is one inductive invariant, SessionInv: the types, what *)
(* the streams say, how far each client has read its own, and that nothing *)
(* is under way to the host before the start.                              *)
(***************************************************************************)
EXTENDS GameSession, GameHostProofs

-----------------------------------------------------------------------------

NetTypeOK ==
  /\ key \in [Conn -> RawMove]
  /\ inputs \in [Conn -> SUBSET RawMove]

SimTypeOK ==
  /\ m_state \in Place \cup {NoSnap}
  /\ m_listen => m_state \in Place
  /\ m_snapAccum \in Nat
  /\ snaps \in [Conn -> SUBSET Place]
  /\ first \in [Conn -> Place \cup {NoSnap}]
  /\ m_latest \in [Conn -> Place \cup {NoSnap}]

ClientTypeOK ==
  /\ m_conn \in [Conn -> {"none", "open", "closed"}]
  /\ m_connected \in [Conn -> BOOLEAN]
  /\ m_myId \in [Conn -> ClientSlot \cup {NoSlot}]
  /\ gameStarted \in [Conn -> BOOLEAN]
  /\ got \in [Conn -> Nat]

\* A start that was sent is a start of the host.
StreamsAreTrue ==
  \A c \in Conn : \A i \in 1..Len(stream[c]) :
    stream[c][i].type = "StartGame" => m_gameStarted

\* What a client knows is what it has read of its stream.
KnowsWhatItRead(c) ==
  /\ got[c] <= Len(stream[c])
  /\ m_myId[c] = IF got[c] = 0 THEN NoSlot ELSE stream[c][1].yourId
  /\ gameStarted[c] <=> got[c] >= 3

\* A stream is empty, or a greeting as far as it goes.
StreamShape(s) ==
  \/ s = <<>>
  \/ \E slot \in ClientSlot :
       s = <<Welcome(slot), Snap>> \/ s = <<Welcome(slot), Snap, StartGame>>

ClientsFollow ==
  /\ \A c \in Conn : StreamShape(stream[c])
  /\ \A c \in Conn : m_conn[c] = "none" => got[c] = 0 /\ m_myId[c] = NoSlot /\ ~gameStarted[c]
  /\ \A c \in Conn : m_conn[c] = "open" => KnowsWhatItRead(c)
  /\ \A c \in Conn : m_connected[c] => m_conn[c] = "open"

\* Nothing is under way to the host, and nobody but the host moves, before the
\* start.
Quiet ==
  ~m_gameStarted =>
    /\ \A c \in Conn : inputs[c] = {}
    /\ \A p \in ClientSlot : m_inputX[p] = 0

SessionInv ==
  /\ HostInv
  /\ NetTypeOK
  /\ SimTypeOK
  /\ ClientTypeOK
  /\ StreamsAreTrue
  /\ ClientsFollow
  /\ Quiet

-----------------------------------------------------------------------------
(* A session is a behaviour of its host *)

LEMMA SessionStepIsHostStep ==
  ASSUME NetTypeOK, [SessionNext]_sessionVars
  PROVE  [Next]_vars
<1>1. CASE HostStarts \/ HostStops \/ StartGameFor
  BY <1>1 DEF HostStarts, HostStops, StartGameFor, Next
<1>2. ASSUME NEW c \in Conn, Admit(c) \/ Greet(c) \/ Unseat(c)
      PROVE  Next
  BY <1>2 DEF Admit, Greet, Unseat, Next
<1>3. ASSUME NEW c \in Conn, NEW x \in inputs[c], ReceiveInput(c, x)
      PROVE  Next
  <2>1. x \in RawMove
    BY <1>3 DEF NetTypeOK
  <2> QED
    BY <1>3, <2>1 DEF ReceiveInput, Next
<1>4. ASSUME NEW dt \in FrameTime, NEW x \in HostMove, HostFrame(dt, x)
      PROVE  Next
  <2>1. x \in {-1, 0, 1}
    BY SessionAssumption DEF Move
  <2> QED
    BY <1>4, <2>1 DEF HostFrame, Next
<1>5. ASSUME NEW c \in Conn,
             \/ Connect(c) \/ OnClientConnected(c) \/ ReadReliable(c) \/ SendInput(c)
             \/ ClientEnds(c)
             \/ \E s \in snaps[c] : ReadSnap(c, s) \/ SnapLeaves(c, s)
             \/ \E x \in inputs[c] : InputLeaves(c, x)
             \/ \E x \in RawMove : PressKey(c, x)
      PROVE  UNCHANGED vars
  BY <1>5 DEF Connect, OnClientConnected, ReadReliable, SendInput, ClientEnds, ReadSnap,
    SnapLeaves, InputLeaves, PressKey
<1>6. CASE UNCHANGED sessionVars
  BY <1>6 DEF sessionVars
<1> QED
  BY <1>1, <1>2, <1>3, <1>4, <1>5, <1>6, Zenon DEF SessionNext

LEMMA HostInvStep ==
  ASSUME HostInv, [Next]_vars
  PROVE  HostInv'
BY TypeStep, SeatsStep, IdleStep, FreshStep, ToldStep, Zenon DEF HostInv

-----------------------------------------------------------------------------
(* Streams *)

Pair(slot) == <<Welcome(slot), Snap>>
Triple(slot) == <<Welcome(slot), Snap, StartGame>>

LEMMA GreetingCases ==
  ASSUME NEW slot
  PROVE  Greeting(slot) = IF m_gameStarted THEN Triple(slot) ELSE Pair(slot)
BY DEF Greeting, Pair, Triple

LEMMA StreamFacts ==
  ASSUME NEW slot
  PROVE  /\ Len(Pair(slot)) = 2 /\ Len(Triple(slot)) = 3 /\ Len(<< >>) = 0
         /\ Pair(slot)[1].type = "Welcome" /\ Pair(slot)[1].yourId = slot
         /\ Triple(slot)[1].type = "Welcome" /\ Triple(slot)[1].yourId = slot
         /\ Pair(slot)[2].type = "Snap"
         /\ Triple(slot)[2].type = "Snap" /\ Triple(slot)[3].type = "StartGame"
BY DEF Pair, Triple, Welcome, Snap, StartGame

LEMMA ShapeCases ==
  ASSUME NEW c \in Conn, StreamShape(stream[c])
  PROVE  \/ stream[c] = << >>
         \/ \E slot \in ClientSlot : stream[c] = Pair(slot) \/ stream[c] = Triple(slot)
BY DEF StreamShape, Pair, Triple

\* What a step of the host does to one stream.
LEMMA StreamGrows ==
  ASSUME HostInv, [Next]_vars, NEW c \in Conn
  PROVE  \/ stream'[c] = stream[c]
         \/ \E slot \in ClientSlot :
              \/ stream[c] = << >> /\ stream'[c] = Pair(slot)
              \/ stream[c] = << >> /\ stream'[c] = Triple(slot) /\ m_gameStarted'
              \/ stream[c] = Pair(slot) /\ stream'[c] = Triple(slot) /\ m_gameStarted'
<1>1. CASE UNCHANGED stream
  BY <1>1
<1>2. ASSUME NEW d \in Conn, OnConnected(d)
      PROVE  \/ stream'[c] = stream[c]
             \/ \E slot \in ClientSlot :
                  /\ stream[c] = << >>
                  /\ stream'[c] = Pair(slot) \/ (stream'[c] = Triple(slot) /\ m_gameStarted')
  <2>1. FreeSlot \in ClientSlot
    BY <1>2, FreeSlotIsFree DEF OnConnected
  <2>2. stream[d] = << >>
    BY <1>2 DEF OnConnected, HostInv, FreshStreams
  <2>3. stream' = [stream EXCEPT ![d] = stream[d] \o Greeting(FreeSlot)]
    BY <1>2 DEF OnConnected
  <2>4. Greeting(FreeSlot) \in Seq(Message)
    BY <2>1, GreetingType
  <2>5. << >> \o Greeting(FreeSlot) = Greeting(FreeSlot)
    BY <2>4
  <2>6. stream \in [Conn -> Seq(Message)] /\ m_gameStarted' = m_gameStarted
    BY <1>2 DEF HostInv, TypeOK, OnConnected
  <2>7. stream'[c] = stream[c] \/ (c = d /\ stream'[c] = Greeting(FreeSlot))
    BY <2>2, <2>3, <2>5, <2>6
  <2> QED
    BY <2>1, <2>2, <2>6, <2>7, GreetingCases, Zenon
<1>3. CASE PressStart
  <2>1. CASE c \notin m_clients
    BY <1>3, <2>1 DEF PressStart
  <2>2. CASE c \in m_clients
    <3>1. c \in Seated /\ m_connToId[c] \in ClientSlot /\ ~m_gameStarted
      BY <1>3, <2>2 DEF HostInv, TypeOK, SeatsAgree, Seated, PressStart
    <3>2. stream[c] = Pair(m_connToId[c])
      BY <3>1, GreetingCases DEF HostInv, ClientsAreTold
    <3>3. stream'[c] = Append(stream[c], StartGame) /\ m_gameStarted'
      BY <1>3, <2>2 DEF PressStart
    <3>4. Append(Pair(m_connToId[c]), StartGame) = Triple(m_connToId[c])
      BY <3>1, MessageTypes, AppendToPair DEF Pair, Triple
    <3> QED
      BY <3>1, <3>2, <3>3, <3>4
  <2> QED
    BY <2>1, <2>2
<1> QED
  BY <1>1, <1>2, <1>3, Zenon
  DEF vars, Next, Start, Stop, OnConnecting, OnConnectedNoSlot, OnClosed, HandleInput, UpdateSim

LEMMA ShapeStep ==
  ASSUME HostInv, [Next]_vars, NEW c \in Conn, StreamShape(stream[c])
  PROVE  StreamShape(stream'[c])
BY StreamGrows, Zenon DEF StreamShape, Pair, Triple

LEMMA StartIsKept ==
  ASSUME [Next]_vars, m_gameStarted
  PROVE  m_gameStarted'
BY DEF vars, Next, Start, Stop, OnConnecting, OnConnected, OnConnectedNoSlot, OnClosed,
  HandleInput, UpdateSim, PressStart

LEMMA TrueStreamsStep ==
  ASSUME HostInv, StreamsAreTrue, [Next]_vars
  PROVE  StreamsAreTrue'
<1> SUFFICES ASSUME NEW c \in Conn, NEW i \in 1..Len(stream'[c]),
                    stream'[c][i].type = "StartGame"
             PROVE  m_gameStarted'
  BY DEF StreamsAreTrue
<1>1. CASE stream'[c] = stream[c]
  BY <1>1, StartIsKept DEF StreamsAreTrue
<1>2. ASSUME NEW slot \in ClientSlot, stream'[c] = Pair(slot) PROVE FALSE
  <2>1. i \in {1, 2}
    BY <1>2, StreamFacts
  <2> QED
    BY <1>2, <2>1, StreamFacts
<1> QED
  BY <1>1, <1>2, StreamGrows

-----------------------------------------------------------------------------
(* Types *)

LEMMA SentType ==
  ASSUME NEW S, NEW msgs \in SUBSET S, NEW m \in S
  PROVE  Sent(msgs, m) \in SUBSET S
BY DEF Sent

LEMMA NetTypeStep ==
  ASSUME NetTypeOK, [SessionNext]_sessionVars
  PROVE  NetTypeOK'
<1> USE DEF NetTypeOK
<1>1. CASE UNCHANGED <<key, inputs>>
  BY <1>1
<1>2. CASE HostStops
  BY <1>2 DEF HostStops, clientVars
<1>3. ASSUME NEW c \in Conn, Unseat(c) PROVE NetTypeOK'
  BY <1>3 DEF Unseat, clientVars
<1>4. ASSUME NEW c \in Conn, NEW x \in inputs[c], InputLeaves(c, x) PROVE NetTypeOK'
  BY <1>4 DEF InputLeaves, clientVars
<1>5. ASSUME NEW c \in Conn, NEW x \in RawMove, PressKey(c, x) PROVE NetTypeOK'
  BY <1>5 DEF PressKey, netVars
<1>6. ASSUME NEW c \in Conn, SendInput(c) PROVE NetTypeOK'
  <2>1. Sent(inputs[c], key[c]) \in SUBSET RawMove
    BY SentType
  <2> QED
    BY <1>6, <2>1 DEF SendInput, clientVars
<1>7. ASSUME NEW c \in Conn, ClientEnds(c) PROVE NetTypeOK'
  BY <1>7, SessionAssumption DEF ClientEnds
<1> HIDE DEF NetTypeOK
<1> QED
  BY <1>1, <1>2, <1>3, <1>4, <1>5, <1>6, <1>7, Zenon
  DEF SessionNext, sessionVars, clientVars, netVars, HostStarts, Admit, Greet,
    StartGameFor, ReceiveInput, HostFrame, Connect, OnClientConnected, ReadReliable,
    ReadSnap, SnapLeaves

LEMMA MovedType ==
  ASSUME NEW x \in 0..FieldX, NEW move \in Int, NEW dt \in FrameTime
  PROVE  Moved(x, move, dt) \in 0..FieldX
<1>1. dt \in Int /\ FieldX \in Nat
  BY SessionAssumption
<1>2. move * dt \in Int
  BY <1>1
<1> QED
  BY <1>1, <1>2 DEF Moved, Clamp

LEMMA FrameTypes ==
  ASSUME HostInv, HostInv', SimTypeOK, NEW dt \in FrameTime, NEW x \in HostMove,
         HostFrame(dt, x)
  PROVE  SimTypeOK'
<1>1. m_listen /\ m_listen'
  BY DEF HostFrame, UpdateSim
<1>2. m_state' \in Place
  <2>1. \A p \in Player : m_state[p] \in 0..FieldX /\ m_inputX'[p] \in Int
    BY <1>1 DEF SimTypeOK, Place, HostInv, TypeOK
  <2>2. \A p \in Player : Moved(m_state[p], m_inputX'[p], dt) \in 0..FieldX
    BY <2>1, MovedType
  <2>3. m_state' = [p \in Player |-> Moved(m_state[p], m_inputX'[p], dt)]
    BY DEF HostFrame
  <2> QED
    BY <2>2, <2>3, Zenon DEF Place
<1>3. m_snapAccum' \in Nat
  BY SessionAssumption DEF HostFrame, SimTypeOK, Clamp
<1>4. snaps' \in [Conn -> SUBSET Place]
  <2>1. CASE UNCHANGED snaps
    BY <2>1 DEF SimTypeOK
  <2>2. CASE Broadcast
    <3>1. \A c \in Conn : snaps[c] \in SUBSET Place /\ Sent(snaps[c], m_state') \in SUBSET Place
      BY <1>2, SentType, Zenon DEF SimTypeOK
    <3> QED
      BY <2>2, <3>1, Zenon DEF Broadcast
  <2> QED
    BY <2>1, <2>2 DEF HostFrame
<1>5. UNCHANGED <<first, m_latest>>
  BY DEF HostFrame, clientVars
<1> QED
  BY <1>1, <1>2, <1>3, <1>4, <1>5 DEF SimTypeOK

LEMMA SimTypeStep ==
  ASSUME HostInv, HostInv', SimTypeOK, [SessionNext]_sessionVars
  PROVE  SimTypeOK'
<1> USE DEF SimTypeOK
<1>1. CASE UNCHANGED <<m_listen, m_state, m_snapAccum, snaps, first, m_latest>>
  BY <1>1
<1>2. CASE HostStarts
  BY <1>2, SessionAssumption DEF HostStarts, clientVars, netVars
<1>3. CASE HostStops
  BY <1>3 DEF HostStops, Stop, simVars, clientVars
<1>4. ASSUME NEW c \in Conn, Greet(c) PROVE SimTypeOK'
  BY <1>4 DEF Greet, OnConnected, OnConnectedNoSlot, simVars, clientVars
<1>5. ASSUME NEW dt \in FrameTime, NEW x \in HostMove, HostFrame(dt, x) PROVE SimTypeOK'
  BY <1>5, FrameTypes
<1>6. ASSUME NEW c \in Conn, ReadReliable(c) PROVE SimTypeOK'
  <2>1. UNCHANGED <<m_listen, m_state, m_snapAccum, snaps>>
    BY <1>6 DEF ReadReliable, vars, simVars
  <2>2. \/ UNCHANGED <<first, m_latest>>
        \/ /\ m_latest' = [m_latest EXCEPT ![c] = first[c]]
           /\ first' = [first EXCEPT ![c] = NoSnap]
    BY <1>6, Zenon DEF ReadReliable
  <2> QED
    BY <2>1, <2>2
<1>7. ASSUME NEW c \in Conn, NEW s \in snaps[c], ReadSnap(c, s) PROVE SimTypeOK'
  BY <1>7 DEF ReadSnap, vars, simVars, netVars
<1>8. ASSUME NEW c \in Conn, NEW s \in snaps[c], SnapLeaves(c, s) PROVE SimTypeOK'
  BY <1>8 DEF SnapLeaves, vars, simVars, clientVars
<1>9. ASSUME NEW c \in Conn, ClientEnds(c) PROVE SimTypeOK'
  BY <1>9 DEF ClientEnds, vars, simVars
<1> HIDE DEF SimTypeOK
<1>10. ASSUME NEW c \in Conn,
              \/ Admit(c) \/ Unseat(c) \/ Connect(c) \/ OnClientConnected(c)
              \/ SendInput(c)
              \/ \E x \in RawMove : PressKey(c, x)
              \/ \E x \in inputs[c] : ReceiveInput(c, x) \/ InputLeaves(c, x)
       PROVE  SimTypeOK'
  BY <1>1, <1>10
  DEF vars, simVars, clientVars, netVars, Admit, Unseat, Connect,
    OnClientConnected, SendInput, PressKey, ReceiveInput, InputLeaves, OnConnecting,
    OnConnectedNoSlot, OnClosed, HandleInput
<1>11. CASE StartGameFor \/ UNCHANGED sessionVars
  BY <1>1, <1>11
  DEF sessionVars, vars, simVars, clientVars, netVars, StartGameFor, PressStart
<1> QED
  BY <1>2, <1>3, <1>4, <1>5, <1>6, <1>7, <1>8, <1>9, <1>10, <1>11, Zenon DEF SessionNext

-----------------------------------------------------------------------------
(* What clients know *)

\* The reliable messages of a client with a connection, in the order it reads
\* them: its slot, a snapshot, the start.
LEMMA NextReliable ==
  ASSUME ClientTypeOK, ClientsFollow, NEW c \in Conn, ReadReliable(c)
  PROVE  /\ m_conn[c] = "open"
         /\ got' = [got EXCEPT ![c] = got[c] + 1]
         /\ got[c] < Len(stream[c])
         /\ \/ /\ got[c] = 0
               /\ \E slot \in ClientSlot :
                    stream[c][1].yourId = slot /\ m_myId' = [m_myId EXCEPT ![c] = slot]
               /\ UNCHANGED gameStarted
            \/ got[c] = 1 /\ UNCHANGED <<m_myId, gameStarted>>
            \/ /\ got[c] = 2
               /\ gameStarted' = [gameStarted EXCEPT ![c] = TRUE]
               /\ UNCHANGED m_myId
<1> DEFINE n == got[c] + 1
           msg == stream[c][n]
<1>1. m_conn[c] = "open" /\ got[c] < Len(stream[c]) /\ got' = [got EXCEPT ![c] = n]
  BY DEF ReadReliable
<1>2. got[c] \in Nat /\ StreamShape(stream[c])
  BY DEF ClientTypeOK, ClientsFollow
<1>3. PICK slot \in ClientSlot : stream[c] = Pair(slot) \/ stream[c] = Triple(slot)
  BY <1>1, <1>2, ShapeCases, StreamFacts
<1>4. n = 1 \/ n = 2 \/ (n = 3 /\ stream[c] = Triple(slot))
  <2>1. CASE stream[c] = Pair(slot)
    <3>1. Len(stream[c]) = 2
      BY <2>1, StreamFacts
    <3> QED
      BY <1>1, <1>2, <3>1
  <2>2. CASE stream[c] = Triple(slot)
    <3>1. Len(stream[c]) = 3
      BY <2>2, StreamFacts
    <3> QED
      BY <1>1, <1>2, <2>2, <3>1
  <2> QED
    BY <1>3, <2>1, <2>2
<1>5. /\ n = 1 => msg.type = "Welcome" /\ msg.yourId = slot
      /\ n = 2 => msg.type = "Snap"
      /\ n = 3 => msg.type = "StartGame"
  BY <1>3, <1>4, StreamFacts
<1>6. \/ msg.type = "Welcome" /\ m_myId' = [m_myId EXCEPT ![c] = msg.yourId] /\ UNCHANGED gameStarted
      \/ msg.type = "Snap" /\ UNCHANGED <<m_myId, gameStarted>>
      \/ /\ msg.type = "StartGame"
         /\ gameStarted' = [gameStarted EXCEPT ![c] = TRUE]
         /\ UNCHANGED m_myId
  BY DEF ReadReliable
<1>7. CASE n = 1
  <2>1. stream[c][1].yourId = slot /\ m_myId' = [m_myId EXCEPT ![c] = slot] /\ UNCHANGED gameStarted
    <3>1. msg = stream[c][1] /\ msg.type = "Welcome" /\ msg.yourId = slot
      BY <1>5, <1>7
    <3>2. m_myId' = [m_myId EXCEPT ![c] = slot] /\ UNCHANGED gameStarted
      <4> HIDE DEF msg
      <4> QED
        BY <1>6, <3>1
    <3> QED
      BY <3>1, <3>2
  <2>2. got[c] = 0
    BY <1>2, <1>7
  <2> HIDE DEF n, msg
  <2> QED
    BY <1>1, <2>1, <2>2, Zenon DEF n
<1>8. CASE n = 2
  BY <1>1, <1>2, <1>5, <1>6, <1>8
<1>9. CASE n = 3
  BY <1>1, <1>2, <1>5, <1>6, <1>9
<1> QED
  BY <1>4, <1>7, <1>8, <1>9

LEMMA ClientTypeStep ==
  ASSUME ClientTypeOK, ClientsFollow, [SessionNext]_sessionVars
  PROVE  ClientTypeOK'
<1>1. CASE UNCHANGED <<m_conn, m_connected, m_myId, gameStarted, got>>
  BY <1>1 DEF ClientTypeOK
<1>2. ASSUME NEW c \in Conn, Connect(c) PROVE ClientTypeOK'
  BY <1>2 DEF Connect, ClientTypeOK
<1>3. ASSUME NEW c \in Conn, OnClientConnected(c) PROVE ClientTypeOK'
  BY <1>3 DEF OnClientConnected, ClientTypeOK
<1>4. ASSUME NEW c \in Conn, ReadReliable(c) PROVE ClientTypeOK'
  <2>1. UNCHANGED <<m_conn, m_connected>>
    BY <1>4 DEF ReadReliable
  <2>2. got' \in [Conn -> Nat]
    BY <1>4, NextReliable DEF ClientTypeOK
  <2>3. m_myId' \in [Conn -> ClientSlot \cup {NoSlot}]
    BY <1>4, NextReliable DEF ClientTypeOK
  <2>4. gameStarted' \in [Conn -> BOOLEAN]
    BY <1>4, NextReliable DEF ClientTypeOK
  <2> QED
    BY <2>1, <2>2, <2>3, <2>4 DEF ClientTypeOK
<1>5. ASSUME NEW c \in Conn, ClientEnds(c) PROVE ClientTypeOK'
  BY <1>5 DEF ClientEnds, ClientTypeOK
<1>6. ASSUME NEW c \in Conn,
             \/ Admit(c) \/ Greet(c) \/ Unseat(c) \/ SendInput(c)
             \/ \E x \in RawMove : PressKey(c, x)
             \/ \E x \in inputs[c] : ReceiveInput(c, x) \/ InputLeaves(c, x)
             \/ \E s \in snaps[c] : ReadSnap(c, s) \/ SnapLeaves(c, s)
      PROVE  ClientTypeOK'
  BY <1>1, <1>6 DEF clientVars, Admit, Greet, Unseat, SendInput, PressKey,
    ReceiveInput, InputLeaves, ReadSnap, SnapLeaves
<1>7. ASSUME \/ HostStarts \/ HostStops \/ StartGameFor \/ UNCHANGED sessionVars
             \/ \E dt \in FrameTime, x \in HostMove : HostFrame(dt, x)
      PROVE  ClientTypeOK'
  BY <1>1, <1>7 DEF sessionVars, clientVars, HostStarts, HostStops, StartGameFor, HostFrame
<1> QED
  BY <1>2, <1>3, <1>4, <1>5, <1>6, <1>7, Zenon DEF SessionNext

\* A step of the host leaves what a client knows as it was, and true.
LEMMA KnowledgeKept ==
  ASSUME HostInv, ClientTypeOK, [Next]_vars, NEW c \in Conn, KnowsWhatItRead(c),
         got'[c] = got[c], m_myId'[c] = m_myId[c], gameStarted'[c] = gameStarted[c]
  PROVE  KnowsWhatItRead(c)'
<1>1. CASE stream'[c] = stream[c]
  BY <1>1 DEF KnowsWhatItRead
<1>2. ASSUME NEW slot \in ClientSlot, stream[c] = << >>,
             stream'[c] = Pair(slot) \/ stream'[c] = Triple(slot)
      PROVE  KnowsWhatItRead(c)'
  <2>1. got[c] = 0
    BY <1>2, StreamFacts DEF KnowsWhatItRead, ClientTypeOK
  <2> QED
    BY <1>2, <2>1, StreamFacts DEF KnowsWhatItRead
<1>3. ASSUME NEW slot \in ClientSlot, stream[c] = Pair(slot), stream'[c] = Triple(slot)
      PROVE  KnowsWhatItRead(c)'
  <2>1. Len(stream[c]) = 2 /\ Len(stream'[c]) = 3 /\ stream[c][1].yourId = stream'[c][1].yourId
    BY <1>3, StreamFacts
  <2>2. got[c] \in Nat
    BY DEF ClientTypeOK
  <2> QED
    BY <2>1, <2>2 DEF KnowsWhatItRead
<1> QED
  BY <1>1, <1>2, <1>3, StreamGrows

\* The same, for every client at once.
LEMMA FollowKept ==
  ASSUME HostInv, ClientTypeOK, ClientsFollow, [Next]_vars,
         UNCHANGED <<m_conn, m_connected, m_myId, gameStarted, got>>
  PROVE  ClientsFollow'
<1>1. \A c \in Conn : StreamShape(stream'[c])
  BY ShapeStep DEF ClientsFollow
<1>2. ASSUME NEW c \in Conn, m_conn'[c] = "open" PROVE KnowsWhatItRead(c)'
  BY <1>2, KnowledgeKept DEF ClientsFollow
<1> QED
  BY <1>1, <1>2 DEF ClientsFollow

LEMMA FollowStep ==
  ASSUME HostInv, NetTypeOK, ClientTypeOK, ClientsFollow, [SessionNext]_sessionVars
  PROVE  ClientsFollow'
<1>1. [Next]_vars
  BY SessionStepIsHostStep
<1>2. CASE UNCHANGED <<m_conn, m_connected, m_myId, gameStarted, got>>
  BY <1>1, <1>2, FollowKept
<1>3. ASSUME UNCHANGED stream, NEW c \in Conn,
             \A d \in Conn \ {c} :
               /\ m_conn'[d] = m_conn[d] /\ m_connected'[d] = m_connected[d]
               /\ m_myId'[d] = m_myId[d] /\ gameStarted'[d] = gameStarted[d]
               /\ got'[d] = got[d],
             m_conn'[c] = "none" => got'[c] = 0 /\ m_myId'[c] = NoSlot /\ ~gameStarted'[c],
             m_conn'[c] = "open" => KnowsWhatItRead(c)',
             m_connected'[c] => m_conn'[c] = "open"
      PROVE  ClientsFollow'
  <2>1. \A d \in Conn : StreamShape(stream'[d])
    BY <1>3 DEF ClientsFollow
  <2>2. \A d \in Conn : m_conn'[d] = "none" => got'[d] = 0 /\ m_myId'[d] = NoSlot /\ ~gameStarted'[d]
    BY <1>3 DEF ClientsFollow
  <2>3. ASSUME NEW d \in Conn, m_conn'[d] = "open" PROVE KnowsWhatItRead(d)'
    BY <1>1, <1>3, <2>3, KnowledgeKept DEF ClientsFollow
  <2>4. \A d \in Conn : m_connected'[d] => m_conn'[d] = "open"
    BY <1>3 DEF ClientsFollow
  <2> QED
    BY <2>1, <2>2, <2>3, <2>4 DEF ClientsFollow
<1>4. ASSUME NEW c \in Conn, Connect(c) PROVE ClientsFollow'
  <2>1. /\ UNCHANGED <<m_connected, m_myId, gameStarted, got, stream>>
        /\ m_conn' = [m_conn EXCEPT ![c] = "open"]
        /\ m_conn[c] = "none"
    BY <1>4 DEF Connect, vars
  <2>2. m_conn'[c] = "open"
    BY <2>1 DEF ClientTypeOK
  <2>3. StreamShape(stream[c]) /\ got[c] = 0 /\ m_myId[c] = NoSlot /\ gameStarted[c] = FALSE
    BY <2>1 DEF ClientsFollow, ClientTypeOK
  <2>4. Len(stream[c]) \in Nat
    BY DEF HostInv, TypeOK
  <2>5. KnowsWhatItRead(c)'
    BY <2>1, <2>3, <2>4 DEF KnowsWhatItRead
  <2>6. \A d \in Conn \ {c} : m_conn'[d] = m_conn[d]
    BY <2>1
  <2> QED
    BY <1>3, <2>1, <2>2, <2>5, <2>6
<1>5. ASSUME NEW c \in Conn, OnClientConnected(c) PROVE ClientsFollow'
  <2>1. /\ UNCHANGED <<m_conn, m_myId, gameStarted, got, stream>>
        /\ m_connected' = [m_connected EXCEPT ![c] = TRUE]
        /\ m_conn[c] = "open"
    BY <1>5 DEF OnClientConnected, vars
  <2>2. KnowsWhatItRead(c)'
    BY <1>1, <2>1, KnowledgeKept DEF ClientsFollow
  <2>3. m_connected'[c] => m_conn'[c] = "open"
    BY <2>1
  <2>4. \A d \in Conn \ {c} : m_connected'[d] = m_connected[d]
    BY <2>1 DEF ClientTypeOK
  <2>5. m_conn'[c] # "none"
    BY <2>1
  <2> QED
    BY <1>3, <2>1, <2>2, <2>3, <2>4, <2>5
<1>6. ASSUME NEW c \in Conn, ReadReliable(c) PROVE ClientsFollow'
  <2>1. UNCHANGED <<m_conn, m_connected, stream>>
    BY <1>6 DEF ReadReliable, vars
  <2>2. /\ m_conn[c] = "open" /\ KnowsWhatItRead(c)
        /\ got \in [Conn -> Nat] /\ m_myId \in [Conn -> ClientSlot \cup {NoSlot}]
        /\ gameStarted \in [Conn -> BOOLEAN]
    BY <1>6, NextReliable DEF ClientsFollow, ClientTypeOK
  <2>3. KnowsWhatItRead(c)'
    <3>1. got'[c] = got[c] + 1 /\ got[c] \in Nat /\ got[c] < Len(stream[c])
      BY <1>6, <2>2, NextReliable
    <3>2. Len(stream[c]) \in Nat
      BY DEF HostInv, TypeOK
    <3>3. CASE got[c] = 0
      <4>1. PICK slot \in ClientSlot :
              stream[c][1].yourId = slot /\ m_myId' = [m_myId EXCEPT ![c] = slot]
        BY <1>6, <3>3, NextReliable
      <4>2. m_myId'[c] = stream[c][1].yourId
        BY <2>2, <4>1
      <4>3. UNCHANGED gameStarted
        BY <1>6, <3>3, NextReliable
      <4> QED
        BY <2>1, <2>2, <3>1, <3>2, <3>3, <4>2, <4>3 DEF KnowsWhatItRead
    <3>4. CASE got[c] = 1
      BY <1>6, <2>1, <2>2, <3>1, <3>2, <3>4, NextReliable DEF KnowsWhatItRead
    <3>5. CASE got[c] = 2
      <4>1. UNCHANGED m_myId /\ gameStarted'[c] = TRUE
        BY <1>6, <2>2, <3>5, NextReliable
      <4> QED
        BY <2>1, <2>2, <3>1, <3>2, <3>5, <4>1 DEF KnowsWhatItRead
    <3> QED
      BY <1>6, <3>3, <3>4, <3>5, NextReliable
  <2>4. \A d \in Conn \ {c} :
          got'[d] = got[d] /\ m_myId'[d] = m_myId[d] /\ gameStarted'[d] = gameStarted[d]
    BY <1>6, <2>2, NextReliable
  <2>5. m_connected'[c] => m_conn'[c] = "open"
    BY <2>1, <2>2
  <2> QED
    BY <1>3, <2>1, <2>2, <2>3, <2>4, <2>5
<1>7. ASSUME NEW c \in Conn, ClientEnds(c) PROVE ClientsFollow'
  <2>1. /\ UNCHANGED <<stream, gameStarted>>
        /\ m_conn' = [m_conn EXCEPT ![c] = "closed"]
        /\ m_connected' = [m_connected EXCEPT ![c] = FALSE]
        /\ m_myId' = [m_myId EXCEPT ![c] = NoSlot]
        /\ got' = [got EXCEPT ![c] = 0]
    BY <1>7 DEF ClientEnds, vars
  <2>2. m_conn'[c] = "closed" /\ m_connected'[c] = FALSE
    BY <2>1 DEF ClientTypeOK
  <2>3. \A d \in Conn \ {c} :
          /\ m_conn'[d] = m_conn[d] /\ m_connected'[d] = m_connected[d]
          /\ m_myId'[d] = m_myId[d] /\ got'[d] = got[d]
    BY <2>1 DEF ClientTypeOK
  <2> QED
    BY <1>3, <2>1, <2>2, <2>3
<1>8. ASSUME NEW c \in Conn,
             \/ Admit(c) \/ Greet(c) \/ Unseat(c) \/ SendInput(c)
             \/ \E x \in RawMove : PressKey(c, x)
             \/ \E x \in inputs[c] : ReceiveInput(c, x) \/ InputLeaves(c, x)
             \/ \E s \in snaps[c] : ReadSnap(c, s) \/ SnapLeaves(c, s)
      PROVE  ClientsFollow'
  BY <1>2, <1>8 DEF clientVars, Admit, Greet, Unseat, SendInput, PressKey,
    ReceiveInput, InputLeaves, ReadSnap, SnapLeaves
<1>9. ASSUME \/ HostStarts \/ HostStops \/ StartGameFor \/ UNCHANGED sessionVars
             \/ \E dt \in FrameTime, x \in HostMove : HostFrame(dt, x)
      PROVE  ClientsFollow'
  BY <1>2, <1>9 DEF sessionVars, clientVars, HostStarts, HostStops, StartGameFor, HostFrame
<1> QED
  BY <1>4, <1>5, <1>6, <1>7, <1>8, <1>9, Zenon DEF SessionNext

-----------------------------------------------------------------------------
(* The start *)

\* A client that has heard of the start is right.
LEMMA HeardIsTrue ==
  ASSUME ClientTypeOK, ClientsFollow, StreamsAreTrue, NEW c \in Conn, m_conn[c] = "open",
         gameStarted[c]
  PROVE  m_gameStarted
<1>1. got[c] >= 3 /\ got[c] <= Len(stream[c]) /\ got[c] \in Nat /\ StreamShape(stream[c])
  BY DEF ClientsFollow, KnowsWhatItRead, ClientTypeOK
<1>2. PICK slot \in ClientSlot : stream[c] = Triple(slot)
  <2>1. ASSUME NEW slot \in ClientSlot, stream[c] = Pair(slot) PROVE FALSE
    <3>1. Len(stream[c]) = 2
      BY <2>1, StreamFacts
    <3> QED
      BY <1>1, <3>1
  <2>2. stream[c] # << >>
    BY <1>1, StreamFacts
  <2> QED
    BY <1>1, <2>1, <2>2, ShapeCases
<1>3. Len(stream[c]) = 3 /\ stream[c][3].type = "StartGame"
  BY <1>2, StreamFacts
<1> QED
  BY <1>3 DEF StreamsAreTrue

LEMMA QuietStep ==
  ASSUME SessionInv, [SessionNext]_sessionVars
  PROVE  Quiet'
<1> USE DEF Quiet
<1>1. [Next]_vars
  BY SessionStepIsHostStep DEF SessionInv
<1>2. m_gameStarted' \/ ~m_gameStarted
  BY <1>1, StartIsKept
<1>3. CASE m_gameStarted'
  BY <1>3
<1>4. CASE ~m_gameStarted
  <2> SUFFICES /\ \A c \in Conn : inputs'[c] = {}
               /\ \A p \in ClientSlot : m_inputX'[p] = 0
    OBVIOUS
  <2>1. /\ \A c \in Conn : inputs[c] = {}
        /\ \A p \in ClientSlot : m_inputX[p] = 0
        /\ m_inputX \in [Player -> -1..1]
        /\ inputs \in [Conn -> SUBSET RawMove]
    BY <1>4 DEF SessionInv, HostInv, TypeOK, NetTypeOK
  <2>2. CASE UNCHANGED <<inputs, m_inputX>>
    BY <2>1, <2>2
  <2>3. CASE HostStarts
    BY <2>1, <2>3 DEF HostStarts, Start, netVars, Player
  <2>4. CASE HostStops
    BY <2>1, <2>4 DEF HostStops, Stop
  <2>5. ASSUME NEW c \in Conn, Unseat(c)
        PROVE  /\ \A d \in Conn : inputs'[d] = {}
               /\ \A p \in ClientSlot : m_inputX'[p] = 0
    BY <2>1, <2>5 DEF Unseat, OnClosed, Player
  <2>6. ASSUME NEW dt \in FrameTime, NEW x \in HostMove, HostFrame(dt, x)
        PROVE  /\ \A d \in Conn : inputs'[d] = {}
               /\ \A p \in ClientSlot : m_inputX'[p] = 0
    <3>1. m_inputX' = [m_inputX EXCEPT ![0] = Clamp(x, -1, 1)] /\ UNCHANGED inputs
      BY <2>6 DEF HostFrame, UpdateSim
    <3> QED
      BY <2>1, <3>1 DEF ClientSlot, Player
  <2>7. ASSUME NEW c \in Conn, SendInput(c) PROVE FALSE
    <3>1. m_connected[c] /\ gameStarted[c]
      BY <2>7 DEF SendInput, MaySend
    <3>2. m_conn[c] = "open"
      BY <3>1 DEF SessionInv, ClientsFollow
    <3> QED
      BY <1>4, <3>1, <3>2, HeardIsTrue DEF SessionInv
  <2>8. ASSUME NEW c \in Conn, \E x \in inputs[c] : ReceiveInput(c, x) \/ InputLeaves(c, x)
        PROVE  FALSE
    BY <2>1, <2>8
  <2>9. ASSUME NEW c \in Conn,
               \/ Admit(c) \/ Greet(c) \/ Connect(c) \/ OnClientConnected(c)
               \/ ReadReliable(c) \/ ClientEnds(c)
               \/ \E x \in RawMove : PressKey(c, x)
               \/ \E s \in snaps[c] : ReadSnap(c, s) \/ SnapLeaves(c, s)
        PROVE  UNCHANGED <<inputs, m_inputX>>
    BY <2>9 DEF vars, netVars, Admit, Greet, Connect, OnClientConnected,
      ReadReliable, ClientEnds, PressKey, ReadSnap, SnapLeaves, OnConnecting, OnConnected,
      OnConnectedNoSlot
  <2>10. CASE StartGameFor \/ UNCHANGED sessionVars
    BY <2>2, <2>10 DEF sessionVars, vars, netVars, StartGameFor, PressStart
  <2> QED
    BY <2>2, <2>3, <2>4, <2>5, <2>6, <2>7, <2>8, <2>9, <2>10, Zenon DEF SessionNext
<1> QED
  BY <1>2, <1>3, <1>4

-----------------------------------------------------------------------------
(* Theorems *)

LEMMA SessionInvInit == SessionInit => SessionInv
<1> SUFFICES ASSUME SessionInit PROVE SessionInv
  OBVIOUS
<1>1. HostInv
  BY InitHost DEF SessionInit
<1>2. NetTypeOK /\ SimTypeOK
  BY SessionAssumption DEF SessionInit, Init, NetTypeOK, SimTypeOK
<1>3. ClientTypeOK
  BY DEF SessionInit, ClientTypeOK
<1>4. \A c \in Conn : stream[c] = << >>
  BY DEF SessionInit, Init
<1>5. StreamsAreTrue
  BY <1>4, StreamFacts DEF StreamsAreTrue
<1>6. ClientsFollow
  BY <1>4, Zenon DEF SessionInit, ClientsFollow, StreamShape
<1>7. Quiet
  BY DEF SessionInit, Init, Quiet, Player
<1> QED
  BY <1>1, <1>2, <1>3, <1>5, <1>6, <1>7 DEF SessionInv

LEMMA SessionInvStep == SessionInv /\ [SessionNext]_sessionVars => SessionInv'
<1> SUFFICES ASSUME SessionInv, [SessionNext]_sessionVars PROVE SessionInv'
  OBVIOUS
<1> USE DEF SessionInv
<1>1. [Next]_vars
  BY SessionStepIsHostStep
<1>2. HostInv'
  BY <1>1, HostInvStep
<1>3. NetTypeOK' /\ SimTypeOK' /\ ClientTypeOK'
  BY <1>2, NetTypeStep, SimTypeStep, ClientTypeStep
<1>4. StreamsAreTrue' /\ ClientsFollow'
  BY <1>1, TrueStreamsStep, FollowStep
<1>5. Quiet'
  BY QuietStep
<1> QED
  BY <1>2, <1>3, <1>4, <1>5

LEMMA SessionInvariance == SessionSpec => []SessionInv
BY SessionInvInit, SessionInvStep, PTL DEF SessionSpec

\* A session is played on a host as GameHost describes it, so every theorem
\* about that host holds of the session.
THEOREM SessionImplementsHost == SessionSpec => Spec
<1>1. SessionInit => Init
  BY DEF SessionInit
<1>2. SessionInv /\ [SessionNext]_sessionVars => [Next]_vars
  BY SessionStepIsHostStep DEF SessionInv
<1> QED
  BY <1>1, <1>2, SessionInvariance, PTL DEF SessionSpec, Spec

\* The state of a session has its types: no player leaves the field, and no
\* snapshot shows one outside it.
THEOREM SessionTypeCorrectness == SessionSpec => []SessionTypeOK
<1>1. SessionInv => SessionTypeOK
  BY Zenon DEF SessionInv, HostInv, NetTypeOK, SimTypeOK, ClientTypeOK, SessionTypeOK
<1> QED
  BY <1>1, SessionInvariance, PTL

\* Whatever the network does, a client and the host never disagree about its
\* slot and about the start, and a client that has read its stream knows both.
THEOREM ClientsStayInAgreement == SessionSpec => []ClientsAgreeWithHost
<1>1. SessionInv => ClientsAgreeWithHost
  <2> SUFFICES ASSUME SessionInv, NEW c \in Conn, m_conn[c] = "open", link[c] = "open"
               PROVE  /\ m_myId[c] \in {NoSlot, m_connToId[c]}
                      /\ gameStarted[c] => m_gameStarted /\ m_myId[c] # NoSlot
                      /\ got[c] = Len(stream[c]) => m_myId[c] # NoSlot /\ gameStarted[c] = m_gameStarted
    BY DEF ClientsAgreeWithHost
  <2> DEFINE slot == m_connToId[c]
  <2>1. c \in Seated /\ slot \in ClientSlot
    BY DEF SessionInv, HostInv, TypeOK, SeatsAgree, Seated
  <2>2. stream[c] = IF m_gameStarted THEN Triple(slot) ELSE Pair(slot)
    BY <2>1, GreetingCases DEF SessionInv, HostInv, ClientsAreTold
  <2>3. stream[c][1].yourId = slot /\ Len(stream[c]) = IF m_gameStarted THEN 3 ELSE 2
    <3>1. CASE m_gameStarted
      BY <2>2, <3>1, StreamFacts
    <3>2. CASE ~m_gameStarted
      BY <2>2, <3>2, StreamFacts
    <3> QED
      BY <3>1, <3>2
  <2>4. /\ got[c] \in Nat /\ got[c] <= Len(stream[c])
        /\ m_myId[c] = IF got[c] = 0 THEN NoSlot ELSE slot
        /\ gameStarted[c] <=> got[c] >= 3
    BY <2>3 DEF SessionInv, ClientTypeOK, ClientsFollow, KnowsWhatItRead
  <2>5. gameStarted[c] \in BOOLEAN /\ m_gameStarted \in BOOLEAN /\ slot # NoSlot
    BY <2>1 DEF SessionInv, ClientTypeOK, HostInv, TypeOK, ClientSlot, NoSlot
  <2>6. m_myId[c] \in {NoSlot, m_connToId[c]}
    BY <2>4
  <2>7. gameStarted[c] => m_gameStarted /\ m_myId[c] # NoSlot
    BY <2>3, <2>4, <2>5
  <2>8. got[c] = Len(stream[c]) => m_myId[c] # NoSlot
    BY <2>3, <2>4, <2>5
  <2>9. got[c] = Len(stream[c]) => (gameStarted[c] <=> m_gameStarted)
    BY <2>3, <2>4
  <2> QED
    BY <2>5, <2>6, <2>7, <2>8, <2>9, Zenon
<1> QED
  BY <1>1, SessionInvariance, PTL

\* Before the start the host moves nobody but its own player.
THEOREM NobodyMovesTooEarly == SessionSpec => []NobodyMovesBeforeStart
<1>1. SessionInv => NobodyMovesBeforeStart
  BY DEF SessionInv, Quiet, NobodyMovesBeforeStart
<1> QED
  BY <1>1, SessionInvariance, PTL

-----------------------------------------------------------------------------
(* What has settled stays *)

\* The host holds no connection while it does not listen.
OpenWhileListening == \A c \in Conn : link[c] \in {"accepted", "open"} => m_listen

LEMMA OpenWhileListeningAlways == Spec => []OpenWhileListening
<1>1. Init => OpenWhileListening
  BY DEF Init, OpenWhileListening
<1>2. HostInv /\ OpenWhileListening /\ [Next]_vars => OpenWhileListening'
  BY DEF HostInv, TypeOK, OpenWhileListening, Next, vars, Start, Stop, OnConnecting,
     OnConnected, OnConnectedNoSlot, OnClosed, HandleInput, UpdateSim, PressStart
<1> QED
  BY <1>1, <1>2, HostInvariance, PTL DEF Spec

\* A client that plays has read all it was ever sent reliably.
LEMMA PlayingHasRead ==
  ASSUME SessionInv, NEW c \in Conn, Playing(c)
  PROVE  ~ReadReliable(c)
<1>1. m_conn[c] = "open" /\ StreamShape(stream[c]) /\ got[c] >= 3 /\ got[c] \in Nat
  BY DEF SessionInv, ClientsFollow, KnowsWhatItRead, Playing, ClientTypeOK
<1>2. stream[c] = <<>> \/ \E slot \in ClientSlot : stream[c] = Pair(slot) \/ stream[c] = Triple(slot)
  BY <1>1, ShapeCases
<1>3. Len(stream[c]) \in 0..3
  BY <1>2, StreamFacts
<1> QED
  BY <1>1, <1>3 DEF ReadReliable

\* The slot of a client that plays is its own.
LEMMA PlayingSlot ==
  ASSUME SessionInv, NEW c \in Conn, Playing(c)
  PROVE  /\ m_connToId[c] \in ClientSlot
         /\ \A d \in Conn \ {c} : m_connToId[d] # m_connToId[c]
BY DEF SessionInv, HostInv, TypeOK, SeatsAgree, Seated, Playing

LEMMA KeyStaysInEffect ==
  ASSUME SessionInv, OpenWhileListening, [SessionNext]_sessionVars, NEW c \in Conn,
         KeyInEffect(c), key'[c] = key[c], Playing(c)'
  PROVE  KeyInEffect(c)'
<1> DEFINE slot == m_connToId[c]
<1>1. /\ slot \in ClientSlot
      /\ \A d \in Conn \ {c} : m_connToId[d] # slot
      /\ m_inputX \in [Player -> -1..1]
      /\ m_connToId \in [Conn -> ClientSlot \cup {NoSlot}]
      /\ inputs \in [Conn -> SUBSET RawMove]
      /\ Playing(c) /\ link[c] = "open" /\ m_listen
  BY PlayingSlot DEF KeyInEffect, SessionInv, HostInv, TypeOK, NetTypeOK, OpenWhileListening,
     Playing
<1>2. link'[c] = "open" /\ m_connected'[c]
  BY DEF Playing
<1> SUFFICES /\ inputs'[c] \subseteq {key[c]}
             /\ m_connToId'[c] = slot
             /\ m_inputX'[slot] = Clamp(key[c], -1, 1)
  BY DEF KeyInEffect
<1>3. inputs[c] \subseteq {key[c]} /\ m_inputX[slot] = Clamp(key[c], -1, 1)
  BY DEF KeyInEffect
<1>4. CASE UNCHANGED <<inputs, m_connToId, m_inputX>>
  BY <1>3, <1>4
<1>5. CASE HostStarts
  BY <1>1, <1>5 DEF HostStarts, Start
<1>6. CASE HostStops
  BY <1>1, <1>2, <1>6 DEF HostStops, Stop
<1>7. ASSUME NEW d \in Conn, Greet(d)
      PROVE  /\ inputs'[c] \subseteq {key[c]}
             /\ m_connToId'[c] = slot
             /\ m_inputX'[slot] = Clamp(key[c], -1, 1)
  <2>1. d # c /\ UNCHANGED <<inputs, m_inputX>>
    BY <1>1, <1>7 DEF Greet, OnConnected, OnConnectedNoSlot
  <2>2. m_connToId'[c] = slot
    BY <1>1, <1>7, <2>1 DEF Greet, OnConnected, OnConnectedNoSlot
  <2> QED
    BY <1>3, <2>1, <2>2
<1>8. ASSUME NEW d \in Conn, Unseat(d)
      PROVE  /\ inputs'[c] \subseteq {key[c]}
             /\ m_connToId'[c] = slot
             /\ m_inputX'[slot] = Clamp(key[c], -1, 1)
  <2>1. d # c
    BY <1>2, <1>8 DEF Unseat, OnClosed, SessionInv, HostInv, TypeOK
  <2>2. inputs'[c] = inputs[c] /\ m_connToId'[c] = slot /\ m_inputX'[slot] = m_inputX[slot]
    BY <1>1, <1>8, <2>1 DEF Unseat, OnClosed, Player
  <2> QED
    BY <1>3, <2>2
<1>9. ASSUME NEW d \in Conn, NEW x \in inputs[d], ReceiveInput(d, x) \/ InputLeaves(d, x)
      PROVE  /\ inputs'[c] \subseteq {key[c]}
             /\ m_connToId'[c] = slot
             /\ m_inputX'[slot] = Clamp(key[c], -1, 1)
  <2>1. CASE ReceiveInput(d, x)
    <3>1. /\ UNCHANGED <<inputs, m_connToId>>
          /\ m_inputX' = [m_inputX EXCEPT ![m_connToId[d]] = Clamp(x, -1, 1)]
      BY <2>1 DEF ReceiveInput, HandleInput, netVars
    <3>2. CASE d = c
      BY <1>1, <1>3, <3>1, <3>2 DEF Player
    <3>3. CASE d # c
      BY <1>1, <1>3, <3>1, <3>3
    <3> QED
      BY <3>2, <3>3
  <2>2. CASE InputLeaves(d, x)
    BY <1>1, <1>3, <2>2 DEF InputLeaves, vars
  <2> QED
    BY <1>9, <2>1, <2>2
<1>10. ASSUME NEW dt \in FrameTime, NEW x \in HostMove, HostFrame(dt, x)
       PROVE  /\ inputs'[c] \subseteq {key[c]}
              /\ m_connToId'[c] = slot
              /\ m_inputX'[slot] = Clamp(key[c], -1, 1)
  <2>1. /\ UNCHANGED <<inputs, m_connToId>>
        /\ m_inputX' = [m_inputX EXCEPT ![0] = Clamp(x, -1, 1)]
    BY <1>10 DEF HostFrame, UpdateSim
  <2> QED
    BY <1>1, <1>3, <2>1 DEF ClientSlot
<1>11. ASSUME NEW d \in Conn, SendInput(d)
       PROVE  /\ inputs'[c] \subseteq {key[c]}
              /\ m_connToId'[c] = slot
              /\ m_inputX'[slot] = Clamp(key[c], -1, 1)
  <2>1. UNCHANGED <<m_connToId, m_inputX>>
    BY <1>11 DEF SendInput, vars
  <2>2. inputs'[c] = inputs[c] \/ inputs'[c] = Sent(inputs[c], key[c])
    BY <1>1, <1>11 DEF SendInput
  <2>3. inputs'[c] \subseteq {key[c]}
    BY <1>3, <2>2 DEF Sent
  <2> QED
    BY <1>3, <2>1, <2>3
<1>12. ASSUME NEW d \in Conn,
              \/ Admit(d) \/ Connect(d) \/ OnClientConnected(d) \/ ReadReliable(d) \/ ClientEnds(d)
              \/ \E x \in RawMove : PressKey(d, x)
              \/ \E s \in snaps[d] : ReadSnap(d, s) \/ SnapLeaves(d, s)
       PROVE  UNCHANGED <<inputs, m_connToId, m_inputX>>
  BY <1>12 DEF vars, netVars, Admit, Connect, OnClientConnected, ReadReliable, ClientEnds,
     PressKey, ReadSnap, SnapLeaves, OnConnecting
<1>13. CASE StartGameFor \/ UNCHANGED sessionVars
  BY <1>4, <1>13 DEF sessionVars, vars, netVars, StartGameFor, PressStart
<1> QED
  BY <1>4, <1>5, <1>6, <1>7, <1>8, <1>9, <1>10, <1>11, <1>12, <1>13, Zenon DEF SessionNext

LEMMA ViewStaysUpToDate ==
  ASSUME SessionInv, [SessionNext]_sessionVars, NEW c \in Conn,
         ViewUpToDate(c), m_state' = m_state, Playing(c)'
  PROVE  ViewUpToDate(c)'
<1>1. /\ snaps \in [Conn -> SUBSET Place]
      /\ m_latest \in [Conn -> Place \cup {NoSnap}]
      /\ m_connected \in [Conn -> BOOLEAN]
      /\ Playing(c) /\ m_connected'[c]
      /\ snaps[c] \subseteq {m_state} /\ m_latest[c] = m_state
  BY DEF SessionInv, SimTypeOK, ClientTypeOK, ViewUpToDate, Playing
<1> SUFFICES snaps'[c] \subseteq {m_state} /\ m_latest'[c] = m_state
  BY DEF ViewUpToDate
<1>2. CASE UNCHANGED <<snaps, m_latest>>
  BY <1>1, <1>2
<1>3. ASSUME NEW dt \in FrameTime, NEW x \in HostMove, HostFrame(dt, x)
      PROVE  snaps'[c] \subseteq {m_state} /\ m_latest'[c] = m_state
  <2>1. UNCHANGED m_latest
    BY <1>3 DEF HostFrame, clientVars
  <2>2. snaps'[c] = snaps[c] \/ snaps'[c] = Sent(snaps[c], m_state)
    BY <1>3 DEF HostFrame, Broadcast
  <2> QED
    BY <1>1, <2>1, <2>2 DEF Sent
<1>4. ASSUME NEW d \in Conn, ReadReliable(d)
      PROVE  snaps'[c] \subseteq {m_state} /\ m_latest'[c] = m_state
  <2>1. d # c
    BY <1>1, <1>4, PlayingHasRead
  <2>2. UNCHANGED snaps /\ m_latest'[c] = m_latest[c]
    BY <1>1, <1>4, <2>1 DEF ReadReliable
  <2> QED
    BY <1>1, <2>2
<1>5. ASSUME NEW d \in Conn, NEW s \in snaps[d], ReadSnap(d, s) \/ SnapLeaves(d, s)
      PROVE  snaps'[c] \subseteq {m_state} /\ m_latest'[c] = m_state
  BY <1>1, <1>5 DEF ReadSnap, SnapLeaves, netVars, clientVars
<1>6. ASSUME NEW d \in Conn, ClientEnds(d)
      PROVE  snaps'[c] \subseteq {m_state} /\ m_latest'[c] = m_state
  <2>1. d # c
    BY <1>1, <1>6 DEF ClientEnds
  <2> QED
    BY <1>1, <1>6, <2>1 DEF ClientEnds
<1>7. ASSUME NEW d \in Conn,
             \/ Admit(d) \/ Greet(d) \/ Unseat(d) \/ Connect(d) \/ OnClientConnected(d)
             \/ SendInput(d)
             \/ \E x \in RawMove : PressKey(d, x)
             \/ \E x \in inputs[d] : ReceiveInput(d, x) \/ InputLeaves(d, x)
      PROVE  UNCHANGED <<snaps, m_latest>>
  BY <1>7 DEF clientVars, netVars, Admit, Greet, Unseat, Connect, OnClientConnected,
     SendInput, PressKey, ReceiveInput, InputLeaves
<1>8. CASE HostStarts \/ HostStops \/ StartGameFor \/ UNCHANGED sessionVars
  BY <1>2, <1>8 DEF sessionVars, clientVars, netVars, HostStarts, HostStops, StartGameFor
<1> QED
  BY <1>2, <1>3, <1>4, <1>5, <1>6, <1>7, <1>8, Zenon DEF SessionNext

\* For any number of clients, whatever is lost, repeated or reordered: no Input
\* and no snapshot of the past undoes what a client and the host agree on.
THEOREM SettledThingsStay == SessionSpec => SettledStays
<1>1. SessionInv /\ OpenWhileListening /\ [SessionNext]_sessionVars =>
        [\A c \in Conn : Playing(c)' =>
           /\ KeyInEffect(c) /\ key'[c] = key[c] => KeyInEffect(c)'
           /\ ViewUpToDate(c) /\ m_state' = m_state => ViewUpToDate(c)']_sessionVars
  BY KeyStaysInEffect, ViewStaysUpToDate
<1> QED
  BY <1>1, SessionInvariance, SessionImplementsHost, OpenWhileListeningAlways, PTL
     DEF SessionSpec, SettledStays

\* The clients of a session are seated and told as GameSeats says, although the
\* network stands between them and the host.
THEOREM SessionImplementsSeats == SessionSpec => ImplementsSeats
BY SessionImplementsHost, HostImplementation, PTL
=============================================================================
