--------------------------- MODULE GameHostProofs ---------------------------
(***************************************************************************)
(* Proofs about the game host, for any number of connections.              *)
(***************************************************************************)
EXTENDS GameHostSeats, SequenceTheorems, TLAPS

-----------------------------------------------------------------------------
(* The inductive invariant: the invariants of GameHost, and that a         *)
(* connection without a slot yet has been sent nothing.                    *)

FreshStreams ==
  \A c \in Conn : link[c] \in {"none", "accepted"} => stream[c] = <<>>

HostInv ==
  /\ TypeOK
  /\ SeatsAgree
  /\ FreeSlotsIdle
  /\ ClientsAreTold
  /\ FreshStreams

LEMMA ClampType ==
  ASSUME NEW n \in Int
  PROVE  Clamp(n, -1, 1) \in -1..1
BY DEF Clamp

LEMMA RawMoveType == ASSUME NEW n \in RawMove PROVE n \in Int
BY HostAssumption

LEMMA FreeSlotIsFree ==
  ASSUME FreeSlot # NoSlot
  PROVE  FreeSlot \in ClientSlot /\ ~Taken(FreeSlot)
BY DEF FreeSlot, ClientSlot

LEMMA MessageTypes ==
  /\ \A slot \in ClientSlot : Welcome(slot) \in Message
  /\ Snap \in Message
  /\ StartGame \in Message
BY DEF Message

LEMMA GreetingType ==
  ASSUME NEW slot \in ClientSlot
  PROVE  Greeting(slot) \in Seq(Message)
<1> DEFINE w == Welcome(slot)
<1>1. w \in Message /\ Snap \in Message /\ StartGame \in Message
  BY MessageTypes
<1> HIDE DEF w
<1>2. <<w, Snap>> \in Seq(Message) /\ <<w, Snap, StartGame>> \in Seq(Message)
  BY <1>1
<1> QED
  BY <1>2 DEF Greeting, w

LEMMA InitHost == Init => HostInv
<1> SUFFICES ASSUME Init PROVE HostInv
  OBVIOUS
<1>1. \A c \in Conn : m_connToId[c] = NoSlot /\ link[c] = "none" /\ stream[c] = <<>>
  BY DEF Init
<1>2. TypeOK
  <2>1. stream \in [Conn -> Seq(Message)]
    BY DEF Init
  <2>2. m_inputX \in [Player -> -1..1]
    BY DEF Init
  <2> QED
    BY <2>1, <2>2 DEF Init, TypeOK
<1>3. SeatsAgree /\ ClientsAreTold
  BY <1>1 DEF Init, SeatsAgree, Seated, ClientsAreTold
<1>4. FreeSlotsIdle
  BY DEF Init, FreeSlotsIdle
<1>5. FreshStreams
  BY <1>1 DEF FreshStreams
<1> QED
  BY <1>2, <1>3, <1>4, <1>5 DEF HostInv

-----------------------------------------------------------------------------
(* Each conjunct is preserved; one step per action *)

LEMMA TypeStep == ASSUME HostInv, [Next]_vars PROVE TypeOK'
<1> USE DEF TypeOK, HostInv
<1>1. CASE UNCHANGED vars
  BY <1>1 DEF vars
<1>2. CASE Start
  BY <1>2 DEF Start, Player, ClientSlot
<1>3. CASE Stop
  BY <1>3 DEF Stop
<1>4. ASSUME NEW c \in Conn, OnConnecting(c) PROVE TypeOK'
  BY <1>4 DEF OnConnecting
<1>5. ASSUME NEW c \in Conn, OnConnected(c) PROVE TypeOK'
  <2>1. FreeSlot \in ClientSlot
    BY <1>5, FreeSlotIsFree DEF OnConnected
  <2>2. stream[c] \in Seq(Message) /\ Greeting(FreeSlot) \in Seq(Message)
    BY <2>1, GreetingType
  <2>3. stream[c] \o Greeting(FreeSlot) \in Seq(Message)
    BY <2>2
  <2>4. stream' \in [Conn -> Seq(Message)]
    BY <1>5, <2>3, Zenon DEF OnConnected
  <2>5. m_connToId' \in [Conn -> ClientSlot \cup {NoSlot}]
    BY <1>5, <2>1, Zenon DEF OnConnected
  <2> QED
    BY <1>5, <2>4, <2>5 DEF OnConnected
<1>6. ASSUME NEW c \in Conn, OnConnectedNoSlot(c) PROVE TypeOK'
  BY <1>6 DEF OnConnectedNoSlot
<1>7. ASSUME NEW c \in Conn, OnClosed(c) PROVE TypeOK'
  BY <1>7 DEF OnClosed, Player, ClientSlot
<1>8. ASSUME NEW c \in Conn, NEW moveX \in RawMove, HandleInput(c, moveX) PROVE TypeOK'
  <2>1. Clamp(moveX, -1, 1) \in -1..1
    BY ClampType, RawMoveType
  <2>2. m_inputX' \in [Player -> -1..1]
    BY <1>8, <2>1, Zenon DEF HandleInput
  <2> QED
    BY <1>8, <2>2 DEF HandleInput
<1>9. ASSUME NEW moveX \in {-1, 0, 1}, UpdateSim(moveX) PROVE TypeOK'
  <2>1. Clamp(moveX, -1, 1) \in -1..1
    BY <1>9, ClampType
  <2>2. m_inputX' \in [Player -> -1..1]
    BY <1>9, <2>1, Zenon DEF UpdateSim
  <2> QED
    BY <1>9, <2>2 DEF UpdateSim
<1>10. CASE PressStart
  <2>1. \A c \in Conn : Append(stream[c], StartGame) \in Seq(Message)
    BY MessageTypes
  <2>2. stream' \in [Conn -> Seq(Message)]
    BY <1>10, <2>1 DEF PressStart
  <2> QED
    BY <1>10, <2>2 DEF PressStart
<1> QED
  BY <1>1, <1>2, <1>3, <1>4, <1>5, <1>6, <1>7, <1>8, <1>9, <1>10 DEF Next

LEMMA SeatsStep == ASSUME HostInv, [Next]_vars PROVE SeatsAgree'
<1> USE DEF TypeOK, HostInv, SeatsAgree, Seated
<1>1. CASE UNCHANGED <<link, m_clients, m_connToId>>
  BY <1>1
<1>2. CASE Stop
  BY <1>2 DEF Stop
<1>3. ASSUME NEW c \in Conn, OnConnecting(c) PROVE SeatsAgree'
  BY <1>3 DEF OnConnecting
<1>4. ASSUME NEW c \in Conn, OnConnected(c) PROVE SeatsAgree'
  <2>1. FreeSlot # NoSlot /\ \A d \in Conn : m_connToId[d] # FreeSlot
    BY <1>4, FreeSlotIsFree DEF OnConnected, Taken
  <2> QED
    BY <1>4, <2>1 DEF OnConnected
<1>5. ASSUME NEW c \in Conn, OnConnectedNoSlot(c) PROVE SeatsAgree'
  BY <1>5 DEF OnConnectedNoSlot
<1>6. ASSUME NEW c \in Conn, OnClosed(c) PROVE SeatsAgree'
  BY <1>6 DEF OnClosed
<1> QED
  BY <1>1, <1>2, <1>3, <1>4, <1>5, <1>6, Zenon
  DEF vars, Next, Start, HandleInput, UpdateSim, PressStart

LEMMA IdleStep == ASSUME HostInv, [Next]_vars PROVE FreeSlotsIdle'
<1> USE DEF TypeOK, HostInv, FreeSlotsIdle, Taken
<1>1. CASE UNCHANGED <<m_listen, m_connToId, m_inputX>>
  BY <1>1
<1>2. CASE Start
  BY <1>2 DEF Start, Player
<1>3. CASE Stop
  BY <1>3 DEF Stop
<1>4. ASSUME NEW c \in Conn, OnConnected(c) PROVE FreeSlotsIdle'
  <2>1. m_connToId[c] = NoSlot
    BY <1>4 DEF OnConnected, SeatsAgree, Seated
  <2> QED
    BY <1>4, <2>1 DEF OnConnected, ClientSlot, NoSlot
<1>5. ASSUME NEW c \in Conn, OnClosed(c) PROVE FreeSlotsIdle'
  <2> SUFFICES ASSUME NEW p \in ClientSlot, ~Taken(p)' PROVE m_inputX'[p] = 0
    OBVIOUS
  <2>1. CASE p = m_connToId[c]
    BY <1>5, <2>1 DEF OnClosed, Player
  <2>2. CASE p # m_connToId[c]
    <3>1. ~Taken(p)
      BY <1>5, <2>2 DEF OnClosed
    <3>2. m_inputX[p] = 0
      BY <1>5, <3>1 DEF OnClosed
    <3> QED
      BY <1>5, <2>2, <3>2 DEF OnClosed, Player
  <2> QED
    BY <2>1, <2>2
<1>6. ASSUME NEW c \in Conn, NEW moveX \in RawMove, HandleInput(c, moveX) PROVE FreeSlotsIdle'
  <2> SUFFICES ASSUME NEW p \in ClientSlot, ~Taken(p) PROVE m_inputX'[p] = 0
    BY <1>6 DEF HandleInput
  <2>1. p # m_connToId[c]
    OBVIOUS
  <2> QED
    BY <1>6, <2>1 DEF HandleInput, Player
<1>7. ASSUME NEW moveX \in {-1, 0, 1}, UpdateSim(moveX) PROVE FreeSlotsIdle'
  BY <1>7 DEF UpdateSim, Player, ClientSlot
<1> QED
  BY <1>1, <1>2, <1>3, <1>4, <1>5, <1>6, <1>7, Zenon
  DEF vars, Next, OnConnecting, OnConnectedNoSlot, PressStart

LEMMA FreshStep == ASSUME HostInv, [Next]_vars PROVE FreshStreams'
<1> USE DEF TypeOK, HostInv, FreshStreams
<1>1. CASE UNCHANGED <<link, stream>>
  BY <1>1
<1>2. CASE Stop
  BY <1>2 DEF Stop
<1>3. ASSUME NEW c \in Conn, OnConnecting(c) PROVE FreshStreams'
  BY <1>3 DEF OnConnecting
<1>4. ASSUME NEW c \in Conn, OnConnected(c) PROVE FreshStreams'
  BY <1>4 DEF OnConnected
<1>5. ASSUME NEW c \in Conn, OnConnectedNoSlot(c) PROVE FreshStreams'
  BY <1>5 DEF OnConnectedNoSlot
<1>6. ASSUME NEW c \in Conn, OnClosed(c) PROVE FreshStreams'
  BY <1>6 DEF OnClosed
<1>7. CASE PressStart
  BY <1>7 DEF PressStart, SeatsAgree, Seated
<1> QED
  BY <1>1, <1>2, <1>3, <1>4, <1>5, <1>6, <1>7, Zenon
  DEF vars, Next, Start, HandleInput, UpdateSim

LEMMA AppendToPair ==
  ASSUME NEW S, NEW a \in S, NEW b \in S, NEW d \in S
  PROVE  Append(<<a, b>>, d) = <<a, b, d>>
<1> DEFINE s == Append(<<a, b>>, d)
           t == <<a, b, d>>
<1>1. s \in Seq(S) /\ t \in Seq(S) /\ Len(s) = 3 /\ Len(t) = 3
  OBVIOUS
<1>2. s[1] = a /\ s[2] = b /\ s[3] = d /\ t[1] = a /\ t[2] = b /\ t[3] = d
  OBVIOUS
<1> HIDE DEF s, t
<1>3. \A i \in 1..Len(s) : s[i] = t[i]
  BY <1>1, <1>2
<1>4. s = t
  BY <1>1, <1>3, SeqEqual, Zenon
<1> QED
  BY <1>4 DEF s, t

LEMMA StartFollowsGreeting ==
  ASSUME NEW slot \in ClientSlot
  PROVE  Append(<<Welcome(slot), Snap>>, StartGame) = <<Welcome(slot), Snap, StartGame>>
<1> DEFINE w == Welcome(slot)
           s == Snap
           g == StartGame
<1>1. w \in Message /\ s \in Message /\ g \in Message
  BY MessageTypes
<1> HIDE DEF w, s, g
<1>2. Append(<<w, s>>, g) = <<w, s, g>>
  BY <1>1, AppendToPair
<1> QED
  BY <1>2 DEF w, s, g

LEMMA ToldStep == ASSUME HostInv, [Next]_vars PROVE ClientsAreTold'
<1> USE DEF TypeOK, HostInv, ClientsAreTold, Seated
<1>1. CASE UNCHANGED <<m_connToId, m_gameStarted, stream>>
  BY <1>1 DEF Greeting
<1>2. CASE Stop
  BY <1>2 DEF Stop
<1>3. ASSUME NEW c \in Conn, OnConnected(c) PROVE ClientsAreTold'
  <2>1. FreeSlot \in ClientSlot
    BY <1>3, FreeSlotIsFree DEF OnConnected
  <2>2. stream[c] = <<>> /\ Greeting(FreeSlot) \in Seq(Message)
    BY <1>3, <2>1, GreetingType DEF OnConnected, FreshStreams
  <2>3. stream[c] \o Greeting(FreeSlot) = Greeting(FreeSlot)
    BY <2>2
  <2>4. \A d \in Conn : /\ stream'[d] = IF d = c THEN Greeting(FreeSlot) ELSE stream[d]
                        /\ m_connToId'[d] = IF d = c THEN FreeSlot ELSE m_connToId[d]
    BY <1>3, <2>3, Zenon DEF OnConnected
  <2>5. \A slot : Greeting(slot)' = Greeting(slot)
    BY <1>3 DEF OnConnected, Greeting
  <2> QED
    BY <2>4, <2>5
<1>4. ASSUME NEW c \in Conn, OnClosed(c) PROVE ClientsAreTold'
  BY <1>4 DEF OnClosed, Greeting
<1>5. CASE PressStart
  <2> SUFFICES ASSUME NEW c \in Conn, m_connToId[c] # NoSlot
               PROVE  stream'[c] = Greeting(m_connToId[c])'
    BY <1>5 DEF PressStart
  <2>1. stream[c] = <<Welcome(m_connToId[c]), Snap>>
    BY <1>5 DEF PressStart, Greeting
  <2>2. stream'[c] = Append(<<Welcome(m_connToId[c]), Snap>>, StartGame)
    BY <1>5, <2>1 DEF PressStart, SeatsAgree
  <2>3. Append(<<Welcome(m_connToId[c]), Snap>>, StartGame)
          = <<Welcome(m_connToId[c]), Snap, StartGame>>
    <3>1. m_connToId[c] \in ClientSlot
      OBVIOUS
    <3> QED
      BY <3>1, StartFollowsGreeting, Zenon
  <2> QED
    BY <1>5, <2>2, <2>3 DEF PressStart, Greeting
<1> QED
  BY <1>1, <1>2, <1>3, <1>4, <1>5, Zenon
  DEF vars, Next, Start, OnConnecting, OnConnectedNoSlot, HandleInput, UpdateSim

THEOREM HostInvariance == Spec => []HostInv
<1>1. HostInv /\ [Next]_vars => HostInv'
  BY TypeStep, SeatsStep, IdleStep, FreshStep, ToldStep, Zenon DEF HostInv
<1> QED
  BY InitHost, <1>1, PTL DEF Spec

\* The variables keep their types.
THEOREM HostTypeCorrectness == Spec => []TypeOK
BY HostInvariance, PTL DEF HostInv

\* No two clients ever share a slot, and the host's two tables agree.
THEOREM SeatsStayDistinct == Spec => []SeatsAgree
BY HostInvariance, PTL DEF HostInv

\* A slot is handed on with its player at rest.
THEOREM HandedOverAtRest == Spec => []FreeSlotsIdle
BY HostInvariance, PTL DEF HostInv

\* Every client hears of the start exactly once, after its slot.
THEOREM ClientsHearOfStart == Spec => []ClientsAreTold
BY HostInvariance, PTL DEF HostInv

-----------------------------------------------------------------------------
(* GameHost implements GameSeats *)

LEMMA MessagesDiffer ==
  ASSUME NEW slot
  PROVE  Welcome(slot) # StartGame /\ Snap # StartGame
BY DEF Welcome, Snap, StartGame

\* Of the two greetings, the one of a started game tells of the start.
LEMMA GreetingTells ==
  ASSUME NEW slot
  PROVE  /\ ~\E i \in DOMAIN <<Welcome(slot), Snap>> : <<Welcome(slot), Snap>>[i] = StartGame
         /\ \E i \in DOMAIN <<Welcome(slot), Snap, StartGame>> :
              <<Welcome(slot), Snap, StartGame>>[i] = StartGame
<1> DEFINE w == Welcome(slot)
<1>1. w # StartGame /\ Snap # StartGame
  BY MessagesDiffer
<1> HIDE DEF w
<1>2. /\ ~\E i \in DOMAIN <<w, Snap>> : <<w, Snap>>[i] = StartGame
      /\ \E i \in DOMAIN <<w, Snap, StartGame>> : <<w, Snap, StartGame>>[i] = StartGame
  BY <1>1
<1> QED
  BY <1>2 DEF w

\* So a seated client has been told exactly when the game has started.
LEMMA SeatedTold ==
  ASSUME ClientsAreTold, NEW c \in Conn, m_connToId[c] # NoSlot
  PROVE  c \in Told <=> m_gameStarted
<1>1. stream[c] = IF m_gameStarted THEN <<Welcome(m_connToId[c]), Snap, StartGame>>
                                   ELSE <<Welcome(m_connToId[c]), Snap>>
  BY DEF ClientsAreTold, Seated, Greeting
<1> QED
  BY <1>1, GreetingTells DEF Told

LEMMA InitSeats == Init => Seats!Init
BY DEF Init, Seats!Init, Told, StartGame

LEMMA StepSeats ==
  ASSUME HostInv, HostInv', [Next]_vars
  PROVE  [Seats!Next]_(Seats!vars)
<1>0. \A c \in Conn : m_connToId'[c] # NoSlot => (c \in Told' <=> m_gameStarted')
  <2> SUFFICES ASSUME NEW c \in Conn, m_connToId'[c] # NoSlot
               PROVE  c \in Told' <=> m_gameStarted'
    OBVIOUS
  <2>1. stream'[c] = IF m_gameStarted' THEN <<Welcome(m_connToId'[c]), Snap, StartGame>>
                                       ELSE <<Welcome(m_connToId'[c]), Snap>>
    BY DEF HostInv, ClientsAreTold, Seated, Greeting
  <2> QED
    BY <2>1, GreetingTells DEF Told
<1> DEFINE left == {c \in Conn : link[c] = "closed"}
           Same == UNCHANGED <<m_connToId, left, m_gameStarted, Told>>
           Goal == Seats!Next \/ Same
<1> SUFFICES Goal
  BY Zenon DEF Seats!vars
<1> USE DEF HostInv, TypeOK
<1>1. ASSUME UNCHANGED <<link, m_connToId, m_gameStarted, stream>> PROVE Goal
  BY <1>1 DEF Told
<1>2. ASSUME NEW C \in SUBSET Conn,
             m_connToId' = [c \in Conn |-> IF c \in C THEN NoSlot ELSE m_connToId[c]],
             link' = [c \in Conn |-> IF c \in C THEN "closed" ELSE link[c]],
             UNCHANGED <<m_gameStarted, stream>>
      PROVE  Goal
  <2>1. left' = left \cup C
    BY <1>2
  <2>2. Told' = Told
    BY <1>2 DEF Told
  <2>3. Seats!Leave(C)
    BY <1>2, <2>1, <2>2 DEF Seats!Leave
  <2> QED
    BY <2>3 DEF Seats!Next
<1>3. CASE Stop
  <2> DEFINE C == {c \in Conn : link[c] # "none"}
  <2>1. \A c \in Conn : link[c] = "none" => m_connToId[c] = NoSlot
    BY DEF SeatsAgree, Seated
  <2>2. m_connToId' = [c \in Conn |-> IF c \in C THEN NoSlot ELSE m_connToId[c]]
    BY <1>3, <2>1 DEF Stop
  <2>3. link' = [c \in Conn |-> IF c \in C THEN "closed" ELSE link[c]]
    BY <1>3 DEF Stop
  <2>4. UNCHANGED <<m_gameStarted, stream>>
    BY <1>3 DEF Stop
  <2>5. C \in SUBSET Conn
    OBVIOUS
  <2> HIDE DEF C, Goal
  <2> QED
    BY <1>2, <2>2, <2>3, <2>4, <2>5
<1>4. ASSUME NEW c \in Conn, NEW l \in {"accepted", "closed"}, m_connToId[c] = NoSlot,
             link[c] # "closed",
             link' = [link EXCEPT ![c] = l], UNCHANGED <<m_connToId, m_gameStarted, stream>>
      PROVE  Goal
  <2>1. CASE l = "accepted"
    BY <1>4, <2>1 DEF Told
  <2>2. CASE l = "closed"
    <3>1. /\ m_connToId' = [d \in Conn |-> IF d \in {c} THEN NoSlot ELSE m_connToId[d]]
          /\ link' = [d \in Conn |-> IF d \in {c} THEN "closed" ELSE link[d]]
      BY <1>4, <2>2
    <3>2. {c} \in SUBSET Conn
      OBVIOUS
    <3> HIDE DEF Goal
    <3> QED
      BY <1>2, <1>4, <3>1, <3>2
  <2> QED
    BY <2>1, <2>2
<1>5. ASSUME NEW c \in Conn, OnConnecting(c) \/ OnConnectedNoSlot(c) PROVE Goal
  <2>1. m_connToId[c] = NoSlot /\ link[c] # "closed" /\ UNCHANGED <<m_connToId, m_gameStarted, stream>>
    BY <1>5 DEF OnConnecting, OnConnectedNoSlot, SeatsAgree, Seated
  <2>2. \E l \in {"accepted", "closed"} : link' = [link EXCEPT ![c] = l]
    BY <1>5, Zenon DEF OnConnecting, OnConnectedNoSlot
  <2>3. PICK l \in {"accepted", "closed"} : link' = [link EXCEPT ![c] = l]
    BY <2>2, Zenon
  <2> HIDE DEF Goal
  <2> QED
    BY <1>4, <2>1, <2>3, Zenon
<1>6. ASSUME NEW c \in Conn, OnConnected(c) PROVE Goal
  <2> DEFINE s == FreeSlot
  <2>1. s \in ClientSlot /\ \A d \in Conn : m_connToId[d] # s
    BY <1>6, FreeSlotIsFree DEF OnConnected, Taken
  <2>2. m_connToId[c] = NoSlot /\ link[c] = "accepted" /\ stream[c] = <<>>
    BY <1>6 DEF OnConnected, SeatsAgree, Seated, FreshStreams
  <2>3. m_connToId' = [m_connToId EXCEPT ![c] = s] /\ left' = left /\ UNCHANGED m_gameStarted
    BY <1>6, <2>2 DEF OnConnected
  <2>5. \A d \in Conn : d # c => stream'[d] = stream[d]
    BY <1>6 DEF OnConnected
  <2>6. c \notin Told
    BY <2>2 DEF Told
  <2>7. c \in Told' <=> m_gameStarted
    <3>1. m_connToId'[c] # NoSlot
      BY <1>6, <2>3 DEF OnConnected
    <3> QED
      BY <1>0, <2>3, <3>1
  <2>8. Told' = IF m_gameStarted THEN Told \cup {c} ELSE Told
    BY <2>5, <2>6, <2>7 DEF Told
  <2> HIDE DEF s
  <2>9. Seats!Sit(c, s)
    BY <2>1, <2>2, <2>3, <2>8 DEF Seats!Sit, Seats!Free, Seats!AtTable
  <2> QED
    BY <2>1, <2>9, Zenon DEF Seats!Next
<1>7. ASSUME NEW c \in Conn, OnClosed(c) PROVE Goal
  <2>1. /\ m_connToId' = [d \in Conn |-> IF d \in {c} THEN NoSlot ELSE m_connToId[d]]
        /\ link' = [d \in Conn |-> IF d \in {c} THEN "closed" ELSE link[d]]
        /\ UNCHANGED <<m_gameStarted, stream>>
    BY <1>7 DEF OnClosed
  <2> HIDE DEF Goal
  <2> QED
    BY <1>2, <2>1
<1>8. CASE PressStart
  <2>1. \A c \in Conn : c \in Seated => c \in Told'
    BY <1>0, <1>8 DEF PressStart, Seated
  <2>2. \A c \in Conn : c \notin Seated => (c \in Told' <=> c \in Told)
    BY <1>8 DEF PressStart, SeatsAgree, Told
  <2>3. Told' = Told \cup Seated
    <3>1. \A c \in Told : c \notin Seated
      BY <1>8, SeatedTold DEF PressStart, Told, Seated
    <3> QED
      BY <2>1, <2>2 DEF Told, Seated
  <2>4. Seats!AtTable = Seated
    BY DEF Seats!AtTable, Seated
  <2>5. Seats!Begin
    BY <1>8, <2>3, <2>4 DEF PressStart, Seats!Begin
  <2> QED
    BY <2>5 DEF Seats!Next
<1> HIDE DEF Goal
<1> QED
  BY <1>1, <1>3, <1>5, <1>6, <1>7, <1>8, Zenon DEF vars, Next, Start, HandleInput, UpdateSim

\* The host seats and tells its clients as GameSeats promises.
THEOREM HostImplementation == Spec => ImplementsSeats
BY InitSeats, StepSeats, HostInvariance, PTL DEF Spec, ImplementsSeats, Seats!Spec

=============================================================================
