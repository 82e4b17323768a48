-------------------------- MODULE LobbySystemProofs --------------------------
(***************************************************************************)
(* Proofs, for any number of hosts and all TTLs, about the lobby server    *)
(* and the host programs together.                                         *)
(***************************************************************************)
EXTENDS LobbySystem, LobbyServerProofs

-----------------------------------------------------------------------------
(* Keys *)

LEMMA KeysOfHosts ==
  ASSUME NEW c \in Conn
  PROVE  /\ KeyOf(c) \in Key
         /\ <<c, KeyOf(c)>> \in Announces
         /\ \A k \in Key : <<c, k>> \in Announces => k = KeyOf(c)
<1>1. PICK k \in Key : Announces \cap ({c} \X Key) = {<<c, k>>}
  BY SystemAssumption
<1>2. <<c, k>> \in Announces
  BY <1>1
<1>3. ASSUME NEW j \in Key, <<c, j>> \in Announces PROVE j = k
  <2>1. <<c, j>> \in Announces \cap ({c} \X Key)
    BY <1>3
  <2> QED
    BY <2>1, <1>1
<1> QED
  BY <1>2, <1>3 DEF KeyOf

LEMMA HostsHaveOneKey ==
  ASSUME NEW c \in Conn
  PROVE  KeepsToOneKey(c)
BY KeysOfHosts DEF KeepsToOneKey

LEMMA KeysDiffer ==
  ASSUME NEW c \in Conn, NEW d \in Conn, KeyOf(c) = KeyOf(d)
  PROVE  c = d
BY SystemAssumption

-----------------------------------------------------------------------------
(* The composition is a behaviour of the lobby server *)

LEMMA SystemStepIsServerStep == [SystemNext]_systemVars => [Next]_vars
<1> SUFFICES ASSUME [SystemNext]_systemVars PROVE [Next]_vars
  OBVIOUS
<1>1. CASE ServerStep
  BY <1>1 DEF ServerStep, Next
<1>2. CASE SystemTick
  BY <1>2 DEF SystemTick, Next
<1>3. ASSUME NEW c \in Conn, AnnounceArrives(c) PROVE Next
  BY <1>3, KeysOfHosts, SystemAssumption DEF AnnounceArrives, Next, HandleMessage
<1>4. ASSUME NEW c \in Conn, HeartbeatArrives(c) PROVE [Next]_vars
  BY <1>4, KeysOfHosts DEF HeartbeatArrives, Next, HandleMessage
<1>5. ASSUME NEW c \in Conn,
             \/ HostStarts(c) \/ HostConnected(c) \/ HostLosesLobby(c)
             \/ HostFrame(c) \/ HostEnds(c) \/ HeartbeatIsLost(c)
      PROVE  UNCHANGED vars
  BY <1>5 DEF HostStarts, HostConnected, HostLosesLobby, HostFrame, HostEnds, HeartbeatIsLost
<1> QED
  BY <1>1, <1>2, <1>3, <1>4, <1>5 DEF SystemNext, HostStep, systemVars

LEMMA PromptStepIsSystemStep == [PromptNext]_systemVars => [SystemNext]_systemVars
BY DEF PromptNext, SystemNext, PromptTick

\* Whatever the host programs do, the server they talk to behaves as the
\* lobby server does, so its theorems hold for the composition.
THEOREM SystemImplementsServer == SystemSpec => Spec
<1>1. SystemInit => Init
  BY DEF SystemInit
<1> QED
  BY <1>1, SystemStepIsServerStep, PTL DEF SystemSpec, Spec

\* In particular each session of the composition is a lease, however many host
\* programs there are and whatever the network loses or delays: it is granted
\* to one owner, renewed, orphaned and ended as SessionLease says.
THEOREM SystemImplementsLease == SystemSpec => ImplementsLease
BY SystemImplementsServer, Implementation, PTL

-----------------------------------------------------------------------------
(* A listed host is connected *)

LEMMA RegistryFollows == Spec => []RegistryFollowsAnnounces
<1>1. Init => RegistryFollowsAnnounces
  BY DEF Init, RegistryFollowsAnnounces
<1>2. LobbyInv /\ RegistryFollowsAnnounces /\ [Next]_vars => RegistryFollowsAnnounces'
  BY RegistryFollowsAnnouncesStep
<1> QED
  BY <1>1, <1>2, Invariance, PTL DEF Spec

\* The session of a host is open only while the server holds its connection:
\* the close of the connection takes the session with it.
THEOREM ListedHostStaysConnected == SystemSpec => []ListedHostIsConnected
<1>1. ASSUME LobbyInv, RegistryFollowsAnnounces, OwnersAreRegistered
      PROVE  ListedHostIsConnected
  <2> SUFFICES ASSUME NEW c \in Conn, Active(m_sessions[KeyOf(c)])
               PROVE  link[c] = "open"
    BY DEF ListedHostIsConnected
  <2> DEFINE k == KeyOf(c)
             o == m_sessions[k].ownerConn
  <2>1. k \in Key
    BY KeysOfHosts
  <2>2. o \in Conn /\ o # NoConn
    <3>1. m_sessions[k] \in Session /\ SessionOK(m_sessions[k])
      BY <1>1, <2>1, Zenon DEF LobbyInv, SessionOK
    <3> QED
      BY <3>1, Zenon DEF SessionOK, Session
  <2>3. m_connToSession[o] = k /\ k # NoKey
    BY <1>1, <2>1, <2>2, HostsHaveOneKey, SentinelTypes DEF OwnersAreRegistered
  <2>4. <<o, k>> \in Announces
    BY <1>1, <2>2, <2>3 DEF RegistryFollowsAnnounces
  <2>5. o = c
    BY <2>1, <2>2, <2>4, KeysOfHosts, KeysDiffer
  <2>6. link[o] = "open"
    BY <1>1, <2>2, <2>3 DEF LobbyInv, RegistryHoldsOpenConns
  <2> QED
    BY <2>5, <2>6
<1>2. Spec => []OwnersAreRegistered
  BY OwnersStayRegistered
<1> QED
  BY <1>1, <1>2, Invariance, RegistryFollows, SystemImplementsServer, PTL

-----------------------------------------------------------------------------
(* The hosts *)

LEMMA PeriodType ==
  /\ Second \in Nat \ {0} /\ MaxFrame \in Nat /\ MaxDelay \in Nat /\ MaxLost \in Nat
  /\ Period \in Nat /\ Period >= Second
BY SystemAssumption DEF Period

HostTypeOK ==
  /\ app \in [Conn -> {"off", "up", "gone"}]
  /\ clientLink \in [Conn -> {"none", "connecting", "connected", "lost"}]
  /\ hbAccum \in [Conn -> 0..Period]
  /\ announces \subseteq Conn
  /\ heartbeats \in [Conn -> 0..MaxInFlight]
  /\ missed \in [Conn -> 0..(MaxLost + 1)]

LEMMA HostTypeStep ==
  ASSUME HostTypeOK, [SystemNext]_systemVars
  PROVE  HostTypeOK'
<1> USE SystemAssumption DEF HostTypeOK
<1>1. CASE ServerStep
  BY <1>1 DEF ServerStep, hostVars
<1>2. CASE SystemTick
  BY <1>2, PeriodType DEF SystemTick
<1>3. ASSUME NEW c \in Conn, HostStep(c) \/ HeartbeatIsLost(c) PROVE HostTypeOK'
  <2>1. CASE HostStarts(c)
    BY <2>1 DEF HostStarts
  <2>2. CASE HostConnected(c)
    BY <2>2 DEF HostConnected
  <2>3. CASE HostLosesLobby(c)
    BY <2>3 DEF HostLosesLobby
  <2>4. CASE HostFrame(c)
    BY <2>4, PeriodType DEF HostFrame
  <2>5. CASE HostEnds(c)
    BY <2>5 DEF HostEnds
  <2>6. CASE AnnounceArrives(c)
    BY <2>6 DEF AnnounceArrives
  <2>7. CASE HeartbeatArrives(c)
    BY <2>7 DEF HeartbeatArrives
  <2>8. CASE HeartbeatIsLost(c)
    BY <2>8 DEF HeartbeatIsLost
  <2> QED
    BY <1>3, <2>1, <2>2, <2>3, <2>4, <2>5, <2>6, <2>7, <2>8 DEF HostStep
<1>4. CASE UNCHANGED systemVars
  BY <1>4 DEF systemVars, hostVars
<1> QED
  BY <1>1, <1>2, <1>3, <1>4 DEF SystemNext

LEMMA SystemInitTypes == SystemInit => HostTypeOK
BY SystemAssumption, PeriodType DEF SystemInit, HostTypeOK

LEMMA HostTypes == SystemSpec => []HostTypeOK
BY SystemInitTypes, HostTypeStep, PTL DEF SystemSpec

\* Type correctness of the composition.
THEOREM SystemTypeCorrectness == SystemSpec => []SystemTypeOK
<1>1. TypeOK /\ HostTypeOK => SystemTypeOK
  BY DEF SystemTypeOK, HostTypeOK
<1> QED
  BY <1>1, TypeCorrectness, HostTypes, SystemImplementsServer, PTL

-----------------------------------------------------------------------------
(* A heard host is listed: the budget of heartbeats *)

\* The time since the lobby last read a heartbeat of the host: one Period for
\* each that was lost or is under way, and what has passed since the last.
Due(c) == hbAccum[c] + Period * (missed[c] + heartbeats[c])

\* A host is registered only after it was connected, and an unconnected one
\* has sent nothing.
AnnouncedOnce ==
  \A c \in Conn :
    /\ c \in announces \/ m_connToSession[c] # NoKey => clientLink[c] \in {"connected", "lost"}
    /\ clientLink[c] = "connected" => app[c] = "up"
    /\ clientLink[c] \in {"none", "connecting"} => heartbeats[c] = 0
    /\ app[c] = "off" => clientLink[c] = "none"

\* The heartbeat of a host that both ends hold connected leaves before the next
\* is due, and at most MaxLost were missed.
Budget ==
  \A c \in Conn :
    /\ missed[c] <= MaxLost
    /\ clientLink[c] = "connected" /\ link[c] = "open" /\ heartbeats[c] > 0
         => heartbeats[c] = 1 /\ hbAccum[c] <= MaxDelay

\* The age of a heard host's session is within its budget.
HeardInTime ==
  \A c \in Conn :
    m_connToSession[c] # NoKey /\ clientLink[c] = "connected" =>
      /\ Active(m_sessions[KeyOf(c)])
      /\ m_sessions[KeyOf(c)].ownerConn = c
      /\ m_sessions[KeyOf(c)].lastSeen <= Due(c)

LEMMA PromptInit == SystemInit => AnnouncedOnce /\ Budget /\ HeardInTime
BY SystemAssumption DEF SystemInit, Init, AnnouncedOnce, Budget, HeardInTime

\* The server opens a connection only at the request of its host.
LEMMA LinkOpens ==
  ASSUME HostTypeOK, link \in [Conn -> {"none", "open", "closed"}], [SystemNext]_systemVars,
         NEW c \in Conn, link[c] # "open", link'[c] = "open"
  PROVE  clientLink[c] = "connecting" /\ UNCHANGED hostVars
<1>1. CASE ServerStep
  <2>1. UNCHANGED hostVars
    BY <1>1 DEF ServerStep
  <2>2. CASE Start \/ Stop \/ BeginPump \/ EndPump
    BY <2>2 DEF Start, Stop, BeginPump, EndPump
  <2>3. ASSUME NEW d \in Conn, OnClosed(d) PROVE FALSE
    BY <2>3 DEF OnClosed
  <2>4. ASSUME NEW d \in Conn, clientLink[d] = "connecting", OnConnecting(d)
        PROVE  d = c
    BY <2>4 DEF OnConnecting
  <2> QED
    BY <1>1, <2>1, <2>2, <2>3, <2>4 DEF ServerStep
<1>2. CASE SystemTick
  BY <1>2 DEF SystemTick, Tick
<1>3. ASSUME NEW d \in Conn, HostStep(d) \/ HeartbeatIsLost(d) PROVE FALSE
  <2>1. CASE AnnounceArrives(d)
    BY <2>1 DEF AnnounceArrives, HandleAnnounce, Register
  <2>2. CASE HeartbeatArrives(d)
    BY <2>2 DEF HeartbeatArrives, HandleHeartbeat, vars
  <2>3. CASE HostStarts(d) \/ HostConnected(d) \/ HostLosesLobby(d)
    BY <2>3 DEF HostStarts, HostConnected, HostLosesLobby, vars
  <2>4. CASE HostFrame(d) \/ HostEnds(d) \/ HeartbeatIsLost(d)
    BY <2>4 DEF HostFrame, HostEnds, HeartbeatIsLost, vars
  <2> QED
    BY <1>3, <2>1, <2>2, <2>3, <2>4 DEF HostStep
<1>4. CASE UNCHANGED systemVars
  BY <1>4 DEF systemVars, vars
<1> QED
  BY <1>1, <1>2, <1>3, <1>4 DEF SystemNext

LEMMA BudgetStep ==
  ASSUME MaxDelay < Second, HostTypeOK, AnnouncedOnce, Budget,
         link \in [Conn -> {"none", "open", "closed"}], [PromptNext]_systemVars
  PROVE  Budget'
<1> USE PeriodType DEF HostTypeOK
<1> SUFFICES ASSUME NEW c \in Conn
             PROVE  /\ missed'[c] <= MaxLost
                    /\ clientLink'[c] = "connected" /\ link'[c] = "open" /\ heartbeats'[c] > 0
                         => heartbeats'[c] = 1 /\ hbAccum'[c] <= MaxDelay
  BY DEF Budget
<1> DEFINE Goal == /\ missed'[c] <= MaxLost
                   /\ clientLink'[c] = "connected" /\ link'[c] = "open" /\ heartbeats'[c] > 0
                        => heartbeats'[c] = 1 /\ hbAccum'[c] <= MaxDelay
<1>1. /\ missed[c] <= MaxLost
      /\ clientLink[c] = "connected" /\ link[c] = "open" /\ heartbeats[c] > 0
           => heartbeats[c] = 1 /\ hbAccum[c] <= MaxDelay
      /\ clientLink[c] = "connecting" => heartbeats[c] = 0
  BY DEF Budget, AnnouncedOnce
<1>2. CASE link[c] # "open" /\ link'[c] = "open"
  BY <1>1, <1>2, LinkOpens, PromptStepIsSystemStep DEF hostVars
<1>3. CASE link'[c] = "open" => link[c] = "open"
  <2>1. CASE UNCHANGED hostVars
    BY <1>1, <1>3, <2>1 DEF hostVars
  <2>2. CASE PromptTick
    BY <1>1, <1>3, <2>2 DEF PromptTick, SystemTick
  <2>3. ASSUME NEW d \in Conn, HostStep(d) PROVE Goal
    <3>1. CASE HostStarts(d) \/ HostConnected(d) \/ HostLosesLobby(d) \/ HostEnds(d)
      BY <1>1, <1>3, <3>1 DEF HostStarts, HostConnected, HostLosesLobby, HostEnds
    <3>2. CASE HostFrame(d)
      BY <1>1, <1>3, <3>2 DEF HostFrame
    <3>3. CASE AnnounceArrives(d)
      BY <1>1, <1>3, <3>3 DEF AnnounceArrives
    <3>4. CASE HeartbeatArrives(d)
      BY <1>1, <1>3, <3>4 DEF HeartbeatArrives
    <3> QED
      BY <2>3, <3>1, <3>2, <3>3, <3>4 DEF HostStep
  <2>4. ASSUME NEW d \in Conn, missed[d] < MaxLost, HeartbeatIsLost(d) PROVE Goal
    BY <1>1, <1>3, <2>4 DEF HeartbeatIsLost
  <2> QED
    BY <2>1, <2>2, <2>3, <2>4 DEF PromptNext, ServerStep, systemVars
<1> QED
  BY <1>2, <1>3

LEMMA AnnouncedOnceStep ==
  ASSUME LobbyInv, HostTypeOK, AnnouncedOnce, [SystemNext]_systemVars
  PROVE  AnnouncedOnce'
<1> USE DEF HostTypeOK, AnnouncedOnce
<1>0. m_connToSession \in [Conn -> Key \cup {NoKey}]
  BY DEF LobbyInv, TypeOK
<1>1. CASE ServerStep
  <2>1. UNCHANGED hostVars
    BY <1>1 DEF ServerStep
  <2>2. \A c \in Conn : m_connToSession'[c] # NoKey => m_connToSession[c] # NoKey
    BY <1>0, <1>1 DEF ServerStep, Start, Stop, OnConnecting, OnClosed, BeginPump, EndPump
  <2> QED
    BY <2>1, <2>2 DEF hostVars
<1>2. CASE SystemTick
  BY <1>2 DEF SystemTick, Tick
<1>3. ASSUME NEW c \in Conn, HostStep(c) \/ HeartbeatIsLost(c) PROVE AnnouncedOnce'
  <2>1. CASE HostStarts(c)
    BY <2>1 DEF HostStarts, vars
  <2>2. CASE HostConnected(c)
    BY <2>2 DEF HostConnected, vars
  <2>3. CASE HostLosesLobby(c)
    BY <2>3 DEF HostLosesLobby, vars
  <2>4. CASE HostFrame(c)
    BY <2>4 DEF HostFrame, vars
  <2>5. CASE HostEnds(c)
    BY <2>5 DEF HostEnds, vars
  <2>6. CASE AnnounceArrives(c)
    BY <2>6, <1>0 DEF AnnounceArrives, HandleAnnounce, Register
  <2>7. CASE HeartbeatArrives(c)
    BY <2>7 DEF HeartbeatArrives, HandleHeartbeat, vars
  <2>8. CASE HeartbeatIsLost(c)
    BY <2>8 DEF HeartbeatIsLost, vars
  <2> QED
    BY <1>3, <2>1, <2>2, <2>3, <2>4, <2>5, <2>6, <2>7, <2>8 DEF HostStep
<1>4. CASE UNCHANGED systemVars
  BY <1>4 DEF systemVars, hostVars, vars
<1> QED
  BY <1>1, <1>2, <1>3, <1>4 DEF SystemNext

LEMMA DueOf ==
  ASSUME NEW a \in Nat, NEW m \in Nat, NEW h \in Nat
  PROVE  /\ a + Period * (m + h) \in Nat
         /\ (a + 1) + Period * (m + h) = a + Period * (m + h) + 1
         /\ h = 0 /\ a <= Period => a + Period * (m + h) <= 0 + Period * (m + 1)
<1>1. Period * (m + h) \in Nat
  BY PeriodType, SMTT(20)
<1>2. h = 0 /\ a <= Period => a + Period * (m + h) <= 0 + Period * (m + 1)
  <2> SUFFICES ASSUME h = 0, a <= Period PROVE a + Period * m <= Period * (m + 1)
    BY PeriodType
  <2>1. Period * (m + 1) = Period * m + Period
    BY PeriodType, SMTT(20)
  <2>2. Period * m \in Nat
    BY PeriodType, SMTT(20)
  <2> QED
    BY <2>1, <2>2, PeriodType
<1> QED
  BY <1>1, <1>2

\* While a host is connected at both ends its budget is within the TTL.
LEMMA DueIsInTime ==
  ASSUME Period * (MaxLost + 1) + MaxDelay <= kActiveTTL, HostTypeOK, Budget, NEW c \in Conn,
         clientLink[c] = "connected", link[c] = "open"
  PROVE  Due(c) <= kActiveTTL
<1> DEFINE a == hbAccum[c]
           m == missed[c]
           h == heartbeats[c]
<1>1. a \in 0..Period /\ m \in Nat /\ h \in Nat
  BY PeriodType, SystemAssumption DEF HostTypeOK
<1>2. m <= MaxLost /\ (h > 0 => h = 1 /\ a <= MaxDelay)
  BY DEF Budget
<1> HIDE DEF a, m, h
<1>3. /\ Period * (m + 1) <= Period * (MaxLost + 1)
      /\ Period * (m + 1) \in Nat /\ Period * (MaxLost + 1) \in Nat
      /\ Period * (m + 1) = Period * m + Period /\ Period * m \in Nat
  BY <1>1, <1>2, PeriodType, SMTT(20)
<1>4. a + Period * (m + h) <= kActiveTTL
  <2>1. CASE h = 0
    BY <1>1, <1>3, <2>1, PeriodType, TTLTypes
  <2>2. CASE h = 1
    BY <1>1, <1>2, <1>3, <2>2, PeriodType, TTLTypes
  <2> QED
    BY <1>1, <1>2, <2>1, <2>2
<1> QED
  BY <1>4 DEF Due, a, m, h

\* What a step of the composition does to the session of a host.
LEMMA HeardInTimeStep ==
  ASSUME Period * (MaxLost + 1) + MaxDelay <= kActiveTTL, LobbyInv, LobbyInv', RegistryFollowsAnnounces,
         RegistryFollowsAnnounces', HostTypeOK, HostTypeOK', AnnouncedOnce, Budget,
         MaxDelay < Second, HeardInTime, [PromptNext]_systemVars
  PROVE  HeardInTime'
<1> SUFFICES ASSUME NEW c \in Conn, m_connToSession'[c] # NoKey, clientLink'[c] = "connected"
             PROVE  LET s == m_sessions'[KeyOf(c)]
                    IN  /\ Active(s)
                        /\ s.ownerConn = c
                        /\ s.lastSeen <= Due(c)'
  BY Zenon DEF HeardInTime, Due, Active
<1> DEFINE k == KeyOf(c)
           due1 == Due(c)
           due2 == hbAccum'[c] + Period * (missed'[c] + heartbeats'[c])
           Goal == /\ Active(m_sessions'[k])
                   /\ m_sessions'[k].ownerConn = c
                   /\ m_sessions'[k].lastSeen <= due2
<1> SUFFICES Goal
  BY Zenon DEF Due
<1>1. /\ k \in Key
      /\ m_sessions \in [Key -> Session] /\ m_sessions' \in [Key -> Session]
      /\ m_connToSession \in [Conn -> Key \cup {NoKey}]
      /\ link \in [Conn -> {"none", "open", "closed"}]
  BY KeysOfHosts, Zenon DEF LobbyInv, TypeOK
<1>2. m_sessions[k].lastSeen \in Int /\ kActiveTTL \in Nat
  BY <1>1, TTLTypes DEF Session
<1>0. /\ missed[c] \in Nat /\ hbAccum[c] \in 0..Period /\ heartbeats[c] \in Nat
      /\ missed'[c] \in Nat /\ hbAccum'[c] \in 0..Period /\ heartbeats'[c] \in Nat
  BY PeriodType, SystemAssumption DEF HostTypeOK
<1>3. due1 \in Nat /\ due2 \in Nat
  BY <1>0, PeriodType, DueOf DEF Due
<1>13. UNCHANGED <<hbAccum, missed, heartbeats>> => due2 = due1
  BY DEF Due
<1>4. ASSUME m_connToSession[c] # NoKey, clientLink[c] = "connected"
      PROVE  /\ Active(m_sessions[k]) /\ m_sessions[k].ownerConn = c
             /\ m_sessions[k].lastSeen <= due1
             /\ m_sessions[k].lastSeen <= kActiveTTL
             /\ link[c] = "open"
  <2>1. /\ Active(m_sessions[k]) /\ m_sessions[k].ownerConn = c
        /\ m_sessions[k].lastSeen <= due1
    BY <1>4 DEF HeardInTime
  <2>2. link[c] = "open"
    BY <1>4 DEF LobbyInv, RegistryHoldsOpenConns
  <2>3. due1 <= kActiveTTL
    BY <1>4, <2>2, DueIsInTime
  <2> HIDE DEF k, due1
  <2> QED
    BY <1>2, <1>3, <2>1, <2>2, <2>3
<1>5. \A d \in Conn : m_connToSession[d] = k => d = c
  BY <1>1, SentinelTypes, KeysOfHosts, KeysDiffer DEF RegistryFollowsAnnounces
<1> HIDE DEF k, Goal, due1, due2
\* The server.
<1>6. ASSUME UNCHANGED <<m_sessions, m_connToSession, clientLink>>,
             due1 <= due2
      PROVE  Goal
  BY <1>2, <1>3, <1>4, <1>6 DEF Goal
<1>7. CASE ServerStep
  <2>0. UNCHANGED hostVars
    BY <1>7 DEF ServerStep
  <2>1. CASE m_sessions'[k] = m_sessions[k] /\ m_connToSession[c] # NoKey
    BY <2>0, <2>1, <1>4, <1>13 DEF Goal, hostVars
  <2>2. ASSUME Start \/ BeginPump \/ EndPump \/ \E d \in Conn : OnConnecting(d)
        PROVE  UNCHANGED m_connToSession
    BY <2>2 DEF Start, BeginPump, EndPump, OnConnecting
  <2>3. CASE Start \/ EndPump \/ \E d \in Conn : OnConnecting(d)
    <3>1. UNCHANGED m_sessions
      BY <2>3 DEF Start, EndPump, OnConnecting
    <3> QED
      BY <2>1, <2>2, <2>3, <3>1
  <2>4. CASE BeginPump
    <3>1. m_connToSession[c] # NoKey /\ clientLink[c] = "connected"
      BY <2>0, <2>2, <2>4 DEF hostVars
    <3>2. CleanedUp(m_sessions[k]) = m_sessions[k]
      BY <1>2, <1>4, <3>1 DEF CleanedUp, ActiveExpired, GraceExpired, Active
    <3>3. m_sessions'[k] = m_sessions[k]
      BY <1>1, <2>4, <3>2 DEF BeginPump, CleanupExpired
    <3> QED
      BY <2>1, <3>1, <3>3
  <2>5. CASE Stop
    BY <2>5 DEF Stop
  <2>6. ASSUME NEW d \in Conn, OnClosed(d) PROVE Goal
    <3>1. d # c /\ m_connToSession[c] # NoKey
      BY <1>1, <2>6 DEF OnClosed
    <3>2. m_sessions'[k] = m_sessions[k]
      BY <1>1, <1>5, <2>6, <3>1 DEF OnClosed
    <3> QED
      BY <2>1, <3>1, <3>2
  <2> QED
    BY <1>7, <2>3, <2>4, <2>5, <2>6 DEF ServerStep
\* The clock.
<1>8. CASE PromptTick
  <2>1. m_connToSession[c] # NoKey /\ clientLink[c] = "connected"
    BY <1>8 DEF PromptTick, SystemTick, Tick
  <2>2. app[c] = "up"
    BY <2>1 DEF AnnouncedOnce
  <2>3. due2 = due1 + 1
    <3>1. hbAccum[c] < Period
      BY <1>4, <1>8, <2>1 DEF PromptTick
    <3>2. hbAccum'[c] = hbAccum[c] + 1 /\ missed'[c] = missed[c] /\ heartbeats'[c] = heartbeats[c]
      BY <1>8, <2>2, <3>1 DEF PromptTick, SystemTick
    <3>3. /\ due1 = hbAccum[c] + Period * (missed[c] + heartbeats[c])
          /\ due2 = (hbAccum[c] + 1) + Period * (missed[c] + heartbeats[c])
      BY <3>2 DEF due1, due2, Due
    <3>4. hbAccum[c] \in Nat
      BY <1>0
    <3>5. (hbAccum[c] + 1) + Period * (missed[c] + heartbeats[c])
            = hbAccum[c] + Period * (missed[c] + heartbeats[c]) + 1
      BY <1>0, <3>4, DueOf, Zenon
    <3> QED
      BY <3>3, <3>5
  <2>4. m_sessions'[k] = Aged(m_sessions[k])
    BY <1>1, <1>8, Zenon DEF PromptTick, SystemTick, Tick, Aged
  <2>5. /\ m_sessions'[k].state = m_sessions[k].state
        /\ m_sessions'[k].ownerConn = m_sessions[k].ownerConn
        /\ m_sessions'[k].lastSeen = Older(m_sessions[k].lastSeen, kActiveTTL)
    BY <1>1, <1>4, <2>1, <2>4 DEF Aged, Active, Session
  <2>6. Older(m_sessions[k].lastSeen, kActiveTTL) <= m_sessions[k].lastSeen + 1
    BY <1>2 DEF Older, NotSet
  <2>7. m_sessions'[k].lastSeen \in Int
    BY <1>1 DEF Session
  <2> QED
    BY <1>2, <1>3, <1>4, <2>1, <2>3, <2>5, <2>6, <2>7 DEF Goal, Active
\* The host programs and the network.
<1>9. ASSUME NEW d \in Conn,
             \/ HostStep(d)
             \/ missed[d] < MaxLost /\ HeartbeatIsLost(d)
      PROVE  Goal
  <2>1. CASE HostStarts(d) \/ HostLosesLobby(d) \/ HostEnds(d)
    <3>1. clientLink[c] = "connected"
      BY <2>1 DEF HostStarts, HostLosesLobby, HostEnds, HostTypeOK
    <3> QED
      BY <1>4, <1>13, <2>1, <3>1 DEF Goal, HostStarts, HostLosesLobby, HostEnds, vars
  <2>2. CASE HostConnected(d)
    <3>1. m_connToSession[c] # NoKey
      BY <2>2 DEF HostConnected, vars
    <3>2. d # c
      BY <2>2, <3>1 DEF HostConnected, AnnouncedOnce
    <3>3. clientLink[c] = "connected"
      BY <2>2, <3>2 DEF HostConnected, HostTypeOK
    <3> QED
      BY <1>4, <1>13, <2>2, <3>1, <3>3 DEF Goal, HostConnected, vars
  <2>3. CASE HostFrame(d)
    <3>1. UNCHANGED <<m_sessions, m_connToSession, clientLink, missed>>
      BY <2>3 DEF HostFrame, vars
    <3>2. CASE d # c
      <4>1. hbAccum'[c] = hbAccum[c] /\ heartbeats'[c] = heartbeats[c]
        BY <2>3, <3>2 DEF HostFrame, HostTypeOK
      <4>2. due2 = due1
        BY <3>1, <4>1 DEF due1, due2, Due
      <4> QED
        BY <1>3, <1>6, <3>1, <4>2
    <3>3. CASE d = c
      <4>1. heartbeats[c] = 0
        <5>1. clientLink[c] = "connected" /\ link[c] = "open"
          BY <1>4, <3>1
        <5>2. hbAccum[c] >= Second
          BY <2>3, <3>3 DEF HostFrame
        <5> QED
          BY <1>0, <5>1, <5>2, PeriodType DEF Budget
      <4>2. hbAccum'[c] = 0 /\ heartbeats'[c] = 1 /\ missed'[c] = missed[c]
        BY <2>3, <3>1, <3>3, <4>1 DEF HostFrame, HostTypeOK
      <4>3. due1 <= 0 + Period * (missed[c] + 1)
        <5>1. hbAccum[c] \in Nat /\ hbAccum[c] <= Period
          BY <1>0, PeriodType
        <5>2. hbAccum[c] + Period * (missed[c] + heartbeats[c]) <= 0 + Period * (missed[c] + 1)
          BY <1>0, <4>1, <5>1, DueOf, Zenon
        <5> QED
          BY <5>2 DEF due1, Due
      <4> QED
        BY <1>6, <3>1, <4>2, <4>3 DEF due2
    <3> QED
      BY <3>2, <3>3
  <2>4. CASE HeartbeatIsLost(d) /\ missed[d] < MaxLost
    <3>1. UNCHANGED <<m_sessions, m_connToSession, clientLink, hbAccum>>
      BY <2>4 DEF HeartbeatIsLost, vars
    <3>2. missed'[c] + heartbeats'[c] = missed[c] + heartbeats[c]
      BY <1>0, <2>4, PeriodType DEF HeartbeatIsLost, HostTypeOK
    <3>3. due2 = due1
      BY <3>1, <3>2 DEF due1, due2, Due
    <3> QED
      BY <1>3, <1>6, <3>1, <3>3
  <2>5. CASE AnnounceArrives(d)
    <3>1. KeyOf(d) \in Key /\ 3 \in AnnouncedMax
      BY KeysOfHosts, SystemAssumption
    <3>2. m_sessions' = [m_sessions EXCEPT ![KeyOf(d)] = Registered(@, d, 3)]
      BY <2>5, Zenon DEF AnnounceArrives, HandleAnnounce, Register
    <3>3. UNCHANGED <<clientLink, missed, hbAccum, heartbeats>>
      BY <2>5 DEF AnnounceArrives
    <3>4. CASE d = c
      <4>1. m_sessions'[k] = Registered(m_sessions[k], c, 3) /\ m_sessions[k] \in Session
        BY <1>1, <3>2, <3>4, Zenon DEF k
      <4>2. /\ m_sessions'[k].state \in {"Open", "Full"}
            /\ m_sessions'[k].ownerConn = c
            /\ m_sessions'[k].lastSeen = 0
        <5> DEFINE r == Registered(m_sessions[k], c, 3)
        <5>1. r.state \in {"Open", "Full"} /\ r.ownerConn = c /\ r.lastSeen = 0
          BY <3>1, <4>1, RegisteredFields
        <5> HIDE DEF r
        <5>2. m_sessions'[k] = r
          BY <4>1 DEF r
        <5> QED
          BY <5>1, <5>2
      <4> QED
        BY <1>3, <4>2 DEF Goal, Active
    <3>5. CASE d # c
      <4>1. KeyOf(d) # k
        BY <3>5, KeysDiffer DEF k
      <4>2. m_sessions'[k] = m_sessions[k]
        BY <1>1, <3>2, <4>1, Zenon
      <4>3. m_connToSession[c] # NoKey
        BY <1>1, <2>5, <3>5 DEF AnnounceArrives, HandleAnnounce, Register
      <4> QED
        BY <1>4, <1>13, <3>3, <4>2, <4>3 DEF Goal
    <3> QED
      BY <3>4, <3>5
  <2>6. CASE HeartbeatArrives(d)
    <3>1. UNCHANGED <<m_connToSession, clientLink, hbAccum>>
      BY <2>6 DEF HeartbeatArrives, HandleHeartbeat, vars
    <3>2. m_connToSession[c] # NoKey /\ clientLink[c] = "connected"
      BY <3>1
    <3>3. CASE d # c
      <4>1. KeyOf(d) # k
        BY <3>3, KeysDiffer DEF k
      <4>2. m_sessions'[k] = m_sessions[k]
        BY <1>1, <2>6, <4>1 DEF HeartbeatArrives, HandleHeartbeat, vars
      <4>3. missed'[c] = missed[c] /\ heartbeats'[c] = heartbeats[c]
        BY <2>6, <3>3 DEF HeartbeatArrives, HostTypeOK
      <4>4. due2 = due1
        BY <3>1, <4>3 DEF due1, due2, Due
      <4> QED
        BY <1>4, <3>2, <4>2, <4>4 DEF Goal
    <3>4. CASE d = c
      <4>1. PICK n \in HeartbeatCount : HandleHeartbeat(c, k, n)
        BY <1>4, <2>6, <3>2, <3>4 DEF HeartbeatArrives, k
      <4>2. m_sessions'[k] = Refreshed(m_sessions[k], n) /\ m_sessions[k] \in Session
        BY <1>1, <4>1, Zenon DEF HandleHeartbeat
      <4>3. /\ m_sessions'[k].state \in {"Open", "Full"}
            /\ m_sessions'[k].ownerConn = m_sessions[k].ownerConn
            /\ m_sessions'[k].lastSeen = 0
        <5> DEFINE r == Refreshed(m_sessions[k], n)
        <5>1. /\ r.state \in {"Open", "Full"}
              /\ r.ownerConn = m_sessions[k].ownerConn
              /\ r.lastSeen = 0
          BY <4>2, RefreshedFields
        <5> HIDE DEF r
        <5>2. m_sessions'[k] = r
          BY <4>2 DEF r
        <5> QED
          BY <5>1, <5>2
      <4> QED
        BY <1>3, <1>4, <3>2, <4>3 DEF Goal, Active
    <3> QED
      BY <3>3, <3>4
  <2> QED
    BY <1>9, <2>1, <2>2, <2>3, <2>4, <2>5, <2>6 DEF HostStep
<1>10. CASE UNCHANGED systemVars
  BY <1>3, <1>6, <1>10, <1>13 DEF systemVars, hostVars, vars
<1> QED
  BY <1>7, <1>8, <1>9, <1>10 DEF PromptNext

\* A host that runs and keeps its connection is listed, whatever the other hosts
\* do, if the TTL covers the heartbeats that may be lost in a row and the next
\* one, each a second and a late frame after the one before, and the delay of
\* that one.  In the code (12 s, frames of 1/60 s, delays of up to half a second)
\* ten may be lost in a row; with eleven the next leaves after more than 12 s.
THEOREM HeardHostStaysListed ==
  ASSUME MaxDelay < Second, Period * (MaxLost + 1) + MaxDelay <= kActiveTTL
  PROVE  PromptSpec => []HeardHostIsListed
<1>1. PromptSpec => SystemSpec
  BY PromptStepIsSystemStep, PTL DEF PromptSpec, SystemSpec
<1>2. LobbyInv /\ HostTypeOK /\ AnnouncedOnce /\ [PromptNext]_systemVars => AnnouncedOnce'
  BY AnnouncedOnceStep, PromptStepIsSystemStep
<1>3. LobbyInv /\ HostTypeOK /\ AnnouncedOnce /\ Budget /\ [PromptNext]_systemVars => Budget'
  BY BudgetStep DEF LobbyInv, TypeOK
<1>4. /\ LobbyInv /\ LobbyInv' /\ RegistryFollowsAnnounces /\ RegistryFollowsAnnounces'
      /\ HostTypeOK /\ HostTypeOK' /\ AnnouncedOnce /\ Budget /\ HeardInTime
      /\ [PromptNext]_systemVars
      => HeardInTime'
  BY HeardInTimeStep
<1>5. SystemInit => AnnouncedOnce /\ Budget /\ HeardInTime
  BY PromptInit
<1>6. HeardInTime => HeardHostIsListed
  BY DEF HeardInTime, HeardHostIsListed
<1> QED
  BY <1>1, <1>2, <1>3, <1>4, <1>5, <1>6, SystemImplementsServer, Invariance,
     RegistryFollows, HostTypes, PTL DEF PromptSpec

-----------------------------------------------------------------------------
(* An ended host is delisted *)

\* A host is not in the list before its announcement has arrived.
NotYetListed ==
  \A c \in Conn :
    c \in announces \/ clientLink[c] \in {"none", "connecting"}
      => m_sessions[KeyOf(c)].state = "None"

\* Only the announcement of a host brings its session into the list.
LEMMA OnlyAnnounceLists ==
  ASSUME LobbyInv, [SystemNext]_systemVars, NEW c \in Conn,
         m_sessions[KeyOf(c)].state = "None", ~AnnounceArrives(c)
  PROVE  m_sessions'[KeyOf(c)].state = "None"
<1> DEFINE k == KeyOf(c)
<1>1. k \in Key /\ m_sessions \in [Key -> Session]
  BY KeysOfHosts, Zenon DEF LobbyInv, TypeOK
<1>2. ASSUME m_sessions' = CleanupExpired PROVE m_sessions'[k].state = "None"
  BY <1>1, <1>2 DEF CleanupExpired, CleanedUp, ActiveExpired, Active, GraceExpired
<1>3. CASE ServerStep
  <2>1. CASE Start \/ EndPump \/ \E d \in Conn : OnConnecting(d)
    BY <2>1 DEF Start, EndPump, OnConnecting
  <2>2. CASE Stop
    BY <1>1, <2>2, NoSessionFields DEF Stop
  <2>3. ASSUME NEW d \in Conn, OnClosed(d) PROVE m_sessions'[k].state = "None"
    BY <1>1, <2>3 DEF OnClosed, MarkMigrating
  <2>4. CASE BeginPump
    BY <1>2, <2>4 DEF BeginPump
  <2> QED
    BY <1>3, <2>1, <2>2, <2>3, <2>4 DEF ServerStep
<1>4. CASE SystemTick
  BY <1>1, <1>4 DEF SystemTick, Tick
<1>5. ASSUME NEW d \in Conn, AnnounceArrives(d) PROVE m_sessions'[k].state = "None"
  <2>1. KeyOf(d) # k
    BY <1>5, KeysDiffer
  <2> QED
    BY <1>1, <1>5, <2>1 DEF AnnounceArrives, HandleAnnounce, Register
<1>6. ASSUME NEW d \in Conn, HeartbeatArrives(d) PROVE m_sessions'[k].state = "None"
  <2>1. CASE UNCHANGED vars
    BY <2>1 DEF vars
  <2>2. ASSUME NEW n \in HeartbeatCount, HandleHeartbeat(d, KeyOf(d), n)
        PROVE  m_sessions'[k].state = "None"
    <3>1. KeyOf(d) # k
      BY <2>2 DEF HandleHeartbeat
    <3> QED
      BY <1>1, <2>2, <3>1 DEF HandleHeartbeat
  <2> QED
    BY <1>6, <2>1, <2>2 DEF HeartbeatArrives
<1>7. ASSUME NEW d \in Conn,
             \/ HostStarts(d) \/ HostConnected(d) \/ HostLosesLobby(d)
             \/ HostFrame(d) \/ HostEnds(d) \/ HeartbeatIsLost(d)
      PROVE  m_sessions'[k].state = "None"
  BY <1>7 DEF HostStarts, HostConnected, HostLosesLobby, HostFrame, HostEnds, HeartbeatIsLost, vars
<1>8. CASE UNCHANGED systemVars
  BY <1>8 DEF systemVars, vars
<1> QED
  BY <1>3, <1>4, <1>5, <1>6, <1>7, <1>8 DEF SystemNext, HostStep

\* A host announces its session once, after it has connected, and a program that
\* has ended does not begin again.
LEMMA HostMoves ==
  ASSUME HostTypeOK, AnnouncedOnce, [SystemNext]_systemVars, NEW c \in Conn
  PROVE  /\ app[c] = "gone" => app'[c] = "gone"
         /\ c \in announces' => c \in announces \/ (app[c] = "up" /\ clientLink[c] = "connecting")
         /\ clientLink'[c] \in {"none", "connecting"} => clientLink[c] \in {"none", "connecting"}
<1> USE DEF HostTypeOK, AnnouncedOnce
<1>1. CASE ServerStep \/ UNCHANGED systemVars
  BY <1>1 DEF ServerStep, hostVars, systemVars
<1>2. CASE SystemTick
  BY <1>2 DEF SystemTick
<1>3. ASSUME NEW d \in Conn, HostConnected(d)
      PROVE  /\ announces' = announces \cup {d} /\ app' = app
             /\ app[d] = "up" /\ clientLink[d] = "connecting"
             /\ clientLink' = [clientLink EXCEPT ![d] = "connected"]
  BY <1>3 DEF HostConnected
<1>4. ASSUME NEW d \in Conn, HostLosesLobby(d) \/ HostEnds(d)
      PROVE  /\ announces' = announces
             /\ app' = app \/ app' = [app EXCEPT ![d] = "gone"]
             /\ clientLink' = [clientLink EXCEPT ![d] = "lost"]
  BY <1>4 DEF HostLosesLobby, HostEnds
<1>5. ASSUME NEW d \in Conn, HostStarts(d)
      PROVE  /\ announces' = announces
             /\ app[d] = "off" /\ app' = [app EXCEPT ![d] = "up"]
             /\ clientLink' = [clientLink EXCEPT ![d] = "connecting"]
  BY <1>5 DEF HostStarts
<1>6. ASSUME NEW d \in Conn,
             \/ HostFrame(d) \/ AnnounceArrives(d) \/ HeartbeatArrives(d) \/ HeartbeatIsLost(d)
      PROVE  UNCHANGED <<app, clientLink>> /\ announces' \subseteq announces
  BY <1>6 DEF HostFrame, AnnounceArrives, HeartbeatArrives, HeartbeatIsLost
<1> QED
  BY <1>1, <1>2, <1>3, <1>4, <1>5, <1>6 DEF SystemNext, HostStep

LEMMA NotYetListedStep ==
  ASSUME LobbyInv, HostTypeOK, AnnouncedOnce, NotYetListed, [SystemNext]_systemVars
  PROVE  NotYetListed'
<1> SUFFICES ASSUME NEW c \in Conn,
                    c \in announces' \/ clientLink'[c] \in {"none", "connecting"}
             PROVE  m_sessions'[KeyOf(c)].state = "None"
  BY DEF NotYetListed
<1>1. m_sessions[KeyOf(c)].state = "None"
  BY HostMoves DEF NotYetListed
<1>2. CASE AnnounceArrives(c)
  BY <1>2 DEF AnnounceArrives, AnnouncedOnce, HostTypeOK
<1>3. CASE ~AnnounceArrives(c)
  BY <1>1, <1>3, OnlyAnnounceLists
<1> QED
  BY <1>2, <1>3

HostFacts == LobbyInv /\ HostTypeOK /\ AnnouncedOnce /\ NotYetListed

LEMMA HostFactsHold == SystemSpec => []HostFacts
<1>1. SystemInit => AnnouncedOnce /\ NotYetListed
  <2> SUFFICES ASSUME SystemInit PROVE AnnouncedOnce /\ NotYetListed
    OBVIOUS
  <2>1. \A c \in Conn : m_sessions[KeyOf(c)].state = "None"
    BY KeysOfHosts, NoSessionFields DEF SystemInit, Init
  <2> QED
    BY <2>1 DEF SystemInit, Init, AnnouncedOnce, NotYetListed
<1>2. LobbyInv /\ HostTypeOK /\ AnnouncedOnce /\ NotYetListed /\ [SystemNext]_systemVars
        => AnnouncedOnce' /\ NotYetListed'
  BY AnnouncedOnceStep, NotYetListedStep
<1>3. Spec => []LobbyInv
  BY Invariance
<1> QED
  BY <1>1, <1>2, <1>3, HostTypes, SystemImplementsServer, PTL DEF SystemSpec, HostFacts

\* A step that resets the timer of a host's session.
Resets(c) == m_sessions[KeyOf(c)].lastSeen > 0 /\ m_sessions'[KeyOf(c)].lastSeen = 0

\* Once the announcement is no longer under way, only a heartbeat renews.
LEMMA OnlyHeartbeatRenews ==
  ASSUME LobbyInv, [SystemNext]_systemVars, NEW c \in Conn, c \notin announces, Resets(c),
         ~HeartbeatArrives(c)
  PROVE  m_sessions'[KeyOf(c)].state = "None"
<1> DEFINE k == KeyOf(c)
           s == m_sessions[k]
           t == m_sessions'[k]
<1>1. k \in Key /\ s \in Session /\ m_sessions \in [Key -> Session]
  BY KeysOfHosts, Zenon DEF LobbyInv, TypeOK
<1>2. s.lastSeen \in Nat /\ s.lastSeen > 0 /\ t.lastSeen = 0 /\ t # s
  <2>1. s.lastSeen \in 0..(kActiveTTL + 1)
    BY <1>1, Zenon DEF Session
  <2> QED
    BY <2>1, TTLTypes DEF Resets
<1>3. MarkMigrating(s).lastSeen = s.lastSeen
  BY <1>1 DEF MarkMigrating, Session
<1>4. ASSUME m_sessions' = CleanupExpired PROVE t.state = "None"
  <2>1. t = CleanedUp(s)
    BY <1>1, <1>4 DEF CleanupExpired
  <2> QED
    BY <1>2, <1>3, <2>1, NoSessionFields DEF CleanedUp
<1>5. CASE ServerStep
  <2>1. CASE Start \/ EndPump \/ \E d \in Conn : OnConnecting(d)
    BY <1>2, <2>1 DEF Start, EndPump, OnConnecting
  <2>2. CASE Stop
    BY <1>1, <2>2, NoSessionFields DEF Stop
  <2>3. ASSUME NEW d \in Conn, OnClosed(d) PROVE FALSE
    BY <1>1, <1>2, <1>3, <2>3 DEF OnClosed
  <2>4. CASE BeginPump
    BY <1>4, <2>4 DEF BeginPump
  <2> QED
    BY <1>5, <2>1, <2>2, <2>3, <2>4 DEF ServerStep
<1>6. CASE SystemTick
  <2>1. t = Aged(s)
    BY <1>1, <1>6 DEF SystemTick, Tick, Aged
  <2>2. CASE s.state # "None"
    <3>1. t.lastSeen = Older(s.lastSeen, kActiveTTL)
      BY <1>1, <2>1, <2>2, AgedFields
    <3> QED
      BY <1>2, <3>1, TTLTypes DEF Older, NotSet
  <2> QED
    BY <2>1, <2>2 DEF Aged
<1>7. ASSUME NEW d \in Conn, AnnounceArrives(d) PROVE FALSE
  <2>1. KeyOf(d) # k
    BY <1>7, KeysDiffer DEF AnnounceArrives
  <2> QED
    BY <1>1, <1>2, <1>7, <2>1 DEF AnnounceArrives, HandleAnnounce, Register
<1>8. ASSUME NEW d \in Conn, HeartbeatArrives(d) PROVE FALSE
  <2>1. KeyOf(d) # k
    BY <1>8, KeysDiffer
  <2>2. CASE UNCHANGED vars
    BY <1>2, <2>2 DEF vars
  <2>3. ASSUME NEW n \in HeartbeatCount, HandleHeartbeat(d, KeyOf(d), n) PROVE FALSE
    BY <1>1, <1>2, <2>1, <2>3 DEF HandleHeartbeat
  <2> QED
    BY <1>8, <2>2, <2>3 DEF HeartbeatArrives
<1>9. ASSUME NEW d \in Conn,
             \/ HostStarts(d) \/ HostConnected(d) \/ HostLosesLobby(d)
             \/ HostFrame(d) \/ HostEnds(d) \/ HeartbeatIsLost(d)
      PROVE  FALSE
  BY <1>2, <1>9 DEF HostStarts, HostConnected, HostLosesLobby, HostFrame, HostEnds,
     HeartbeatIsLost, vars
<1>10. CASE UNCHANGED systemVars
  BY <1>2, <1>10 DEF systemVars, vars
<1> QED
  BY <1>5, <1>6, <1>7, <1>8, <1>9, <1>10 DEF SystemNext, HostStep

\* The network does not go on delivering heartbeats of a host that sends none
\* any more: in SystemSpec those under way are a number that only goes down.
HeartbeatsRunOut ==
  \A c \in Conn : <>[](app[c] = "gone") => <>[][~HeartbeatArrives(c)]_systemVars

\* For any number of hosts and all TTLs: the session of a host that has ended
\* leaves the list for good, if no session is immortal, which TLC checks of the
\* lobby server, and the network delivers what it holds only so often.  The
\* announcement that may still be under way, the clean-ups and the close of the
\* connection are proved here.
THEOREM EndedHostsLeaveTheList ==
  SystemSpec /\ AbandonedSessionExpires /\ HeartbeatsRunOut => EndedHostIsDelisted
<1> SUFFICES ASSUME NEW c \in Conn
             PROVE  SystemSpec /\ AbandonedSessionExpires /\ HeartbeatsRunOut
                      => (app[c] = "gone" ~> [](m_sessions[KeyOf(c)].state = "None"))
  BY DEF EndedHostIsDelisted
<1> SUFFICES ASSUME NEW k \in Key, k = KeyOf(c)
             PROVE  SystemSpec /\ AbandonedSessionExpires /\ HeartbeatsRunOut
                      => (app[c] = "gone" ~> [](m_sessions[KeyOf(c)].state = "None"))
  BY KeysOfHosts
<1> DEFINE Gone == app[c] = "gone"
           Unannounced == Gone /\ c \notin announces
           Delisted == m_sessions[KeyOf(c)].state = "None"
<1>1. HostFacts /\ Gone /\ [SystemNext]_systemVars => Gone'
  BY HostMoves DEF HostFacts
<1>2. HostFacts /\ Unannounced /\ [SystemNext]_systemVars => Unannounced'
  BY HostMoves DEF HostFacts
<1>3. HostFacts /\ Unannounced /\ Delisted /\ [SystemNext]_systemVars => Delisted'
  BY OnlyAnnounceLists DEF HostFacts, AnnounceArrives
<1>4. HostFacts /\ Gone => Unannounced \/ Delisted
  BY DEF HostFacts, NotYetListed
<1>5. HostFacts /\ Unannounced /\ [SystemNext]_systemVars /\ [~HeartbeatArrives(c)]_systemVars
        /\ <<m_sessions[k].lastSeen > 0 /\ m_sessions'[k].lastSeen = 0>>_vars => Delisted'
  <2>1. UNCHANGED systemVars => UNCHANGED vars
    BY DEF systemVars
  <2> QED
    BY <2>1, OnlyHeartbeatRenews DEF HostFacts, Resets
<1>6. AbandonedSessionExpires =>
        \/ []<>(m_sessions[k].state = "None")
        \/ []<><<m_sessions[k].lastSeen > 0 /\ m_sessions'[k].lastSeen = 0>>_vars
  BY DEF AbandonedSessionExpires
<1>7. HeartbeatsRunOut => (<>[]Gone => <>[][~HeartbeatArrives(c)]_systemVars)
  BY DEF HeartbeatsRunOut
<1>8. m_sessions[k].state = "None" => Delisted
  OBVIOUS
<1> HIDE DEF Gone, Unannounced, Delisted
<1>9. SystemSpec /\ AbandonedSessionExpires /\ HeartbeatsRunOut => (Gone ~> []Delisted)
  BY <1>1, <1>2, <1>3, <1>4, <1>5, <1>6, <1>7, <1>8, HostFactsHold, PTL DEF SystemSpec
<1> QED
  BY <1>9 DEF Gone, Delisted

=============================================================================
