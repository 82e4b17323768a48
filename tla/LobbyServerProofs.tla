------------------------- MODULE LobbyServerProofs -------------------------
(***************************************************************************)
(* Proofs, for every set of connections and keys and all TTLs, about the   *)
(* lobby server.                                                           *)
(***************************************************************************)
EXTENDS LobbyLease, TLAPS

-----------------------------------------------------------------------------
(* Operators on session records keep their type *)

LEMMA TTLTypes == kActiveTTL \in Nat /\ kGraceTTL \in Nat
BY LobbyAssumption

LEMMA SentinelTypes == NoConn \notin Conn /\ NoKey \notin Key
BY LobbyAssumption

LEMMA AnnouncedMaxType == ASSUME NEW max \in AnnouncedMax PROVE max \in 0..255
BY LobbyAssumption

LEMMA HeartbeatCountType == ASSUME NEW n \in HeartbeatCount PROVE n \in Nat
BY LobbyAssumption

LEMMA NoSessionType == NoSession \in Session
BY TTLTypes DEF NoSession, Session, SessionState, NotSet

LEMMA MarkMigratingType ==
  ASSUME NEW s \in Session
  PROVE  MarkMigrating(s) \in Session
<1>1. 0 \in NotSet..(kGraceTTL + 1)
  BY TTLTypes DEF NotSet
<1>2. "Migrating" \in SessionState
  BY DEF SessionState
<1>3. [s EXCEPT !.state = "Migrating", !.ownerConn = NoConn,
                !.migratingSince = 0] \in Session
  BY <1>1, <1>2, Zenon DEF Session
<1> QED
  BY <1>3, Zenon DEF MarkMigrating

LEMMA WithOccupancyType ==
  ASSUME NEW s \in Session
  PROVE  WithOccupancy(s) \in Session
<1> DEFINE o == IF s.curPlayers >= s.maxPlayers THEN "Full" ELSE "Open"
<1>1. o \in SessionState
  BY DEF SessionState
<1>2. [s EXCEPT !.state = o] \in Session
  <2> HIDE DEF o
  <2> QED  BY <1>1, Zenon DEF Session
<1> QED
  BY <1>2, Zenon DEF WithOccupancy

LEMMA RegisteredType ==
  ASSUME NEW s \in Session, NEW c \in Conn, NEW max \in AnnouncedMax
  PROVE  Registered(s, c, max) \in Session
<1> DEFINE m == IF max = 0 THEN 3 ELSE max
           t == [s EXCEPT !.ownerConn = c, !.addr = c, !.maxPlayers = m,
                          !.lastSeen = 0, !.migratingSince = NotSet]
<1>1. m \in 1..255
  BY AnnouncedMaxType
<1>2. 0 \in 0..(kActiveTTL + 1) /\ NotSet \in NotSet..(kGraceTTL + 1)
  BY TTLTypes DEF NotSet
<1>3. t \in Session
  <2> HIDE DEF m
  <2> QED  BY <1>1, <1>2, Zenon DEF Session
<1>4. WithOccupancy(t) \in Session
  BY <1>3, WithOccupancyType, Zenon
<1> QED
  BY <1>4, Zenon DEF Registered

LEMMA RefreshedType ==
  ASSUME NEW s \in Session, NEW n \in HeartbeatCount
  PROVE  Refreshed(s, n) \in Session
<1> DEFINE p == Clamp(n, 1, s.maxPlayers)
           t == [s EXCEPT !.curPlayers = p, !.lastSeen = 0]
<1>1. s.maxPlayers \in 1..255
  BY Zenon DEF Session
<1>2. n \in Nat
  BY HeartbeatCountType
<1>3. p \in 1..255
  BY <1>1, <1>2 DEF Clamp
<1>4. 0 \in 0..(kActiveTTL + 1)
  BY TTLTypes
<1>5. t \in Session
  <2> HIDE DEF p
  <2> QED  BY <1>3, <1>4, Zenon DEF Session
<1>6. WithOccupancy(t) \in Session
  BY <1>5, WithOccupancyType, Zenon
<1> QED
  BY <1>6, Zenon DEF Refreshed

LEMMA CleanedUpType ==
  ASSUME NEW s \in Session
  PROVE  CleanedUp(s) \in Session
BY NoSessionType, MarkMigratingType, Zenon DEF CleanedUp

LEMMA OlderType ==
  ASSUME NEW ttl \in Nat, NEW age \in NotSet..(ttl + 1)
  PROVE  /\ Older(age, ttl) \in NotSet..(ttl + 1)
         /\ Older(age, ttl) = NotSet <=> age = NotSet
         /\ Older(age, ttl) >= age
         /\ age \in Nat => Older(age, ttl) \in 0..(ttl + 1)
BY DEF Older, NotSet

-----------------------------------------------------------------------------
(* What the operators store in the fields of a record *)

LEMMA NoSessionFields ==
  /\ NoSession.state = "None"
  /\ NoSession.ownerConn = NoConn
  /\ NoSession.migratingSince = NotSet
BY DEF NoSession

LEMMA MarkMigratingFields ==
  ASSUME NEW s \in Session, s.state # "None"
  PROVE  /\ MarkMigrating(s).state = "Migrating"
         /\ MarkMigrating(s).ownerConn = NoConn
         /\ MarkMigrating(s).migratingSince = 0
BY DEF MarkMigrating, Session

LEMMA RegisteredFields ==
  ASSUME NEW s \in Session, NEW c \in Conn, NEW max \in AnnouncedMax
  PROVE  /\ Registered(s, c, max).state \in {"Open", "Full"}
         /\ Registered(s, c, max).ownerConn = c
         /\ Registered(s, c, max).addr = c
         /\ Registered(s, c, max).lastSeen = 0
         /\ Registered(s, c, max).migratingSince = NotSet
BY DEF Registered, WithOccupancy, Session

LEMMA RefreshedFields ==
  ASSUME NEW s \in Session, NEW n \in HeartbeatCount
  PROVE  /\ Refreshed(s, n).state \in {"Open", "Full"}
         /\ Refreshed(s, n).ownerConn = s.ownerConn
         /\ Refreshed(s, n).addr = s.addr
         /\ Refreshed(s, n).lastSeen = 0
         /\ Refreshed(s, n).migratingSince = s.migratingSince
BY DEF Refreshed, WithOccupancy, Session

\* What Tick stores.
Aged(s) ==
  IF s.state = "None" THEN s
  ELSE [s EXCEPT !.lastSeen = Older(@, kActiveTTL),
                 !.migratingSince = Older(@, kGraceTTL)]

LEMMA AgedFields ==
  ASSUME NEW s \in Session, s.state # "None"
  PROVE  /\ Aged(s).state = s.state
         /\ Aged(s).ownerConn = s.ownerConn
         /\ Aged(s).addr = s.addr
         /\ Aged(s).lastSeen = Older(s.lastSeen, kActiveTTL)
         /\ Aged(s).migratingSince = Older(s.migratingSince, kGraceTTL)
BY DEF Aged, Session

LEMMA AgedType ==
  ASSUME NEW s \in Session
  PROVE  Aged(s) \in Session
<1> DEFINE a == Older(s.lastSeen, kActiveTTL)
           b == Older(s.migratingSince, kGraceTTL)
<1>1. s.lastSeen \in 0..(kActiveTTL + 1) /\ s.migratingSince \in NotSet..(kGraceTTL + 1)
  BY Zenon DEF Session
<1>2. a \in 0..(kActiveTTL + 1)
  BY <1>1, TTLTypes DEF Older, NotSet
<1>3. b \in NotSet..(kGraceTTL + 1)
  BY <1>1, TTLTypes, OlderType, Zenon
<1>4. [s EXCEPT !.lastSeen = a, !.migratingSince = b] \in Session
  <2> HIDE DEF a, b
  <2> QED  BY <1>2, <1>3, Zenon DEF Session
<1> QED
  BY <1>4, Zenon DEF Aged

-----------------------------------------------------------------------------
(* The invariant, session by session *)

SessionOK(s) ==
  /\ s \in Session
  /\ Active(s) <=> s.ownerConn # NoConn
  /\ Active(s) => s.addr = s.ownerConn
  /\ s.state = "Migrating" <=> s.migratingSince # NotSet

LEMMA NoSessionOK == SessionOK(NoSession)
BY NoSessionType, NoSessionFields DEF SessionOK, Active

LEMMA MarkMigratingOK ==
  ASSUME NEW s, SessionOK(s)
  PROVE  SessionOK(MarkMigrating(s))
<1>1. CASE s.state = "None"
  BY <1>1 DEF MarkMigrating
<1>2. CASE s.state # "None"
  BY <1>2, MarkMigratingType, MarkMigratingFields DEF SessionOK, Active, NotSet
<1> QED
  BY <1>1, <1>2

LEMMA RegisteredOK ==
  ASSUME NEW s, SessionOK(s), NEW c \in Conn, NEW max \in AnnouncedMax
  PROVE  SessionOK(Registered(s, c, max))
<1>1. s \in Session /\ c # NoConn
  BY SentinelTypes DEF SessionOK
<1> QED
  BY <1>1, RegisteredType, RegisteredFields DEF SessionOK, Active

LEMMA RefreshedOK ==
  ASSUME NEW s, SessionOK(s), Active(s), NEW n \in HeartbeatCount
  PROVE  SessionOK(Refreshed(s, n))
<1>1. s \in Session /\ s.migratingSince = NotSet
  BY DEF SessionOK, Active
<1> QED
  BY <1>1, RefreshedType, RefreshedFields DEF SessionOK, Active

LEMMA CleanedUpOK ==
  ASSUME NEW s, SessionOK(s)
  PROVE  SessionOK(CleanedUp(s))
BY NoSessionOK, MarkMigratingOK, Zenon DEF CleanedUp

LEMMA AgedOK ==
  ASSUME NEW s, SessionOK(s)
  PROVE  SessionOK(Aged(s))
<1>1. CASE s.state = "None"
  BY <1>1 DEF Aged
<1>2. CASE s.state # "None"
  <2>1. s \in Session /\ s.migratingSince \in NotSet..(kGraceTTL + 1)
    BY Zenon DEF SessionOK, Session
  <2>2. Older(s.migratingSince, kGraceTTL) = NotSet <=> s.migratingSince = NotSet
    BY <2>1, TTLTypes, OlderType, Zenon
  <2> QED
    BY <1>2, <2>1, <2>2, AgedType, AgedFields DEF SessionOK, Active
<1> QED
  BY <1>1, <1>2
-----------------------------------------------------------------------------
(* What a step may do to one session *)

SessionStep(k) ==
  \/ m_sessions'[k] = m_sessions[k]
  \/ m_sessions'[k] = NoSession /\ ~m_listen'
  \/ /\ m_sessions'[k] = MarkMigrating(m_sessions[k])
     /\ \E c \in Conn : /\ m_connToSession[c] = k
                        /\ link[c] = "open" /\ link'[c] = "closed"
                        /\ m_connToSession'[c] = NoKey
  \/ m_sessions'[k] = CleanedUp(m_sessions[k])
  \/ \E c \in Conn, max \in AnnouncedMax :
       m_sessions'[k] = Registered(m_sessions[k], c, max)
  \/ \E n \in HeartbeatCount :
       Active(m_sessions[k]) /\ m_sessions'[k] = Refreshed(m_sessions[k], n)
  \/ m_sessions'[k] = Aged(m_sessions[k])

LEMMA EveryStepIsSessionStep ==
  ASSUME TypeOK, [Next]_vars, NEW k \in Key
  PROVE  SessionStep(k)
<1> USE DEF TypeOK
<1>1. ASSUME UNCHANGED m_sessions PROVE SessionStep(k)
  BY <1>1 DEF SessionStep
<1>2. ASSUME m_sessions' = CleanupExpired PROVE SessionStep(k)
  BY <1>2 DEF SessionStep, CleanupExpired
<1>3. ASSUME NEW c \in Conn, NEW j \in Key, NEW max \in AnnouncedMax, Register(c, j, max)
      PROVE  SessionStep(k)
  <2>1. m_sessions'[k] = IF k = j THEN Registered(m_sessions[k], c, max) ELSE m_sessions[k]
    BY <1>3, Zenon DEF Register
  <2> QED
    BY <2>1, Zenon DEF SessionStep
<1>4. CASE UNCHANGED vars
  BY <1>1, <1>4 DEF vars
<1>5. CASE Start
  BY <1>1, <1>5 DEF Start
<1>6. CASE Stop
  BY <1>6 DEF Stop, SessionStep
<1>7. ASSUME NEW c \in Conn, OnConnecting(c) PROVE SessionStep(k)
  BY <1>1, <1>7 DEF OnConnecting
<1>8. ASSUME NEW c \in Conn, OnClosed(c) PROVE SessionStep(k)
  <2>1. CASE k = m_connToSession[c]
    <3>1. /\ m_sessions'[k] = MarkMigrating(m_sessions[k])
          /\ link[c] = "open" /\ link'[c] = "closed" /\ m_connToSession'[c] = NoKey
      BY <1>8, <2>1 DEF OnClosed
    <3> QED
      BY <2>1, <3>1, Zenon DEF SessionStep
  <2>2. CASE k # m_connToSession[c]
    BY <1>8, <2>2 DEF OnClosed, SessionStep
  <2> QED
    BY <2>1, <2>2
<1>9. CASE BeginPump
  BY <1>2, <1>9 DEF BeginPump
<1>10. CASE EndPump
  BY <1>1, <1>10 DEF EndPump
<1>11. ASSUME NEW c \in Conn, HandleMessage(c) PROVE SessionStep(k)
  <2>1. ASSUME NEW j \in Key, NEW max \in AnnouncedMax, HandleAnnounce(c, j, max)
        PROVE  SessionStep(k)
    BY <1>3, <2>1 DEF HandleAnnounce
  <2>2. ASSUME NEW j \in Key, NEW max \in AnnouncedMax, HandleClaim(c, j, max)
        PROVE  SessionStep(k)
    BY <1>3, <2>2 DEF HandleClaim
  <2>3. ASSUME NEW j \in Key, NEW n \in HeartbeatCount, HandleHeartbeat(c, j, n)
        PROVE  SessionStep(k)
    <3>1. m_sessions[j].state \in SessionState
      BY Zenon DEF Session
    <3>2. Active(m_sessions[j])
      BY <2>3, <3>1 DEF HandleHeartbeat, SessionState, Active
    <3>3. m_sessions'[k] = IF k = j THEN Refreshed(m_sessions[k], n) ELSE m_sessions[k]
      BY <2>3, Zenon DEF HandleHeartbeat
    <3> QED
      BY <3>2, <3>3, Zenon DEF SessionStep
  <2>4. CASE HandleListReq(c)
    BY <1>2, <2>4 DEF HandleListReq
  <2> QED
    BY <1>11, <2>1, <2>2, <2>3, <2>4, Zenon DEF HandleMessage
<1>12. CASE Tick
  BY <1>12 DEF Tick, Aged, SessionStep
<1> QED
  BY <1>4, <1>5, <1>6, <1>7, <1>8, <1>9, <1>10, <1>11, <1>12, Zenon DEF Next

LEMMA SessionStepOK ==
  ASSUME NEW k \in Key, SessionOK(m_sessions[k]), SessionStep(k)
  PROVE  SessionOK(m_sessions'[k])
BY NoSessionOK, MarkMigratingOK, CleanedUpOK, RegisteredOK, RefreshedOK, AgedOK, Zenon
DEF SessionStep
-----------------------------------------------------------------------------
(* The inductive invariant, and the invariants it implies *)

LobbyInv ==
  /\ TypeOK
  /\ \A k \in Key : SessionOK(m_sessions[k])
  /\ RegistryHoldsOpenConns

LEMMA InitInv == Init => LobbyInv
<1> SUFFICES ASSUME Init PROVE LobbyInv
  OBVIOUS
<1>1. TypeOK
  BY NoSessionType DEF Init, TypeOK, NoResp
<1>2. \A k \in Key : SessionOK(m_sessions[k])
  BY NoSessionOK DEF Init
<1>3. RegistryHoldsOpenConns
  BY DEF Init, RegistryHoldsOpenConns
<1> QED
  BY <1>1, <1>2, <1>3 DEF LobbyInv

\* The step keeps every variable but m_sessions in its type, and the registry
\* within the open connections.
LEMMA RegistryStep ==
  ASSUME LobbyInv, [Next]_vars
  PROVE  /\ m_listen' \in BOOLEAN
         /\ link' \in [Conn -> {"none", "open", "closed"}]
         /\ m_sessions' = [k \in Key |-> m_sessions'[k]]
         /\ m_connToSession' \in [Conn -> Key \cup {NoKey}]
         /\ loop' \in {"callbacks", "messages"}
         /\ sent'.to \in Conn \cup {NoConn}
         /\ RegistryHoldsOpenConns'
<1> USE DEF LobbyInv, TypeOK, RegistryHoldsOpenConns, NoResp
<1> DEFINE Goal ==
      /\ m_listen' \in BOOLEAN
      /\ link' \in [Conn -> {"none", "open", "closed"}]
      /\ m_sessions' = [k \in Key |-> m_sessions'[k]]
      /\ m_connToSession' \in [Conn -> Key \cup {NoKey}]
      /\ loop' \in {"callbacks", "messages"}
      /\ sent'.to \in Conn \cup {NoConn}
      /\ RegistryHoldsOpenConns'
<1>1. CASE UNCHANGED vars
  BY <1>1 DEF vars
<1>2. CASE Start
  BY <1>2 DEF Start
<1>3. CASE Stop
  BY <1>3 DEF Stop
<1>4. ASSUME NEW c \in Conn, OnConnecting(c) PROVE Goal
  BY <1>4 DEF OnConnecting
<1>5. ASSUME NEW c \in Conn, OnClosed(c) PROVE Goal
  BY <1>5 DEF OnClosed
<1>6. CASE BeginPump
  BY <1>6 DEF BeginPump, CleanupExpired
<1>7. CASE EndPump
  BY <1>7 DEF EndPump
<1>8. ASSUME NEW c \in Conn, HandleMessage(c) PROVE Goal
  <2>1. ASSUME NEW j \in Key, NEW max \in AnnouncedMax, CanReceive(c), Register(c, j, max)
        PROVE  Goal
    BY <2>1 DEF CanReceive, Register
  <2>2. ASSUME NEW j \in Key, NEW n \in HeartbeatCount, HandleHeartbeat(c, j, n)
        PROVE  Goal
    BY <2>2 DEF HandleHeartbeat
  <2>3. CASE HandleListReq(c)
    BY <2>3 DEF HandleListReq, CleanupExpired
  <2> HIDE DEF Goal
  <2> QED
    BY <1>8, <2>1, <2>2, <2>3, Zenon
    DEF HandleMessage, HandleAnnounce, HandleClaim, CanRegister
<1>9. CASE Tick
  BY <1>9 DEF Tick
<1> HIDE DEF Goal
<1> QED
  <2>1. Goal
    BY <1>1, <1>2, <1>3, <1>4, <1>5, <1>6, <1>7, <1>8, <1>9, Zenon DEF Next, Goal
  <2> QED
    BY <2>1, Zenon DEF Goal

LEMMA StepInv == LobbyInv /\ [Next]_vars => LobbyInv'
<1> SUFFICES ASSUME LobbyInv, [Next]_vars PROVE LobbyInv'
  OBVIOUS
<1>1. \A k \in Key : SessionOK(m_sessions'[k])
  <2> TAKE k \in Key
  <2>1. SessionStep(k)
    BY EveryStepIsSessionStep, Zenon DEF LobbyInv
  <2> QED
    BY <2>1, SessionStepOK, Zenon DEF LobbyInv
<1>2. m_sessions' \in [Key -> Session]
  BY <1>1, RegistryStep, Zenon DEF SessionOK
<1> QED
  BY <1>1, <1>2, RegistryStep, Zenon DEF LobbyInv, TypeOK

THEOREM Invariance == Spec => []LobbyInv
BY InitInv, StepInv, PTL DEF Spec

\* The variables keep their types.
THEOREM TypeCorrectness == Spec => []TypeOK
BY Invariance, PTL DEF LobbyInv

\* Whoever lists a session as joinable lists the address of the connection
\* that owns it now.
THEOREM OwnershipCorrectness == Spec => []OwnedIffActive
<1>1. LobbyInv => OwnedIffActive
  BY Zenon DEF LobbyInv, SessionOK, OwnedIffActive
<1> QED
  BY <1>1, Invariance, PTL

\* The grace clock runs while a session is Migrating, and only then.
THEOREM GraceClockCorrectness == Spec => []GraceClockRuns
<1>1. LobbyInv => GraceClockRuns
  BY Zenon DEF LobbyInv, SessionOK, GraceClockRuns
<1> QED
  BY <1>1, Invariance, PTL

\* No entry of the registry outlives its connection.
THEOREM RegistryCorrectness == Spec => []RegistryHoldsOpenConns
BY Invariance, PTL DEF LobbyInv

-----------------------------------------------------------------------------
(* Action properties *)

\* An active session is orphaned only with a cause: silence, the close of a
\* registered connection, or the stop of the server.
THEOREM OrphaningHasCause == Spec => OrphanedWithCause
<1>1. ASSUME LobbyInv, [Next]_vars, NEW k \in Key,
             Active(m_sessions[k]), ~Active(m_sessions'[k])
      PROVE  \/ m_sessions[k].lastSeen > kActiveTTL
             \/ \E c \in Conn : m_connToSession[c] = k /\ link[c] # link'[c]
             \/ ~m_listen'
  <2>1. m_sessions[k] \in Session
    BY <1>1, Zenon DEF LobbyInv, SessionOK
  <2>2. SessionStep(k)
    BY <1>1, EveryStepIsSessionStep, Zenon DEF LobbyInv
  <2>3. CASE m_sessions'[k] = CleanedUp(m_sessions[k])
    BY <1>1, <2>3 DEF CleanedUp, ActiveExpired, GraceExpired, Active
  <2>4. CASE \E c \in Conn, max \in AnnouncedMax :
               m_sessions'[k] = Registered(m_sessions[k], c, max)
    BY <1>1, <2>1, <2>4, RegisteredFields, Zenon DEF Active
  <2>5. CASE \E n \in HeartbeatCount : m_sessions'[k] = Refreshed(m_sessions[k], n)
    BY <1>1, <2>1, <2>5, RefreshedFields, Zenon DEF Active
  <2>6. CASE m_sessions'[k] = Aged(m_sessions[k])
    <3>1. m_sessions[k].state # "None"
      BY <1>1 DEF Active
    <3> QED
      BY <1>1, <2>1, <2>6, <3>1, AgedFields DEF Active
  <2>7. CASE \E c \in Conn : /\ m_connToSession[c] = k
                            /\ link[c] = "open" /\ link'[c] = "closed"
    BY <2>7
  <2> QED
    BY <1>1, <2>2, <2>3, <2>4, <2>5, <2>6, <2>7, Zenon DEF SessionStep
<1>2. LobbyInv /\ [Next]_vars =>
        [\A k \in Key :
           Active(m_sessions[k]) /\ ~Active(m_sessions'[k]) =>
             \/ m_sessions[k].lastSeen > kActiveTTL
             \/ \E c \in Conn : m_connToSession[c] = k /\ link[c] # link'[c]
             \/ ~m_listen']_vars
  BY <1>1, Zenon
<1> QED
  BY <1>2, Invariance, PTL DEF Spec, OrphanedWithCause

-----------------------------------------------------------------------------
(* Sessions run down *)

\* TimeLeft orders the states of a session: absent, orphaned, active.
LEMMA TimeLeftRange ==
  ASSUME NEW s, SessionOK(s)
  PROVE  /\ TimeLeft(s) \in Nat
         /\ s.state = "None" => TimeLeft(s) = 0
         /\ s.state = "Migrating" => /\ TimeLeft(s) = kGraceTTL + 2 - s.migratingSince
                                     /\ TimeLeft(s) \in 1..(kGraceTTL + 2)
         /\ Active(s) => /\ TimeLeft(s) = (kActiveTTL + 2 - s.lastSeen) + (kGraceTTL + 2)
                         /\ TimeLeft(s) > kGraceTTL + 2
<1>1. /\ s.lastSeen \in 0..(kActiveTTL + 1)
      /\ s.migratingSince \in NotSet..(kGraceTTL + 1)
      /\ s.state \in {"None", "Open", "Full", "Migrating"}
      /\ s.state = "Migrating" <=> s.migratingSince # NotSet
  BY Zenon DEF SessionOK, Session, SessionState
<1> QED
  BY <1>1, TTLTypes DEF TimeLeft, Active, NotSet

LEMMA AgedRunsDown ==
  ASSUME NEW s, SessionOK(s)
  PROVE  /\ TimeLeft(Aged(s)) <= TimeLeft(s)
         /\ s.state # "None" /\ ~ActiveExpired(s) /\ ~GraceExpired(s)
              => TimeLeft(Aged(s)) < TimeLeft(s)
<1>1. CASE s.state = "None"
  <2>1. Aged(s) = s
    BY <1>1 DEF Aged
  <2> QED
    BY <1>1, <2>1, TimeLeftRange
<1>2. CASE s.state # "None"
  <2> DEFINE t == Aged(s)
  <2>1. /\ t.state = s.state
        /\ t.lastSeen = Older(s.lastSeen, kActiveTTL)
        /\ t.migratingSince = Older(s.migratingSince, kGraceTTL)
    BY <1>2, AgedFields DEF SessionOK
  <2>2. SessionOK(t)
    BY AgedOK
  <2>3. /\ s.lastSeen \in 0..(kActiveTTL + 1)
        /\ s.migratingSince \in NotSet..(kGraceTTL + 1)
        /\ s.state \in {"Open", "Full", "Migrating"}
        /\ s.state = "Migrating" <=> s.migratingSince # NotSet
    BY <1>2, Zenon DEF SessionOK, Session, SessionState
  <2>4. CASE s.state = "Migrating"
    BY <2>1, <2>2, <2>3, <2>4, TimeLeftRange, TTLTypes DEF Older, NotSet, GraceExpired
  <2>5. CASE Active(s)
    <3>1. Active(t)
      BY <2>1, <2>5 DEF Active
    <3>2. /\ TimeLeft(s) = (kActiveTTL + 2 - s.lastSeen) + (kGraceTTL + 2)
          /\ TimeLeft(t) = (kActiveTTL + 2 - t.lastSeen) + (kGraceTTL + 2)
      BY <2>2, <2>5, <3>1, TimeLeftRange
    <3>3. t.lastSeen = IF s.lastSeen > kActiveTTL THEN s.lastSeen ELSE s.lastSeen + 1
      BY <2>1, <2>3, TTLTypes DEF Older, NotSet
    <3>4. TimeLeft(t) <= TimeLeft(s) /\ (~ActiveExpired(s) => TimeLeft(t) < TimeLeft(s))
      <4> HIDE DEF t
      <4> QED
        BY <2>3, <2>5, <3>2, <3>3, TTLTypes DEF ActiveExpired
    <3> QED
      BY <3>4
  <2> QED
    BY <2>3, <2>4, <2>5 DEF Active
<1> QED
  BY <1>1, <1>2

LEMMA CleanedUpRunsDown ==
  ASSUME NEW s, SessionOK(s)
  PROVE  /\ TimeLeft(CleanedUp(s)) <= TimeLeft(s)
         /\ ActiveExpired(s) \/ GraceExpired(s) => TimeLeft(CleanedUp(s)) < TimeLeft(s)
<1> DEFINE t == CleanedUp(s)
<1>1. SessionOK(t) /\ s \in Session
  BY CleanedUpOK DEF SessionOK
<1>2. CASE ActiveExpired(s)
  <2>1. t = MarkMigrating(s) /\ s.state # "None" /\ Active(s)
    BY <1>2 DEF CleanedUp, ActiveExpired, Active
  <2>2. t.state = "Migrating"
    BY <1>1, <2>1, MarkMigratingFields
  <2>3. TimeLeft(t) \in 1..(kGraceTTL + 2)
    BY <1>1, <2>2, TimeLeftRange
  <2>4. TimeLeft(s) \in Nat /\ TimeLeft(s) > kGraceTTL + 2
    BY <2>1, TimeLeftRange
  <2> QED
    BY <2>3, <2>4, TTLTypes
<1>3. CASE ~ActiveExpired(s) /\ GraceExpired(s)
  <2>1. t.state = "None" /\ s.state = "Migrating"
    BY <1>3, NoSessionFields DEF CleanedUp, GraceExpired
  <2> QED
    BY <1>1, <2>1, TimeLeftRange
<1>4. CASE ~ActiveExpired(s) /\ ~GraceExpired(s)
  <2>1. t = s
    BY <1>4 DEF CleanedUp
  <2> QED
    BY <1>4, <2>1, TimeLeftRange
<1> QED
  BY <1>2, <1>3, <1>4

\* A session that nothing renews runs down, for all TTLs: what is missing to
\* AbandonedSessionExpires is only that a natural number cannot fall for ever.
THEOREM SessionsAreMortal == Spec => SessionsRunDown
<1>1. ASSUME LobbyInv, [Next]_vars, NEW k \in Key
      PROVE  LET s == m_sessions[k]
                 t == m_sessions'[k]
                 overdue == ActiveExpired(s) \/ GraceExpired(s)
             IN  \/ Active(t) /\ t.lastSeen = 0
                 \/ \E c \in Conn : m_connToSession[c] = k /\ link[c] = "open" /\ link'[c] = "closed"
                 \/ /\ TimeLeft(t) <= TimeLeft(s)
                    /\ s.state # "None" /\ (IF overdue THEN BeginPump ELSE Tick)
                         => TimeLeft(t) < TimeLeft(s)
  <2> DEFINE s == m_sessions[k]
             t == m_sessions'[k]
             overdue == ActiveExpired(s) \/ GraceExpired(s)
             Renewed == Active(t) /\ t.lastSeen = 0
             Closed == \E c \in Conn : m_connToSession[c] = k /\ link[c] = "open" /\ link'[c] = "closed"
  <2>1. SessionStep(k) /\ SessionOK(s)
    BY <1>1, EveryStepIsSessionStep DEF LobbyInv
  <2>2. Renewed \/ Closed \/ t \in {s, NoSession, CleanedUp(s), Aged(s)}
    <3>1. ASSUME NEW c \in Conn, NEW max \in AnnouncedMax, t = Registered(s, c, max) PROVE Renewed
      BY <2>1, <3>1, RegisteredFields DEF SessionOK, Active
    <3>2. ASSUME NEW n \in HeartbeatCount, t = Refreshed(s, n) PROVE Renewed
      BY <2>1, <3>2, RefreshedFields DEF SessionOK, Active
    <3> QED
      BY <2>1, <3>1, <3>2, Zenon DEF SessionStep
  <2>3. /\ TimeLeft(NoSession) = 0 /\ TimeLeft(s) \in Nat
        /\ TimeLeft(CleanedUp(s)) <= TimeLeft(s)
        /\ TimeLeft(Aged(s)) <= TimeLeft(s)
    BY <2>1, NoSessionOK, NoSessionFields, TimeLeftRange, CleanedUpRunsDown, AgedRunsDown
  <2>4. Renewed \/ Closed \/ TimeLeft(t) <= TimeLeft(s)
    <3> HIDE DEF s, t, Renewed, Closed
    <3> QED
      BY <2>2, <2>3
  <2>5. ASSUME s.state # "None", ~overdue, Tick PROVE TimeLeft(t) < TimeLeft(s)
    <3>1. t = Aged(s)
      BY <2>5 DEF Tick, Aged
    <3> QED
      BY <2>1, <2>5, <3>1, AgedRunsDown
  <2>6. ASSUME overdue, BeginPump PROVE TimeLeft(t) < TimeLeft(s)
    <3>1. t = CleanedUp(s)
      BY <2>6 DEF BeginPump, CleanupExpired
    <3> QED
      BY <2>1, <2>6, <3>1, CleanedUpRunsDown
  <2> QED
    BY <2>4, <2>5, <2>6, Zenon
<1>2. LobbyInv /\ [Next]_vars =>
        [\A k \in Key :
           LET s == m_sessions[k]
               t == m_sessions'[k]
               overdue == ActiveExpired(s) \/ GraceExpired(s)
           IN  \/ Active(t) /\ t.lastSeen = 0
               \/ \E c \in Conn : m_connToSession[c] = k /\ link[c] = "open" /\ link'[c] = "closed"
               \/ /\ TimeLeft(t) <= TimeLeft(s)
                  /\ s.state # "None" /\ (IF overdue THEN BeginPump ELSE Tick)
                       => TimeLeft(t) < TimeLeft(s)]_vars
  BY <1>1
<1> QED
  BY <1>2, Invariance, PTL DEF Spec, SessionsRunDown

-----------------------------------------------------------------------------
(* List responses *)

LEMMA CleanedUpIsCurrent ==
  ASSUME NEW s \in Session, CleanedUp(s).state # "None"
  PROVE  /\ Active(CleanedUp(s)) => CleanedUp(s).lastSeen <= kActiveTTL
         /\ ~Active(CleanedUp(s)) => CleanedUp(s).migratingSince <= kGraceTTL
<1>1. /\ s.lastSeen \in 0..(kActiveTTL + 1)
      /\ s.migratingSince \in NotSet..(kGraceTTL + 1)
      /\ s.state \in SessionState
  BY Zenon DEF Session
<1>2. CASE ActiveExpired(s)
  <2>1. CleanedUp(s) = MarkMigrating(s) /\ s.state # "None"
    BY <1>2 DEF CleanedUp, ActiveExpired, Active
  <2> QED
    BY <2>1, MarkMigratingFields, TTLTypes DEF Active
<1>3. CASE ~ActiveExpired(s) /\ GraceExpired(s)
  BY <1>3, NoSessionFields DEF CleanedUp
<1>4. CASE ~ActiveExpired(s) /\ ~GraceExpired(s)
  <2>1. CleanedUp(s) = s
    BY <1>4 DEF CleanedUp
  <2> QED
    BY <1>1, <1>4, <2>1, TTLTypes DEF ActiveExpired, GraceExpired, Active, SessionState, NotSet
<1> QED
  BY <1>2, <1>3, <1>4

\* A browser is never shown a session that had already expired when the list
\* was built.
THEOREM ListsAreCurrent == Spec => []ListedSessionsAreCurrent
<1>1. Init => ListedSessionsAreCurrent
  BY DEF Init, NoResp, ListedSessionsAreCurrent
<1>2. ASSUME LobbyInv, ListedSessionsAreCurrent, [Next]_vars
      PROVE  ListedSessionsAreCurrent'
  <2>1. CASE UNCHANGED vars
    BY <1>2, <2>1 DEF vars, ListedSessionsAreCurrent, Active
  <2>2. CASE sent' = NoResp
    BY <2>2 DEF NoResp, ListedSessionsAreCurrent
  <2>3. ASSUME NEW c \in Conn, HandleListReq(c) PROVE ListedSessionsAreCurrent'
    <3>1. PICK K \in Listable(m_sessions') :
            sent' = [to |-> c, entries |-> {SessionEntry(m_sessions', k) : k \in K}]
      BY <2>3, Zenon DEF HandleListReq
    <3>2. \A k \in K : k \in Key /\ m_sessions'[k].state # "None"
      BY <3>1 DEF Listable, Present
    <3>3. ASSUME NEW e \in sent'.entries
          PROVE  LET s == m_sessions'[e.sessionKey]
                 IN  /\ s.state # "None" /\ e.state = s.state /\ e.addr = s.addr
                     /\ Active(s) => s.lastSeen <= kActiveTTL
                     /\ ~Active(s) => s.migratingSince <= kGraceTTL
      <4>1. PICK k \in K : e = SessionEntry(m_sessions', k)
        BY <3>1, <3>3
      <4>2. /\ e.sessionKey = k
            /\ e.state = m_sessions'[k].state
            /\ e.addr = m_sessions'[k].addr
        BY <4>1 DEF SessionEntry
      <4>3. m_sessions[k] \in Session /\ m_sessions'[k] = CleanedUp(m_sessions[k])
        BY <1>2, <2>3, <3>2, Zenon DEF LobbyInv, SessionOK, HandleListReq, CleanupExpired
      <4> QED
        BY <3>2, <4>2, <4>3, CleanedUpIsCurrent
    <3> QED
      BY <3>3, Zenon DEF ListedSessionsAreCurrent
  <2> QED
    BY <1>2, <2>1, <2>2, <2>3 DEF Next, Start, Stop, OnConnecting, OnClosed, BeginPump,
      EndPump, HandleMessage, HandleAnnounce, HandleClaim, Register, HandleHeartbeat, Tick
<1> QED
  BY <1>1, <1>2, Invariance, PTL DEF Spec

-----------------------------------------------------------------------------
(* The owner of a session is registered for it, if it keeps to one key *)

\* A connection is registered only for a key it may announce.
RegistryFollowsAnnounces ==
  \A c \in Conn :
    m_connToSession[c] # NoKey => <<c, m_connToSession[c]>> \in Announces

LEMMA RegistryFollowsAnnouncesStep ==
  ASSUME LobbyInv, RegistryFollowsAnnounces, [Next]_vars
  PROVE  RegistryFollowsAnnounces'
<1> USE DEF LobbyInv, TypeOK, RegistryFollowsAnnounces
<1>1. CASE UNCHANGED m_connToSession
  BY <1>1
<1>2. CASE Stop
  BY <1>2 DEF Stop
<1>3. ASSUME NEW c \in Conn, OnClosed(c) PROVE RegistryFollowsAnnounces'
  BY <1>3 DEF OnClosed
<1>4. ASSUME NEW c \in Conn, NEW k \in Key, <<c, k>> \in Announces,
             m_connToSession' = [m_connToSession EXCEPT ![c] = k]
      PROVE  RegistryFollowsAnnounces'
  BY <1>4
<1> HIDE DEF RegistryFollowsAnnounces
<1> QED
  BY <1>1, <1>2, <1>3, <1>4, Zenon
  DEF vars, Next, Start, OnConnecting, BeginPump, EndPump, HandleMessage,
    HandleAnnounce, HandleClaim, CanRegister, Register, HandleHeartbeat, HandleListReq, Tick

\* A session that survives a step as active without a registration keeps the
\* owner it had.
LEMMA OwnerKept ==
  ASSUME NEW s \in Session, NEW t,
         \/ t = s \/ t = NoSession \/ t = MarkMigrating(s) \/ t = CleanedUp(s) \/ t = Aged(s)
         \/ \E n \in HeartbeatCount : Active(s) /\ t = Refreshed(s, n),
         Active(t)
  PROVE  Active(s) /\ t.ownerConn = s.ownerConn
<1>1. CASE t = s
  BY <1>1
<1>2. t # NoSession
  BY NoSessionFields DEF Active
<1>3. CASE t = MarkMigrating(s)
  <2>1. s.state = "None"
    BY <1>3, MarkMigratingFields DEF Active
  <2> QED
    BY <1>1, <1>3, <2>1 DEF MarkMigrating
<1>4. CASE t = CleanedUp(s)
  BY <1>1, <1>2, <1>3, <1>4 DEF CleanedUp
<1>5. CASE t = Aged(s)
  <2>1. CASE s.state = "None"
    BY <1>1, <1>5, <2>1 DEF Aged
  <2>2. CASE s.state # "None"
    BY <1>5, <2>2, AgedFields DEF Active
  <2> QED
    BY <2>1, <2>2
<1>6. CASE \E n \in HeartbeatCount : Active(s) /\ t = Refreshed(s, n)
  BY <1>6, RefreshedFields
<1> QED
  BY <1>1, <1>2, <1>3, <1>4, <1>5, <1>6

LEMMA OwnersAreRegisteredStep ==
  ASSUME LobbyInv, RegistryFollowsAnnounces, OwnersAreRegistered, [Next]_vars,
         NEW k \in Key, Active(m_sessions'[k]), KeepsToOneKey(m_sessions'[k].ownerConn)
  PROVE  m_connToSession'[m_sessions'[k].ownerConn] = k
<1> DEFINE s == m_sessions[k]
           t == m_sessions'[k]
           o == s.ownerConn
<1>1. s \in Session /\ SessionOK(s)
  BY Zenon DEF LobbyInv, SessionOK
<1>2. Active(s) /\ KeepsToOneKey(o) => o \in Conn /\ m_connToSession[o] = k
  BY <1>1, Zenon DEF SessionOK, Session, OwnersAreRegistered
<1>3. m_connToSession \in [Conn -> Key \cup {NoKey}]
  BY Zenon DEF LobbyInv, TypeOK
<1>4. ASSUME UNCHANGED m_connToSession,
             \/ t = s \/ t = NoSession \/ t = MarkMigrating(s) \/ t = CleanedUp(s) \/ t = Aged(s)
             \/ \E n \in HeartbeatCount : Active(s) /\ t = Refreshed(s, n)
      PROVE  m_connToSession'[t.ownerConn] = k
  <2>1. Active(s) /\ t.ownerConn = o
    BY <1>1, <1>4, OwnerKept, Zenon
  <2> QED
    BY <1>2, <1>4, <2>1
<1>5. CASE UNCHANGED vars \/ Start \/ EndPump
  BY <1>4, <1>5 DEF vars, Start, EndPump
<1>6. CASE Stop
  BY <1>6, NoSessionFields DEF Stop, Active
<1>7. ASSUME NEW c \in Conn, OnConnecting(c) PROVE m_connToSession'[t.ownerConn] = k
  BY <1>4, <1>7 DEF OnConnecting
<1>8. ASSUME NEW c \in Conn, OnClosed(c) PROVE m_connToSession'[t.ownerConn] = k
  <2>1. t = IF k = m_connToSession[c] THEN MarkMigrating(s) ELSE s
    BY <1>8 DEF OnClosed
  <2>2. Active(s) /\ t.ownerConn = o
    BY <1>1, <2>1, OwnerKept
  <2>3. k # m_connToSession[c]
    <3>1. ASSUME t = MarkMigrating(s) PROVE FALSE
      <4>1. s.state # "None"
        BY <2>2 DEF Active
      <4> QED
        BY <1>1, <3>1, <4>1, MarkMigratingFields DEF Active
    <3> QED
      BY <2>1, <3>1
  <2>4. o # c /\ o \in Conn /\ m_connToSession[o] = k
    BY <1>2, <2>2, <2>3
  <2> QED
    BY <1>3, <1>8, <2>2, <2>4 DEF OnClosed
<1>9. CASE BeginPump
  BY <1>4, <1>9 DEF BeginPump, CleanupExpired
<1>10. ASSUME NEW c \in Conn, NEW j \in Key, NEW max \in AnnouncedMax,
              <<c, j>> \in Announces, Register(c, j, max)
       PROVE  m_connToSession'[t.ownerConn] = k
  <2>1. m_sessions \in [Key -> Session]
    BY Zenon DEF LobbyInv, TypeOK
  <2>2. m_connToSession' = [m_connToSession EXCEPT ![c] = j]
    BY <1>10 DEF Register
  <2>3. CASE k = j
    <3>1. t = Registered(s, c, max)
      BY <1>10, <2>1, <2>3 DEF Register
    <3>2. t.ownerConn = c
      BY <1>1, <3>1, RegisteredFields
    <3> QED
      BY <1>3, <2>2, <2>3, <3>2
  <2>4. CASE k # j
    <3>1. t = s
      BY <1>10, <2>1, <2>4 DEF Register
    <3>2. o \in Conn /\ m_connToSession[o] = k /\ k # NoKey
      BY <1>2, <3>1, SentinelTypes
    <3>3. o # c
      <4>1. KeepsToOneKey(o)
        BY <3>1
      <4>2. <<o, k>> \in Announces
        BY <3>2, Zenon DEF RegistryFollowsAnnounces
      <4> HIDE DEF o
      <4> QED
        BY <1>10, <2>4, <4>1, <4>2, Zenon DEF KeepsToOneKey
    <3> QED
      BY <1>3, <2>2, <3>1, <3>2, <3>3
  <2> QED
    BY <2>3, <2>4
<1>11. ASSUME NEW c \in Conn, NEW j \in Key, NEW n \in HeartbeatCount, HandleHeartbeat(c, j, n)
       PROVE  m_connToSession'[t.ownerConn] = k
  <2>1. m_sessions \in [Key -> Session] /\ m_sessions[j].state \in SessionState
    BY Zenon DEF LobbyInv, TypeOK, Session
  <2>2. Active(m_sessions[j])
    BY <1>11, <2>1 DEF HandleHeartbeat, SessionState, Active
  <2>3. t = IF k = j THEN Refreshed(s, n) ELSE s
    BY <1>11, <2>1, Zenon DEF HandleHeartbeat
  <2>4. UNCHANGED m_connToSession
    BY <1>11 DEF HandleHeartbeat
  <2> HIDE DEF s, t
  <2> QED
    BY <1>4, <2>2, <2>3, <2>4 DEF s
<1>12. ASSUME NEW c \in Conn, HandleListReq(c) PROVE m_connToSession'[t.ownerConn] = k
  BY <1>4, <1>12 DEF HandleListReq, CleanupExpired
<1>13. CASE Tick
  BY <1>4, <1>13 DEF Tick, Aged
<1> QED
  BY <1>5, <1>6, <1>7, <1>8, <1>9, <1>10, <1>11, <1>12, <1>13, Zenon
  DEF Next, HandleMessage, HandleAnnounce, HandleClaim, CanRegister

\* An owner that keeps to one session key, as a host does, is always a
\* connection whose close will be noticed.
THEOREM OwnersStayRegistered == Spec => []OwnersAreRegistered
<1> DEFINE Inv == RegistryFollowsAnnounces /\ OwnersAreRegistered
<1>1. Init => Inv
  BY NoSessionFields DEF Init, RegistryFollowsAnnounces, OwnersAreRegistered, Active
<1>2. ASSUME LobbyInv, Inv, [Next]_vars PROVE Inv'
  <2>1. RegistryFollowsAnnounces'
    BY <1>2, RegistryFollowsAnnouncesStep
  <2>2. OwnersAreRegistered'
    BY <1>2, OwnersAreRegisteredStep, Zenon DEF OwnersAreRegistered, Active
  <2> QED
    BY <2>1, <2>2
<1>3. Inv => OwnersAreRegistered
  OBVIOUS
<1> HIDE DEF Inv
<1> QED
  BY <1>1, <1>2, <1>3, Invariance, PTL DEF Spec

-----------------------------------------------------------------------------
(* LobbyServer implements SessionLease *)

phaseOf == [k \in Key |-> LeasePhase(m_sessions[k])]
holderOf == [k \in Key |-> m_sessions[k].ownerConn]
ageOf == [k \in Key |-> LeaseAge(m_sessions[k])]

\* Taking, renewing and orphaning change one lease and no other.
LEMMA OneLeaseChanges ==
  ASSUME NEW k \in Key, NEW t, m_sessions' = [m_sessions EXCEPT ![k] = t],
         m_sessions \in [Key -> Session]
  PROVE  /\ phaseOf' = [phaseOf EXCEPT ![k] = LeasePhase(t)]
         /\ holderOf' = [holderOf EXCEPT ![k] = t.ownerConn]
         /\ ageOf' = [ageOf EXCEPT ![k] = LeaseAge(t)]
<1>1. \A j \in Key : m_sessions'[j] = IF j = k THEN t ELSE m_sessions[j]
  BY Zenon
<1> QED
  BY <1>1 DEF phaseOf, holderOf, ageOf

LEMMA InitLease == Init => Lease!Init
<1>1. LeasePhase(NoSession) = "vacant" /\ LeaseAge(NoSession) = 0
  BY NoSessionFields DEF LeasePhase, LeaseAge
<1> QED
  BY <1>1, NoSessionFields DEF Init, Lease!Init

\* A clean-up sweeps the overdue leases, or changes nothing if there are none.
LEMMA CleanupIsSweep ==
  ASSUME LobbyInv, m_sessions' = CleanupExpired, UNCHANGED m_listen
  PROVE  Lease!Sweep \/ UNCHANGED <<m_listen, phaseOf, holderOf, ageOf>>
<1> DEFINE Overdue == {k \in Key : ActiveExpired(m_sessions[k]) \/ GraceExpired(m_sessions[k])}
<1>1. ASSUME NEW k \in Key
      PROVE  /\ SessionOK(m_sessions[k]) /\ m_sessions[k] \in Session
             /\ m_sessions[k].state \in SessionState
             /\ m_sessions'[k] = CleanedUp(m_sessions[k])
  BY Zenon DEF LobbyInv, SessionOK, Session, CleanupExpired
<1>2. Lease!Overdue = Overdue
  BY <1>1 DEF Lease!Overdue, Lease!TTL, ActiveExpired, GraceExpired, Active, SessionState,
    LeasePhase, LeaseAge, SessionOK
<1>3. ASSUME NEW k \in Key, k \notin Overdue PROVE m_sessions'[k] = m_sessions[k]
  BY <1>1, <1>3 DEF CleanedUp
<1>4. ASSUME NEW k \in Key, ActiveExpired(m_sessions[k])
      PROVE  /\ phaseOf[k] = "held" /\ phaseOf'[k] = "orphaned"
             /\ holderOf'[k] = NoConn /\ ageOf'[k] = 0
  <2>1. m_sessions'[k] = MarkMigrating(m_sessions[k]) /\ m_sessions[k].state \in {"Open", "Full"}
    BY <1>1, <1>4 DEF CleanedUp, ActiveExpired, Active
  <2> QED
    BY <1>1, <2>1, MarkMigratingFields DEF phaseOf, holderOf, ageOf, LeasePhase, LeaseAge
<1>5. ASSUME NEW k \in Key, GraceExpired(m_sessions[k])
      PROVE  /\ phaseOf[k] = "orphaned" /\ phaseOf'[k] = "vacant"
             /\ holderOf'[k] = NoConn /\ ageOf'[k] = 0
  <2>1. m_sessions'[k] = NoSession /\ m_sessions[k].state = "Migrating"
    BY <1>1, <1>5 DEF CleanedUp, ActiveExpired, GraceExpired, Active
  <2> QED
    BY <2>1, NoSessionFields DEF phaseOf, holderOf, ageOf, LeasePhase, LeaseAge
<1>6. CASE Overdue = {}
  BY <1>3, <1>6 DEF phaseOf, holderOf, ageOf
<1>7. CASE Overdue # {}
  <2>1. phaseOf' = [k \in Key |-> IF k \notin Overdue THEN phaseOf[k]
                                ELSE IF phaseOf[k] = "held" THEN "orphaned" ELSE "vacant"]
    BY <1>3, <1>4, <1>5 DEF phaseOf
  <2>2. holderOf' = [k \in Key |-> IF k \in Overdue THEN NoConn ELSE holderOf[k]]
    BY <1>3, <1>4, <1>5 DEF holderOf
  <2>3. ageOf' = [k \in Key |-> IF k \in Overdue THEN 0 ELSE ageOf[k]]
    BY <1>3, <1>4, <1>5 DEF ageOf
  <2> QED
    BY <1>2, <1>7, <2>1, <2>2, <2>3 DEF Lease!Sweep, phaseOf, holderOf, ageOf
<1> QED
  BY <1>6, <1>7

\* Tick ages a lease by one unless it is vacant or overdue.
LEMMA TickIsTick ==
  ASSUME LobbyInv, Tick
  PROVE  Lease!Tick
<1>1. ASSUME NEW k \in Key
      PROVE  /\ LeasePhase(m_sessions'[k]) = LeasePhase(m_sessions[k])
             /\ m_sessions'[k].ownerConn = m_sessions[k].ownerConn
             /\ LeaseAge(m_sessions'[k]) =
                  IF LeasePhase(m_sessions[k]) = "vacant" \/ k \in Lease!Overdue
                  THEN LeaseAge(m_sessions[k]) ELSE LeaseAge(m_sessions[k]) + 1
  <2> DEFINE s == m_sessions[k]
  <2>1. /\ SessionOK(s) /\ s \in Session /\ s.state \in SessionState
        /\ s.lastSeen \in 0..(kActiveTTL + 1)
        /\ s.migratingSince \in NotSet..(kGraceTTL + 1)
    BY Zenon DEF LobbyInv, SessionOK, Session
  <2>2. m_sessions'[k] = Aged(s)
    BY <1>1 DEF Tick, Aged
  <2>3. k \in Lease!Overdue <=>
          /\ LeasePhase(s) # "vacant"
          /\ LeaseAge(s) > IF LeasePhase(s) = "held" THEN kActiveTTL ELSE kGraceTTL
    BY DEF Lease!Overdue, Lease!TTL
  <2> HIDE DEF s
  <2>4. CASE s.state = "None"
    BY <2>2, <2>4 DEF Aged, LeasePhase, s
  <2>5. CASE s.state = "Migrating"
    <3>1. s.migratingSince # NotSet
      BY <2>1, <2>5 DEF SessionOK
    <3> QED
      BY <2>1, <2>2, <2>3, <2>5, <3>1, AgedFields DEF LeasePhase, LeaseAge, Older, NotSet, s
  <2>6. CASE s.state \in {"Open", "Full"}
    BY <2>1, <2>2, <2>3, <2>6, AgedFields DEF LeasePhase, LeaseAge, Older, NotSet, s
  <2> QED
    BY <2>1, <2>4, <2>5, <2>6 DEF SessionState
<1> QED
  BY <1>1 DEF Tick, Lease!Tick

LEMMA StepLease ==
  ASSUME LobbyInv, [Next]_vars
  PROVE  [Lease!Next]_(Lease!vars)
<1> DEFINE Goal == Lease!Next \/ UNCHANGED <<m_listen, phaseOf, holderOf, ageOf>>
<1> SUFFICES Goal
  BY Zenon DEF Lease!vars, phaseOf, holderOf, ageOf
<1>1. m_sessions \in [Key -> Session] /\ \A k \in Key : SessionOK(m_sessions[k])
  BY Zenon DEF LobbyInv, TypeOK
<1>2. CASE UNCHANGED <<m_listen, m_sessions>>
  BY <1>2 DEF phaseOf, holderOf, ageOf
<1>3. CASE m_sessions' = CleanupExpired /\ UNCHANGED m_listen
  BY <1>3, CleanupIsSweep, Zenon DEF Lease!Next
<1>4. CASE Stop
  BY <1>4, NoSessionFields DEF Stop, Lease!Close, Lease!Next, LeasePhase, LeaseAge
<1>5. ASSUME NEW c \in Conn, OnClosed(c) PROVE Goal
  <2>1. ASSUME NEW k \in Key, k = m_connToSession[c], m_sessions[k].state # "None"
        PROVE  Goal
    <3>1. m_sessions' = [m_sessions EXCEPT ![k] = MarkMigrating(m_sessions[k])]
      BY <1>1, <1>5, <2>1 DEF OnClosed
    <3>2. /\ LeasePhase(MarkMigrating(m_sessions[k])) = "orphaned"
          /\ LeaseAge(MarkMigrating(m_sessions[k])) = 0
          /\ MarkMigrating(m_sessions[k]).ownerConn = NoConn
      BY <1>1, <2>1, MarkMigratingFields DEF LeasePhase, LeaseAge
    <3>3. LeasePhase(m_sessions[k]) # "vacant"
      BY <2>1 DEF LeasePhase
    <3>4. Lease!Orphan(k)
      BY <1>1, <1>5, <2>1, <3>1, <3>2, <3>3, OneLeaseChanges
      DEF OnClosed, Lease!Orphan, phaseOf, holderOf, ageOf
    <3> QED
      BY <3>4, Zenon DEF Lease!Next
  <2>2. CASE ~\E k \in Key : k = m_connToSession[c] /\ m_sessions[k].state # "None"
    <3>1. m_sessions' = m_sessions
      BY <1>1, <1>5, <2>2 DEF OnClosed, MarkMigrating
    <3> QED
      BY <1>2, <1>5, <3>1 DEF OnClosed
  <2> QED
    BY <2>1, <2>2
<1>6. ASSUME NEW c \in Conn, NEW k \in Key, NEW max \in AnnouncedMax,
             Register(c, k, max), m_listen = TRUE
      PROVE  Goal
  <2> DEFINE t == Registered(m_sessions[k], c, max)
  <2>1. m_sessions' = [m_sessions EXCEPT ![k] = t]
    BY <1>6, Zenon DEF Register
  <2>2. LeasePhase(t) = "held" /\ LeaseAge(t) = 0 /\ t.ownerConn = c
    BY <1>1, RegisteredFields DEF LeasePhase, LeaseAge
  <2> HIDE DEF t
  <2>3. Lease!Take(k, c)
    BY <1>1, <1>6, <2>1, <2>2, OneLeaseChanges DEF Register, Lease!Take, phaseOf, holderOf, ageOf
  <2> QED
    BY <2>3, Zenon DEF Lease!Next
<1>7. ASSUME NEW c \in Conn, NEW k \in Key, NEW n \in HeartbeatCount, HandleHeartbeat(c, k, n)
      PROVE  Goal
  <2> DEFINE s == m_sessions[k]
             t == Refreshed(s, n)
  <2>1. s.state \in SessionState /\ s \in Session
    BY <1>1, Zenon DEF Session
  <2>2. Active(s)
    BY <1>7, <2>1 DEF HandleHeartbeat, SessionState, Active
  <2>3. m_sessions' = [m_sessions EXCEPT ![k] = t]
    BY <1>7, Zenon DEF HandleHeartbeat
  <2>4. LeasePhase(s) = "held" /\ LeasePhase(t) = "held" /\ LeaseAge(t) = 0 /\ t.ownerConn = s.ownerConn
    BY <2>1, <2>2, RefreshedFields DEF LeasePhase, LeaseAge, Active
  <2> HIDE DEF t
  <2>5. UNCHANGED m_listen
    BY <1>7, Zenon DEF HandleHeartbeat
  <2>6. Lease!Renew(k)
    BY <1>1, <2>3, <2>4, <2>5, OneLeaseChanges DEF Lease!Renew, phaseOf, holderOf, ageOf
  <2> QED
    BY <2>6, Zenon DEF Lease!Next
<1>8. CASE Tick
  BY <1>8, TickIsTick DEF Lease!Next
<1>9. CASE Start
  <2>1. Lease!Open
    BY <1>9 DEF Start, Lease!Open
  <2> QED
    BY <2>1, Zenon DEF Lease!Next
<1>10. m_listen \in BOOLEAN
  BY Zenon DEF LobbyInv, TypeOK
<1> HIDE DEF Goal
<1> QED
  BY <1>2, <1>3, <1>4, <1>5, <1>6, <1>7, <1>8, <1>9, <1>10
  DEF vars, Next, OnConnecting, BeginPump, EndPump, HandleMessage, HandleAnnounce,
    HandleClaim, HandleListReq, CanRegister, CanReceive

\* The session table behaves as a table of leases, whatever its clients do.
THEOREM Implementation == Spec => ImplementsLease
BY InitLease, StepLease, Invariance, PTL DEF Spec, ImplementsLease, Lease!Spec

=============================================================================
