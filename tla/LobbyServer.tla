---------------------------- MODULE LobbyServer ----------------------------
(***************************************************************************)
(* The lobby server of src/net/LobbyServer.cpp: a table of game sessions   *)
(* announced by hosts over GameNetworkingSockets (GNS) connections.  A     *)
(* session is kept alive by heartbeats of the connection that owns it;     *)
(* when the owner goes away it is "Migrating" for a grace period in which  *)
(* another connection may Claim it, and is then deleted.                   *)
(*                                                                         *)
(* The clients are the environment: a connection may send any sequence of  *)
(* well-formed lobby messages about the keys Announces gives it, which is  *)
(* what the public operations of LobbyClient can produce.  A message that  *)
(* is short, of another protocol, about key 0 or a Hello changes nothing   *)
(* in the code and is no step here.                                        *)
(*                                                                         *)
(* Time: the code stores time points and compares now - t with a TTL.  The *)
(* model stores the age now - t, in ticks; Tick adds one to every age, and *)
(* an age stops growing one tick past its TTL, where every comparison the  *)
(* code makes has settled.                                                 *)
(***************************************************************************)
EXTENDS Integers, FiniteSets

CONSTANTS
  Conn,          \* handles of lobby connections; GNS never reuses one
  IPv4Conn,      \* those whose remote address is IPv4
  NoConn,        \* k_HSteamNetConnection_Invalid
  Key,           \* the session keys (non-zero)
  NoKey,         \* key 0: "this connection announced nothing"
  AnnouncedMax,  \* values of Announce::maxPlayers, 0 included
  Announces,     \* <<c, k>>: connection c may Announce or Claim key k
  HeartbeatCount,\* values of Heartbeat::curPlayers
  kActiveTTL,    \* ticks without heartbeat before the host is gone
  kGraceTTL,     \* ticks a lost session stays claimable
  kMaxList       \* most entries of one ListResp (512 in the code)

ASSUME LobbyAssumption ==
  /\ IPv4Conn \subseteq Conn
  /\ NoConn \notin Conn
  /\ NoKey \notin Key
  /\ Announces \subseteq Conn \X Key
  /\ AnnouncedMax \subseteq 0..255
  /\ HeartbeatCount \subseteq Nat
  /\ kActiveTTL \in Nat
  /\ kGraceTTL \in Nat
  /\ kMaxList \in Nat

VARIABLES
  m_listen,        \* is the listen socket (with its poll group) open?
  link,            \* GNS: the server's end of each connection
  m_sessions,      \* session key -> session record
  m_connToSession, \* connection -> the session it announced last
  loop,            \* where the main loop stands
  sent             \* the ListResp sent by the last step, if it sent one

vars == <<m_listen, link, m_sessions, m_connToSession, loop, sent>>

-----------------------------------------------------------------------------
(* Session records *)

NotSet == -1    \* the age of an unset time point (Clock::time_point{})

SessionState == {"None", "Open", "Full", "Migrating"}

Session ==
  [ state          : SessionState,      \* "None": not in m_sessions
    ownerConn      : Conn \cup {NoConn},
    addr           : Conn \cup {NoConn},\* whose IPv4 address is listed
    curPlayers     : 1..255,
    maxPlayers     : 1..255,
    lastSeen       : 0..(kActiveTTL + 1),
    migratingSince : NotSet..(kGraceTTL + 1) ]

\* The defaults of struct Session; also stands for a key not in m_sessions.
NoSession ==
  [ state |-> "None", ownerConn |-> NoConn, addr |-> NoConn, curPlayers |-> 1,
    maxPlayers |-> 3, lastSeen |-> 0, migratingSince |-> NotSet ]

Active(s) == s.state \in {"Open", "Full"}

\* FAULT: no lower bound.
ClampAbove(n, lo, hi) == IF n > hi THEN hi ELSE n

Clamp(n, lo, hi) == IF n < lo THEN lo ELSE IF n > hi THEN hi ELSE n

\* "State computed from curPlayers".
WithOccupancy(s) ==
  [s EXCEPT !.state = IF s.curPlayers >= s.maxPlayers THEN "Full" ELSE "Open"]

\* FAULT: the owner is not forgotten.
MarkMigratingKeepsOwner(s) ==
  IF s.state = "None" THEN s
  ELSE [s EXCEPT !.state = "Migrating", !.migratingSince = 0]

\* FAULT: the grace clock is not started.
MarkMigratingUnstamped(s) ==
  IF s.state = "None" THEN s
  ELSE [s EXCEPT !.state = "Migrating", !.ownerConn = NoConn]

\* markMigrating: does nothing for a key that is not in m_sessions.
MarkMigrating(s) ==
  IF s.state = "None" THEN s
  ELSE [s EXCEPT !.state = "Migrating", !.ownerConn = NoConn, !.migratingSince = 0]

\* FAULT: the grace clock of an earlier loss is left running.
RegisteredKeepsClock(s, c, max) ==
  WithOccupancy([s EXCEPT !.ownerConn = c, !.addr = c, !.lastSeen = 0,
                          !.maxPlayers = IF max = 0 THEN 3 ELSE max])

\* What Announce and an accepted Claim of connection c store.
Registered(s, c, max) ==
  WithOccupancy([s EXCEPT !.ownerConn = c, !.addr = c,
                          !.maxPlayers = IF max = 0 THEN 3 ELSE max,
                          !.lastSeen = 0, !.migratingSince = NotSet])

\* FAULT: the host itself is not counted.
RefreshedOthers(s, n) ==
  WithOccupancy([s EXCEPT !.curPlayers = Clamp(n - 1, 0, s.maxPlayers), !.lastSeen = 0])

\* What a heartbeat reporting n players stores.
Refreshed(s, n) ==
  WithOccupancy([s EXCEPT !.curPlayers = Clamp(n, 1, s.maxPlayers), !.lastSeen = 0])

\* FAULT: one tick early.
ActiveExpiredEarly(s) == Active(s) /\ s.lastSeen >= kActiveTTL

\* FAULT: a Migrating session expires again and again.
ActiveExpiredAnyState(s) == s.state # "None" /\ s.lastSeen > kActiveTTL

ActiveExpired(s) == Active(s) /\ s.lastSeen > kActiveTTL

\* FAULT: no grace at all.
GraceExpiredAtOnce(s) == s.state = "Migrating" /\ s.migratingSince # NotSet

GraceExpired(s) ==
  s.state = "Migrating" /\ s.migratingSince # NotSet /\ s.migratingSince > kGraceTTL

\* FAULT: silent owners are left alone.
CleanedUpGraceOnly(s) == IF GraceExpired(s) THEN NoSession ELSE s

\* cleanupExpired, for one session and for the table.
CleanedUp(s) ==
  IF ActiveExpired(s) THEN MarkMigrating(s)
  ELSE IF GraceExpired(s) THEN NoSession
  ELSE s

CleanupExpired == [k \in Key |-> CleanedUp(m_sessions[k])]

-----------------------------------------------------------------------------
(* The list response *)

Present(sessions) == {k \in Key : sessions[k].state # "None"}

SessionEntry(sessions, k) ==
  [ sessionKey |-> k, addr |-> sessions[k].addr, state |-> sessions[k].state,
    curPlayers |-> sessions[k].curPlayers, maxPlayers |-> sessions[k].maxPlayers ]

NoResp == [to |-> NoConn, entries |-> {}]

\* The keys a response may hold: all, or kMaxList of them in the order of an
\* unordered_map, which is any order.
Listable(sessions) ==
  LET n == Cardinality(Present(sessions))
  IN  {K \in SUBSET Present(sessions) :
         Cardinality(K) = IF n < kMaxList THEN n ELSE kMaxList}

-----------------------------------------------------------------------------

Init ==
  /\ m_listen = FALSE
  /\ link = [c \in Conn |-> "none"]
  /\ m_sessions = [k \in Key |-> NoSession]
  /\ m_connToSession = [c \in Conn |-> NoKey]
  /\ loop = "callbacks"
  /\ sent = NoResp

Start ==
  /\ ~m_listen
  /\ m_listen' = TRUE
  /\ sent' = NoResp
  /\ UNCHANGED <<link, m_sessions, m_connToSession, loop>>

\* Closing the listen socket also closes the connections accepted on it.
Stop ==
  /\ m_listen
  /\ m_listen' = FALSE
  /\ link' = [c \in Conn |-> IF link[c] = "open" THEN "closed" ELSE link[c]]
  /\ m_sessions' = [k \in Key |-> NoSession]
  /\ m_connToSession' = [c \in Conn |-> NoKey]
  /\ loop' = "callbacks"
  /\ sent' = NoResp

(* pumpCallbacks: connection status changes of the listen socket *)

\* onConnStatusChanged, Connecting: AcceptConnection may fail, and the
\* connection is then closed.
OnConnecting(c) ==
  /\ m_listen
  /\ loop = "callbacks"
  /\ link[c] = "none"
  /\ \E l \in {"open", "closed"} : link' = [link EXCEPT ![c] = l]
  /\ sent' = NoResp
  /\ UNCHANGED <<m_listen, m_sessions, m_connToSession, loop>>

\* FAULT: the registry entry is left behind.
OnClosedKeepsEntry(c) ==
  /\ m_listen /\ loop = "callbacks" /\ link[c] = "open"
  /\ link' = [link EXCEPT ![c] = "closed"]
  /\ m_sessions' = [k \in Key |-> IF k = m_connToSession[c]
                                  THEN MarkMigrating(m_sessions[k])
                                  ELSE m_sessions[k]]
  /\ sent' = NoResp
  /\ UNCHANGED <<m_listen, m_connToSession, loop>>

\* onConnStatusChanged, ClosedByPeer or ProblemDetectedLocally.
OnClosed(c) ==
  /\ m_listen
  /\ loop = "callbacks"
  /\ link[c] = "open"
  /\ link' = [link EXCEPT ![c] = "closed"]
  /\ m_sessions' = [k \in Key |-> IF k = m_connToSession[c]
                                  THEN MarkMigrating(m_sessions[k])
                                  ELSE m_sessions[k]]
  /\ m_connToSession' = [m_connToSession EXCEPT ![c] = NoKey]
  /\ sent' = NoResp
  /\ UNCHANGED <<m_listen, loop>>

(* pump: clean up, then handle the messages that have arrived *)

BeginPump ==
  /\ m_listen
  /\ loop = "callbacks"
  /\ m_sessions' = CleanupExpired
  /\ loop' = "messages"
  /\ sent' = NoResp
  /\ UNCHANGED <<m_listen, link, m_connToSession>>

EndPump ==
  /\ loop = "messages"
  /\ loop' = "callbacks"
  /\ sent' = NoResp
  /\ UNCHANGED <<m_listen, link, m_sessions, m_connToSession>>

CanReceive(c) == m_listen /\ loop = "messages" /\ link[c] = "open"

\* A well-formed Announce or Claim for k; fillRemoteIPv4 must also succeed.
CanRegister(c, k) == CanReceive(c) /\ c \in IPv4Conn /\ <<c, k>> \in Announces

\* FAULT: the registry is not updated.
RegisterUnindexed(c, k, max) ==
  /\ m_sessions' = [m_sessions EXCEPT ![k] = Registered(@, c, max)]
  /\ sent' = NoResp
  /\ UNCHANGED <<m_listen, link, m_connToSession, loop>>

\* The common end of handleMessage(Announce) and handleMessage(Claim).
Register(c, k, max) ==
  /\ m_sessions' = [m_sessions EXCEPT ![k] = Registered(@, c, max)]
  /\ m_connToSession' = [m_connToSession EXCEPT ![c] = k]
  /\ sent' = NoResp
  /\ UNCHANGED <<m_listen, link, loop>>

HandleAnnounce(c, k, max) ==
  /\ CanRegister(c, k)
  /\ Register(c, k, max)

\* A Claim is honoured only while the session is Migrating.
HandleClaim(c, k, max) ==
  /\ CanRegister(c, k)
  /\ m_sessions[k].state = "Migrating"
  /\ Register(c, k, max)

\* Only the current owner's heartbeat counts, and none while Migrating.
HandleHeartbeat(c, k, n) ==
  /\ CanReceive(c)
  /\ m_sessions[k].state \notin {"None", "Migrating"}
  /\ m_sessions[k].ownerConn = c
  /\ m_sessions' = [m_sessions EXCEPT ![k] = Refreshed(@, n)]
  /\ sent' = NoResp
  /\ UNCHANGED <<m_listen, link, m_connToSession, loop>>

\* ListReq: sendList cleans up first.
HandleListReq(c) ==
  /\ CanReceive(c)
  /\ m_sessions' = CleanupExpired
  /\ \E K \in Listable(m_sessions') :
       sent' = [to |-> c, entries |-> {SessionEntry(m_sessions', k) : k \in K}]
  /\ UNCHANGED <<m_listen, link, m_connToSession, loop>>

\* One tick of the steady clock, at any point of the loop.
Older(age, ttl) == IF age = NotSet \/ age > ttl THEN age ELSE age + 1

Tick ==
  /\ m_sessions' = [k \in Key |->
       IF m_sessions[k].state = "None" THEN m_sessions[k]
       ELSE [m_sessions[k] EXCEPT !.lastSeen = Older(@, kActiveTTL),
                                  !.migratingSince = Older(@, kGraceTTL)]]
  /\ sent' = NoResp
  /\ UNCHANGED <<m_listen, link, m_connToSession, loop>>

-----------------------------------------------------------------------------

HandleMessage(c) ==
  \/ \E k \in Key, max \in AnnouncedMax : HandleAnnounce(c, k, max)
  \/ \E k \in Key, max \in AnnouncedMax : HandleClaim(c, k, max)
  \/ \E k \in Key, n \in HeartbeatCount : HandleHeartbeat(c, k, n)
  \/ HandleListReq(c)

Next ==
  \/ Start
  \/ Stop
  \/ \E c \in Conn : OnConnecting(c)
  \/ \E c \in Conn : OnClosed(c)
  \/ BeginPump
  \/ EndPump
  \/ \E c \in Conn : HandleMessage(c)
  \/ Tick

Spec == Init /\ [][Next]_vars

\* Time passes and main's for(;;) keeps pumping; nothing is assumed of the
\* connections, of their messages or of Start and Stop.
Fairness == WF_vars(Tick) /\ WF_vars(BeginPump) /\ WF_vars(EndPump)

FairSpec == Spec /\ Fairness
-----------------------------------------------------------------------------
(* Properties *)

TypeOK ==
  /\ m_listen \in BOOLEAN
  /\ link \in [Conn -> {"none", "open", "closed"}]
  /\ m_sessions \in [Key -> Session]
  /\ m_connToSession \in [Conn -> Key \cup {NoKey}]
  /\ loop \in {"callbacks", "messages"}
  /\ sent.to \in Conn \cup {NoConn}

\* A session has an owner exactly while it is Open or Full, and then the
\* address it advertises is its owner's: a browser that joins an open session
\* is never sent to a host that lost it (handleMessage, markMigrating).
OwnedIffActive ==
  \A k \in Key :
    LET s == m_sessions[k]
    IN  /\ Active(s) <=> s.ownerConn # NoConn
        /\ Active(s) => s.addr = s.ownerConn

\* The grace clock runs exactly while a session is Migrating: without it
\* cleanupExpired never deletes the session, and left over from an earlier
\* loss it would cut the next grace period short.
GraceClockRuns ==
  \A k \in Key :
    m_sessions[k].state = "Migrating" <=> m_sessions[k].migratingSince # NotSet

\* Only connections that are still open are registered, so the entry a closing
\* connection leaves behind is gone with it (onConnStatusChanged, stop).
RegistryHoldsOpenConns ==
  \A c \in Conn : m_connToSession[c] # NoKey => link[c] = "open"

KeepsToOneKey(c) ==
  \A j, k \in Key : <<c, j>> \in Announces /\ <<c, k>> \in Announces => j = k

\* The owner of a session is registered for it, so losing it will be noticed,
\* if it is a connection that keeps to one session key, as the host of main.cpp
\* does; another may have been registered for a later one in its place.
OwnersAreRegistered ==
  \A k \in Key :
    LET owner == m_sessions[k].ownerConn
    IN  Active(m_sessions[k]) /\ KeepsToOneKey(owner) => m_connToSession[owner] = k

\* A list response describes the table of this moment: an Open or Full entry
\* was heard of within kActiveTTL, a Migrating one is still within its grace
\* (sendList cleans up before it builds the answer).
ListedSessionsAreCurrent ==
  \A e \in sent.entries :
    LET s == m_sessions[e.sessionKey]
    IN  /\ s.state # "None" /\ e.state = s.state /\ e.addr = s.addr
        /\ Active(s) => s.lastSeen <= kActiveTTL
        /\ ~Active(s) => s.migratingSince <= kGraceTTL

\* A session stops being active only when its owner was silent for longer than
\* kActiveTTL, when a connection registered for it closed, or when the server
\* stops.
OrphanedWithCause ==
  [][\A k \in Key :
       Active(m_sessions[k]) /\ ~Active(m_sessions'[k]) =>
         \/ m_sessions[k].lastSeen > kActiveTTL
         \/ \E c \in Conn : m_connToSession[c] = k /\ link[c] # link'[c]
         \/ ~m_listen']_vars

\* No session is immortal: either it is absent again and again, or its timer
\* is reset again and again by an announcement, a claim or a heartbeat.
AbandonedSessionExpires ==
  \A k \in Key :
    \/ []<>(m_sessions[k].state = "None")
    \/ []<><<m_sessions[k].lastSeen > 0 /\ m_sessions'[k].lastSeen = 0>>_vars

\* How many ticks and clean-ups a session has left if it is not renewed.
TimeLeft(s) ==
  CASE s.state = "None"      -> 0
    [] s.state = "Migrating" -> kGraceTTL + 2 - s.migratingSince
    [] OTHER                 -> (kActiveTTL + 2 - s.lastSeen) + (kGraceTTL + 2)

\* The time a session has left is never prolonged, except by an announcement, a
\* claim or a heartbeat, or by the close of a connection that announced it; and
\* it gets shorter with every tick, until the session is overdue, and then with
\* the next pump (cleanupExpired against every message that touches a session).
SessionsRunDown ==
  [][\A k \in Key :
       LET s == m_sessions[k]
           t == m_sessions'[k]
           overdue == ActiveExpired(s) \/ GraceExpired(s)
       IN  \/ Active(t) /\ t.lastSeen = 0
           \/ \E c \in Conn : m_connToSession[c] = k /\ link[c] = "open" /\ link'[c] = "closed"
           \/ /\ TimeLeft(t) <= TimeLeft(s)
              /\ s.state # "None" /\ (IF overdue THEN BeginPump ELSE Tick)
                   => TimeLeft(t) < TimeLeft(s)]_vars

\* What onConnStatusChanged says: the close of a connection marks a session
\* migrating "if this connection owned" it.
CloseOrphansOnlyOwned ==
  [][\A k \in Key, c \in Conn :
       /\ Active(m_sessions[k]) /\ ~Active(m_sessions'[k])
       /\ m_connToSession[c] = k /\ link[c] # link'[c] /\ m_listen'
       => m_sessions[k].ownerConn = c]_vars
=============================================================================
