----------------------------- MODULE LobbySystem -----------------------------
(***************************************************************************)
(* The lobby server together with the programs that host games: the host   *)
(* mode of src/main.cpp with its LobbyClient.  A host connects to the      *)
(* lobby once, announces its session when it is connected, and then sends  *)
(* a heartbeat in the first frame in which a second has passed since the   *)
(* last one: what has passed over the second is dropped, so heartbeats are *)
(* a second and up to a frame apart.                                       *)
(*                                                                         *)
(* Announcements are reliable.  Heartbeats are not: one may be lost.  The  *)
(* two ends of a connection learn of its end at different times, if at     *)
(* all.  SystemSpec lets the programs and the network be arbitrarily slow; *)
(* in PromptSpec frames and delays have a greatest length.                 *)
(*                                                                         *)
(* Each host has one connection and one session key, drawn at random from  *)
(* 64 bits and so taken to be its own.  Browsers, which change nothing but *)
(* the moment of a clean-up, are left out.                                 *)
(***************************************************************************)
EXTENDS LobbyServer

CONSTANTS
  Second,        \* ticks of the clock in a second
  MaxFrame,      \* bound: ticks past the second at which a heartbeat is sent
  MaxDelay,      \* ticks until the lobby has read a heartbeat, in PromptSpec
  MaxLost,       \* most heartbeats of a host lost in a row, in PromptSpec
  MaxInFlight    \* bound: heartbeats of a host under way at a time

\* The longest that two heartbeats are apart.
Period == Second + MaxFrame

KeyOf(c) == CHOOSE k \in Key : <<c, k>> \in Announces

ASSUME SystemAssumption ==
  /\ \A c \in Conn : \E k \in Key : Announces \cap ({c} \X Key) = {<<c, k>>}
  /\ \A c, d \in Conn : KeyOf(c) = KeyOf(d) => c = d
  /\ IPv4Conn = Conn
  /\ 3 \in AnnouncedMax
  /\ Second \in Nat \ {0}
  /\ MaxFrame \in Nat
  /\ MaxDelay \in Nat
  /\ MaxLost \in Nat
  /\ MaxInFlight \in Nat \ {0}

VARIABLES
  app,           \* the host's program: "off", "up" or "gone"
  clientLink,    \* its end of the connection; "connected" is m_connected
  hbAccum,       \* ticks since its loop last came to send, at most Period
  announces,     \* announcements under way
  heartbeats,    \* heartbeats under way
  missed         \* heartbeats lost since the last one that arrived

hostVars == <<app, clientLink, hbAccum, announces, heartbeats, missed>>
systemVars == <<vars, hostVars>>

-----------------------------------------------------------------------------

SystemInit ==
  /\ Init
  /\ app = [c \in Conn |-> "off"]
  /\ clientLink = [c \in Conn |-> "none"]
  /\ hbAccum = [c \in Conn |-> 0]
  /\ announces = {}
  /\ heartbeats = [c \in Conn |-> 0]
  /\ missed = [c \in Conn |-> 0]

(* The host program *)

\* The start of host mode: connect as an Announcer, setAnnounceInfo.
HostStarts(c) ==
  /\ app[c] = "off"
  /\ app' = [app EXCEPT ![c] = "up"]
  /\ clientLink' = [clientLink EXCEPT ![c] = "connecting"]
  /\ UNCHANGED <<vars, hbAccum, announces, heartbeats, missed>>

\* LobbyClient::onConnStatusChanged, Connected: the one announcement.
HostConnected(c) ==
  /\ app[c] = "up"
  /\ clientLink[c] = "connecting"
  /\ link[c] = "open"
  /\ clientLink' = [clientLink EXCEPT ![c] = "connected"]
  /\ announces' = announces \cup {c}
  /\ UNCHANGED <<vars, app, hbAccum, heartbeats, missed>>

\* LobbyClient::onConnStatusChanged, closed: nothing connects again.
HostLosesLobby(c) ==
  /\ app[c] = "up"
  /\ clientLink[c] \in {"connecting", "connected"}
  /\ clientLink' = [clientLink EXCEPT ![c] = "lost"]
  /\ UNCHANGED <<vars, app, hbAccum, announces, heartbeats, missed>>

\* The part of the host's loop that sends a heartbeat, in a frame where one is
\* due: hbAccum starts again from 0, not from what is over the second.
\* sendHeartbeat does nothing unless it is connected.
HostFrame(c) ==
  /\ app[c] = "up"
  /\ hbAccum[c] >= Second
  /\ hbAccum' = [hbAccum EXCEPT ![c] = 0]
  /\ IF clientLink[c] = "connected"
       THEN /\ heartbeats[c] < MaxInFlight
            /\ heartbeats' = [heartbeats EXCEPT ![c] = @ + 1]
       ELSE UNCHANGED heartbeats
  /\ UNCHANGED <<vars, app, clientLink, announces, missed>>

\* The window is closed, or the program dies.
HostEnds(c) ==
  /\ app[c] = "up"
  /\ app' = [app EXCEPT ![c] = "gone"]
  /\ clientLink' = [clientLink EXCEPT ![c] = "lost"]
  /\ UNCHANGED <<vars, hbAccum, announces, heartbeats, missed>>

(* The network *)

AnnounceArrives(c) ==
  /\ c \in announces
  /\ HandleAnnounce(c, KeyOf(c), 3)
  /\ announces' = announces \ {c}
  /\ UNCHANGED <<app, clientLink, hbAccum, heartbeats, missed>>

HeartbeatArrives(c) ==
  /\ heartbeats[c] > 0
  /\ CanReceive(c)
  /\ \/ \E n \in HeartbeatCount : HandleHeartbeat(c, KeyOf(c), n)
     \/ m_sessions[KeyOf(c)].ownerConn # c /\ UNCHANGED vars
  /\ heartbeats' = [heartbeats EXCEPT ![c] = @ - 1]
  /\ missed' = [missed EXCEPT ![c] = 0]
  /\ UNCHANGED <<app, clientLink, hbAccum, announces>>

HeartbeatIsLost(c) ==
  /\ heartbeats[c] > 0
  /\ heartbeats' = [heartbeats EXCEPT ![c] = @ - 1]
  /\ missed' = [missed EXCEPT ![c] = IF @ > MaxLost THEN @ ELSE @ + 1]
  /\ UNCHANGED <<vars, app, clientLink, hbAccum, announces>>

(* The lobby server, which hears only connections a host opened *)

ServerStep ==
  /\ \/ Start
     \/ Stop
     \/ \E c \in Conn : clientLink[c] = "connecting" /\ OnConnecting(c)
     \/ \E c \in Conn : OnClosed(c)
     \/ BeginPump
     \/ EndPump
  /\ UNCHANGED hostVars

SystemTick ==
  /\ Tick
  /\ hbAccum' = [c \in Conn |-> IF app[c] = "up" /\ hbAccum[c] < Period
                                 THEN hbAccum[c] + 1 ELSE hbAccum[c]]
  /\ UNCHANGED <<app, clientLink, announces, heartbeats, missed>>

HostStep(c) ==
  \/ HostStarts(c)
  \/ HostConnected(c)
  \/ HostLosesLobby(c)
  \/ HostFrame(c)
  \/ HostEnds(c)
  \/ AnnounceArrives(c)
  \/ HeartbeatArrives(c)

SystemNext ==
  \/ ServerStep
  \/ \E c \in Conn : HostStep(c) \/ HeartbeatIsLost(c)
  \/ SystemTick

SystemSpec == SystemInit /\ [][SystemNext]_systemVars

\* The clock runs and so do the loops of the server and of the hosts.
SystemFairness ==
  /\ WF_systemVars(SystemTick)
  /\ WF_systemVars(BeginPump /\ UNCHANGED hostVars)
  /\ WF_systemVars(EndPump /\ UNCHANGED hostVars)
  /\ \A c \in Conn : WF_systemVars(HostFrame(c))

FairSystemSpec == SystemSpec /\ SystemFairness

\* The clock waits neither for a host that is not connected nor for one whose
\* connection the server has given up.  Of the others, a frame that is due comes
\* before its heartbeat is MaxFrame ticks late, and a heartbeat under way is
\* lost or read within MaxDelay ticks.  At most MaxLost are lost in a row.
PromptTick ==
  /\ \A c \in Conn :
       clientLink[c] = "connected" /\ link[c] = "open" =>
         /\ hbAccum[c] < Period
         /\ heartbeats[c] > 0 => hbAccum[c] < MaxDelay
  /\ SystemTick

PromptNext ==
  \/ ServerStep
  \/ \E c \in Conn : HostStep(c) \/ (missed[c] < MaxLost /\ HeartbeatIsLost(c))
  \/ PromptTick

PromptSpec == SystemInit /\ [][PromptNext]_systemVars
-----------------------------------------------------------------------------
(* Properties *)

SystemTypeOK ==
  /\ TypeOK
  /\ app \in [Conn -> {"off", "up", "gone"}]
  /\ clientLink \in [Conn -> {"none", "connecting", "connected", "lost"}]
  /\ hbAccum \in [Conn -> 0..Period]
  /\ announces \subseteq Conn
  /\ heartbeats \in [Conn -> 0..MaxInFlight]
  /\ missed \in [Conn -> 0..(MaxLost + 1)]

\* A host that runs and keeps its connection stays in the list, if kActiveTTL
\* covers MaxLost + 1 periods, each a second and a late frame, and the delay of
\* the heartbeat that follows (hbAccum in main, cleanupExpired before the
\* messages are read).
HeardHostIsListed ==
  \A c \in Conn :
    m_connToSession[c] # NoKey /\ clientLink[c] = "connected"
      => Active(m_sessions[KeyOf(c)])

\* A session is listed as open only while the server holds the connection of
\* its host: a connection that was closed never owns one again, whatever was
\* still under way (onConnStatusChanged against handleMessage).
ListedHostIsConnected ==
  \A c \in Conn : Active(m_sessions[KeyOf(c)]) => link[c] = "open"

\* The session of a host that has ended leaves the list for good, although
\* neither its end nor its last messages need reach the server in time.
EndedHostIsDelisted ==
  \A c \in Conn : app[c] = "gone" ~> [](m_sessions[KeyOf(c)].state = "None")

\* "Heartbeat: host -> lobby (keep alive, players count)": a host whose
\* heartbeats keep arriving is in the list again and again.
HeartbeatsKeepAlive ==
  \A c \in Conn :
    /\ <>[](m_connToSession[c] # NoKey)
    /\ []<><<HeartbeatArrives(c)>>_systemVars
    => []<>Active(m_sessions[KeyOf(c)])
=============================================================================
