----------------------------- MODULE LobbyLease -----------------------------
(***************************************************************************)
(* LobbyServer implements SessionLease: an Open or Full session is a held  *)
(* lease, a Migrating one is orphaned, and the two time points of a        *)
(* session record are the one age of the lease.                            *)
(***************************************************************************)
EXTENDS LobbyServer

LeasePhase(s) ==
  CASE s.state = "None"      -> "vacant"
    [] s.state = "Migrating" -> "orphaned"
    [] OTHER                 -> "held"

LeaseAge(s) ==
  CASE s.state = "None"      -> 0
    [] s.state = "Migrating" -> s.migratingSince
    [] OTHER                 -> s.lastSeen

Lease == INSTANCE SessionLease WITH
           Holder    <- Conn,
           Nobody    <- NoConn,
           ActiveTTL <- kActiveTTL,
           GraceTTL  <- kGraceTTL,
           open      <- m_listen,
           phase     <- [k \in Key |-> LeasePhase(m_sessions[k])],
           holder    <- [k \in Key |-> m_sessions[k].ownerConn],
           age       <- [k \in Key |-> LeaseAge(m_sessions[k])]

\* The table of sessions behaves as leases do, whatever the connections send
\* (handleMessage, cleanupExpired and onConnStatusChanged together).
ImplementsLease == Lease!Spec

\* And overdue sessions are swept, because main keeps calling pump.
ImplementsFairLease == Lease!FairSpec
=============================================================================
