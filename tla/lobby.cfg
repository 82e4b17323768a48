\* LobbyServer: c1 keeps to one key, c2 uses both, so a session can be taken
\* over and a connection can turn to another one; c3 is an IPv6 browser.  The
\* main loop and the clock are fair.
CONSTANTS
  c1 = c1
  c2 = c2
  k1 = k1
  k2 = k2
  Conn = {c1, c2, c3}
  IPv4Conn = {c1, c2}
  NoConn = NoConn
  Key = {k1, k2}
  NoKey = NoKey
  AnnouncedMax = {0, 1}
  Announces <- OneKeyOrBoth
  HeartbeatCount = {0, 3}
  kActiveTTL = 1
  kGraceTTL = 2
  kMaxList = 1
SPECIFICATION FairSpec
INVARIANTS
  TypeOK
  OwnedIffActive
  GraceClockRuns
  RegistryHoldsOpenConns
  OwnersAreRegistered
  ListedSessionsAreCurrent
PROPERTIES
  OrphanedWithCause
  ImplementsLease
  ImplementsFairLease
  AbandonedSessionExpires
  SessionsRunDown
