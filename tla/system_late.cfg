\* LobbySystem: one host, arbitrarily slow, that ends.
CONSTANTS
  c1 = c1
  c2 = c2
  k1 = k1
  k2 = k2
  Conn = {c1}
  IPv4Conn = {c1}
  NoConn = NoConn
  Key = {k1}
  NoKey = NoKey
  AnnouncedMax = {3}
  Announces <- OneHost
  HeartbeatCount = {1}
  kActiveTTL = 2
  kGraceTTL = 2
  kMaxList = 2
  Second = 1
  MaxFrame = 0
  MaxDelay = 0
  MaxLost = 1
  MaxInFlight = 1
SPECIFICATION FairSystemSpec
PROPERTIES
  EndedHostIsDelisted
