\* LobbyServer: a former owner closes after another connection took over.
CONSTANTS
  c1 = c1
  c2 = c2
  k1 = k1
  k2 = k2
  Conn = {c1, c2}
  IPv4Conn = {c1, c2}
  NoConn = NoConn
  Key = {k1}
  NoKey = NoKey
  AnnouncedMax = {0, 2}
  Announces <- AnyKey
  HeartbeatCount = {0, 3}
  kActiveTTL = 1
  kGraceTTL = 2
  kMaxList = 1
SPECIFICATION Spec
PROPERTIES
  CloseOrphansOnlyOwned
