\* LobbySystem: two hosts that keep up with the clock.
CONSTANTS
  c1 = c1
  c2 = c2
  k1 = k1
  k2 = k2
  Conn = {c1, c2}
  IPv4Conn = {c1, c2}
  NoConn = NoConn
  Key = {k1, k2}
  NoKey = NoKey
  AnnouncedMax = {3}
  Announces <- OneKeyEach
  HeartbeatCount = {1}
  kActiveTTL = 7
  kGraceTTL = 1
  kMaxList = 2
  Second = 2
  MaxFrame = 1
  MaxDelay = 1
  MaxLost = 1
  MaxInFlight = 1
SPECIFICATION PromptSpec
SYMMETRY HostsAlike
INVARIANTS
  SystemTypeOK
  HeardHostIsListed
  ListedHostIsConnected
