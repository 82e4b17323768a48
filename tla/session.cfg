\* GameSession: two clients, of which one at a time is connected while the host
\* may still hold the other; frames shorter and longer than the time between
\* two snapshots.  The program may stop, so a state with no next step is no
\* error.
CONSTANTS
  Conn = {c1, c2}
  RawMove = {0, 1}
  FrameTime = {1, 3}
  SnapTime = 2
  FieldX = 1
  StartX <- AllAtTheLeft
  HostMove = {0}
  MaxAccum = 1
  MaxInFlight = 2
  MaxConnected = 1
SPECIFICATION FairSessionSpec
CHECK_DEADLOCK FALSE
INVARIANTS
  SessionTypeOK
  ClientsAgreeWithHost
  NobodyMovesBeforeStart
PROPERTIES
  HeldKeyCounts
  EveryoneSeesTheSame
  SettledStays
