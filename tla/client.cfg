\* ClientApp: two hosts, two joins and a loop that keeps running.
\* The program may stop, so a state with no next step is no error.
CONSTANTS
  Host = {h1, h2}
  MaxConn = 2
SPECIFICATION FairSpec
CHECK_DEADLOCK FALSE
INVARIANTS
  TypeOK
  NoConnectionLeak
  IdIsTheHosts
PROPERTIES
  StartIsSeen
  LostHostEndsGame
