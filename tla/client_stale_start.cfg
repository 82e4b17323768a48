\* ClientApp: a start of the game that outlives its connection.
\* The program may stop, so a state with no next step is no error.
CONSTANTS
  Host = {h1, h2}
  MaxConn = 2
SPECIFICATION Spec
CHECK_DEADLOCK FALSE
INVARIANTS
  PlaysOnlyStartedGames
SYMMETRY HostSymmetry
