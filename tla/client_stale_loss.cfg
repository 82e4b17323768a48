\* ClientApp: a lost host that is remembered for the next game.
\* The program may stop, so a state with no next step is no error.
CONSTANTS
  Host = {h1, h2}
  MaxConn = 2
SPECIFICATION Spec
CHECK_DEADLOCK FALSE
PROPERTIES
  MigratesOnlyWhenLost
SYMMETRY HostSymmetry
