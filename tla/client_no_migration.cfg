\* ClientApp: what follows the loss of a host.
\* The program may stop, so a state with no next step is no error.
CONSTANTS
  Host = {h1, h2}
  MaxConn = 2
SPECIFICATION Spec
CHECK_DEADLOCK FALSE
INVARIANTS
  MigrationIsAttempted
SYMMETRY HostSymmetry
