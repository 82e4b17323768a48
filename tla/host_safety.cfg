\* GameHost: four connections for two slots, so a slot is reused while another
\* connection is still waiting for one.
CONSTANTS
  Conn = {c1, c2, c3, c4}
  RawMove <- SomeMoves
SPECIFICATION Spec
INVARIANTS
  TypeOK
  SeatsAgree
  FreeSlotsIdle
  ClientsAreTold
PROPERTIES
  ImplementsSeats
SYMMETRY ConnSymmetry
