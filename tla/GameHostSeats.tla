---------------------------- MODULE GameHostSeats ----------------------------
(***************************************************************************)
(* GameHost implements GameSeats: the slots are the seats, and a client    *)
(* was told of the start if its stream holds a StartGame message.          *)
(***************************************************************************)
EXTENDS GameHost

Told == {c \in Conn : \E i \in DOMAIN stream[c] : stream[c][i] = StartGame}

Seats == INSTANCE GameSeats WITH
           Client  <- Conn,
           Seat    <- ClientSlot,
           NoSeat  <- NoSlot,
           seat    <- m_connToId,
           left    <- {c \in Conn : link[c] = "closed"},
           started <- m_gameStarted,
           told    <- Told

\* Whatever the connections do, they are seated and told as GameSeats says
\* (onConnStatusChanged, startGame and stop together).
ImplementsSeats == Seats!Spec
=============================================================================
