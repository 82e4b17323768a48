------------------------------ MODULE GameSeats ------------------------------
(***************************************************************************)
(* What a game host promises its clients: a client has a seat of its own   *)
(* from the moment it is seated until it leaves, never returns under the   *)
(* same name, and has been told of the start exactly when the game has     *)
(* started.  GameHost implements this specification.                       *)
(***************************************************************************)
EXTENDS Integers

CONSTANTS Client, Seat, NoSeat

VARIABLES
  seat,      \* the seat of each client, or NoSeat
  left,      \* the clients that had a seat or were turned away
  started,   \* has the game started?
  told       \* the clients told so

vars == <<seat, left, started, told>>

Free(s) == \A c \in Client : seat[c] # s

AtTable == {c \in Client : seat[c] # NoSeat}

Init ==
  /\ seat = [c \in Client |-> NoSeat]
  /\ left = {}
  /\ started = FALSE
  /\ told = {}

Sit(c, s) ==
  /\ c \notin AtTable \cup left
  /\ Free(s)
  /\ seat' = [seat EXCEPT ![c] = s]
  /\ told' = IF started THEN told \cup {c} ELSE told
  /\ UNCHANGED <<left, started>>

\* Some clients leave, with or without a seat.
Leave(C) ==
  /\ seat' = [c \in Client |-> IF c \in C THEN NoSeat ELSE seat[c]]
  /\ left' = left \cup C
  /\ UNCHANGED <<started, told>>

Begin ==
  /\ ~started
  /\ started' = TRUE
  /\ told' = told \cup AtTable
  /\ UNCHANGED <<seat, left>>

Next ==
  \/ \E c \in Client, s \in Seat : Sit(c, s)
  \/ \E C \in SUBSET Client : Leave(C)
  \/ Begin

Spec == Init /\ [][Next]_vars
=============================================================================
