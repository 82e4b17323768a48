----------------------------- MODULE MCGameHost -----------------------------
(***************************************************************************)
(* A small instance of GameHost for TLC.                                   *)
(***************************************************************************)
EXTENDS GameHostSeats, TLC

\* Moves below, inside and above the range a host stores.
SomeMoves == {-128, 0, 1}

ConnSymmetry == Permutations(Conn)
=============================================================================
