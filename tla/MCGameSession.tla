---------------------------- MODULE MCGameSession ----------------------------
(***************************************************************************)
(* A small instance of GameSession for TLC.                                *)
(***************************************************************************)
EXTENDS GameSession

AllAtTheLeft == [p \in Player |-> 0]
=============================================================================
