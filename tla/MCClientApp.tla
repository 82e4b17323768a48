---------------------------- MODULE MCClientApp ----------------------------
(***************************************************************************)
(* A small instance of ClientApp for TLC.                                  *)
(***************************************************************************)
EXTENDS ClientApp, TLC

HostSymmetry == Permutations(Host)
=============================================================================
