---------------------------- MODULE MCLobbySystem ----------------------------
(***************************************************************************)
(* Small instances of LobbySystem for TLC.                                 *)
(***************************************************************************)
EXTENDS LobbySystem, TLC

CONSTANTS c1, c2, k1, k2

OneKeyEach == {<<c1, k1>>, <<c2, k2>>}
OneHost == {<<c1, k1>>}

\* Two hosts may change places, each with its key.
HostsAlike ==
  {p \in Permutations({c1, c2, k1, k2}) :
     \A h \in OneKeyEach : <<p[h[1]], p[h[2]]>> \in OneKeyEach}
=============================================================================
