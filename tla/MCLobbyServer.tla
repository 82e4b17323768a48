--------------------------- MODULE MCLobbyServer ---------------------------
(***************************************************************************)
(* Small instances of LobbyServer for TLC.                                 *)
(***************************************************************************)
EXTENDS LobbyLease, TLC

CONSTANTS c1, c2, k1, k2

\* Every connection may announce every key.
AnyKey == Conn \X Key

\* c1 keeps to one key, as the host of main.cpp does; c2 uses both, one of
\* them to take over the session of c1.
OneKeyOrBoth == {<<c1, k1>>, <<c2, k1>>, <<c2, k2>>}
=============================================================================
