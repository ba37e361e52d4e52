--------------------------- MODULE MCMediaPlayer ---------------------------
(***************************************************************************)
(* Instances of MediaPlayer for TLC.                                       *)
(***************************************************************************)
EXTENDS MediaPlayer

CONSTANTS p1, p2, p3, c1, c2

\* Each player has one thread; three players compete for two slots.
OwnPlayers == {<<c1, p1>>, <<c2, p2>>, <<c2, p3>>}

\* Two threads share one player.
SharedPlayer == {<<c1, p1>>, <<c2, p1>>}

\* The way to a preparation and out of it.
PrepareRequests == {"setDataSource", "prepare", "reset"}
=============================================================================
