--------------------------- MODULE MCAudioPlayer ---------------------------
(* The players with their mixer on small instances. *)
EXTENDS AudioPlayer, TLC

CONSTANTS c1, c2

InOrder == <<c1, c2>>
PipeSymmetry == Permutations(Pipes)

Scenario(names, n, clients, preparation, creation) ==
  [calls |-> names, max_calls |-> n, clients |-> clients,
   preparation_fails |-> preparation, creation_fails |-> creation]

\* one player, with seeks
Seeking == Scenario({"prepare", "start", "pause", "stop", "seek"}, 4, {c1}, FALSE, FALSE)
\* one player, when sources fail to be created or prepared
Failing == Scenario({"prepare", "start", "pause", "stop", "setLooping"}, 4, {c1}, TRUE, TRUE)
\* one player, with looping
Looping == Scenario({"prepare", "start", "pause", "stop", "setLooping"}, 4, {c1}, FALSE, FALSE)
\* two players, either the other's next player
Following == Scenario({"prepare", "start", "setNextPlayer"}, 4, {c1, c2}, FALSE, FALSE)
\* a source fails to be prepared under a seek
FailingSeek == Scenario({"prepare", "start", "seek"}, 3, {c1}, TRUE, FALSE)
\* seeks and loop points: with LoopingSeekOnly, NoNullSource is violated though nothing fails
LoopingSeek == Scenario({"prepare", "start", "seek", "setLooping"}, 4, {c1}, FALSE, FALSE)

AllUses == {Seeking, Failing, Looping, Following}
LoopingSeekOnly == {LoopingSeek}
FollowingOnly == {Following}
FailingSeekOnly == {FailingSeek}
=============================================================================
