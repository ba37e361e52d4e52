-------------------------- MODULE PlayerLifecycle --------------------------
(***************************************************************************)
(* What a player's clients may rely on: the life cycle of a media player.  *)
(* It is stricter than checkStateTransition(): a player becomes PREPARED   *)
(* only by completing a preparation and leaves ERROR only by reset() or    *)
(* release().                                                              *)
(***************************************************************************)
CONSTANTS Players

VARIABLES state

Prepared == {"PREPARED", "STARTED", "PAUSED", "PLAYBACK_COMPLETED"}

Move(p, from, to) == state[p] \in from /\ state' = [state EXCEPT ![p] = to]

Init == state = [p \in Players |-> "CREATED"]

Initialize(p)    == Move(p, {"CREATED"}, "IDLE")
SetDataSource(p) == Move(p, {"IDLE"}, "INITIALIZED")
Prepare(p)       == \E s \in {"PREPARING_SYNC", "PREPARING_ASYNC"} : Move(p, {"INITIALIZED", "STOPPED"}, s)
PrepareDone(p)   == Move(p, {"PREPARING_SYNC", "PREPARING_ASYNC"}, "PREPARED")
Start(p)         == Move(p, Prepared, "STARTED")
Pause(p)         == Move(p, {"STARTED"}, "PAUSED")
Complete(p)      == Move(p, {"STARTED", "PAUSED"}, "PLAYBACK_COMPLETED")
Stop(p)          == Move(p, Prepared, "STOPPED")
Reset(p)         == state[p] \notin {"CREATED", "END"} /\ state' = [state EXCEPT ![p] = "IDLE"]
Fail(p)          == state[p] \notin {"CREATED", "END"} /\ state' = [state EXCEPT ![p] = "ERROR"]
Release(p)       == state' = [state EXCEPT ![p] = "END"]
Create(p)        == Move(p, {"END"}, "CREATED")

Next == \E p \in Players :
  \/ Initialize(p) \/ SetDataSource(p) \/ Prepare(p) \/ PrepareDone(p) \/ Start(p) \/ Pause(p)
  \/ Complete(p) \/ Stop(p) \/ Reset(p) \/ Fail(p) \/ Release(p) \/ Create(p)

Spec == Init /\ [][Next]_state
=============================================================================
