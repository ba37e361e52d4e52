---------------------------- MODULE PlayerState ----------------------------
(***************************************************************************)
(* The state machine of a player as OpenSLMediaPlayerImpl.cpp programs it: *)
(* the legality check of setState(), and for each request the states it is *)
(* accepted in, where it leads and what becomes of a failure.              *)
(***************************************************************************)

PlayerStates == {"CREATED", "IDLE", "INITIALIZED", "PREPARING_SYNC", "PREPARING_ASYNC",
                 "PREPARED", "STARTED", "PAUSED", "PLAYBACK_COMPLETED", "STOPPED", "END", "ERROR"}

StateMaskAny       == PlayerStates \ {"CREATED", "END"}
StateMaskPreparing == {"PREPARING_SYNC", "PREPARING_ASYNC"}
StateMaskPrepared  == {"PREPARED", "STARTED", "PAUSED", "PLAYBACK_COMPLETED"}
StateMaskNoError   == StateMaskAny \ {"ERROR"}

\* checkStateTransition(): where setState() may lead besides IDLE, ERROR and END.
Successors ==
  [CREATED            |-> {},
   IDLE               |-> {"INITIALIZED"},
   INITIALIZED        |-> StateMaskPreparing \cup {"PREPARED"},
   PREPARING_SYNC     |-> {"PREPARED"},
   PREPARING_ASYNC    |-> {"PREPARED"},
   PREPARED           |-> {"PREPARED", "STARTED", "STOPPED"},
   STARTED            |-> {"STARTED", "PAUSED", "STOPPED", "PLAYBACK_COMPLETED"},
   PAUSED             |-> {"PAUSED", "STARTED", "STOPPED", "PLAYBACK_COMPLETED"},
   PLAYBACK_COMPLETED |-> {"PLAYBACK_COMPLETED", "STARTED", "STOPPED"},
   STOPPED            |-> {"STOPPED", "PREPARED"} \cup StateMaskPreparing,
   ERROR              |-> {}]

checkStateTransition(current, next) ==
  IF current = "END" THEN next = "END"
  ELSE next \in {"IDLE", "ERROR", "END"} \cup Successors[current]

Requests == {"setDataSource", "prepare", "prepareAsync", "start", "stop", "pause", "reset",
             "setVolume", "getAudioSessionId", "getDuration", "getCurrentPosition", "seekTo",
             "setLooping", "isLooping", "isPlaying", "setAudioStreamType",
             "setNextMediaPlayer", "attachAuxEffect", "setAuxEffectSendLevel"}

\* The state_mask of each message in onHandleMessage().
StateMask ==
  [setDataSource         |-> {"IDLE"},
   prepare               |-> {"INITIALIZED", "STOPPED"},
   prepareAsync          |-> {"INITIALIZED", "STOPPED"},
   start                 |-> StateMaskPrepared,
   stop                  |-> StateMaskPrepared \cup {"STOPPED"},
   pause                 |-> {"STARTED", "PAUSED", "PLAYBACK_COMPLETED"},
   reset                 |-> StateMaskAny,
   setVolume             |-> StateMaskNoError,
   getAudioSessionId     |-> StateMaskAny,
   getDuration           |-> StateMaskPrepared \cup {"STOPPED", "ERROR"},
   getCurrentPosition    |-> StateMaskNoError \ StateMaskPreparing,
   seekTo                |-> StateMaskPrepared,
   setLooping            |-> StateMaskNoError,
   isLooping             |-> StateMaskAny,
   isPlaying             |-> StateMaskNoError,
   setAudioStreamType    |-> {"IDLE", "INITIALIZED", "STOPPED"},
   setNextMediaPlayer    |-> StateMaskNoError \ {"IDLE"},
   attachAuxEffect       |-> StateMaskNoError \ {"IDLE"},
   setAuxEffectSendLevel |-> StateMaskAny]

\* A request in a state its mask excludes is refused whatever the engine would say.
Result(request, state, engine_result) ==
  IF state \in StateMask[request] THEN engine_result
  ELSE IF request = "setDataSource" /\ state = "ERROR" THEN "inErrorState"
  ELSE "illegalState"

TransitionRequests == {"setDataSource", "prepare", "prepareAsync", "start", "stop", "pause", "reset"}

Target_PreparedAtOnce(request, state) ==
  CASE request = "setDataSource" -> "INITIALIZED"
    [] request = "prepare"       -> "PREPARED"
    [] request = "prepareAsync"  -> "PREPARING_ASYNC"
    [] request = "start"         -> "STARTED"
    [] request = "stop"          -> "STOPPED"
    [] request = "pause"         -> IF state = "PLAYBACK_COMPLETED" THEN state ELSE "PAUSED"
    [] request = "reset"         -> "IDLE"

Target(request, state) ==
  CASE request = "setDataSource" -> "INITIALIZED"
    [] request = "prepare"       -> "PREPARING_SYNC"
    [] request = "prepareAsync"  -> "PREPARING_ASYNC"
    [] request = "start"         -> "STARTED"
    [] request = "stop"          -> "STOPPED"
    [] request = "pause"         -> IF state = "PLAYBACK_COMPLETED" THEN state ELSE "PAUSED"
    [] request = "reset"         -> "IDLE"

\* The requests whose failure is passed to checkResultAndSetError().
FailureIsFatal(request, state) ==
  \/ request \in {"start", "stop", "pause", "reset", "getAudioSessionId", "getDuration",
                  "getCurrentPosition", "seekTo", "isPlaying"}
  \/ request = "setLooping" /\ state \notin StateMaskPreparing

\* The state setState() is asked for, or the present one when it is not called.
RequestedState(request, state, result) ==
  IF result = "ok"
  THEN IF request \in TransitionRequests THEN Target(request, state) ELSE state
  ELSE IF result # "illegalArgument" /\ FailureIsFatal(request, state) THEN "ERROR" ELSE state

\* setState() refuses an illegal transition (and asserts that none is asked for).
setState(current, next) == IF checkStateTransition(current, next) THEN next ELSE current

\* The events that come from the engine: their successor states.
AfterPrepareCompleted(state, result) ==
  IF state \in StateMaskPreparing /\ result = "ok" THEN "PREPARED" ELSE "ERROR"

AfterPlaybackCompletion(state) ==
  IF state \in {"STARTED", "PAUSED"} THEN "PLAYBACK_COMPLETED" ELSE state

AfterStartedAsNextPlayer(state) ==
  IF state \in {"PREPARED", "PAUSED", "PLAYBACK_COMPLETED"} THEN "STARTED" ELSE state
=============================================================================
