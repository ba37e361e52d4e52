---------------------------- MODULE AudioPlayer ----------------------------
(***************************************************************************)
(* The players (AudioPlayer.cpp) over their sources (AudioSource.cpp),     *)
(* together with the mixer of AudioMixer.tla: the calls an application     *)
(* makes, the polling of the players, of the mixer and of the pipes in the *)
(* order of AudioSystem::poll(), and the mixer's events.                   *)
(*                                                                         *)
(* A player is its client handle; it holds up to five sources, each named  *)
(* by its pipe.  What a call does is a transformer of a World: the         *)
(* player's fields, its sources and the handler thread's source set, which *)
(* is sent when the call ends.  What one poll of the players requests is   *)
(* sent at its end too, where the code may send it in two items (the seek  *)
(* that has ended, AudioPlayer.cpp:906, and the next source, 991).  A call *)
(* that may end in several ways yields a set of worlds.  Positions, metadata*)
(* and buffering are left out, and with them playback_completed_, which    *)
(* only a position is computed from.                                       *)
(***************************************************************************)
EXTENDS AudioMixer, FiniteSets

CallNames == {"prepare", "start", "pause", "stop", "seek", "setLooping", "setNextPlayer"}

\* What an application does, and what may fail under it: the calls, at most max_calls, on
\* these players; a source may be found unreadable after it was created; there may be no
\* pipe, or no memory, for a new source.
ScenarioRecords == [calls : SUBSET CallNames, max_calls : Nat, clients : SUBSET Clients,
                    preparation_fails : BOOLEAN, creation_fails : BOOLEAN]

CONSTANTS Scenarios,
          ClientList   \* audio_players_info_: the players in the order they are polled in
ASSUME ScenariosAssumption == Scenarios \subseteq ScenarioRecords
ASSUME ClientListAssumption ==
  /\ ClientList \in Seq(Clients)
  /\ \A c \in Clients : \E i \in DOMAIN ClientList : \A j \in DOMAIN ClientList : ClientList[j] = c <=> j = i

ASSUME NobodyAssumption == None \notin Pipes \cup Clients   \* a null pointer

VARIABLES
  scenario,    \* the one of this behaviour, it never changes
  players,     \* the fields of each player
  decoder,     \* per pipe: the decoder of the source that feeds it
  completed,   \* per pipe: playback_completed_ of that source
  event,       \* the event the mixer raises on a client, None when there is none
  pass,        \* which part of AudioSystem::poll() comes next
  calls,       \* the number of calls made
  asserts      \* the assertions that have failed, the null pointers used, and whether a source got no pipe

playerVars == <<scenario, players, decoder, completed, event, pass, calls, asserts>>
allVars == <<vars, playerVars>>

Args == INSTANCE PlayerArguments

Roles == {"preparing", "ready", "active", "next", "old"}
Reasons == {"none", "preparing", "seeking", "rewinding"}
StopCauses == Stopped \cup {"invalid", "unused"}
EndCauses == {"stoppedEnd", "stoppedEndNoLoop", "stoppedEndLoop"}
DecoderStates == {"none", "preparing", "prefetched", "failed", "paused", "playing", "stopped"}

Players == [src : [Roles -> Pipes \cup {None}], reason : Reasons, prepared : BOOLEAN,
            started : BOOLEAN, start_pending : BOOLEAN, seek_pending : BOOLEAN,
            sought : BOOLEAN, next_player : Clients \cup {None}, stop_cause : StopCauses]

IdlePlayer == [src |-> [r \in Roles |-> None], reason |-> "none", prepared |-> FALSE,
               started |-> FALSE, start_pending |-> FALSE, seek_pending |-> FALSE,
               sought |-> FALSE, next_player |-> None, stop_cause |-> "invalid"]

InitPlayers ==
  /\ Init
  /\ scenario \in Scenarios
  /\ players = [c \in Clients |-> IdlePlayer]
  /\ decoder = [p \in Pipes |-> "none"]
  /\ completed = [p \in Pipes |-> "no"]
  /\ event = None
  /\ pass = "messages"
  /\ calls = 0
  /\ asserts = {}

World == [players |-> players, decoder |-> decoder, completed |-> completed, set |-> requested,
          sources |-> sources, data_end |-> data_end, looping |-> looping, asserts |-> asserts]

\* the end of a call: its DeferredApplication is applied
Commit(w) ==
  /\ players' = w.players /\ decoder' = w.decoder /\ completed' = w.completed
  /\ sources' = w.sources /\ data_end' = w.data_end /\ looping' = w.looping
  /\ asserts' = w.asserts
  /\ Apply(w.set)
  /\ UNCHANGED <<active, state_, handler, unapplied, item, notify_queue, mixerVars>>

-----------------------------------------------------------------------------
(* The sources of a player.                                                *)

Source(w, c, r) == w.players[c].src[r]
Has(w, c, r) == Source(w, c, r) # None
Current(w, c) == IF Has(w, c, "active") THEN Source(w, c, "active") ELSE Source(w, c, "ready")

SetSource(w, c, r, p) == [w EXCEPT !.players[c].src[r] = p]
SetStarted(w, c, started) == [w EXCEPT !.players[c].started = started]
ClearPending(w, c) == [w EXCEPT !.players[c].start_pending = FALSE]
Update(w, p, args) == [w EXCEPT !.set = AttachOrUpdate(w.set, p, args)]
Expect(w, holds, name) == IF holds THEN w ELSE [w EXCEPT !.asserts = @ \cup {name}]

FadeIn(w, c, operation) == Args!ActiveFadeInParams(c, w.players[c].next_player, operation)
NextFadeIn(w, c) == Args!NextFadeInParams(c, w.players[c].next_player)
OldFadeOut(w, c) == Args!OldFadeOutParams(c, w.players[c].next_player)

\* what becomes of a source that no role holds any more: its pipe is detached, it is deleted
Deleted(w, p) ==
  [w EXCEPT !.set = Detach(@, p), !.sources = @ \ {p}, !.decoder[p] = "none", !.completed[p] = "no",
            !.data_end[p] = IF w.set.slots[p] = None THEN "none" ELSE @]

\* a source that is released is not being prepared any more
Unprepared(w, c, r) == IF r = "preparing" THEN [w EXCEPT !.players[c].reason = "none"] ELSE w

\* releaseAudioSource()
Release(w, c, r) ==
  IF Has(w, c, r) THEN Deleted(SetSource(Unprepared(w, c, r), c, r, None), Source(w, c, r))
                  ELSE Unprepared(w, c, r)

ReleaseAll(w, c) ==
  Release(Release(Release(Release(Release(w, c, "preparing"), c, "old"), c, "next"), c, "active"), c, "ready")

\* checkedMoveAudioSource()
Move(w, c, from, to) ==
  SetSource(SetSource(Expect(w, ~Has(w, c, to), "move"), c, to, Source(w, c, from)), c, from, None)

PreparingTo(w, c, r) == [Move(Release(w, c, r), c, "preparing", r) EXCEPT !.players[c].reason = "none"]
NextToReady(w, c) == Move(Release(w, c, "ready"), c, "next", "ready")
ActiveToOld(w, c) == Move(Release(w, c, "old"), c, "active", "old")

\* stopDecoder(): for good, the decoder is deleted
StopDecoders(w, c, roles) ==
  LET stops == {Source(w, c, r) : r \in roles} \ {None}
  IN [w EXCEPT !.decoder = [p \in Pipes |-> IF p \in stops THEN "stopped" ELSE @[p]]]

FreePipes(w) == {p \in Pipes : p \notin w.sources /\ w.set.slots[p] = None}

\* createAndStartPreparingNextAudioSource(): the worlds with the new source, or without
CreatedWith(w, c, reason, roles) ==
  {[SetSource(StopDecoders(Expect(w, ~Has(w, c, "preparing"), "move"), c, roles), c, "preparing", p)
      EXCEPT !.sources = @ \cup {p}, !.decoder[p] = "preparing", !.players[c].reason = reason]
    : p \in FreePipes(w)}
\* before the other decoders are stopped, or after
NotCreated(w, c) ==
  {[v EXCEPT !.players[c].reason = "none"] :
    v \in IF scenario.creation_fails THEN {w, StopDecoders(w, c, Roles)}
          ELSE IF FreePipes(w) = {} THEN {Expect(w, FALSE, "no pipe")} ELSE {}}

Creations_KeepsActive(w, c, reason) == CreatedWith(w, c, reason, Roles \ {"active"}) \cup NotCreated(w, c)

Creations(w, c, reason) == CreatedWith(w, c, reason, Roles) \cup NotCreated(w, c)

-----------------------------------------------------------------------------
(* The calls of the application.                                           *)

\* startReadySourceInternal(), ready_source_ being there and prepared
StartReady(w, c) ==
  LET p == Source(w, c, "ready")
      moved == Move(Update(w, p, FadeIn(w, c, "start")), c, "ready", "active")
  IN ClearPending(SetStarted(moved, c, TRUE), c)

Stop_StaysPending(w, c) ==
  [ReleaseAll(w, c) EXCEPT
     !.players[c] = [@ EXCEPT !.prepared = FALSE, !.seek_pending = FALSE, !.sought = FALSE, !.started = FALSE]]

Stop(w, c) ==
  [ReleaseAll(w, c) EXCEPT
     !.players[c] = [@ EXCEPT !.prepared = FALSE, !.seek_pending = FALSE, !.sought = FALSE,
                              !.started = FALSE, !.start_pending = FALSE]]

\* preparePatialStart(), which the state of the player's owner allows when it is stopped
Prepare(w, c) ==
  IF w.players[c].prepared \/ Has(w, c, "preparing") THEN {}
  ELSE Creations(Stop(w, c), c, "preparing")

Start(w, c) ==
  LET pl == w.players[c]
      pending == [w EXCEPT !.players[c].start_pending = TRUE]
  IN IF pl.started \/ pl.start_pending \/ ~pl.prepared THEN {}
     ELSE IF Has(w, c, "ready") THEN {StartReady(w, c)}
     ELSE IF Has(w, c, "next") \/ Has(w, c, "preparing") THEN {pending}
     ELSE Creations(pending, c, "rewinding")

Pause_NoFadeOut(w, c) ==
  LET pl == w.players[c]
  IN IF pl.started /\ Has(w, c, "active")
       THEN {ClearPending(SetStarted(Move(w, c, "active", "ready"), c, FALSE), c)}
     ELSE IF pl.start_pending /\ ~pl.started THEN {ClearPending(w, c)}
     ELSE {}

Pause(w, c) ==
  LET pl == w.players[c]
      fading == Update(w, pl.src["active"], Args!ActiveFadeOutParams(c))
  IN IF pl.started /\ Has(w, c, "active")
       THEN {ClearPending(SetStarted(Move(fading, c, "active", "ready"), c, FALSE), c)}
     ELSE IF pl.start_pending /\ ~pl.started THEN {ClearPending(w, c)}
     ELSE {}

\* the request is made at once, and remembered as the last one when it succeeds
SeekNow(w, c) ==
  LET v == [Release(w, c, "preparing") EXCEPT !.players[c].seek_pending = FALSE]
  IN {[x EXCEPT !.players[c].sought = @ \/ Has(x, c, "preparing")] : x \in Creations(v, c, "seeking")}

\* it is deferred when the last one was made a moment ago
SeekLater(w, c) ==
  LET fades == ~w.players[c].seek_pending /\ Has(w, c, "active")
      v == IF fades THEN Update(w, Source(w, c, "active"), Args!ActiveFadeOutParams(c)) ELSE w
  IN [Release(v, c, "preparing") EXCEPT !.players[c].seek_pending = TRUE]

SeekTo(w, c) ==
  IF ~w.players[c].prepared THEN {}
  ELSE SeekNow(w, c) \cup (IF w.players[c].sought THEN {SeekLater(w, c)} ELSE {})

ToggleLooping(w, c) ==
  {[w EXCEPT !.looping = IF c \in @ THEN @ \ {c} ELSE @ \cup {c}]}

\* refreshCurrentSourceToMixer()
Refresh(w, c) ==
  IF Current(w, c) = None THEN w ELSE Update(w, Current(w, c), FadeIn(w, c, "none"))

SetNextPlayer(w, c) ==
  {LET v == [w EXCEPT !.players[c].next_player = n] IN Refresh(v, c)
    : n \in (Clients \cup {None}) \ {c, w.players[c].next_player}}

Outcomes(call, w, c) ==
  CASE call = "prepare"       -> Prepare(w, c)
    [] call = "start"         -> Start(w, c)
    [] call = "pause"         -> Pause(w, c)
    [] call = "stop"          -> {Stop(w, c)}
    [] call = "seek"          -> SeekTo(w, c)
    [] call = "setLooping"    -> ToggleLooping(w, c)
    [] call = "setNextPlayer" -> SetNextPlayer(w, c)

-----------------------------------------------------------------------------
(* AudioPlayer::poll().                                                    *)

PollRequired(w, c) ==
  \/ w.players[c].started \/ w.players[c].start_pending \/ w.players[c].seek_pending
  \/ Has(w, c, "preparing")

\* pollHandlePendingSeekRequest(), which waits while the last request is recent
PendingSeek(w, c) == IF w.players[c].seek_pending THEN {w} \cup SeekNow(w, c) ELSE {w}

RewoundSourceWanted_Early(w, c) ==
  /\ w.players[c].prepared /\ Current(w, c) # None
  /\ ~Has(w, c, "preparing") /\ ~Has(w, c, "next")

\* the decoder of the current source has produced all its data
RewoundSourceWanted(w, c) ==
  /\ w.players[c].prepared /\ Current(w, c) # None
  /\ ~Has(w, c, "preparing") /\ ~Has(w, c, "next")
  /\ w.data_end[Current(w, c)] # "none"

RewoundCreation(w, c) ==
  IF RewoundSourceWanted(w, c) THEN Creations(w, c, "rewinding") ELSE {w}

PreparingDone(w, c, ok) ==
  IF ok THEN [PreparingTo(Update(w, Source(w, c, "preparing"), FadeIn(w, c, "none")), c, "ready")
                EXCEPT !.players[c].prepared = TRUE]
  ELSE ReleaseAll(w, c)

\* the source being played is replaced, or the source that will be
SeekingDone(w, c, ok) ==
  LET p == Source(w, c, "preparing")
      from == Source(w, c, "active")
      fading == Update(w, from, OldFadeOut(w, c))
  IN IF ~ok THEN Release(w, c, "preparing")
     ELSE IF ~w.players[c].started
       THEN PreparingTo(ActiveToOld(Update(w, p, FadeIn(w, c, "none")), c), c, "ready")
     ELSE IF from = None THEN Expect(w, FALSE, "null active_source_")
     ELSE Move(PreparingTo(ActiveToOld(Update(fading, p, FadeIn(w, c, "start")), c), c, "ready"),
               c, "ready", "active")

RewindingDone(w, c, ok) ==
  LET p == Source(w, c, "preparing")
      alone == ~Has(w, c, "ready") /\ ~Has(w, c, "active")
      ready == PreparingTo(Update(w, p, FadeIn(w, c, "none")), c, "ready")
  IN IF ~ok THEN ReleaseAll(w, c)
     ELSE IF ~alone THEN PreparingTo(Update(w, p, NextFadeIn(w, c)), c, "next")
     ELSE IF w.players[c].started THEN StartReady(ready, c) ELSE ready

\* pollPreparingSource()
PollPreparing(w, c) ==
  LET p == Source(w, c, "preparing")
      reason == w.players[c].reason
      ok == w.decoder[p] = "prefetched"
      prepared == [w EXCEPT !.decoder[p] = IF ok THEN "paused" ELSE @]
  IN IF p = None THEN w
     ELSE IF w.decoder[p] = "preparing" THEN w
     ELSE CASE reason = "preparing" -> PreparingDone(prepared, c, ok)
            [] reason = "seeking"   -> SeekingDone(prepared, c, ok)
            [] reason = "rewinding" -> RewindingDone(prepared, c, ok)

\* startAsNextPlayer()
CanStartAsNext(w, n) ==
  LET pl == w.players[n]
  IN /\ ~pl.started /\ ~pl.start_pending /\ pl.prepared /\ Has(w, n, "ready")
     /\ w.completed[pl.src["ready"]] # "no" => Has(w, n, "next")
StartAsNext(w, n) ==
  IF w.completed[Source(w, n, "ready")] # "no" THEN StartReady(NextToReady(w, n), n) ELSE StartReady(w, n)

PendingStart(w, c) ==
  LET n == w.players[c].next_player
      v == IF ~Has(w, c, "ready") /\ Has(w, c, "next") THEN NextToReady(w, c) ELSE w
  IN IF ~w.players[c].start_pending THEN w
     ELSE IF c \notin w.looping /\ n # None /\ CanStartAsNext(w, n) THEN ClearPending(StartAsNext(w, n), c)
     ELSE IF Has(v, c, "ready") THEN StartReady(v, c) ELSE v

IsCompleted(w, c) ==
  /\ Current(w, c) # None /\ w.completed[Current(w, c)] # "no"
  /\ w.players[c].stop_cause \in EndCauses
Looped(w, c) == w.players[c].stop_cause = "stoppedEndLoop"

PlaybackCompletion(w, c) ==
  LET next(v) == IF Has(v, c, "next") THEN NextToReady(v, c) ELSE v
      played == next(Release(Release(w, c, "old"), c, "active"))
      unplayed == next(Release(w, c, "ready"))
      v == Refresh(IF ~w.players[c].started THEN unplayed
                   ELSE IF Looped(w, c) THEN Move(played, c, "ready", "active")
                   ELSE SetStarted(played, c, FALSE), c)
      none == \A r \in Roles \ {"old"} : ~Has(v, c, r)
  IN IF ~IsCompleted(w, c) THEN {w}
     ELSE IF none THEN Creations(v, c, "rewinding") ELSE {v}

PollPlayer(w, c) ==
  IF ~PollRequired(w, c) THEN {w}
  ELSE UNION {PlaybackCompletion(PendingStart(PollPreparing(x, c), c), c)
              : x \in UNION {RewoundCreation(v, c) : v \in PendingSeek(w, c)}}

\* the players before the n-th of the list have been polled, and the n-th
Polled[n \in 0..Len(ClientList)] ==
  IF n = 0 THEN {World} ELSE UNION {PollPlayer(w, ClientList[n]) : w \in Polled[n - 1]}

-----------------------------------------------------------------------------
(* The mixer's events.                                                     *)

Resumed(w, p) == [w EXCEPT !.decoder[p] = IF @ = "paused" THEN "playing" ELSE @]
Paused(w, p) == [w EXCEPT !.decoder[p] = IF @ = "playing" THEN "paused" ELSE @]

OnMixingStarted(w, c, p, cause) ==
  CASE Source(w, c, "active") = p \/ Source(w, c, "old") = p -> Resumed(w, p)
    [] Source(w, c, "ready") = p ->
         IF ~w.players[c].started /\ cause = "startedNoLoop"
           THEN ClearPending(SetStarted(Move(Resumed(w, p), c, "ready", "active"), c, TRUE), c)
           ELSE w
    [] Source(w, c, "next") = p -> IF cause = "startedLoop" THEN Resumed(w, p) ELSE w
    [] OTHER -> w

OnMixingStopped(w, c, p, cause) ==
  LET v == IF Current(w, c) = p THEN [w EXCEPT !.players[c].stop_cause = cause] ELSE w
  IN CASE \E r \in {"active", "ready", "next"} : Source(w, c, r) = p -> Paused(v, p)
       [] Source(w, c, "old") = p -> Release(v, c, "old")
       [] OTHER -> v

Handled(w, c) ==
  IF event.state \in Started THEN OnMixingStarted(w, c, event.pipe, event.state)
                             ELSE OnMixingStopped(w, c, event.pipe, event.state)

-----------------------------------------------------------------------------
(* The steps.                                                              *)

\* A bound: NumItems is small, so the players wait while as many items as a poll of the
\* mixer may need are not left; 31 items are not used up in this way.
ItemsLeft(n) == request_free > n

Call ==
  /\ pass = "messages" /\ handler = "idle" /\ ItemsLeft(2) /\ calls < scenario.max_calls
  /\ \E call \in scenario.calls, c \in scenario.clients : \E w \in Outcomes(call, World, c) : Commit(w)
  /\ calls' = calls + 1
  /\ UNCHANGED <<scenario, event, pass>>

\* the mixer is resumed first, when it has to be
PollPlayers ==
  /\ pass = "messages" /\ handler = "idle"
  /\ state_ = "suspended" => CanSuspend
  /\ IF ItemsLeft(1)
       THEN \E w \in Polled[Len(ClientList)] : Commit(w)
       ELSE UNCHANGED <<vars, players, decoder, completed, asserts>>
  /\ pass' = "mixer"
  /\ UNCHANGED <<scenario, event, calls>>

SkipMixer ==
  /\ pass = "mixer" /\ handler = "idle" /\ CanSuspend
  /\ pass' = "pipes"
  /\ UNCHANGED <<vars, scenario, players, decoder, completed, event, calls, asserts>>

\* AudioDataPipeManager::poll(): the END_OF_DATA blocks the mixer has read come back
PollPipes ==
  /\ pass = "pipes"
  /\ pass' = "messages"
  /\ completed' = [p \in Pipes |-> IF p \notin sources THEN completed[p]
                                   ELSE CASE data_end[p] = "end" -> "end"
                                          [] data_end[p] = "loop" -> "loop"
                                          [] OTHER -> completed[p]]
  /\ UNCHANGED <<vars, scenario, players, decoder, event, calls, asserts>>

\* the players are told of a slot before the next one is handled
HandleEvent ==
  /\ event # None
  /\ \E c \in Clients :
       /\ \E r \in Roles : players[c].src[r] = event.pipe
       /\ Commit(Handled(World, c))
  /\ event' = None
  /\ UNCHANGED <<scenario, pass, calls>>

\* the client's source is gone
DropEvent ==
  /\ event # None /\ \A c \in Clients, r \in Roles : players[c].src[r] # event.pipe
  /\ event' = None
  /\ UNCHANGED <<vars, scenario, players, decoder, completed, pass, calls, asserts>>

Dispatch(p) ==
  /\ event = None
  /\ HandleSlot(p)
  /\ event' = IF handler' # "callback" THEN None
              ELSE [pipe |-> p, state |-> item.slots[p].state]
  /\ UNCHANGED <<scenario, players, decoder, completed, pass, calls, asserts>>

PollMixerPass ==
  /\ event = None
  /\ \/ pass = "mixer" /\ PollMixer /\ UNCHANGED pass
     \/ PollDone /\ pass' = "pipes"
     \/ (ReceiveItem \/ RecycleItem) /\ UNCHANGED pass
     \/ pass = "messages" /\ (Suspend \/ Resume) /\ UNCHANGED pass
  /\ UNCHANGED <<scenario, players, decoder, completed, event, calls, asserts>>

\* a source's decoder: it gets ready or fails, and later ends
Prefetched(p) ==
  /\ decoder[p] = "preparing"
  /\ \E d \in IF scenario.preparation_fails THEN {"prefetched", "failed"} ELSE {"prefetched"} :
       decoder' = [decoder EXCEPT ![p] = d]
  /\ UNCHANGED <<vars, scenario, players, completed, event, pass, calls, asserts>>

SourceEnds(p) ==
  /\ decoder[p] \in {"prefetched", "paused", "playing"}
  /\ DecoderEnds(p)
  /\ UNCHANGED playerVars

MixerSteps == MixerThread /\ UNCHANGED playerVars

HandlerSteps ==
  \/ PollPlayers \/ SkipMixer \/ PollPipes \/ HandleEvent \/ DropEvent
  \/ \E p \in Pipes : Dispatch(p)
  \/ PollMixerPass

NextPlayers ==
  \/ Call \/ HandlerSteps \/ MixerSteps
  \/ \E p \in Pipes : Prefetched(p) \/ SourceEnds(p)

PlayerSpec == InitPlayers /\ [][NextPlayers]_allVars

-----------------------------------------------------------------------------
PlayersTypeOK ==
  /\ players \in [Clients -> Players]
  /\ decoder \in [Pipes -> DecoderStates]
  /\ completed \in [Pipes -> {"no", "end", "loop"}]
  /\ event \in [pipe : Pipes, state : SlotStates] \cup {None}
  /\ pass \in {"messages", "mixer", "pipes"}
  /\ calls \in 0..scenario.max_calls
  /\ asserts \subseteq {"move", "null active_source_", "no pipe"}

\* checkedMoveAudioSource() always finds its destination empty: no source is deleted without
\* being detached from the mixer.
NoAssertFails == "move" \notin asserts

\* handlePreparationCompleteForSeeking() asks nothing of active_source_ when there is none.
NoNullSource == "null active_source_" \notin asserts

SourcesOf(c) == {players[c].src[r] : r \in Roles} \ {None}
LiveDecoders == {p \in Pipes : decoder[p] \in {"preparing", "prefetched", "paused", "playing"}}

\* Every live source has one owner, in one role, whatever fails on the way, and of a player's sources at most
\* one has a decoder at work: two would read the file descriptor of the player at the same time.
SourcesOwned ==
  /\ NoAssertFails
  /\ sources = UNION {SourcesOf(c) : c \in Clients}
  /\ \A c \in Clients, r \in Roles : players[c].src[r] # None =>
       \A d \in Clients, s \in Roles : players[d].src[s] = players[c].src[r] => c = d /\ r = s
  /\ \A c \in Clients : Cardinality(SourcesOf(c) \cap LiveDecoders) <= 1

\* No source fails to be created or prepared, and there was a pipe for each.
NothingFails == ~scenario.preparation_fails /\ ~scenario.creation_fails /\ "no pipe" \notin asserts
NoSeeks == "seek" \notin scenario.calls
NoLoops == "setLooping" \notin scenario.calls /\ Loopers = {}

\* As long as nothing fails, a started player has a source to play, or one being rewound to be played, and a start
\* that waits has a source to wait for; a seek that ends finds the source it replaces (AudioPlayer.cpp:885). A player
\* that both seeks and loops is left out: handlePreparationCompleteForSeeking() finds none when two loop points pass
\* while the source it prepares is not ready.
SourceToPlay == NothingFails /\ (NoSeeks \/ NoLoops) =>
  /\ NoNullSource
  /\ \A c \in Clients :
       /\ players[c].started =>
            \/ players[c].src["active"] # None
            \/ players[c].src["preparing"] # None /\ players[c].reason = "rewinding"
       /\ players[c].start_pending =>
            players[c].seek_pending \/ \E r \in {"ready", "next", "preparing"} : players[c].src[r] # None

Heard(c) == {p \in Pipes : /\ current.slots[p] # None /\ current.slots[p].client = c
                           /\ slot_state[p] \in Started /\ p \notin fading_out
                           /\ "ended" \notin flags[p]}

\* With nothing on its way between the threads.
AtRest == request_queue = <<>> /\ notify_queue = <<>> /\ handler = "idle" /\ current.updated = {}
          /\ requested.updated = {}
\* What starts a source without a call of its player: a loop point, or the end of another player.
NoTriggers == "setLooping" \notin scenario.calls /\ \A d \in Clients : players[d].next_player = None

\* Of a player's sources at most one is heard, except for one that is fading out; and where no loop point and no
\* other player's end starts a source, once the mixer knows what a player asked for, one that is not started is not
\* heard, and once the player knows what the mixer does, the decoder of what is heard runs, or has produced its last
\* data: it starts paused, and only the report that the mixer has started the source resumes it.
HeardAsAsked ==
  /\ \A c \in Clients : Cardinality(Heard(c)) <= 1
  /\ NoTriggers =>
       \A c \in Clients :
         /\ ~players[c].started /\ request_queue = <<>> /\ looping = {} => Heard(c) = {}
         /\ AtRest /\ event = None => \A p \in Heard(c) : decoder[p] \notin {"preparing", "prefetched", "paused"}

\* With nothing on its way, a player that is heard knows that it is started.
HeardIsStarted == AtRest => \A c \in Clients : Heard(c) # {} => players[c].started

\* Whatever fails, what a started player plays can get to its end: the decoder of its source has neither failed nor
\* been stopped before the end of its data, though creating a source stops the decoders of all others
\* (AudioPlayer.cpp:672), or that end is on its way.  The decoder may be paused as yet: that it is resumed is a part
\* of HeardAsAsked.  A seek may stop the decoder of a source that is played afterwards.
PlaysToItsEnd == \A c \in Clients :
  LET p == players[c].src["active"]
  IN (/\ players[c].started /\ p # None /\ NoSeeks) => p \in LiveDecoders \/ data_end[p] # "none"
=============================================================================
