# OpenSLMediaPlayer: TLA+ models and proofs

OpenSLMediaPlayer is an Android library that offers the API of `MediaPlayer`
(seamless looping, gapless next player, effects, visualizers) on top of OpenSL ES
and AudioTrack. Its core is native: `library/src/main/jni/openslmediaplayer/source`.
These modules model that core's control: which thread does what, in which order,
on which shared state. Below, file names without a directory are in that directory.

## 1. The system

### Threads

| thread | code | what it does |
|---|---|---|
| client threads | `OpenSLMediaPlayerImpl.cpp` | call a player; a call posts a message and sleeps until it is answered |
| message handler thread, one per context | `MessageHandlerThread.cpp`, `OpenSLMediaPlayerInternalContextImpl.cpp` | handles every request of every player; when none comes in time it polls the audio system |
| mixer thread | `AudioMixer.cpp` | mixes the started sources into the sink pipe; starts and stops sources by itself |
| decoder threads | OpenSL ES, `AudioSource.cpp` | call back with decoded audio, which goes to the source's pipe |
| sink threads | OpenSL ES or `AudioTrackStream.cpp` | pull blocks from the sink pipe and wake the mixer |
| visualizer threads | `OpenSLMediaPlayer*Visualizer.cpp` | take captured blocks and call listeners |

A request goes down: client → message queue → front end → `AudioPlayer` →
`AudioSource` (decoder) and `AudioMixer` (a request item in a lock-free queue) →
mixer thread. What happened comes back up: mixer thread → notice or answer item →
the handler thread's poll → `AudioPlayer::onMixingStarted/Stopped` → front end →
listener.

### Components

| component | state it keeps | operations | what makes it correct |
|---|---|---|---|
| message handler thread | queue, stop request, count of messages taken in a row | post, join, receive, wait, poll | FIFO, no lost wakeup, a poll is not starved |
| player front end | public state, `prepared_result_`, token | the public API, answers, events of the engine | legal transitions, every call returns, answers reach the right caller |
| context | handler slots, extensions, the audio system | register, unregister, dispatch, extension modules | a slot belongs to one player, messages of gone players are dropped |
| audio system | clients, sink, polling period | poll, suspend, resume | order of the polls, nothing suspended while it plays |
| audio player | five sources in roles, pending start and seek | prepare, start, pause, stop, seek, loop, next player, poll | one source is heard, one decoder reads the file, what is started ends |
| audio mixer | three copies of the source set, item pools | attach, update, detach, apply, poll; the mixer thread | both threads agree in the end, a released pipe is not used |
| source pipes | three queues of blocks, ports | lock/unlock produce, consume, recycle | a block has one owner, the end of data comes last |
| audio source | preparation phase, decoder play state | prepare by phases, start, pause, stop, recycle | room for the end, no lost wakeup, destruction returns |
| audio sink | state, sink pipe, binder or writer thread | start, stop, pull | blocks in order, it runs when the mixer does, nothing audible is left for the next start |
| capture and visualizers | capture pipe, clients and listeners, capture threads | write, read, attach, start, stop | a capture thread works for the client in control and is joined when that leaves |
| extension modules | slots, attached handles in order, traits | install, attach, detach, uninstall, dispatch | the newest handle has control, it goes back when that handle leaves, nothing stays on after the last |
| effect handles | settings of the effect | set, get, enable | a call takes effect once or is refused, an effect starts over after its last handle |
| HQ equalizer | settings, three queues of items, gain and target of every band | set, apply, poll; take, ramp, bypass | the last settings arrive; the gains get there step by step, and what is heard is off by no more than the moves that were not loaded |
| signal processing | filter and gain state | process a block | numbers; not for TLC |
| JNI and Java layers | weak references, looper handlers | forward calls and events | events in order |

`PROJECT.json` lists each of them with its files, what is modelled, and why the
rest is not. The hard behaviours are listed there as hazards, at the line where
they bite.

## 2. The modules

| module | models | abstract or detailed |
|---|---|---|
| `MessageChannel` | what the handler thread promises: a FIFO channel with a stop | abstract |
| `MessageHandlerThread` | the queue, the condition variable and the loop of `threadMainLoop()` | implements `MessageChannel` |
| `PlayerLifecycle` | the documented life cycle of a player | abstract |
| `PlayerState` | state masks, transition table and outcome of each request | operators |
| `MediaPlayer` | front ends, client threads, handler slots over the channel | implements `PlayerLifecycle` |
| `PlayerArguments` | the arguments a player passes to the mixer | operators |
| `AudioMixer` | handler side and mixer thread of the mixer, four queues | |
| `AudioPlayer` | players and the order of the polls, composed with `AudioMixer` | EXTENDS it |
| `AudioSourceDataPipe` | one pipe: queues, ports, lock and unlock | |
| `AudioSource` | sources, decoder, and the mixer's use of one pipe | EXTENDS it |
| `AudioSinkDataPipe`, `AudioCaptureDataPipe` | the pipes from the mixer to the sink and to the visualizers | operators |
| `AudioPipeBufferQueueBinder` | the buffer queue of the OpenSL player | operators, EXTENDS the sink pipe |
| `AudioOutput` | suspension and resumption of mixer and sink, the two back ends, the mixer thread as far as it fills the pipes | EXTENDS both |
| `EffectControl` | what the handles of any effect promise | abstract |
| `EffectModule` | the clients of a module and the answers they get | operators |
| `BassBoost`, `Virtualizer`, `Equalizer`, `HQEqualizerEffect`, `PreAmp`, `PresetReverb`, `EnvironmentalReverb`, `Visualizer`, `HQVisualizer` | one kind of handle and module each: arguments, messages, install, uninstall | operators, EXTEND `EffectModule` |
| `AuxEffects` | what the sink sends to the two reverbs | operators |
| `Extensions` | handles, client threads, handler thread, modules, capture threads | implements `EffectControl` for the seven effects |
| `HQEqualizer` | the equalizer between the handler thread and the mixer thread | |
| `MC*` | instances for TLC | |
| `*Proofs` | theorems | |

### MessageHandlerThread

One action per critical section of `mutex_`; a message is its ordinal, and `msg` the one
the worker has in hand, which `MessageChannel` calls `message`: the refinement compares the
messages themselves, not only how many there are. `due` stands for what
`AudioSystem::determineNextPollingTime()` will answer: at once, later, never. It may be
"at once" again right after a poll: a player whose started state changed during the poll
asks for the next one (`AudioSystem.cpp:1034`), and so does a poll that took longer than
its interval of 30 ms (797). Spurious wakeups and timeouts are actions. `post` before `start` is refused.
`overdue` is a history variable: messages taken while a poll is due.

### MediaPlayer

`state_`, `prepared_result_`, `msg_handler_token_`, `player_` and `msgHandlers_` are
the fields of those names. A call is `idle → checked → waiting → answered → idle`;
`prepare()` sleeps a second time in `preparing`. The step between *checked* and the
post is separate because the code reads `state_` and the token without a lock.
`handleRequest` is the whole of `onHandleMessage()`: the state mask, the request,
the transition through `checkStateTransition()`, the answer. The engine (an
`AudioPlayer`) is abstracted to what its callers see: absent, stopped, preparing or
prepared; it may fail at any time. Left out: the listener callbacks, buffering, and
`prev_error_state_`, which only decides whether a request that fails in ERROR
repeats onError.

The contract of the application is in the constants: `MayCall` says which thread
calls which player, and with `ReleaseAlone` nobody calls a player during its
`release()`. A player is initialized before it is shared. Listeners do not call
their player on the handler thread: such a call would wait for itself.

### AudioMixer

`requested`, `active` and `current` are the three copies of the source set:
what the handler thread asks for, what it was last told, what the mixer thread
works on. A slot is identified with the pipe it holds. The mixer thread's iteration
is `MixerTop`, reading of a request or of a recycled item, then `MixerMix`: consume
the sources' ends, check the start conditions (triggers), check the stop conditions,
send a notice. The handler thread's poll is `PollMixer`, then `ReceiveItem`,
`HandleSlot(p)` for each updated slot - the callback of the player runs inside it -
`RecycleItem`, and `PollDone`. Items are counted, not named: `NumItems` belong to
each thread. A take from one queue and the following put are one step; `stop_cond`
has its only used value. Left out: client registration, volumes, effects, capture,
`stop()` and `release()`, and the samples: how far a fade has come and which data
are in a block are free choices.

### AudioPlayer

A player's fields and its five sources (`preparing`, `ready`, `active`, `next`,
`old`). A call transforms a *World* - players, decoders, the requested source set -
which is committed when the call's `DeferredApplication` ends; so all requests of one
call are sent together, as in the code. `pass` follows the order of
`AudioSystem::poll()`: players, mixer, pipes. Left out: positions, metadata,
buffering, volumes, fade settings, aux effects, data source bookkeeping, and
`playback_completed_`, which only a position is computed from. Bounds: `MaxCalls`
calls; with few items the players wait for a free one (`ItemsLeft`).
`asserts` records failed assertions, null pointers that were used, and that a source found
no pipe: that is a failure like the others (`NothingFails`).

### AudioSourceDataPipe and AudioSource

Blocks go round: producer queue → decoder's hands → consumer queue → mixer's hands
→ recycler queue → the handler thread's poll → producer queue. Lock and unlock are
separate steps for the decoder and for the mixer; a poll recycles a block in one
step. The buffers exist while one of the two ports is used, and a new source may
only get a pipe whose ports are both free. Preparation is one phase a poll, as in
`pollPreparing()`. A callback holds `decoder_callback_mutex_` except in its waits,
which time out while playing and do not while paused. The decoder is external: it
calls back one at a time with a block or the end, its `Destroy()` waits for a running
callback, and calls through an unbound interface return an error. A position is a
number of blocks. Left out: the samples, the seek target, the clipping of positions
at the duration.

### AudioOutput

`AudioSystem::poll()` in its order: what may be suspended, the mixer, the sink; the
mixer thread, which takes a block of the sink pipe, fills it, and fills a block of the
capture pipe if there is one; and the back end, chosen in `Init`: the OpenSL player,
whose callback hands back a played block and takes the next, or the writer thread of an
`AudioTrack`. The mixer is one source that is requested, started and ended. `order` is a
history variable, the blocks that were mixed and not yet played. Time is counted in
blocks that the device takes, so a mixer thread starved for longer than the slack of
500 ms is left out. External: `SetPlayState(STOPPED)` waits for a callback in progress,
and `Enqueue` succeeds. What a free block holds is forgotten.

### EffectModule, the effects and Extensions

A handle's constructor and destructor post to the context under its mutex, its other
methods to its module; a call is `idle → posted → replied → idle`, and the message stays
at the head of `queue` until it is answered. `client_queue` lists the attached handles,
the newest first: the head has control. Each effect module turns `system`, the settings
of that effect, into the answer and the new settings; `posting` is the part of a method
before the post, with its checks of the arguments. There are 16 slots and 9 kinds of
modules (`OpenSLMediaPlayerInternalContextImpl.hpp:106`), so a slot always is free and is
named by its kind. `Init` chooses whether the context was created with the option of the
module and whether the device has the interface. A handle is destroyed when nobody uses
it. A strength, a level or a rate is one legal value or an illegal one, by `Legal` and
`Illegal`: EffectControl decides by them what an effect has to take, and `LegalAssumption`
says that the checks of the handles and modules (`Takes`) decide the same.

A visualizer's capture thread is started and joined by the handler thread, which waits:
`handler` says for what. A start may be given up after its three seconds at any moment,
also when the thread has answered. The listener takes its time and returns; it does not
call back into the API from the capture thread (the Java binder posts to a `Handler`).
Left out: failures of OpenSL calls, the captured samples, what two processes do to one
effect.

### HQEqualizer

The handler thread's settings go to the mixer thread as copies in items that circulate
through three queues; what could not be sent is collected in `request` until a poll. The
mixer thread takes all that was sent, works out the targets of the filters (with the
neighbours' share in the peaking processor) and moves every gain by a step per update
block. A gain is a whole number of 0.0005 dB: a millibel is 20, a step 250, and the correction
of -0.15 exact. A level is in millibel; `setBandLevel()` clamps it, `setAllBandLevel()`
does not. `loaded` is the gain a filter's coefficients were last computed for, and
`unloaded`, a history variable, the number of times the gain was moved since without loading
them: the update that reaches the target answers that there is nothing to load. The
processor is chosen in `Init`. A queue has room for every item and moves are atomic. The
filters' arithmetic is left out.

## 3. The runs

Every passing run explores its whole state space, between 3,900 and 2.7 million distinct
states, in less than two and a half minutes on two workers.

| run | instance | what it shows |
|---|---|---|
| `handler_thread` | 5 posts, at most 2 messages in a row, every handler result | the worker never sleeps with work; at most `MaxContinuous` messages delay a due poll; a due poll takes place however many messages come, and an accepted message is received however often every poll asks for the next at once; refinement of `MessageChannel`: the messages in their order, none lost, none after a stop |
| `own_players` | 3 players, 2 threads, 2 slots | every call returns, a waiter's message is in the queue, tokens and slots agree, the outcome of a preparation reaches its caller and no one else |
| `shared_player` | 1 player, 2 threads, all requests, `release()` racing | no answer into a dead stack frame, engine and state agree, refinement of `PlayerLifecycle` |
| `mixer` | 2 pipes, 1 client, fair | flags agree with states, reports are expected, an ended source does not start again, releases complete, stops are reported |
| `mixer_pool` | 1 pipe, pools of 1 item that run out, looping toggled | items are conserved, a released pipe is unknown to the mixer |
| `players` | 3 pipes, 4 calls, four uses: prepare, start, pause, stop, seek; setLooping; setLooping with failures; two players with setNextPlayer | sources have one owner and one decoder reads at a time; a started player has a source to play; one source is heard, none when paused, and none at rest that has its decoder paused; what plays has a decoder that is not stopped or its end on its way |
| `source_pipe` | 4 blocks, 2 sources in turn, 6 blocks each, 2 retries | blocks have one owner, data in order with the end last, room suffices, no lost wakeup, destruction returns |
| `audio_output` | either back end, 2 blocks in the device, 2 ahead, sink that may not start | blocks in order and none lost, nothing audible left for the next start, the sink runs with the mixer, what is requested is heard |
| `extensions` | 3 handles, 2 threads, 11 scenarios of kinds | refinement of `EffectControl`, silence without handles, sends to the reverbs, messages find their module, capture threads follow control |
| `hq_equalizer` | 4 bands, both processors, 4 changes, 3 items; levels of less than a step, of several, and one that is clamped | settings arrive; the gains get to what was asked for, and what is heard is off them by less than a step for every move that was not loaded; nothing moves by more than the steps of a block and what was left unloaded before |
| `seek_without_source` | preparation may fail, 3 calls with seek | **violation**, finding 1 |
| `start_lost` | 2 players, setNextPlayer | **violation**, finding 2 |

Why the bounds are enough. Two messages in a row and five posts give a full queue, a
forced poll and a stop in every order. Three players and two slots give a refused
registration and the reuse of a slot. One item per thread makes the pool run out at
once; three pipes are a source being played, one being prepared and one fading out;
four calls are the longest chain in which a call meets the consequences of the three
before (prepare, start, pause, start). Four blocks with room 2 and 1 and a prefetch
of 2 are the smallest capacity the code accepts, so room is tight; six blocks go
round the pipe and meet used blocks; two sources test the reuse of a pipe. The pipes
are interchangeable, so `players` uses symmetry; it checks invariants only. Two blocks
in the device are the fewest with one being played and one queued, and two more let the
mixer be ahead. Three handles are one in control, the one that gets it back and one that
is neither; two threads are enough for a call that crosses the loss of control. Handles
and threads are interchangeable: `extensions` uses symmetry and checks safety only. Kinds
share no state but the pairs that are put together, the two reverbs (`AuxEffects`) and the
two visualizers (the handler thread, which waits for their threads). Of four bands two
have two neighbours and are processed as a pair; 80 millibel are more than six steps,
more than a mixer block makes, so settings change while filters move, and 8 or 16
millibel are a little less and a little more than a step of 12.5, so that moves that are
not loaded add up. Of the reverbs' three levels two are below -72 dB, the same millibel.

Fairness. The handler thread, the mixer thread, a joining thread and the clients
that have been answered are scheduled (weak fairness of their steps). The handler
thread polls again and again: `PollNotStarved` and `BothAreServed` of the first module
are what justifies the strong fairness of `PollMixer` and `Resume` in `AudioMixer`,
which requests of the clients may disable in between. In `AudioSource` only a running
callback and the return of `Destroy()` are fair; no client has to do anything. In
`AudioOutput` the poll, the mixer thread, the player's callback and the writer thread are
fair: a device that is started calls back. In `HQEqualizer` the poll, which the handler
thread repeats while `isPollingRequired()` says so, and the mixer thread. `Extensions`
states the fairness of the handler thread, of the capture threads and of listeners that
return, for use without symmetry; its run checks safety.
`CHECK_DEADLOCK FALSE` is set where the system may stop: a released player, an
application that has made its last call, a pipe after its last source.

Every property of a passing run has a mutant in `PROJECT.json`: a plausible bug in a
mapped definition that makes TLC find the property violated.

## 4. Findings

1. A null `active_source_` is used (`AudioPlayer.cpp:881`): a failed rewind releases
   the sources and leaves `started_` set, and the next seek assumes an active source.
   It takes no failure: when two loop points pass while the source of a seek is being
   prepared, the second finds no ready source to play next (`AudioPlayer.cpp:1079`), and the
   seek that then ends no active one. `Scenarios <- LoopingSeekOnly` in
   `AudioPlayerSeekNull.cfg` shows it in four calls: prepare, setLooping, start, seek.
2. A start is never reported (`AudioMixer.cpp:2287`): the answer is copied before the
   start conditions are checked and `updated_bitmap` is cleared after, so the next
   player is mixed while it believes that it is not started.

Seen with other constants, and not among the runs:

- a loop whose trigger fired just before `pause()` is heard until the event comes
  (`AudioPlayer.cpp:1204`);
- `current_source_stop_cause_` outlives its source (`AudioPlayer.cpp:1050`);
- a loop is missed when the end is mixed before the rewound source is prepared (1074);
- a seek while `next_source_` is prepared stops that source's decoder for good but
  keeps the source (672), which then never ends;
- `start()` ignores that no source could be created (1130): it waits for nothing;
- a deferred seek that fails raises no event (1007-1031);
- after a failed rewind the player is started, has no source and raises no error
  (937-969);
- a stopped `preparing_source_` whose replacement does not start is polled for ever
  (681-694);
- a triggered target inherits the fade-out mode of the slot that triggered it;
- when no item is free an attachment and its detachment merge in one request;
- after fifty seconds without room the decoder callback gives up and the block in the
  adapter is lost (`AudioSource.cpp:1588`);
- `prepare()` can block for ever (`OpenSLMediaPlayerImpl.cpp:492`): a `reset()` of another
  thread abandons a preparation without setting `prepared_result_`, and the outcome of the
  next one wakes one waiter only. `IBasicMediaPlayer.java:371` says that it "blocks until
  MediaPlayer is ready for playback"; with two threads and setDataSource, prepare and reset
  TLC shows a caller blocked while the player is PREPARED.

Of the output: a short write ends the writer thread while the sink stays started
(`AudioTrackStream.cpp:549`, left out of the model); when the pipe is empty the callback
returns 0, which no writer loop looks at, and the last block is written again
(`AudioSinkAudioTrackBackend.cpp:182`); captured blocks left at a suspension keep the
handler thread polling and are delivered after the next resume (`AudioSystem.cpp:846`).

Of the extensions and visualizers:

- `setWindowFunction()` of the HQ visualizer changes nothing for a client without control
  and tells it success (`OpenSLMediaPlayerHQVisualizer.cpp:976`, modelled), although
  `IHQVisualizer.java:228` documents a failure;
- when a handle takes control while the capture thread of another runs, the thread goes on
  for the other; the new one's `setEnabled(true)` does nothing and its listener is refused
  while capturing is enabled; if the other is then destroyed the thread keeps a pointer to
  it;
- a visualizer stays enabled for the handle that gets control next;
- a start given up in `onDetach()` leaves the visualizer enabled without a thread;
- a C++ listener that calls its visualizer from the capture thread while the handler thread
  joins it waits for ever;
- a message for an empty slot is never answered (`OpenSLMediaPlayerInternalContextImpl.cpp:614`);
  `MessagesFindTheirModule` says that handles do not send one.

Of the HQ equalizer: the update that reaches the target reports that nothing was updated,
so the filter is not loaded for it (`HQEqualizerBandCalculator.hpp:101`,
`HQEqualizer.cpp:960`). A change loses up to a step of 0.125 dB in this way. Changes that are
each smaller than a step (12.5 millibel; for the neighbours of a band a change of it by 83
millibel) are not heard at all, and they add up: a band may be heard arbitrarily far from what
it was set to. The next change that is loaded, or the bypass that follows `setEnabled(false)`,
makes all of it heard at once. The two properties of the run say so: their bounds grow with
`unloaded`. With bounds that do not - within a step of the gain, a block's steps at once - TLC
finds both violated on the run's own levels. And if the ring buffer of the empty
submodule keeps one slot free, so that three items fill the request queue, the two steps of
`move_and_update_queue_item()` (`HQEqualizer.cpp:292`) leave a moment in which the handler
thread finds no slot for an item it has just recycled.

This is why the uses of `players` have different calls and failures, and why its
properties say for which they hold.

## 5. The proofs

Theorems in eight modules, for every value of the constants that satisfies the named
assumptions (items, slots, queue lengths, clients, players, pipes, handles, threads, blocks
and bands are unbounded). Each module names its inductive invariant.

**MessageHandlerThreadProofs.** `TypeCorrect`; `FifoHolds` from the fact that the
queue is the interval between received and posted; `NoLostWakeup`; `PollBound`, whose
strengthening `DebtInv` says that the debt is covered by the counter that forces the
poll; `ImplementsChannel`, one step per action: that the message taken is the next of those
the channel has accepted, and the one in hand is the last that was received (`MsgInv`),
which uses that the queue is that interval.

**MediaPlayerProofs.** The inductive invariant `IInv` adds to `TypeOK` and
`ResultPointersLive`: the shape of a call at each place (`CallsFormed`), that queued
requests carry a token (`RequestsTagged`), that a slot's player holds its address
(`SlotsHeld`), that a registration is alone with its player (`RegisterAlone`), that an
unregistration happens once (`UnregisterOnce`), and that an engine is used only in a
slot (`EngineInSlot`). `PointersStayLive` alone would not be inductive: a message of a
released player must be known to be dropped. From it follow `EngineFollowsState` and
`ImplementsLifecycle`, the refinement. They hold even if `release()` races.
`TokensAgreeHolds` and `WaitersServedHolds` need `ReleaseKeptApart`, and
`PrepareOutcomeHolds` needs `OneThreadEach`: the contract of the application (`MayCall`,
`ReleaseAlone`) without which the properties are false. Their invariants `TokensKept`
and `RequestsServed` say that a player's token is its slot's, and that whoever waits
has a request in the queue that names a registered slot.

**AudioMixerProofs.** `TypeCorrect` and `ItemsConservedHolds` (each step moves one
item). `ReleasedPipeSafe` needs `Releasing`: what is marked, requested or held is
attached, a request that detaches is the last that names its pipe, and a detachment
is told once; otherwise the answer that clears a slot could be overtaken by a request
that uses it. `FlagsMatchStatesHolds` follows the flags through the steps of one
iteration. `ReportsExpectedHolds` assumes `~PoolMayRunOut`: a notice for which the mixer
thread has no item is lost, and what follows from that is the hazard at
`AudioMixer.cpp:1535`. It adds that a detachment is the last thing told of a pipe and that
an attachment is told before anything else. `NeverRestartedHolds` assumes `NoStops`: that
no argument asks the mixer to stop a source - `AudioPlayer.cpp` uses only
`OPERATION_START` and `OPERATION_NONE` (lines 893, 1187, 1844-1883). A slot stopped
by request may be started again, whether its data has ended meanwhile or not.

**AudioPlayerProofs.** `SourcesOwnedHolds`: a source belongs to one player in one role,
and the decoder of a pipe runs for the source that holds it. Since a call and a poll
transform a whole world and commit it at the end, the invariant is about worlds
(`Sound`): every operation of a player takes a sound world to a sound one, which is one
lemma each, and the steps of the mixer between them leave players alone. `Polled` shows
that for the loop over all players. `PlaysToItsEndHolds` and `SourceToPlayHolds` rest on a
second invariant of worlds, `Served`, which says for each player what it has to play.
Without seeks, and whatever fails, every source that is played or waits to be played has a
decoder at work or its end on its way (`Supplied`): a source is only created, and the other
decoders only stopped, when the current one has produced all its data. As long as nothing
fails, a started player has an active source and nothing else ready, or, without seeks, its
rewound source being prepared (`ToPlay`); a start that waits has something to wait for
(`ToStart`); and a source that is prepared has not failed (`Prepares`). A player that seeks has
to know besides that it is never told of a loop point, or the completion would take its active
source away while the seek's source is being prepared: `Loopless` says that where no client
loops the mixer marks no slot as looped, reports none, and none of its reports on their way
says so. `SourceToPlay` therefore speaks of players that seek or loop, not both: with both it
is false (section 4). `ClientListAssumption` and `NobodyAssumption` say that the list
that is polled names every player, and that "nobody" is none of them.

**AudioSourceProofs.** `Inductive` is `Control` (types, and what a callback's place,
the ports and the handler's place imply of each other), `BlockHasOneOwner` (the queues
and the two hands are a permutation of the items) and `RoomInv`. `BlocksConserved`;
`RoomSuffices`, which needs only the capacity check of `initialize()`;
`SleepersArePaused`. `HeardInOrderHolds` adds `OrderInv`: the blocks on their way - in the
decoder's buffers, the pipe's queues, the mixer's hand - are the run of numbers that ends
with the last one decoded.

**AudioOutputProofs.** `TypeCorrect`, `PlaysInOrderHolds` and `SinkFollowsMixerHolds`. `IInv` says
at which place of `AudioSystem::poll()` the mixer and the sink may differ (`PhaseInv`), how
many blocks the OpenSL player's queues hold there (`PlayerInv`) and that every block is
free, being mixed, the silent one or queued (`OneOwner`). `NothingLeftToReplayHolds` adds
`SilenceInv`: while nothing is mixed, what is audible is one block nearer to the device for
every block waited for. It assumes `ExtraDelay >= PlayerBlocks \div 2`, that the delay of
the suspension covers the half of the player's buffer queue that is kept filled:
`kAdditionalMixerSuspendDelayMs` is 500 ms (`AudioSystem.cpp:412`, `:485`), many times half of the
player's 4 or 8 blocks. TLC finds it false without that, with 4 player blocks and a delay of one.

**HQEqualizerProofs.** `FiltersFollowSettings`: the filters move towards the levels the mixer thread
was told last, and rest there. `SoundFollowsSettingsHolds` and `GainsMoveGraduallyHolds` hold
for all levels and settings: an update moves a gain by a step at most, and what is loaded is off the
gain by a step at most for every update that was not loaded (section 4). `SettingsInv` relates the newest requests on their way, the one
being filled and the levels in force; `HeardInv` relates what is loaded to what is aimed at.

**ExtensionsProofs.** The inductive invariant `Protocol` relates the four places that
know of a handle: what its call is about (`CallsInv`), who else may be calling
(`AloneInv`), the queued messages (`QueueInv`) and the clients of its module with their number
(`SlotsInv`): a handle is a client from the answer to its constructor to the moment its
destructor takes it out. `MessagesFindTheirModuleHolds` follows. `Quiet` says that the
sends follow the selection and what is not installed is off; it rests on a lemma per
kind of module, that a message changes its own setting only and, for a reverb, the sends.
`SendsFollowSelectionHolds` and `SilentWithoutHandlesHolds` follow. `ControlInv` is about the
two visualizers at the places where the handler thread waits for their thread. `Settled`,
which `CaptureFollowsControl` states between messages, is broken there on purpose: while
`setEnabled()` waits the mixer still captures, or does not yet; while a client leaves its
thread is already told to stop. `Waits` says what holds instead, by the message and the
place: what the handler thread will find when it goes on - the sender is still in control,
the status is what it was when the wait began, and a thread it started has neither ended nor
been told to. `CaptureFollowsControlHolds` needs both, that a newcomer has no listener yet,
and that the client in control stays so when another leaves (`HeadKept`).
`ListenerLeavesHolds`, an action property, adds that there is no client where there is no
thread (`NoClient`): every answer to who gives control up comes after the join.

`EffectControlHolds` is the refinement of `EffectControl`. What EffectControl sees of a state
is the clients of each effect, the settings of an installed one and the calls of effects;
`CallsSeen`, `AttachSeen`, `DetachSeen` and `MessageSeen` map the caller's steps and the three
kinds of messages to its steps, and what concerns visualizers or players is a stutter. The
answer to a message is worked out effect by effect. Two facts, `Promised`, are needed besides
`Protocol` and `Quiet`. The argument a posted message carries is legal, because the handle
refuses the others before it posts - but for the preset that is none, which only the module
refuses, and only for the client in control. And the levels of the equalizer are those of its
preset: it writes all its settings once more when it is enabled
(`workAroundRefreshSettings`), and EffectControl, which knows of no such thing, would see
levels change.

`LegalAssumption` divides the arguments into legal and illegal ones as those checks do, and
`NullAssumption` and `HandlesAssumption` say that `NULL` is no handle and no record of one,
`AskedAssumption` and `ArgumentsAssumption` that what is asked is a method of the handle and
that `setEnabled()` gets a boolean.

What the proofs cover has made room in the runs: the type invariants of the first three
modules, `Fifo` (the queue is the interval between received and posted, from which `ChannelSpec`
follows) and the bound of the
free items are proved and no longer checked there.

There is no RECURSIVE operator in a module that is proved about. `Without` (a ring
without one block), `Polled` (the players in their order) and `handleOnDetach` (the clients
without one) are recursive functions; what is proved of them is by the least number for
which it would fail, from the well-founded order of the natural numbers.

Only model-checked: the liveness properties and what relies on fairness, which the provers
cannot reason about; and `HeardAsAsked` of the players, which needs what is on its way between
the threads.

## 6. Not modelled

The context's own life cycle (it outlives its players and handles by reference counting;
`release()` leaves queued messages unanswered), client registration and volumes of the
mixer, the stereo volume pipe and the trace logger. What is captured: the samples and the
buffers they are read back from in time. Signal processing, JNI, Java wrappers, vendored
code and examples stay out: numbers, forwarding, or code of others. The unbinding of the
decoder's buffer queue without the callback mutex (`AudioSource.cpp:748`) is one step of the
model. The lock-free ring buffers come from an empty submodule and are modelled from their
use, as sequences with one reader and one writer.

Failures of what is below the code that the modules leave out: `Enqueue()` of the OpenSL player
(`AudioPipeBufferQueueBinder.cpp:196`, after which the block is in no queue), `SetPlayState()` of a
decoder (`AudioSource.cpp:773`), a short `AudioTrack` write, which ends the writer thread
(`AudioTrackStream.cpp:460`, `:549`), `pthread_create()` and `pthread_join()` of a capture thread
(`OpenSLMediaPlayerVisualizer.cpp:1365`, `:1421`; that its start times out is modelled). The
untimed wait of the decoder callback does not end by itself (`AudioSource.cpp:1607`), those of
the message handler thread may. One poll of the players sends what it requests in one item, where a
seek that ends and the source that follows may take two (`AudioPlayer.cpp:906`, `:991`).

## 7. Plan

Done: the way from a client's call to the block the device plays, the extensions that
change or watch it, and the safety of every module but for what section 5 lists. Left to
prove or to model:

1. `AudioPlayer`: a proof of `HeardAsAsked`, which needs what is on its way between the threads;
   and, under fairness of the decoders, the mixer and the poll, that a started player without
   looping completes. The runs check the safety that this rests on (there is a source to play, its
   decoder is at work when nothing else is under way), not the liveness: with the players, the
   mixer and the pools the graph is too large for it.
2. The split of `releaseDecoderResources()` and of the poll's recycling in `AudioSource`; the
   buffers of the captured data.
