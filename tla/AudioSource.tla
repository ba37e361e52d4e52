---------------------------- MODULE AudioSource ----------------------------
(***************************************************************************)
(* The sources (AudioSource.cpp) that use one pipe in turn, and the        *)
(* threads around it: the handler thread prepares, starts, pauses, stops   *)
(* and destroys a source and recycles blocks; the decoder's thread fills   *)
(* blocks in callbacks, under decoder_callback_mutex_; the mixer thread    *)
(* consumes them.                                                          *)
(*                                                                         *)
(* A position is a number of blocks.  The decoder is OpenSL ES: it calls   *)
(* back one at a time while it is playing, with a block or with the end,   *)
(* and Destroy() waits for a running callback to return.  How many output  *)
(* blocks a call makes ready (resampling, AudioDataAdapter.cpp) is free.   *)
(* SetPlayState() of a decoder that exists succeeds, and a wait without a  *)
(* time limit ends when it is notified only.                               *)
(***************************************************************************)
EXTENDS AudioSourceDataPipe

CONSTANTS RoomPlaying, RoomPaused,   \* room_for_audio_data_while_playing, _while_paused
          PrefetchCount,             \* prefetch_count
          MaxRetries,                \* of the waits for room (500 in the code)
          MaxReady,                  \* bound: output blocks one call makes ready
          MaxBlocks,                 \* bound: blocks a source decodes
          MaxSources                 \* bound: sources that use the pipe

\* DecodeQueueParams, and the capacity check of initialize()
ASSUME ParamsAssumption ==
  /\ RoomPlaying \in Nat \ {0} /\ RoomPaused \in Nat \ {0}
  /\ PrefetchCount \in Nat /\ MaxRetries \in Nat
  /\ NumItems >= RoomPlaying + PrefetchCount /\ NumItems >= RoomPaused + PrefetchCount
ASSUME BoundsAssumption == MaxReady \in Nat /\ MaxBlocks \in Nat /\ MaxSources \in Nat

VARIABLES
  \* the source
  phase,                        \* of the prepare context
  error,                        \* ... and its outcome
  decoder_play_state_,          \* what the callbacks go by
  prefetch_status_,             \* "none", "sufficient" or "error"
  pushed_block_count_,
  decoder_end_of_data_detected_,
  current_position_msec_,
  playback_completed_,
  \* the decoder and its thread
  decoder,                      \* objDecoder_ exists
  sl_play_state,                \* its play state in OpenSL ES
  callback,                     \* the callback it is in, and how far
  waiting,                      \* ... waiting on decoder_callback_cv_
  ready,                        \* the output blocks it has still to push
  retry_cnt,
  \* the other threads
  handler,                      \* the handler thread is idle or waits in Destroy()
  mixer,                        \* the mixer's slot for the pipe
  sources                       \* number of sources so far

source  == <<phase, error, decoder_play_state_, prefetch_status_, pushed_block_count_,
             decoder_end_of_data_detected_, current_position_msec_, playback_completed_>>
thread  == <<callback, waiting, ready, retry_cnt>>
vars    == <<pipe, source, decoder, sl_play_state, thread, handler, mixer, sources>>

\* pollPreparing() does one phase a call
NextPhase ==
  [started |-> "make_source", make_source |-> "setup_callbacks",
   setup_callbacks |-> "start_decoder_prefetch", start_decoder_prefetch |-> "wait_decoder_prefetch",
   wait_decoder_prefetch |-> "get_metadata", get_metadata |-> "create_adapter",
   create_adapter |-> "seek", seek |-> "setup_source_queue",
   setup_source_queue |-> "start_queue_prefetch", start_queue_prefetch |-> "wait_queue_prefetch",
   wait_queue_prefetch |-> "completed"]

Phases == {"none", "completed"} \cup DOMAIN NextPhase

Init ==
  /\ PipeInit
  /\ phase = "none" /\ error = FALSE
  /\ decoder_play_state_ = "stopped" /\ prefetch_status_ = "none"
  /\ pushed_block_count_ = 0 /\ decoder_end_of_data_detected_ = FALSE
  /\ current_position_msec_ = 0 /\ playback_completed_ = FALSE
  /\ decoder = FALSE /\ sl_play_state = "stopped"
  /\ callback = "none" /\ waiting = "no" /\ ready = 0 /\ retry_cnt = 0
  /\ handler = "idle" /\ mixer = "detached" /\ sources = 0

-----------------------------------------------------------------------------
(* decoder_callback_mutex_ is held all through a callback but in its waits *)

MutexFree == callback = "none" \/ waiting # "no"

\* mutant: only a wait with a timeout is woken
notify_all_TimedOnly == waiting' = IF waiting = "untimed" THEN "untimed" ELSE "no"
notify_all == waiting' = "no"

-----------------------------------------------------------------------------
(* Handler thread: the life of a source.                                   *)

\* a source is constructed on a pipe without users
initialize ==
  /\ handler = "idle" /\ sources < MaxSources
  /\ ~in_port_user /\ ~out_port_user
  /\ setInPortUser
  /\ phase' = "none" /\ error' = FALSE
  /\ decoder_play_state_' = "stopped" /\ prefetch_status_' = "none"
  /\ pushed_block_count_' = 0 /\ decoder_end_of_data_detected_' = FALSE
  /\ current_position_msec_' = 0 /\ playback_completed_' = FALSE
  /\ callback' = "none" /\ ready' = 0 /\ retry_cnt' = 0
  /\ sources' = sources + 1
  /\ UNCHANGED <<decoder, sl_play_state, waiting, handler, mixer>>

startPreparing ==
  /\ handler = "idle" /\ in_port_user /\ phase = "none"
  /\ phase' = "started"
  /\ UNCHANGED <<pipe, error, decoder_play_state_, prefetch_status_, pushed_block_count_,
                 decoder_end_of_data_detected_, current_position_msec_, playback_completed_,
                 decoder, sl_play_state, thread, handler, mixer, sources>>

Polling(p) == handler = "idle" /\ in_port_user /\ phase = p

\* the phases that call the decoder fail once it is destroyed
NeedsDecoder == {"setup_callbacks", "start_decoder_prefetch", "get_metadata",
                 "setup_source_queue", "start_queue_prefetch"}

\* the step of a phase succeeds, or ends the preparation with an error
Proceed(p) == (p \in NeedsDecoder => decoder) /\ phase' = NextPhase[p] /\ UNCHANGED error
Fail       == phase' = "completed" /\ error' = TRUE

\* a phase that touches nothing the callbacks use, and its possible outcomes
Quiet(p, may_fail) ==
  /\ Polling(p)
  /\ Proceed(p) \/ (may_fail /\ Fail)
  /\ UNCHANGED <<pipe, decoder_play_state_, prefetch_status_, pushed_block_count_,
                 decoder_end_of_data_detected_, current_position_msec_, playback_completed_,
                 decoder, sl_play_state, thread, handler, mixer, sources>>

prepareInternalCleanup                == Quiet("started", FALSE)
prepareInternalSetupCallbacks         == Quiet("setup_callbacks", TRUE)
prepareInternalExtractMetadata        == Quiet("get_metadata", TRUE)
prepareInternalCreateAudioDataAdapter == Quiet("create_adapter", TRUE)
prepareInternalSeekToInitialPosition  == Quiet("seek", TRUE)
prepareInternalSetupDecoderQueue      == Quiet("setup_source_queue", TRUE)

pollQuietPhase ==
  \/ prepareInternalCleanup \/ prepareInternalSetupCallbacks \/ prepareInternalExtractMetadata
  \/ prepareInternalCreateAudioDataAdapter \/ prepareInternalSeekToInitialPosition
  \/ prepareInternalSetupDecoderQueue

prepareInternalMakeDecoder ==
  /\ Polling("make_source")
  /\ \/ Proceed("make_source") /\ decoder' = TRUE
     \/ Fail /\ UNCHANGED decoder
  /\ UNCHANGED <<pipe, decoder_play_state_, prefetch_status_, pushed_block_count_,
                 decoder_end_of_data_detected_, current_position_msec_, playback_completed_,
                 sl_play_state, thread, handler, mixer, sources>>

prepareInternalStartDecoderPrefetch ==
  /\ Polling("start_decoder_prefetch")
  /\ prefetch_status_' = "none"
  /\ \/ /\ Proceed("start_decoder_prefetch")
        /\ sl_play_state' = "paused" /\ decoder_play_state_' = "paused"
     \/ Fail /\ UNCHANGED <<sl_play_state, decoder_play_state_>>
  /\ UNCHANGED <<pipe, pushed_block_count_, decoder_end_of_data_detected_, current_position_msec_,
                 playback_completed_, decoder, thread, handler, mixer, sources>>

\* the decoder's prefetch callback
prefetchEventCallback ==
  /\ decoder /\ sl_play_state # "stopped" /\ prefetch_status_ = "none"
  /\ prefetch_status_' \in {"sufficient", "error"}
  /\ UNCHANGED <<pipe, phase, error, decoder_play_state_, pushed_block_count_,
                 decoder_end_of_data_detected_, current_position_msec_, playback_completed_,
                 decoder, sl_play_state, thread, handler, mixer, sources>>

prepareInternalPollDecoderPrefetch ==
  /\ Polling("wait_decoder_prefetch") /\ prefetch_status_ # "none"
  /\ IF prefetch_status_ = "sufficient" THEN Proceed("wait_decoder_prefetch") ELSE Fail
  /\ UNCHANGED <<pipe, decoder_play_state_, prefetch_status_, pushed_block_count_,
                 decoder_end_of_data_detected_, current_position_msec_, playback_completed_,
                 decoder, sl_play_state, thread, handler, mixer, sources>>

\* the first callbacks come after this; it is the one change of
\* decoder_play_state_ that is not notified
prepareInternalStartQueuePrefetch ==
  /\ Polling("start_queue_prefetch") /\ MutexFree
  /\ \/ /\ Proceed("start_queue_prefetch")
        /\ sl_play_state' = "playing" /\ decoder_play_state_' = "playing"
     \/ Fail /\ UNCHANGED <<sl_play_state, decoder_play_state_>>
  /\ UNCHANGED <<pipe, prefetch_status_, pushed_block_count_, decoder_end_of_data_detected_,
                 current_position_msec_, playback_completed_, decoder, thread, handler, mixer, sources>>

Prefetched == decoder_end_of_data_detected_ \/ pushed_block_count_ >= PrefetchCount

\* mutex tried, not waited for; the decoder itself goes on playing
prepareInternalPollQueuePrefetch ==
  /\ Polling("wait_queue_prefetch") /\ MutexFree /\ Prefetched
  /\ Proceed("wait_queue_prefetch")
  /\ decoder_play_state_' = "paused"
  /\ notify_all
  /\ UNCHANGED <<pipe, prefetch_status_, pushed_block_count_, decoder_end_of_data_detected_,
                 current_position_msec_, playback_completed_, decoder, sl_play_state,
                 callback, ready, retry_cnt, handler, mixer, sources>>

\* AudioPlayer starts and pauses sources that are prepared and not stopped
Controllable == handler = "idle" /\ in_port_user /\ phase = "completed" /\ ~error /\ decoder

\* mutant: start() does not wake the decoder's thread
start_NoNotify ==
  /\ Controllable /\ MutexFree
  /\ sl_play_state' = "playing" /\ decoder_play_state_' = "playing"
  /\ UNCHANGED waiting
  /\ UNCHANGED <<pipe, phase, error, prefetch_status_, pushed_block_count_,
                 decoder_end_of_data_detected_, current_position_msec_, playback_completed_,
                 decoder, callback, ready, retry_cnt, handler, mixer, sources>>
start ==
  /\ Controllable /\ MutexFree
  /\ sl_play_state' = "playing" /\ decoder_play_state_' = "playing"
  /\ notify_all
  /\ UNCHANGED <<pipe, phase, error, prefetch_status_, pushed_block_count_,
                 decoder_end_of_data_detected_, current_position_msec_, playback_completed_,
                 decoder, callback, ready, retry_cnt, handler, mixer, sources>>

\* ENABLE_DECODER_PAUSING is not defined: the decoder is not told
pause ==
  /\ Controllable /\ MutexFree
  /\ decoder_play_state_' = "paused"
  /\ notify_all
  /\ UNCHANGED <<pipe, phase, error, prefetch_status_, pushed_block_count_,
                 decoder_end_of_data_detected_, current_position_msec_, playback_completed_,
                 decoder, sl_play_state, callback, ready, retry_cnt, handler, mixer, sources>>

\* by its owner, or by the destructor, which then gives up the port
stopDecoder ==
  /\ handler = "idle" /\ in_port_user /\ decoder /\ MutexFree
  /\ sl_play_state' = "stopped" /\ decoder_play_state_' = "stopped"
  /\ notify_all
  /\ handler' \in {"stopping", "destroying"}
  /\ UNCHANGED <<pipe, phase, error, prefetch_status_, pushed_block_count_,
                 decoder_end_of_data_detected_, current_position_msec_, playback_completed_,
                 decoder, callback, ready, retry_cnt, mixer, sources>>

\* objDecoder_.Destroy() has returned
releaseDecoderResources ==
  /\ handler # "idle" /\ callback = "none"
  /\ decoder' = FALSE
  /\ IF handler = "destroying" THEN clearInPortUser ELSE UNCHANGED pipe
  /\ handler' = "idle"
  /\ UNCHANGED <<source, sl_play_state, thread, mixer, sources>>

\* ~Impl() of a source without a decoder
destroy ==
  /\ handler = "idle" /\ in_port_user /\ ~decoder
  /\ clearInPortUser
  /\ UNCHANGED <<source, decoder, sl_play_state, thread, handler, mixer, sources>>

-----------------------------------------------------------------------------
(* Handler thread: AudioDataPipeManager::poll() and the mixer's requests.  *)

Recycled(t) == \E k \in DOMAIN recycler_queue_ : tag[recycler_queue_[k]] \in t

onRecycleItem ==
  /\ current_position_msec_' = position_msec[recycler_queue_[Len(recycler_queue_)]]
  /\ playback_completed_' = (playback_completed_ \/ Recycled({"end", "end_with_loop_point"}))

poll ==
  /\ handler = "idle" /\ recycler_queue_ # <<>> /\ buffer_pool_
  /\ in_port_user \/ out_port_user
  /\ recycleAll
  /\ IF in_port_user THEN onRecycleItem ELSE UNCHANGED <<current_position_msec_, playback_completed_>>
  /\ UNCHANGED <<phase, error, decoder_play_state_, prefetch_status_, pushed_block_count_,
                 decoder_end_of_data_detected_, decoder, sl_play_state, thread, handler, mixer, sources>>

attachSource ==
  /\ handler = "idle" /\ in_port_user /\ phase = "completed" /\ ~error
  /\ mixer = "detached" /\ setOutPortUser
  /\ mixer' = "attached"
  /\ UNCHANGED <<source, decoder, sl_play_state, thread, handler, sources>>

\* the mixer thread has answered the request to detach
detached ==
  /\ handler = "idle" /\ mixer = "detaching" /\ clearOutPortUser
  /\ mixer' = "detached"
  /\ UNCHANGED <<source, decoder, sl_play_state, thread, handler, sources>>

-----------------------------------------------------------------------------
(* Mixer thread.                                                           *)

mixLock ==
  /\ mixer = "attached" /\ consumed = None /\ lockConsume
  /\ UNCHANGED <<source, decoder, sl_play_state, thread, handler, mixer, sources>>

\* the end of a looping player's data is marked as such
mixUnlock ==
  /\ consumed # None
  /\ \E t \in {tag[consumed]} \cup (IF tag[consumed] = "end" THEN {"end_with_loop_point"} ELSE {}) :
       unlockConsume(t)
  /\ UNCHANGED <<source, decoder, sl_play_state, thread, handler, mixer, sources>>

\* between two passes over the slots
mixDetach ==
  /\ mixer = "attached" /\ consumed = None
  /\ mixer' = "detaching"
  /\ UNCHANGED <<pipe, source, decoder, sl_play_state, thread, handler, sources>>

-----------------------------------------------------------------------------
(* Decoder thread.                                                         *)

DecoderRuns == decoder /\ sl_play_state = "playing" /\ callback = "none"

\* the adapter holds back what has not been pushed and drops new input then
MakeReady == ready' \in {n \in ready .. MaxReady : pushed_block_count_ + n <= MaxBlocks}

\* put_input_data()
decodeBufferQueueCallback ==
  /\ DecoderRuns /\ ~decoder_end_of_data_detected_
  /\ pushed_block_count_ + ready < MaxBlocks
  /\ MakeReady
  /\ callback' = "audio" /\ retry_cnt' = 0
  /\ UNCHANGED <<pipe, source, decoder, sl_play_state, waiting, handler, mixer, sources>>

\* HEADATEND: flush()
decoderPlayCallback ==
  /\ DecoderRuns /\ ~decoder_end_of_data_detected_
  /\ MakeReady
  /\ callback' = "flush" /\ retry_cnt' = 0
  /\ UNCHANGED <<pipe, source, decoder, sl_play_state, waiting, handler, mixer, sources>>

Pushing == callback \in {"audio", "flush"} /\ waiting = "no" /\ produced = None
ActiveState == decoder_play_state_ \in {"playing", "paused"}

\* mutant: no room is left while paused
Room_NoneWhilePaused == IF decoder_play_state_ = "playing" THEN RoomPlaying ELSE 0
Room == IF decoder_play_state_ = "playing" THEN RoomPlaying ELSE RoomPaused

waitForProducerQueueAudioDataItem ==
  /\ Pushing /\ ready > 0 /\ ActiveState /\ CanProduce(Room) /\ lockProduce
  /\ UNCHANGED <<source, decoder, sl_play_state, thread, handler, mixer, sources>>

\* playing: retry after a while; paused: until somebody notifies
waitForRoom ==
  /\ Pushing /\ ready > 0 /\ ~CanProduce(Room)
  /\ \/ decoder_play_state_ = "playing" /\ retry_cnt < MaxRetries
        /\ retry_cnt' = retry_cnt + 1 /\ waiting' = "timed"
     \/ decoder_play_state_ = "paused"
        /\ waiting' = "untimed" /\ UNCHANGED retry_cnt
  /\ UNCHANGED <<pipe, source, decoder, sl_play_state, callback, ready, handler, mixer, sources>>

waitTimeout ==
  /\ waiting = "timed"
  /\ waiting' = "no"
  /\ UNCHANGED <<pipe, source, decoder, sl_play_state, callback, ready, retry_cnt, handler, mixer, sources>>

pushConvertedDataIntoProducerQueue ==
  /\ callback \in {"audio", "flush"} /\ produced # None
  /\ unlockProduce("audio", pushed_block_count_)
  /\ pushed_block_count_' = pushed_block_count_ + 1
  /\ ready' = ready - 1 /\ retry_cnt' = 0
  /\ UNCHANGED <<phase, error, decoder_play_state_, prefetch_status_, decoder_end_of_data_detected_,
                 current_position_msec_, playback_completed_, decoder, sl_play_state,
                 callback, waiting, handler, mixer, sources>>

\* stopped, or out of patience
GiveUp == ~ActiveState \/ (decoder_play_state_ = "playing" /\ ~CanProduce(Room) /\ retry_cnt = MaxRetries)

\* all is pushed, or the rest is left for the next callback; after the
\* flush the end of data is marked, whatever became of the rest
pushReturns ==
  /\ Pushing /\ (ready = 0 \/ GiveUp)
  /\ callback' = IF callback = "flush" THEN "event" ELSE "none"
  /\ decoder_end_of_data_detected_' = (decoder_end_of_data_detected_ \/ callback = "flush")
  /\ retry_cnt' = 0
  /\ UNCHANGED <<pipe, phase, error, decoder_play_state_, prefetch_status_, pushed_block_count_,
                 current_position_msec_, playback_completed_, decoder, sl_play_state,
                 waiting, ready, handler, mixer, sources>>

AtEvent == callback = "event" /\ waiting = "no" /\ produced = None

\* up to MaxRetries tries to find a block, while the source is not stopped
waitForProducerQueueEventItem ==
  /\ AtEvent
  /\ IF ActiveState /\ CanProduce(0)
       THEN lockProduce /\ UNCHANGED thread
       ELSE /\ IF ActiveState /\ retry_cnt < MaxRetries
                 THEN retry_cnt' = retry_cnt + 1 /\ waiting' = "timed" /\ UNCHANGED callback
                 ELSE callback' = "none" /\ UNCHANGED <<waiting, retry_cnt>>
            /\ UNCHANGED <<pipe, ready>>
  /\ UNCHANGED <<source, decoder, sl_play_state, handler, mixer, sources>>

pushEvent ==
  /\ callback = "event" /\ produced # None
  /\ unlockProduce("end", pushed_block_count_)
  /\ callback' = "none"
  /\ UNCHANGED <<source, decoder, sl_play_state, waiting, ready, retry_cnt, handler, mixer, sources>>

-----------------------------------------------------------------------------
HandlerNext ==
  \/ initialize \/ startPreparing \/ pollQuietPhase \/ prepareInternalMakeDecoder
  \/ prepareInternalStartDecoderPrefetch \/ prepareInternalPollDecoderPrefetch
  \/ prepareInternalStartQueuePrefetch \/ prepareInternalPollQueuePrefetch
  \/ start \/ pause \/ stopDecoder \/ releaseDecoderResources \/ destroy
  \/ poll \/ attachSource \/ detached
MixerNext == mixLock \/ mixUnlock \/ mixDetach
CallbackNext ==
  \/ waitForProducerQueueAudioDataItem \/ waitForRoom \/ waitTimeout
  \/ pushConvertedDataIntoProducerQueue \/ pushReturns
  \/ waitForProducerQueueEventItem \/ pushEvent
DecoderNext == prefetchEventCallback \/ decodeBufferQueueCallback \/ decoderPlayCallback \/ CallbackNext

Next == HandlerNext \/ MixerNext \/ DecoderNext
Spec == Init /\ [][Next]_vars

\* a running callback makes progress, and Destroy() returns once it can
FairSpec == Spec /\ WF_vars(CallbackNext) /\ WF_vars(releaseDecoderResources)

-----------------------------------------------------------------------------
(* Properties.                                                             *)

TypeOK ==
  /\ PipeTypeOK
  /\ phase \in Phases /\ error \in BOOLEAN
  /\ decoder_play_state_ \in {"stopped", "paused", "playing"}
  /\ prefetch_status_ \in {"none", "sufficient", "error"}
  /\ pushed_block_count_ \in Nat /\ decoder_end_of_data_detected_ \in BOOLEAN
  /\ current_position_msec_ \in Nat /\ playback_completed_ \in BOOLEAN
  /\ decoder \in BOOLEAN /\ sl_play_state \in {"stopped", "paused", "playing"}
  /\ callback \in {"none", "audio", "flush", "event"} /\ waiting \in {"no", "timed", "untimed"}
  /\ ready \in 0 .. MaxReady /\ retry_cnt \in 0 .. MaxRetries
  /\ handler \in {"idle", "stopping", "destroying"}
  /\ mixer \in {"attached", "detaching", "detached"} /\ sources \in 0 .. MaxSources

\* The blocks on their way from the decoder back to the source, oldest first
InFlight == recycler_queue_ \o (IF consumed = None THEN <<>> ELSE <<consumed>>) \o consumer_queue_

IsEnd(i) == tag[i] \in {"end", "end_with_loop_point"}

\* number of blocks of audio data on their way
AudioInFlight == LET n == Len(InFlight) IN IF n > 0 /\ IsEnd(InFlight[n]) THEN n - 1 ELSE n

\* What a live source pushed comes back complete and in order, the end last,
\* and its position is that of the last block that came back; playback is
\* completed only when all of it has; the last tag seen by the mixer is the
\* end only when the end of this very source, not of one before it, passed.
HeardInOrder ==
  in_port_user =>
    /\ \A k \in DOMAIN InFlight :
         /\ IsEnd(InFlight[k]) <=> k > AudioInFlight
         /\ position_msec[InFlight[k]] = pushed_block_count_ - AudioInFlight + k - 1
    /\ playback_completed_ => InFlight = <<>> /\ current_position_msec_ = pushed_block_count_
    /\ ~playback_completed_ =>
         current_position_msec_ = IF pushed_block_count_ = AudioInFlight THEN 0
                                  ELSE pushed_block_count_ - AudioInFlight - 1
    /\ last_consumer_tag_ \in {"end", "end_with_loop_point"} =>
         decoder_end_of_data_detected_ /\ callback = "none" /\ consumer_queue_ = <<>>

\* The rooms and the capacity fit together: the end of data never waits for a
\* block, whatever the audio data took, and the decoder never waits for room
\* before it has prefetched enough for the preparation to complete.
RoomIsKept ==
  /\ AtEvent /\ ActiveState => CanProduce(0)
  /\ phase = "wait_queue_prefetch" /\ waiting # "no" => Prefetched

\* The decoder's thread never sleeps without a timeout once the source has
\* left the paused state: start() and stopDecoder() wake it in every order.
NoLostWakeup == waiting = "untimed" => decoder_play_state_ = "paused"

\* The handler thread, which serves every player, does not stay in Destroy():
\* the callback it waits for leaves, wherever it was when the decoder was
\* stopped.
DestroyReturns == handler # "idle" ~> handler = "idle"
=============================================================================
