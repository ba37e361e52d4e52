---------------------------- MODULE AudioOutput ----------------------------
(***************************************************************************)
(* The way of the mixed sound to the device: AudioSystem::poll()           *)
(* suspends and resumes the mixer and the sink, the mixer thread fills the *)
(* sink pipe and a capture pipe, and one of the sink's two back ends empties *)
(* the sink pipe: a buffer queue whose callback the OpenSL player makes,   *)
(* or a thread that writes to an AudioTrack.                               *)
(*                                                                         *)
(* The mixer itself is in AudioMixer.tla; here it is one source that is    *)
(* requested, started and ended, and what is mixed is sound while it is    *)
(* started and silence otherwise.  Enqueue() and AudioTrack::write()       *)
(* succeed: a short write would end the writer thread.                     *)
(***************************************************************************)
EXTENDS AudioPipeBufferQueueBinder, AudioCaptureDataPipe

CONSTANTS Backends,       \* the back ends an audio system may be given
          PlayerBlocks,   \* blocks of the OpenSL player: 4, or 8 in low latency mode
          PooledBlocks,   \* blocks the mixer may be ahead: 4 for OpenSL
          CaptureBlocks,  \* blocks of the capture pipe: 8 or more
          ExtraDelay,     \* kAdditionalMixerSuspendDelayMs, 500 ms, as a number of blocks
          MaxPerPoll,     \* captured blocks handled in one poll: 5
          StartMayFail,   \* the sink may refuse to start
          None

ASSUME OutputAssumption ==
  /\ Backends \subseteq {"opensl", "audio_track"}
  /\ PlayerBlocks \in Nat \ {0, 1} /\ PooledBlocks \in Nat \ {0}
  /\ CaptureBlocks \in Nat \ {0} /\ ExtraDelay \in Nat /\ MaxPerPoll \in Nat \ {0}
  /\ StartMayFail \in BOOLEAN /\ None \notin Nat

VARIABLES
  backend,        \* which back end this audio system has
  sink_pipe, capture_pipe,
  content,        \* what each block of the sink pipe holds
  order,          \* the blocks written and not yet played, oldest first
  binder,         \* of the OpenSL back end
  writer,         \* the thread of the AudioTrack back end
  buffer,         \* ... and what its buffer holds
  stop_request_,
  sink_state, mixer_state,
  mixer_thread,
  mixing,         \* the sink block the mixer thread is filling
  capturing,      \* ... and whether it holds a capture block too
  capture_enabled,
  source,         \* what the mixer has to play
  handler,        \* where in poll() the handler thread is
  waited,         \* how long the mixer could have been suspended, in blocks
  delivered       \* captured blocks handled in this poll

pipes     == <<sink_pipe, content, order>>
device    == <<binder, writer, buffer, stop_request_>>
thread    == <<mixer_thread, mixing, capturing>>
states    == <<sink_state, mixer_state>>
polling   == <<handler, waited, delivered>>
captured  == <<capture_pipe, capture_enabled>>
vars == <<backend, pipes, device, thread, source, states, polling, captured>>

OpenSL == backend = "opensl"
\* one more for OpenSL, the silent one
NumPipeBlocks(b) == IF b = "opensl" THEN PlayerBlocks + PooledBlocks + 1 ELSE PooledBlocks + 1
Blocks == 1 .. NumPipeBlocks(backend)

\* initialize(): everything is created, the mixer suspended and the sink stopped
Init ==
  /\ backend \in Backends
  /\ LET pipe == setupQueues(NumPipeBlocks(backend))
     IN /\ sink_pipe = IF OpenSL THEN bound(pipe) ELSE pipe
        /\ binder = IF OpenSL THEN initializeBinder(pipe, PlayerBlocks) ELSE None
  /\ capture_pipe = setupCaptureQueues(CaptureBlocks)
  /\ content = [b \in Blocks |-> "silence"]
  /\ order = <<>>
  /\ writer = "none" /\ buffer = "silence" /\ stop_request_ = FALSE
  /\ sink_state = "stopped" /\ mixer_state = "suspended"
  /\ mixer_thread = "checking" /\ mixing = None /\ capturing = FALSE
  /\ capture_enabled = FALSE
  /\ source = "none"
  /\ handler = "idle" /\ waited = None /\ delivered = 0

MaxWait == NumPipeBlocks(backend) - 1 + ExtraDelay
\* a block period passes; time is counted in the blocks the device takes
Later == waited' = IF waited = None THEN None ELSE IF waited < MaxWait THEN waited + 1 ELSE waited

-----------------------------------------------------------------------------
(* The handler thread: messages, and AudioSystem::poll().                  *)

Audible == {"started", "detached"}
canSuspend == source = "none"

\* a player starts its source, or a visualizer is switched on or off
Attach ==
  /\ handler = "idle" /\ source = "none" /\ mixer_state # "stopped"
  /\ source' = "requested"
  /\ UNCHANGED <<backend, pipes, device, thread, states, polling, captured>>

\* it is paused or stopped; a source that was only requested is taken, and given up, by the mixer thread
Detach ==
  /\ handler = "idle" /\ source \in {"requested", "started"}
  /\ source' = "detached"
  /\ UNCHANGED <<backend, pipes, device, thread, states, polling, captured>>

setAudioCaptureEnabled ==
  /\ handler = "idle"
  /\ capture_enabled' = ~capture_enabled
  /\ UNCHANGED <<backend, pipes, device, thread, source, states, polling, capture_pipe>>

\* mutant: a player that waits for the mixer is no reason to poll
PollingRequired_MixerOnly == mixer_state = "started" \/ isCapturedDataAvailable(capture_pipe)
\* determineNextPollingTime() is not "never"
PollingRequired == ~canSuspend \/ mixer_state = "started" \/ isCapturedDataAvailable(capture_pipe)

EnteredCanSuspend == IF ~canSuspend THEN None ELSE IF waited = None THEN 0 ELSE waited
\* mutant: the pipe's blocks are not waited for
Suspends_AtOnce == mixer_state = "started" /\ canSuspend
Suspends == mixer_state = "started" /\ canSuspend /\ EnteredCanSuspend >= MaxWait
Resumes == mixer_state = "suspended" /\ ~canSuspend

pollControlMixerAndSinkSuspendResume ==
  /\ handler = "idle" /\ PollingRequired
  /\ waited' = EnteredCanSuspend
  /\ \/ /\ Suspends
        /\ mixer_state' = "suspended" /\ handler' = "stopping sink"
     \/ /\ Resumes
        /\ mixer_state' = "started" /\ handler' = "starting sink"
     \/ /\ ~Suspends /\ ~Resumes
        /\ mixer_state' = mixer_state /\ handler' = "polling mixer"
  /\ UNCHANGED <<backend, pipes, device, thread, source, sink_state, delivered, captured>>

\* onStart() of the back ends
startPlayer == binder' = beforeStart(binder) /\ UNCHANGED <<writer, buffer>>
startStream == writer = "none" /\ writer' = "starting" /\ buffer' = "silence" /\ UNCHANGED binder

\* AudioSink::start()
startSink ==
  /\ handler = "starting sink" /\ sink_state = "stopped"
  /\ sink_state' = "started" /\ handler' = "polling mixer"
  /\ IF OpenSL THEN startPlayer ELSE startStream
  /\ UNCHANGED <<backend, pipes, stop_request_, thread, source, mixer_state, waited, delivered, captured>>

\* the player or the thread cannot be started: the mixer is stopped, for good
startSinkFails ==
  /\ handler = "starting sink" /\ StartMayFail
  /\ mixer_state' = "stopped" /\ handler' = "joining mixer"
  /\ UNCHANGED <<backend, pipes, device, thread, source, sink_state, waited, delivered, captured>>

joinMixer ==
  /\ handler = "joining mixer" /\ mixer_thread = "ended"
  /\ handler' = "polling mixer"
  /\ UNCHANGED <<backend, pipes, device, thread, source, states, waited, delivered, captured>>

\* onStop() of the back ends: the writer thread has to be joined
stopPlayer == binder' = afterStop(binder) /\ UNCHANGED stop_request_
stopStream == stop_request_' = TRUE /\ UNCHANGED binder

\* AudioSink::stop()
stopSink ==
  /\ handler = "stopping sink" /\ sink_state = "started"
  /\ IF OpenSL
       THEN stopPlayer /\ sink_state' = "stopped" /\ handler' = "polling mixer"
       ELSE stopStream /\ UNCHANGED sink_state /\ handler' = "joining writer"
  /\ UNCHANGED <<backend, pipes, writer, buffer, thread, source, mixer_state, waited, delivered, captured>>

joinWriter ==
  /\ handler = "joining writer" /\ writer = "exited"
  /\ writer' = "none" /\ stop_request_' = FALSE
  /\ sink_state' = "stopped" /\ handler' = "polling mixer"
  /\ UNCHANGED <<backend, pipes, binder, buffer, thread, source, mixer_state, waited, delivered, captured>>

\* AudioMixer::poll(): what the mixer thread reported reaches the player
pollMixer ==
  /\ handler = "polling mixer"
  /\ source' = IF source = "ended" THEN "none" ELSE source
  /\ handler' = "obtaining" /\ delivered' = 0
  /\ UNCHANGED <<backend, pipes, device, thread, states, waited, captured>>

\* one round of the loop, or its end
pollObtainCapturedAudioData ==
  /\ handler = "obtaining"
  /\ IF mixer_state = "started" /\ delivered < MaxPerPoll /\ isCapturedDataAvailable(capture_pipe)
       THEN /\ capture_pipe' = unlockCaptureRead(lockCaptureRead(capture_pipe))
            /\ delivered' = delivered + 1 /\ UNCHANGED handler
       ELSE handler' = "idle" /\ delivered' = 0 /\ UNCHANGED capture_pipe
  /\ UNCHANGED <<backend, pipes, device, thread, source, states, waited, capture_enabled>>

Poll ==
  \/ pollControlMixerAndSinkSuspendResume
  \/ startSink \/ startSinkFails \/ joinMixer \/ stopSink \/ joinWriter
  \/ pollMixer \/ pollObtainCapturedAudioData

-----------------------------------------------------------------------------
(* The mixer thread.                                                       *)

\* the requests to suspend and to stop are looked at first, and while it is suspended
mixerThreadChecksRequests ==
  /\ mixer_thread \in {"checking", "suspended"}
  /\ mixer_thread' = CASE mixer_state = "suspended" -> "suspended"
                       [] mixer_state = "stopped"   -> "ended"
                       [] OTHER                     -> "updating"
  /\ UNCHANGED <<backend, pipes, device, mixing, capturing, source, states, polling, captured>>

\* mixerThreadUpdateAudioSourceSets()
mixerThreadUpdatesSource ==
  /\ mixer_thread = "updating" /\ mixer_thread' = "mixing"
  /\ source' = CASE source = "requested" -> "started"
                 [] source = "detached"  -> "ended"
                 [] OTHER                -> source
  /\ UNCHANGED <<backend, pipes, device, mixing, capturing, states, polling, captured>>

\* mixerThreadHandleAudioDataBlocks(): the blocks are locked ...
mixerThreadLocksBlocks ==
  /\ mixer_thread = "mixing" /\ mixing = None /\ CanLockWrite(sink_pipe, 0)
  /\ mixing' = Head(sink_pipe.producer) /\ sink_pipe' = lockWrite(sink_pipe)
  /\ capturing' = (capture_enabled /\ CanCapture(capture_pipe))
  /\ capture_pipe' = IF capturing' THEN lockCaptureWrite(capture_pipe) ELSE capture_pipe
  /\ UNCHANGED <<backend, content, order, device, mixer_thread, source, states, polling, capture_enabled>>

mixerThreadFindsNoBlock ==
  /\ mixer_thread = "mixing" /\ mixing = None /\ ~CanLockWrite(sink_pipe, 0)
  /\ mixer_thread' = "checking"
  /\ UNCHANGED <<backend, pipes, device, mixing, capturing, source, states, polling, captured>>

\* ... and given on, when they are filled; the source may be at its end
mixerThreadUnlocksBlocks ==
  /\ mixing # None
  /\ content' = [content EXCEPT ![mixing] = IF source \in Audible THEN "sound" ELSE "silence"]
  /\ source' \in {source} \cup (IF source = "started" THEN {"ended"} ELSE {})
  /\ sink_pipe' = unlockWrite(sink_pipe, mixing) /\ order' = Append(order, mixing)
  /\ capture_pipe' = IF capturing THEN unlockCaptureWrite(capture_pipe) ELSE capture_pipe
  /\ mixing' = None /\ capturing' = FALSE /\ mixer_thread' = "checking"
  /\ UNCHANGED <<backend, device, states, polling, capture_enabled>>

MixerThread ==
  \/ mixerThreadChecksRequests \/ mixerThreadUpdatesSource
  \/ mixerThreadLocksBlocks \/ mixerThreadFindsNoBlock \/ mixerThreadUnlocksBlocks

-----------------------------------------------------------------------------
(* The back ends.                                                          *)

\* what a free block holds is of no account
Play(block) ==
  /\ order' = Without(order, block)
  /\ content' = [content EXCEPT ![block] = "silence"]

\* the player has played a block; a stopped player makes no callback
playbackBufferQueueCallback ==
  /\ OpenSL /\ sink_state = "started" /\ binder.wait_completion # <<>>
  /\ LET done == handleCallback(binder, sink_pipe)
     IN /\ binder' = done.binder /\ sink_pipe' = done.pipe
        /\ IF done.taken THEN Later ELSE UNCHANGED waited
  /\ IF Completed(binder) = binder.silent THEN UNCHANGED <<order, content>> ELSE Play(Completed(binder))
  /\ UNCHANGED <<backend, writer, buffer, stop_request_, thread, source, states, handler,
                 delivered, captured>>

\* sinkWriterThreadLoop...(): a silent buffer is written first
writerStarts ==
  /\ writer = "starting" /\ writer' = "pulling"
  /\ UNCHANGED <<backend, pipes, binder, buffer, stop_request_, thread, source, states, polling, captured>>

writerExits ==
  /\ writer = "pulling" /\ stop_request_ /\ writer' = "exited"
  /\ UNCHANGED <<backend, pipes, binder, buffer, stop_request_, thread, source, states, polling, captured>>

\* audioTrackStreamCallback(): when there is no block, the buffer is left as it is
audioTrackStreamCallback ==
  /\ writer = "pulling" /\ ~stop_request_
  /\ IF CanLockRead(sink_pipe, 0)
       THEN LET block == Head(sink_pipe.consumer)
            IN /\ buffer' = content[block]
               /\ sink_pipe' = unlockRead(lockRead(sink_pipe), block)
               /\ Play(block) /\ Later
       ELSE UNCHANGED <<buffer, sink_pipe, order, content, waited>>
  /\ writer' = "writing"
  /\ UNCHANGED <<backend, binder, stop_request_, thread, source, states, handler, delivered, captured>>

\* the buffer is written, and written again when it was not refilled
writerWrites ==
  /\ writer = "writing" /\ writer' = "pulling"
  /\ UNCHANGED <<backend, pipes, binder, buffer, stop_request_, thread, source, states, polling, captured>>

Writer == writerStarts \/ writerExits \/ audioTrackStreamCallback \/ writerWrites

Next == Attach \/ Detach \/ setAudioCaptureEnabled \/ Poll \/ MixerThread \/ playbackBufferQueueCallback \/ Writer

\* The handler thread polls as long as polling is required, the mixer thread waits with a timeout,
\* and a device that plays consumes its blocks.
Fairness == WF_vars(Poll) /\ WF_vars(MixerThread)
            /\ WF_vars(playbackBufferQueueCallback) /\ WF_vars(Writer)
Spec == Init /\ [][Next]_vars
FairSpec == Spec /\ Fairness

-----------------------------------------------------------------------------
Numbered(seq) == {seq[i] : i \in DOMAIN seq}
Queued == IF OpenSL
  THEN Without(binder.wait_completion, binder.silent) \o binder.pooled \o sink_pipe.consumer
  ELSE sink_pipe.consumer

\* Every variable has its type; sizes of rings and counters are within their limits.
TypeOK ==
  /\ backend \in Backends
  /\ Numbered(sink_pipe.producer) \cup Numbered(sink_pipe.consumer) \cup Numbered(order) \subseteq Blocks
  /\ content \in [Blocks -> {"silence", "sound"}] /\ buffer \in {"silence", "sound"}
  /\ writer \in {"none", "starting", "pulling", "writing", "exited"} /\ stop_request_ \in BOOLEAN
  /\ sink_state \in {"stopped", "started"} /\ mixer_state \in {"suspended", "started", "stopped"}
  /\ mixer_thread \in {"checking", "suspended", "updating", "mixing", "ended"} /\ mixing \in Blocks \cup {None}
  /\ capturing \in BOOLEAN /\ capture_enabled \in BOOLEAN
  /\ source \in {"none", "requested", "started", "detached", "ended"}
  /\ handler \in {"idle", "starting sink", "stopping sink", "joining writer", "joining mixer",
                  "polling mixer", "obtaining"}
  /\ waited \in (0..MaxWait) \cup {None} /\ delivered \in 0..MaxPerPoll

\* No block is lost, played twice or overtaken: those that were mixed and not yet played are,
\* in the order in which they were mixed, what the device has got, then what it gave back when it
\* was last stopped, then what waits in the pipe; the others are free or being mixed.
PlaysInOrder ==
  /\ Queued = order
  /\ Len(sink_pipe.producer) + Len(order) + (IF mixing = None THEN 0 ELSE 1)
       + (IF OpenSL THEN 1 ELSE 0) = NumPipeBlocks(backend)
  /\ capture_pipe.producer + capture_pipe.consumer + (IF capturing THEN 1 ELSE 0) = CaptureBlocks

\* When the sink is stopped nothing audible is left on the way: what is played first at the next
\* start is not the end of what was heard before.
NothingLeftToReplay ==
  sink_state = "stopped" /\ mixer_state = "suspended" /\ source = "none" =>
    \A b \in Numbered(order) : content[b] = "silence"

\* The sink runs when the mixer does, except while the handler thread changes the one and the other;
\* and a player that runs has blocks to play, so that it calls back.
SinkFollowsMixer ==
  /\ handler \in {"idle", "polling mixer", "obtaining"} =>
       (sink_state = "started") = (mixer_state = "started")
  /\ OpenSL /\ sink_state = "started" => binder.wait_completion # <<>>
  /\ OpenSL \/ (writer = "none") = (sink_state = "stopped")

SoundWaits == \E b \in Numbered(order) : content[b] = "sound"

\* A source that is started is mixed, whatever the state it finds the output in, unless the sink
\* cannot be started; and what is mixed is heard.
SoundIsHeard ==
  /\ source = "requested" ~> source # "requested" \/ mixer_state = "stopped"
  /\ \/ []<>(~SoundWaits \/ mixer_state = "stopped")
     \/ []<><<Len(order') < Len(order)>>_vars
=============================================================================
