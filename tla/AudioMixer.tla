----------------------------- MODULE AudioMixer -----------------------------
(***************************************************************************)
(* The mixer (AudioMixer.cpp): what the handler thread asks for, what the  *)
(* mixer thread does, and the two lock-free queues between them.           *)
(*                                                                         *)
(* The handler thread edits its copy of the source set (requested) and     *)
(* sends copies of it; the mixer thread applies them to its own copy       *)
(* (current) and sends it back, as the answer to a request or as a notice  *)
(* of what it started or stopped by itself.  The handler thread keeps what *)
(* it was last told (active) and raises onMixingStarted / onMixingStopped. *)
(* Items are never allocated: NumItems belong to each thread and travel    *)
(* between the four queues.                                                *)
(*                                                                         *)
(* A slot of the source set is identified with the pipe it holds: a pipe   *)
(* is in at most one slot, there are as many slots as pipes, and a slot is *)
(* cleared exactly when the mixer gives up the pipe.  stop_cond is always  *)
(* STOP_ON_PLAYBACK_END | STOP_AFTER_FADE_OUT, the only value its client   *)
(* uses (AudioPlayer.cpp:1823).  A take from one queue and the put that    *)
(* follows it are one step: the other thread sees only the two ends.       *)
(***************************************************************************)
EXTENDS Naturals, Sequences

CONSTANTS Pipes,            \* the source pipes, one slot each (16 in the code)
          Clients,          \* the registered source clients (at most 4)
          NumItems,         \* items per thread (31 in the code)
          Arguments,        \* the arguments the clients pass to attachOrUpdateSourcePipe()
          PoolMayRunOut,    \* requests are also made when no item is free
          Loopers,          \* the clients that have called setLooping(true) before all else
          Togglers,         \* the clients that call setLooping() at any time
          None

SourceNos == {"active", "next", "old"}
Targets == (Clients \X SourceNos) \cup {None}

\* attach_update_source_args_t, less the pipe; fade_out is the mix mode
ArgumentRecords ==
  [client : Clients, operation : {"none", "start", "stop"}, source_no : SourceNos,
   fade_out : BOOLEAN, trigger_loop : Targets, trigger_no_loop : Targets]

ASSUME NumItemsAssumption  == NumItems \in Nat \ {0}
ASSUME ArgumentsAssumption == Arguments \subseteq ArgumentRecords
ASSUME PoolAssumption      == PoolMayRunOut \in BOOLEAN
ASSUME LoopingAssumption   == Loopers \subseteq Clients /\ Togglers \subseteq Clients

VARIABLES
  \* handler thread
  requested,       \* requested_source_set_: slots and updated_bitmap
  active,          \* active_source_set_: the state each slot was last told to be in
  request_free,    \* number of items in the request thread's free queue
  state_,          \* "started" or "suspended"
  looping,         \* looping_bitmap_
  handler,         \* where the handler thread is
  unapplied,       \* a DeferredApplication is alive and has something to apply
  item,            \* the item being received, less the slots already handled
  \* the queues
  request_queue,   \* request thread to mixer thread
  notify_queue,    \* mixer thread to request thread
  \* mixer thread
  mixer,           \* where the mixer thread is
  current,         \* currnt_src_set: slots and updated_bitmap
  slot_state,      \* the state field of each slot of current
  flags,           \* the FLAG_ bits of each slot
  fading_out,      \* the slots whose mixing context is in a fade-out mode
  seen_looping,    \* the mixer thread's copy of looping_bitmap
  mixer_free,      \* number of items in the mixer thread's free queue
  \* the pipes
  sources,         \* the pipes with an in-port user: a live AudioSource
  data_end         \* per pipe: where its END_OF_DATA event is

requestVars == <<requested, active, request_free, state_, looping, handler, unapplied, item>>
mixerVars == <<mixer, current, slot_state, flags, fading_out, seen_looping, mixer_free>>
pipeVars == <<sources, data_end>>
vars == <<requestVars, request_queue, notify_queue, mixerVars, pipeVars>>

Started == {"startedExplicit", "startedNoLoop", "startedLoop"}
Stopped == {"stoppedExplicit", "stoppedEnd", "stoppedEndNoLoop", "stoppedEndLoop", "stoppedFaded"}
SlotStates == {"unused", "ready"} \cup Started \cup Stopped
FlagNames == {"started", "ended", "looped", "fired", "detach"}

Slots == [client : Clients, operation : {"none", "start", "stop", "detach"},
          source_no : SourceNos, fade_out : BOOLEAN,
          trigger_loop : Targets, trigger_no_loop : Targets]
Reports == [detached : BOOLEAN, state : SlotStates]

\* AudioSourceSet, of which only the slots in updated are ever read
Items(S) == [owner : {"request", "mixer"}, updated : SUBSET Pipes, slots : [Pipes -> S \cup {None}]]
ASSUME NoneAssumption ==
  /\ None \notin (Clients \X SourceNos) \cup Slots \cup Reports \cup SlotStates
  /\ None \notin Items(Reports)
RequestItem(D, f) == [owner |-> "request", updated |-> D, slots |-> f]
MixerItem(D, f) == [owner |-> "mixer", updated |-> D, slots |-> f]
Only(D, f) == [p \in Pipes |-> IF p \in D THEN f[p] ELSE None]

Init ==
  /\ requested = [slots |-> [p \in Pipes |-> None], updated |-> {}]
  /\ active = [p \in Pipes |-> None]
  /\ request_free = NumItems
  /\ mixer_free = NumItems
  /\ state_ = "suspended"     \* start(true): the context starts the mixer suspended
  /\ looping = Loopers
  /\ handler = "idle"
  /\ unapplied = FALSE
  /\ item = None
  /\ request_queue = <<>>
  /\ notify_queue = <<>>
  /\ mixer = "top"
  /\ current = [slots |-> [p \in Pipes |-> None], updated |-> {}]
  /\ slot_state = [p \in Pipes |-> "unused"]
  /\ flags = [p \in Pipes |-> {}]
  /\ fading_out = {}
  /\ seen_looping = {}
  /\ sources = {}
  /\ data_end = [p \in Pipes |-> "none"]

-----------------------------------------------------------------------------
(* The operations of the handler thread on its source set.                 *)

Detaching(set, p) == set.slots[p] # None /\ set.slots[p].operation = "detach"

\* attachOrUpdateSourcePipe(), which refuses a pipe that is being detached
AttachOrUpdate(set, p, args) ==
  [slots |-> [set.slots EXCEPT ![p] = args], updated |-> set.updated \cup {p}]

Detach_Unmarked(set, p) ==
  IF set.slots[p] = None \/ Detaching(set, p) THEN set
  ELSE [slots |-> [set.slots EXCEPT ![p] = [@ EXCEPT !.operation = "detach"]],
        updated |-> set.updated]

\* detachSourcePipe(): a pipe that is not attached, or being detached, is left alone
Detach(set, p) ==
  IF set.slots[p] = None \/ Detaching(set, p) THEN set
  ELSE [slots |-> [set.slots EXCEPT ![p] = [@ EXCEPT !.operation = "detach"]],
        updated |-> set.updated \cup {p}]

\* requestThreadApplyAudioSourceSetItems(): nothing is sent when no item is free
Apply(set) ==
  IF set.updated # {} /\ request_free > 0
    THEN /\ requested' = [slots |-> set.slots, updated |-> {}]
         /\ request_free' = request_free - 1
         /\ request_queue' = Append(request_queue, RequestItem(set.updated, Only(set.updated, set.slots)))
    ELSE requested' = set /\ UNCHANGED <<request_free, request_queue>>

-----------------------------------------------------------------------------
(* The mixer thread.                                                       *)

\* consumerGetLastBlockTag() of a pipe, as flags
EndFlags(p) == CASE data_end[p] = "end"  -> {"ended"}
                 [] data_end[p] = "loop" -> {"ended", "looped"}
                 [] OTHER                -> {}

OperationFlags(f, operation) ==
  CASE operation = "start"  -> IF "detach" \in f THEN f ELSE f \cup {"started"}
    [] operation = "stop"   -> IF "detach" \in f THEN f ELSE f \ {"started"}
    [] operation = "detach" -> (f \ {"started"}) \cup {"detach"}
    [] OTHER                -> f

UpdatedState_FromEnd(s, operation) ==
  CASE operation = "start"  -> IF s \notin Started THEN "startedExplicit" ELSE s
    [] operation = "stop"   -> IF s \in Started THEN "stoppedExplicit" ELSE s
    [] operation = "detach" -> "unused"
    [] OTHER                -> s

\* the next state of a slot that was in state s, which the request updates
UpdatedState(s, operation) ==
  CASE operation = "start"  -> IF s \in {"ready", "stoppedExplicit", "stoppedFaded"}
                                 THEN "startedExplicit" ELSE s
    [] operation = "stop"   -> IF s \in Started THEN "stoppedExplicit" ELSE s
    [] operation = "detach" -> "unused"
    [] OTHER                -> s

\* the state of a slot the request fills
AttachedState(operation) ==
  CASE operation = "start"  -> "startedExplicit"
    [] operation = "stop"   -> "stoppedExplicit"
    [] operation = "detach" -> "unused"
    [] OTHER                -> "ready"

\* mixerThreadInitializeSource() for each slot of the request
InitializeSources(request) ==
  LET given == request.updated
      same(p) == current.slots[p] # None /\ current.slots[p].client = request.slots[p].client
  IN [slots |-> [p \in Pipes |-> IF p \in given THEN request.slots[p] ELSE current.slots[p]],
      flags |-> [p \in Pipes |->
        IF p \in given
          THEN OperationFlags((IF same(p) THEN flags[p] ELSE {}) \cup EndFlags(p),
                              request.slots[p].operation)
          ELSE flags[p]],
      state |-> [p \in Pipes |->
        IF p \notin given THEN slot_state[p]
        ELSE IF same(p) THEN UpdatedState(slot_state[p], request.slots[p].operation)
        ELSE AttachedState(request.slots[p].operation)],
      fading |-> {p \in Pipes : IF p \in given THEN request.slots[p].fade_out ELSE p \in fading_out}]

\* the target a slot at its end of data starts: by its looping or its other trigger
TriggerOf(c, p) == IF "looped" \in c.flags[p] THEN c.slots[p].trigger_loop
                                              ELSE c.slots[p].trigger_no_loop
Triggers(c, p, target) ==
  /\ c.slots[p] # None /\ c.slots[target] # None /\ p # target
  /\ c.flags[target] \cap {"started", "ended"} = {}
  /\ "ended" \in c.flags[p] /\ "fired" \notin c.flags[p]
  /\ TriggerOf(c, p) = <<c.slots[target].client, c.slots[target].source_no>>

\* Each target takes the first trigger in slot order that no earlier target took; slots
\* are in no particular order of pipes, so any such assignment may be the outcome.
Firings(c) ==
  LET targets == {t \in Pipes : \E p \in Pipes : Triggers(c, p, t)}
  IN {fire \in UNION {[T -> Pipes] : T \in SUBSET targets} :
        /\ \A t \in DOMAIN fire : Triggers(c, fire[t], t)
        /\ \A t, u \in DOMAIN fire : fire[t] = fire[u] => t = u
        /\ \A t \in targets \ DOMAIN fire, p \in Pipes :
             Triggers(c, p, t) => \E u \in DOMAIN fire : fire[u] = p}

\* mixerThreadCheckStartConditions(): a target inherits the mixing context of its trigger
CheckStartConditions(c, fire) ==
  [slots |-> c.slots,
   flags |-> [p \in Pipes |-> c.flags[p]
                              \cup (IF p \in DOMAIN fire THEN {"started"} ELSE {})
                              \cup (IF \E t \in DOMAIN fire : fire[t] = p THEN {"fired"} ELSE {})],
   state |-> [p \in Pipes |->
                IF p \notin DOMAIN fire THEN c.state[p]
                ELSE IF "looped" \in c.flags[fire[p]] THEN "startedLoop" ELSE "startedNoLoop"],
   fading |-> {p \in Pipes : IF p \in DOMAIN fire THEN fire[p] \in c.fading ELSE p \in c.fading}]

\* mixerThreadCheckStopConditions(): the end of the data overrides the end of a fade-out
StopState(f) == IF "ended" \notin f THEN "stoppedFaded"
                ELSE IF "fired" \notin f THEN "stoppedEnd"
                ELSE IF "looped" \in f THEN "stoppedEndLoop" ELSE "stoppedEndNoLoop"
StartedSlots(c) == {p \in Pipes : "started" \in c.flags[p]}
CheckStopConditions_KeepsFlag(c, faded) ==
  LET stops == {p \in StartedSlots(c) : "ended" \in c.flags[p] \/ p \in faded}
  IN [slots |-> c.slots, flags |-> c.flags,
      state |-> [p \in Pipes |-> IF p \in stops THEN StopState(c.flags[p]) ELSE c.state[p]],
      fading |-> c.fading]

CheckStopConditions(c, faded) ==
  LET stops == {p \in StartedSlots(c) : "ended" \in c.flags[p] \/ p \in faded}
  IN [slots |-> c.slots,
      flags |-> [p \in Pipes |-> IF p \in stops THEN c.flags[p] \ {"started"} ELSE c.flags[p]],
      state |-> [p \in Pipes |-> IF p \in stops THEN StopState(c.flags[p]) ELSE c.state[p]],
      fading |-> c.fading]

\* mixerThreadCleanUpCurrentSourceSet()
CleanUp_KeepsSlot(c) ==
  LET gone == {p \in Pipes : Detaching(c, p)}
  IN [slots |-> c.slots,
      flags |-> [p \in Pipes |-> IF p \in gone THEN {} ELSE c.flags[p]],
      state |-> [p \in Pipes |-> IF p \in gone THEN "unused" ELSE c.state[p]],
      fading |-> c.fading \ gone]

CleanUp(c) ==
  LET gone == {p \in Pipes : Detaching(c, p)}
  IN [slots |-> [p \in Pipes |-> IF p \in gone THEN None ELSE c.slots[p]],
      flags |-> [p \in Pipes |-> IF p \in gone THEN {} ELSE c.flags[p]],
      state |-> [p \in Pipes |-> IF p \in gone THEN "unused" ELSE c.state[p]],
      fading |-> c.fading \ gone]

Context == [slots |-> current.slots, flags |-> flags, state |-> slot_state, fading |-> fading_out]
SetContext(c, updated) ==
  /\ current' = [slots |-> c.slots, updated |-> updated]
  /\ flags' = c.flags
  /\ slot_state' = c.state
  /\ fading_out' = c.fading

\* what an item tells of the slots in D
ReportOf(c, D) == [p \in Pipes |-> IF p \notin D \/ c.slots[p] = None THEN None
                                  ELSE [detached |-> c.slots[p].operation = "detach",
                                        state |-> c.state[p]]]

\* mixerThreadUpdateLoopingBitmap() begins an iteration
BeginIteration == mixer' = "update" /\ seen_looping' = looping

\* The suspension is requested, but try_lock() may find the mutex held by the handler
\* thread: the mixer thread then runs one more iteration.
MixerTop ==
  /\ mixer = "top"
  /\ \/ BeginIteration
     \/ state_ = "suspended" /\ mixer' = "parked" /\ UNCHANGED seen_looping
  /\ UNCHANGED <<current, slot_state, flags, fading_out, mixer_free>>
  /\ UNCHANGED <<requestVars, request_queue, notify_queue, pipeVars>>

\* a parked mixer thread is woken up by resume()
MixerUnpark ==
  /\ mixer = "parked" /\ state_ = "started"
  /\ BeginIteration
  /\ UNCHANGED <<current, slot_state, flags, fading_out, mixer_free>>
  /\ UNCHANGED <<requestVars, request_queue, notify_queue, pipeVars>>

\* mixerThreadHandleNonAudioDataBlocks(): the ends of data of the slots in S are consumed,
\* with the tag that says whether the client was looping
ConsumeEnds(c, S) ==
  LET loops == {p \in S : c.slots[p] # None /\ c.slots[p].client \in seen_looping}
  IN /\ data_end' = [p \in Pipes |-> IF p \in loops THEN "loop"
                                     ELSE IF p \in S THEN "end" ELSE data_end[p]]
     /\ sources' = sources
EndsAfter(c, S) ==
  [c EXCEPT !.flags = [p \in Pipes |->
     c.flags[p] \cup (IF p \in S THEN {"ended"} ELSE {})
                \cup (IF p \in S /\ c.slots[p] # None /\ c.slots[p].client \in seen_looping
                      THEN {"looped"} ELSE {})]]
ReachedEnd(c) == {p \in StartedSlots(c) : data_end[p] = "queued"}

\* a parked mixer thread handles non-audio blocks each time it is woken up
MixerParkedPoll ==
  /\ mixer = "parked"
  /\ \E S \in SUBSET ReachedEnd(Context) \ {{}} :
       /\ ConsumeEnds(Context, S)
       /\ flags' = EndsAfter(Context, S).flags
  /\ UNCHANGED <<mixer, current, slot_state, fading_out, seen_looping, mixer_free>>
  /\ UNCHANGED <<requestVars, request_queue, notify_queue>>

MixerUpdateRequest_CleansUpFirst ==
  /\ mixer = "update" /\ request_queue # <<>> /\ Head(request_queue).owner = "request"
  /\ LET request == Head(request_queue)
         c == InitializeSources(request)
         updated == current.updated \cup request.updated
     IN /\ notify_queue' = Append(notify_queue, RequestItem(updated, ReportOf(CleanUp(c), updated)))
        /\ \E fire \in Firings(c) : SetContext(CleanUp(CheckStartConditions(c, fire)), {})
  /\ request_queue' = Tail(request_queue)
  /\ UNCHANGED <<mixer, seen_looping, mixer_free, requestVars, pipeVars>>

\* mixerThreadUpdateAudioSourceSetOne() on a request: the answer is copied before the
\* start conditions are checked, and what these start is not marked as updated.
MixerUpdateRequest ==
  /\ mixer = "update" /\ request_queue # <<>> /\ Head(request_queue).owner = "request"
  /\ LET request == Head(request_queue)
         c == InitializeSources(request)
         updated == current.updated \cup request.updated
     IN /\ notify_queue' = Append(notify_queue, RequestItem(updated, ReportOf(c, updated)))
        /\ \E fire \in Firings(c) : SetContext(CleanUp(CheckStartConditions(c, fire)), {})
  /\ request_queue' = Tail(request_queue)
  /\ UNCHANGED <<mixer, seen_looping, mixer_free, requestVars, pipeVars>>

\* mixerThreadUpdateAudioSourceSetOne() on an item of its own that comes back
MixerUpdateRecycle ==
  /\ mixer = "update" /\ request_queue # <<>> /\ Head(request_queue).owner = "mixer"
  /\ mixer_free' = mixer_free + 1
  /\ \E fire \in Firings(Context) :
       SetContext(CheckStartConditions(Context, fire), current.updated \cup DOMAIN fire)
  /\ request_queue' = Tail(request_queue)
  /\ UNCHANGED <<mixer, seen_looping, notify_queue, requestVars, pipeVars>>

Notify_Forgets(c, updated) ==
  IF updated # {} /\ mixer_free > 0
    THEN /\ notify_queue' = Append(notify_queue, MixerItem(updated, ReportOf(c, updated)))
         /\ mixer_free' = mixer_free - 1
         /\ SetContext(c, {})
    ELSE SetContext(c, {}) /\ UNCHANGED <<notify_queue, mixer_free>>

\* mixerThreadNotifyCurrentAudioSourceSets(): kept for later when no item is free
Notify(c, updated) ==
  IF updated # {} /\ mixer_free > 0
    THEN /\ notify_queue' = Append(notify_queue, MixerItem(updated, ReportOf(c, updated)))
         /\ mixer_free' = mixer_free - 1
         /\ SetContext(c, {})
    ELSE SetContext(c, updated) /\ UNCHANGED <<notify_queue, mixer_free>>

\* When no request is left: non-audio blocks, start and stop conditions, a second time
\* when a block was mixed, and the notice of what has changed.  Which pipes have reached
\* their end, and which fade-outs, is up to the audio data.
MixerMix ==
  /\ \/ mixer = "update" /\ request_queue = <<>>
     \/ mixer = "remix"
  /\ \E S \in SUBSET ReachedEnd(Context) :
       LET c == EndsAfter(Context, S)
       IN /\ ConsumeEnds(Context, S)
          /\ \E fire \in Firings(c) :
               LET d == CheckStartConditions(c, fire)
               IN \E faded \in SUBSET (StartedSlots(d) \cap d.fading) :
                    LET e == CheckStopConditions(d, faded)
                        updated == current.updated \cup DOMAIN fire
                                     \cup (StartedSlots(d) \ StartedSlots(e))
                    IN \/ /\ mixer = "update" /\ mixer' = "remix"
                          /\ SetContext(e, updated)
                          /\ UNCHANGED <<notify_queue, mixer_free>>
                       \/ mixer' = "top" /\ Notify(e, updated)
  /\ UNCHANGED <<seen_looping, requestVars, request_queue>>

MixerThread ==
  \/ MixerTop \/ MixerUnpark \/ MixerParkedPoll
  \/ MixerUpdateRequest \/ MixerUpdateRecycle \/ MixerMix

-----------------------------------------------------------------------------
(* The handler thread's side of the queues: AudioMixer::poll() and what    *)
(* AudioSystem::poll() does about suspension.                              *)

CanSuspend == /\ \A p \in Pipes : active[p] \notin Started
              /\ request_free = NumItems /\ mixer_free = NumItems

\* between two operations of the handler thread
Between == handler = "idle" /\ ~unapplied

\* pollControlMixerAndSinkSuspendResume(), its delay left to the choice of the moment
Suspend ==
  /\ Between /\ state_ = "started" /\ CanSuspend
  /\ state_' = "suspended"
  /\ UNCHANGED <<requested, active, request_free, looping, handler, unapplied, item>>
  /\ UNCHANGED <<request_queue, notify_queue, mixerVars, pipeVars>>

Resume ==
  /\ Between /\ state_ = "suspended" /\ ~CanSuspend
  /\ state_' = "started"
  /\ UNCHANGED <<requested, active, request_free, looping, handler, unapplied, item>>
  /\ UNCHANGED <<request_queue, notify_queue, mixerVars, pipeVars>>

\* poll(), which isPollingRequired() skips when the mixer could be suspended
PollMixer ==
  /\ Between /\ ~CanSuspend
  /\ handler' = "poll"
  /\ UNCHANGED <<requested, active, request_free, state_, looping, unapplied, item>>
  /\ UNCHANGED <<request_queue, notify_queue, mixerVars, pipeVars>>

\* requestThreadReceiveOneAudioSourceSetItem()
ReceiveItem ==
  /\ handler = "poll" /\ notify_queue # <<>>
  /\ handler' = "item"
  /\ item' = Head(notify_queue)
  /\ notify_queue' = Tail(notify_queue)
  /\ UNCHANGED <<requested, active, request_free, state_, looping, unapplied>>
  /\ UNCHANGED <<request_queue, mixerVars, pipeVars>>

\* between two slots of an item, the callback of the last one having returned
InItem == handler \in {"item", "callback"} /\ ~unapplied

\* One slot of the item: attached, detached, updated, or none of them.  An event is
\* raised when the slot changes between started and not started.
HandleSlot(p) ==
  /\ InItem /\ p \in item.updated
  /\ LET told == item.slots[p]
         detached == active[p] # None /\ told # None /\ told.detached
         raises == told # None /\ (active[p] \in Started) # (told.state \in Started)
     IN /\ active' = [active EXCEPT ![p] = IF told = None THEN @
                                          ELSE IF detached THEN None ELSE told.state]
        /\ IF detached
             THEN /\ requested' = [slots |-> [requested.slots EXCEPT ![p] = None],
                                   updated |-> requested.updated \ {p}]
                  /\ data_end' = [data_end EXCEPT ![p] = IF p \in sources THEN @ ELSE "none"]
             ELSE UNCHANGED <<requested, data_end>>
        /\ handler' = IF raises THEN "callback" ELSE "item"
  /\ item' = [owner |-> item.owner, updated |-> item.updated \ {p},
              slots |-> [item.slots EXCEPT ![p] = None]]
  /\ UNCHANGED <<request_free, state_, looping, unapplied, sources>>
  /\ UNCHANGED <<request_queue, notify_queue, mixerVars>>

\* an item goes back to its owner, the mixer's by way of the request queue
GiveBack_OwnOnly(it) ==
  IF it.owner = "request"
    THEN request_free' = request_free + 1 /\ UNCHANGED request_queue
    ELSE UNCHANGED <<request_free, request_queue>>

GiveBack(it) ==
  IF it.owner = "request"
    THEN request_free' = request_free + 1 /\ UNCHANGED request_queue
    ELSE request_queue' = Append(request_queue, MixerItem({}, Only({}, it.slots))) /\ UNCHANGED request_free

RecycleItem ==
  /\ InItem /\ item.updated = {}
  /\ handler' = "poll"
  /\ item' = None
  /\ GiveBack(item)
  /\ UNCHANGED <<requested, active, state_, looping, unapplied>>
  /\ UNCHANGED <<notify_queue, mixerVars, pipeVars>>

PollDone ==
  /\ handler = "poll" /\ notify_queue = <<>>
  /\ handler' = "idle"
  /\ Apply(requested)
  /\ UNCHANGED <<active, state_, looping, unapplied, item>>
  /\ UNCHANGED <<notify_queue, mixerVars, pipeVars>>

-----------------------------------------------------------------------------
(* The clients of the mixer, as AudioPlayer.cpp uses it: requests are made *)
(* in batches (DeferredApplication) that end with apply(), on the handler  *)
(* thread, also in callbacks.                                              *)

CanRequest == unapplied \/ PoolMayRunOut \/ request_free > 0

\* obtainSourcePipe() and AudioSource::initialize(): a pipe neither port of which is used
CreateSource(p) ==
  /\ Between /\ p \notin sources /\ requested.slots[p] = None
  /\ sources' = sources \cup {p}
  /\ UNCHANGED <<requestVars, request_queue, notify_queue, mixerVars, data_end>>

Request(p, args) ==
  /\ handler = "idle" /\ CanRequest
  /\ p \in sources /\ ~Detaching(requested, p)
  /\ requested.slots[p] # None => requested.slots[p].client = args.client
  /\ requested' = AttachOrUpdate(requested, p, args)
  /\ unapplied' = TRUE
  /\ UNCHANGED <<active, request_free, state_, looping, handler, item>>
  /\ UNCHANGED <<request_queue, notify_queue, mixerVars, pipeVars>>

\* releaseAudioSource(): detach, then give up the in-port
ReleaseSource(p) ==
  /\ handler \in {"idle", "callback"} /\ CanRequest
  /\ p \in sources /\ (PoolMayRunOut \/ p \notin requested.updated)
  /\ requested' = Detach(requested, p)
  /\ unapplied' = TRUE
  /\ sources' = sources \ {p}
  /\ data_end' = [data_end EXCEPT ![p] = IF requested.slots[p] = None THEN "none" ELSE @]
  /\ UNCHANGED <<active, request_free, state_, looping, handler, item>>
  /\ UNCHANGED <<request_queue, notify_queue, mixerVars>>

ApplyRequests ==
  /\ handler \in {"idle", "callback"} /\ unapplied
  /\ unapplied' = FALSE
  /\ Apply(requested)
  /\ UNCHANGED <<active, state_, looping, handler, item>>
  /\ UNCHANGED <<notify_queue, mixerVars, pipeVars>>

SetLooping(c) ==
  /\ Between
  /\ looping' = IF c \in looping THEN looping \ {c} ELSE looping \cup {c}
  /\ UNCHANGED <<requested, active, request_free, state_, handler, unapplied, item>>
  /\ UNCHANGED <<request_queue, notify_queue, mixerVars, pipeVars>>

\* the decoder thread has produced the END_OF_DATA event
DecoderEnds(p) ==
  /\ p \in sources /\ data_end[p] = "none"
  /\ data_end' = [data_end EXCEPT ![p] = "queued"]
  /\ UNCHANGED <<requestVars, request_queue, notify_queue, mixerVars, sources>>

HandlerThread ==
  \/ Suspend \/ Resume \/ PollMixer \/ ReceiveItem \/ \E p \in Pipes : HandleSlot(p)
  \/ RecycleItem \/ PollDone \/ ApplyRequests

ClientsOfMixer ==
  \/ \E p \in Pipes : CreateSource(p) \/ ReleaseSource(p) \/ DecoderEnds(p)
  \/ \E p \in Pipes, args \in Arguments : Request(p, args)
  \/ \E c \in Togglers : SetLooping(c)

Next == MixerThread \/ HandlerThread \/ ClientsOfMixer
Spec == Init /\ [][Next]_vars

\* The mixer thread runs whenever it can.  The handler thread finishes what it has begun,
\* and polls again and again between the requests.
FairSpec ==
  /\ Spec
  /\ WF_vars(MixerThread)
  /\ WF_vars(ReceiveItem) /\ WF_vars(\E p \in Pipes : HandleSlot(p)) /\ WF_vars(RecycleItem)
  /\ WF_vars(PollDone) /\ WF_vars(ApplyRequests)
  /\ SF_vars(Resume) /\ SF_vars(PollMixer)

-----------------------------------------------------------------------------
TypeOK ==
  /\ requested \in [slots : [Pipes -> Slots \cup {None}], updated : SUBSET Pipes]
  /\ active \in [Pipes -> SlotStates \cup {None}]
  /\ request_free \in Nat /\ mixer_free \in Nat
  /\ state_ \in {"started", "suspended"}
  /\ looping \subseteq Clients /\ seen_looping \subseteq Clients
  /\ handler \in {"idle", "poll", "item", "callback"}
  /\ unapplied \in BOOLEAN
  /\ item \in Items(Reports) \cup {None}
  /\ (item = None) <=> handler \in {"idle", "poll"}
  /\ request_queue \in Seq(Items(Slots))
  /\ notify_queue \in Seq(Items(Reports))
  /\ mixer \in {"top", "parked", "update", "remix"}
  /\ current \in [slots : [Pipes -> Slots \cup {None}], updated : SUBSET Pipes]
  /\ slot_state \in [Pipes -> SlotStates]
  /\ flags \in [Pipes -> SUBSET FlagNames]
  /\ fading_out \subseteq Pipes
  /\ sources \subseteq Pipes
  /\ data_end \in [Pipes -> {"none", "queued", "end", "loop"}]

\* The items in the queues and in the handler thread's hands.
Travelling == Len(request_queue) + Len(notify_queue) + (IF item = None THEN 0 ELSE 1)

\* No item is ever lost or duplicated, so no queue ever holds more than the items there
\* are: the pushes whose failure the code only logs (LOGE) cannot fail.
ItemsConserved == request_free + mixer_free + Travelling = 2 * NumItems

\* Once the handler thread has given a pipe up, and may give it to another source, the
\* mixer thread has no slot for it and finds it in none of the requests it has to read.
ReleasedPipeUnused ==
  \A p \in Pipes : requested.slots[p] = None =>
    /\ current.slots[p] = None
    /\ \A i \in 1..Len(request_queue) : p \notin request_queue[i].updated

\* Between two iterations the FLAG_STARTED bits, which decide what is mixed, and the
\* states, which are reported, tell the same.
FlagsMatchStates ==
  mixer \in {"top", "parked"} =>
    \A p \in Pipes : "started" \in flags[p] <=> slot_state[p] \in Started

\* requestThreadReceiveOneAudioSourceSetItem() never meets its "Unexpected condition",
\* nor an attachment that is already detached: its pipe would never be given up.
ReportsExpected ==
  item # None => \A p \in item.updated :
    item.slots[p] # None /\ (item.slots[p].detached => active[p] # None)

\* A source that has been played to its end is not started again.
NeverRestarted ==
  [][\A p \in Pipes : data_end[p] \in {"end", "loop"} /\ slot_state'[p] \in Started
                        => slot_state[p] \in Started]_vars

\* The pipe of a released source becomes free.
ReleaseCompletes == \A p \in Pipes :
  (p \notin sources /\ requested.slots[p] # None) ~> (requested.slots[p] = None)

\* What the mixer thread has stopped is not believed started for ever.
StopsAreReported == \A p \in Pipes :
  (slot_state[p] \in Stopped /\ active[p] \in Started) ~> (active[p] \notin Started)
=============================================================================
