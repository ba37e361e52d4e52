----------------------------- MODULE HQEqualizer -----------------------------
(***************************************************************************)
(* The equalizer of the mixed output.  The handler thread keeps the        *)
(* settings and sends copies of them to the mixer thread, in items that go *)
(* round three queues: free, requested, used.  The mixer thread takes all  *)
(* that was sent, then moves the gain of every filter towards what was     *)
(* asked for, a step per update block of samples.  While the mixer is      *)
(* suspended it is woken for the sake of the settings alone.               *)
(*                                                                         *)
(* Levels are in millibel, as the callers give them.  Gains are in units   *)
(* of 0.0005 dB, which make the conversion, the correction for the         *)
(* neighbours and the step of 0.125 dB exact.  A queue has room for every  *)
(* item, and moving one is a single step.                                  *)
(***************************************************************************)
EXTENDS Integers, Sequences, SequencesExt, FiniteSetsExt

CONSTANTS NumBands,          \* NUM_BANDS (10)
          Levels,            \* what a caller sets a band to
          MaxLevel,          \* MAX_BAND_LEVEL_MILLIBEL (1500)
          Touched,           \* the bands whose level is set by itself
          Settings,          \* what is set for all bands at once
          QueueSize,         \* REQUEST_QUEUE_SIZE (3)
          Step,              \* MAX_GAIN_STEP (250 units)
          UpdateBlock,       \* BLOCK_SIZE_WHILE_UPDATING
          BlockSize,         \* frames the mixer mixes at once
          MaxCalls           \* bound: calls that change the settings

Bands == 0 .. NumBands - 1
Impls == {"peaking", "flat"}

ASSUME BandsAssumption  == NumBands \in Nat \ {0} /\ NumBands % 2 = 0 /\ Touched \subseteq Bands
ASSUME LevelsAssumption == Levels \subseteq Int /\ MaxLevel \in Nat /\ Settings \subseteq [Bands -> Int]
ASSUME SizesAssumption  == {QueueSize, Step, UpdateBlock, BlockSize} \subseteq Nat \ {0}

VARIABLES impl,              \* the processor that was chosen
          request,           \* request_: the settings, and what the mixer thread was not told yet
          free, used,        \* how many items are in free_queue_ and used_queue_
          requested,         \* request_queue_
          mixer_state,       \* state_ of the mixer: "started" or "suspended"
          mixer,             \* where the mixer thread is: "loop", "mix" or "waiting"
          notified,          \* the condition variable it waits for was notified
          current,           \* current_ of the mixer thread
          req_gain, cur_gain,    \* req_band_gain_db_, cur_band_gain_db_
          filters,           \* per band: what its HQEqualizerBandCalculator and its filter hold
          updating,          \* bitmap_updating_bands_
          calls              \* made so far

handlerVars == <<request, calls>>
mixerVars == <<current, req_gain, cur_gain, filters, updating>>
vars == <<impl, handlerVars, free, used, requested, mixer_state, mixer, notified, mixerVars>>

Enabled == 31    \* ENABLED_UPDATED_BIT; a bitmap is the set of its bits
Flat == [b \in Bands |-> 0]
\* unloaded is history: how often the gain was moved since the filter was last loaded, and was not loaded
Filter == [target |-> 0, gain |-> 0, dirty |-> FALSE, loaded |-> 0, pending |-> 0, unloaded |-> 0]

\* initialize(), and onAttachedToMixerThread() before anything is set
Init ==
  /\ impl \in Impls
  /\ request = [enabled |-> FALSE, level |-> Flat, updated |-> {}]
  /\ free = QueueSize /\ used = 0 /\ requested = <<>>
  /\ mixer_state \in {"started", "suspended"}
  /\ mixer = "loop" /\ notified = FALSE
  /\ current = request
  /\ req_gain = Flat /\ cur_gain = Flat
  /\ filters = [b \in Bands |-> Filter]
  /\ updating = {}
  /\ calls = 0

-----------------------------------------------------------------------------
(* The handler thread *)

isPollingRequired == request.updated # {} \/ free # QueueSize

\* mutant: what was not sent is forgotten all the same
apply_Forgets(settings, available) ==
  /\ request' = [settings EXCEPT !.updated = {}]
  /\ IF settings.updated # {} /\ available > 0
       THEN free' = available - 1 /\ requested' = Append(requested, settings)
       ELSE free' = available /\ UNCHANGED requested
\* the settings go out when there is something new and an item to send it in
apply(settings, available) ==
  IF settings.updated # {} /\ available > 0
    THEN /\ request' = [settings EXCEPT !.updated = {}]
         /\ free' = available - 1
         /\ requested' = Append(requested, settings)
    ELSE request' = settings /\ free' = available /\ UNCHANGED requested

Change(settings) ==
  /\ calls < MaxCalls
  /\ calls' = calls + 1
  /\ apply(settings, free)
  /\ UNCHANGED <<impl, used, mixer_state, mixer, notified, mixerVars>>

\* nothing happens when the setting is what it is already
setEnabled(enabled) ==
  /\ enabled # request.enabled
  /\ Change([request EXCEPT !.enabled = enabled, !.updated = @ \cup {Enabled}])
clamp(level) == IF level > MaxLevel THEN MaxLevel ELSE IF level < -MaxLevel THEN -MaxLevel ELSE level
setBandLevel(band, level) ==
  /\ request.level[band] # clamp(level)
  /\ Change([request EXCEPT !.level[band] = clamp(level), !.updated = @ \cup {band}])
\* these levels are not clamped
setAllBandLevel(level) ==
  Change([request EXCEPT !.level = level, !.updated = @ \cup {b \in Bands : request.level[b] # level[b]}])

\* AudioMixer::poll(), as far as it is about the effect
poll ==
  /\ isPollingRequired
  /\ used' = 0 /\ apply(request, free + used)
  /\ notified' = (notified \/ (mixer_state = "suspended" /\ mixer = "waiting"))
  /\ UNCHANGED <<impl, calls, mixer_state, mixer, mixerVars>>

\* AudioMixer::suspend() and resume(), whatever the sources are about
suspend ==
  /\ mixer_state = "started"
  /\ mixer_state' = "suspended"
  /\ UNCHANGED <<impl, handlerVars, free, used, requested, mixer, notified, mixerVars>>
resume ==
  /\ mixer_state = "suspended"
  /\ mixer_state' = "started"
  /\ notified' = (mixer = "waiting")
  /\ UNCHANGED <<impl, handlerVars, free, used, requested, mixer, mixerVars>>

-----------------------------------------------------------------------------
(* The mixer thread takes the settings *)

\* a millibel is 0.01 dB
millibel_to_decibel(level) == 20 * level

\* PFEQ_NEIGHBOR_BAND_CORRELATION_COEFF is -0.15
getCorrectedBandLevel(gain, b) ==
  LET level(n) == IF n \in Bands THEN gain[n] ELSE 0
  IN gain[b] - (3 * (level(b - 1) + level(b + 1))) \div 20

\* mutant: the filters next to a band do not follow it
affected_Alone(bands) == bands
\* the filters that depend on these bands
affected(bands) ==
  IF impl = "flat" THEN bands ELSE bands \cup {b \in Bands : b - 1 \in bands \/ b + 1 \in bands}

\* set_gain() of each of them
onUpdateBandsLevel(gain, bands) ==
  filters' = [b \in Bands |->
    IF b \in affected(bands)
      THEN [filters[b] EXCEPT !.target = IF impl = "flat" THEN gain[b] ELSE getCorrectedBandLevel(gain, b),
                              !.dirty = TRUE]
      ELSE filters[b]]

\* everything that was sent is taken, the last item counts; what changed is known from all of them
pollFromMixerThread ==
  LET told == UNION {requested[i].updated : i \in DOMAIN requested}
      now == IF requested = <<>> THEN current ELSE Last(requested)
      changed == told \cap Bands
      gain == [b \in Bands |-> IF b \in changed THEN millibel_to_decibel(now.level[b]) ELSE req_gain[b]]
      shown == [b \in Bands |-> IF Enabled \in told THEN (IF now.enabled THEN gain[b] ELSE 0)
                                ELSE IF b \in changed /\ now.enabled THEN gain[b] ELSE cur_gain[b]]
      renewed == IF Enabled \in told THEN Bands ELSE IF now.enabled THEN changed ELSE {}
  IN /\ requested' = <<>> /\ used' = used + Len(requested)
     /\ current' = now /\ req_gain' = gain /\ cur_gain' = shown
     /\ onUpdateBandsLevel(shown, renewed)
     /\ updating' = updating \cup affected(renewed)

\* mixerThreadProcess() polls the effects before it mixes
MixerPolls ==
  /\ mixer = "loop" /\ mixer_state = "started"
  /\ pollFromMixerThread
  /\ mixer' = "mix"
  /\ UNCHANGED <<impl, handlerVars, free, mixer_state, notified>>

\* and before it waits for the end of a suspension, or for a poll of the handler thread
MixerSuspends ==
  /\ mixer = "loop" \/ (mixer = "waiting" /\ notified)
  /\ mixer_state = "suspended"
  /\ pollFromMixerThread
  /\ mixer' = "waiting" /\ notified' = FALSE
  /\ UNCHANGED <<impl, handlerVars, free, mixer_state>>
MixerResumes ==
  /\ mixer = "waiting" /\ notified /\ mixer_state = "started"
  /\ mixer' = "loop" /\ notified' = FALSE
  /\ UNCHANGED <<impl, handlerVars, free, used, requested, mixer_state, mixerVars>>

-----------------------------------------------------------------------------
(* The mixer thread mixes *)

Distance(a, b) == IF a > b THEN a - b ELSE b - a
Lower(a, b) == IF a < b THEN a ELSE b

Ceiling(a, b) == (a + b - 1) \div b

\* HQEqualizerBandCalculator::update(): the calls that leave it dirty, a step each
steps(f) == IF f.dirty THEN Distance(f.gain, f.target) \div Step ELSE 0
\* as many calls of it; the one after the last step jumps to the target
update(f, times) ==
  IF f.dirty /\ times > steps(f) THEN [f EXCEPT !.gain = f.target, !.dirty = FALSE]
  ELSE IF f.dirty THEN [f EXCEPT !.gain = IF f.gain > f.target THEN @ - times * Step ELSE @ + times * Step]
  ELSE f

\* processBandSet(), processEdgeBand(), processMidBand(): after the samples left of an update block the filters of
\* the group are updated for every update block, until update() answers for none that it moves on.  The coefficients
\* are loaded after every update but that one, although it may have moved a gain, by less than a step, to its target.
processGroup(group) ==
  LET pending == CHOOSE p \in {filters[b].pending : b \in group} : TRUE
      remains == BlockSize - Lower(BlockSize, pending)
      blocks == Ceiling(remains, UpdateBlock)
      moving == Max({steps(filters[b]) : b \in group})
      turns == Lower(blocks, moving)
      left == IF turns = 0 THEN pending - Lower(BlockSize, pending)
              ELSE IF turns < blocks THEN 0 ELSE UpdateBlock * blocks - remains
      after(b) == update(filters[b], IF turns < blocks THEN turns + 1 ELSE turns)
      reached(b) == update(filters[b], turns).gain
  IN [b \in group |-> [after(b) EXCEPT
       !.loaded = IF turns = 0 THEN @ ELSE reached(b),
       !.pending = left,
       !.unloaded = (IF turns = 0 THEN @ ELSE 0) + IF after(b).gain = reached(b) THEN 0 ELSE 1]]

groups == IF impl = "flat" THEN {{b} : b \in Bands} ELSE {{b, b + 1} : b \in {i \in Bands : i % 2 = 0}}

\* mutant: a band that is still moving is forgotten when the equalizer is disabled
active_EnabledOnly == IF current.enabled THEN Bands ELSE {}
active == IF current.enabled THEN Bands ELSE updating

goes_on(group) == \E b \in DOMAIN group : group[b].dirty

\* process(): a group is processed as a whole, and goes on while one of its bands moves
process ==
  LET processed == {g \in groups : g \cap active # {}}
      after == [g \in processed |-> processGroup(g)]
      group(b) == CHOOSE g \in groups : b \in g
  IN /\ filters' = [b \in Bands |-> IF group(b) \in processed THEN after[group(b)][b] ELSE filters[b]]
     /\ updating' = UNION {g \in processed : goes_on(after[g])}

MixerMixes ==
  /\ mixer = "mix"
  /\ process
  /\ mixer' = "loop"
  /\ UNCHANGED <<impl, handlerVars, free, used, requested, mixer_state, notified, current, req_gain, cur_gain>>

\* no room in the sink's pipe
MixerSleeps ==
  /\ mixer = "mix"
  /\ mixer' = "loop"
  /\ UNCHANGED <<impl, handlerVars, free, used, requested, mixer_state, notified, mixerVars>>

-----------------------------------------------------------------------------
Next ==
  \/ \E enabled \in BOOLEAN : setEnabled(enabled)
  \/ \E band \in Touched, level \in Levels : setBandLevel(band, level)
  \/ \E level \in Settings : setAllBandLevel(level)
  \/ poll
  \/ suspend \/ resume
  \/ MixerPolls \/ MixerSuspends \/ MixerResumes
  \/ MixerMixes \/ MixerSleeps

\* the handler thread polls as long as that is required; the mixer thread runs
Fairness == WF_vars(poll) /\ WF_vars(MixerPolls \/ MixerSuspends \/ MixerResumes \/ MixerMixes \/ MixerSleeps)

Spec == Init /\ [][Next]_vars /\ Fairness

-----------------------------------------------------------------------------
(* Properties *)

\* The last settings reach the mixer thread, be it suspended or not, and the items come home, so that the
\* handler thread may sleep.
SettingsArrive == <>[](current.level = request.level /\ current.enabled = request.enabled /\ ~isPollingRequired)

\* What is heard of a band
group_of(b) == CHOOSE g \in groups : b \in g
bypassed(b) ==
  group_of(b) \cap active = {} \/ \A n \in group_of(b) : ~filters[n].dirty /\ filters[n].gain = 0
heard(b) == IF bypassed(b) THEN 0 ELSE filters[b].loaded

\* how far that may be from the gain: less than a step for every move of the gain that was not loaded
drift(b) == Step * filters[b].unloaded
\* the gains the mixer thread was told to give the bands
asked == [b \in Bands |-> IF current.enabled THEN millibel_to_decibel(current.level[b]) ELSE 0]

\* Whatever was taken at once, and in whatever order things were set, the filters move towards what the mixer
\* thread was told last, corrected for the neighbours, or towards nothing when the equalizer is disabled; and
\* when it moves no filter any more, every gain is there.  What is heard of a band may be off its gain, by no more
\* than a step for every time the gain was moved since the filter was last loaded: the code does not load the last
\* move of a change, so that many small changes may leave a band far from what was asked for.
SoundFollowsSettings ==
  \A b \in Bands :
    /\ filters[b].target = IF impl = "flat" THEN asked[b] ELSE getCorrectedBandLevel(asked, b)
    /\ mixer = "loop" /\ updating = {} =>
         /\ filters[b].gain = filters[b].target
         /\ Distance(heard(b), filters[b].gain) <= drift(b)

\* Whatever is set, enabled or disabled, from one block to the next a band moves by no more than the steps of its
\* update blocks and what was left unloaded of it before.  That is not always gradual: small changes add up while
\* none of them is loaded, and the next one that is loaded, or the bypass, makes all of them heard at once.
GainsMoveGradually ==
  [][\A b \in Bands : Distance(heard(b)', heard(b)) <= Step * (BlockSize \div UpdateBlock + 1) + drift(b)]_vars
=============================================================================
