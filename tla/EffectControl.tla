--------------------------- MODULE EffectControl ---------------------------
(***************************************************************************)
(* What the handles of an effect promise, whatever the effect.  The handle *)
(* created last has control: it alone changes the settings, all can read   *)
(* them.  When it is released, control goes back to the one before, with   *)
(* the settings as they are; after the last one the effect starts over.    *)
(* A call takes effect once, between its start and its return, or it is    *)
(* refused and changes nothing.                                            *)
(***************************************************************************)
EXTENDS Integers, Sequences, SequencesExt

CONSTANTS NULL, Effects, Handles, Threads, NumBands, NumPresets, MaxLevel, PresetLevel(_),
          Legal(_, _), Illegal(_, _)

VARIABLES holders,      \* effect -> the handles that use it, the newest first
          settings,     \* effect -> whether it is enabled and its setting, NULL when nobody uses it
          calls         \* thread -> its call

Idle == [phase |-> "idle"]
UNDEFINED == 65535
Flat(level) == [b \in 0 .. NumBands - 1 |-> level]

Reverb == [RoomLevel |-> -6000, RoomHFLevel |-> 0, DecayTime |-> 1490, DecayHFRatio |-> 420, ReflectionsLevel |-> 0,
           ReflectionsDelay |-> 0, ReverbLevel |-> -6000, ReverbDelay |-> 0, Diffusion |-> 1000, Density |-> 1000]
Preset(preset) == [curPreset |-> preset, bandLevels |-> Flat(PresetLevel(preset))]

\* how an effect starts
Default(effect) ==
  [enabled |-> FALSE,
   setting |-> CASE effect = "virtualizer"                   -> 750
                 [] effect = "preamp"                        -> 10
                 [] effect \in {"equalizer", "hqequalizer"}  -> Preset(0)
                 [] effect = "envreverb"                     -> Reverb
                 [] OTHER                                    -> 0]

\* the setting a call leaves behind
Set(effect, setting, what, arg) ==
  CASE what = "setParameter" -> [setting EXCEPT ![arg.parameter] = arg.value]
    [] what = "setBandLevel" ->
         IF effect = "hqequalizer" /\ setting.bandLevels[arg.band] = arg.level THEN setting
         ELSE [curPreset |-> UNDEFINED, bandLevels |-> [setting.bandLevels EXCEPT ![arg.band] = arg.level]]
    [] what = "usePreset"    -> Preset(arg)
    [] what = "setProperties" /\ effect \in {"equalizer", "hqequalizer"} ->
         IF arg.curPreset # UNDEFINED THEN Preset(arg.curPreset)
         ELSE [curPreset |-> UNDEFINED, bandLevels |-> arg.bandLevels]
    [] OTHER                 -> arg

\* what a call changes
Changed(effect, s, what, arg) ==
  IF what = "setEnabled" THEN [enabled |-> arg, setting |-> s.setting]
  ELSE [enabled |-> s.enabled, setting |-> Set(effect, s.setting, what, arg)]

\* what every handle is told at any time
Facts == {"getId", "getStrengthSupported", "getBand", "getBandFreqRange", "getBandLevelRange", "getCenterFreq",
          "getNumberOfBands", "getNumberOfPresets", "getPresetName"}
Fact(effect, what) ==
  CASE what = "getId"                -> IF effect = "presetreverb" THEN 2 ELSE IF effect = "envreverb" THEN 1 ELSE 0
    [] what = "getStrengthSupported" -> TRUE
    [] what = "getBandLevelRange"    -> MaxLevel
    [] what = "getNumberOfBands"     -> NumBands
    [] what = "getNumberOfPresets"   -> NumPresets
    [] OTHER                         -> NULL

Queries == Facts \cup {"getEnabled", "hasControl", "getParameter", "getCurrentPreset", "getBandLevel", "getProperties",
                       "getRoundedStrength", "getLevel", "getPreset"}
\* what a call is told
Told(effect, s, what, arg, in_control) ==
  CASE what \in Facts            -> Fact(effect, what)
    [] what = "getEnabled"       -> s.enabled
    [] what = "hasControl"       -> in_control
    [] what = "getParameter"     -> s.setting[arg]
    [] what = "getCurrentPreset" -> s.setting.curPreset
    [] what = "getBandLevel"     -> s.setting.bandLevels[0]
    [] OTHER                     -> s.setting

Holds(effect, h) == \E i \in DOMAIN holders[effect] : holders[effect][i] = h
InControl(effect, h) == holders[effect] # <<>> /\ Head(holders[effect]) = h

Init ==
  /\ holders = [e \in Effects |-> <<>>]
  /\ settings = [e \in Effects |-> NULL]
  /\ calls = [t \in Threads |-> Idle]

Start(t) ==
  /\ calls[t] = Idle
  /\ calls'[t].phase = "posted"
  /\ calls' = [calls EXCEPT ![t] = calls'[t]]
  /\ UNCHANGED <<holders, settings>>

\* without the effect nothing is done; an argument out of range is refused
Refuse(t) ==
  /\ calls[t] = Idle
  /\ LET call == calls'[t]
     IN /\ call.phase = "replied"
        /\ \/ call.result = "dead_object" /\ ~Holds(call.kind, call.handle)
           \/ /\ call.result = "illegal_argument" /\ Holds(call.kind, call.handle)
              /\ call.arg \in Illegal(call.kind, call.what)
        /\ calls' = [calls EXCEPT ![t] = call]
  /\ UNCHANGED <<holders, settings>>

Reply(t, result, value) ==
  calls' = [calls EXCEPT ![t] = [@ EXCEPT !.phase = "replied", !.result = result, !.value = value]]

Create(t, e, h) ==
  \/ /\ Reply(t, "success", NULL)
     /\ holders' = [holders EXCEPT ![e] = <<h>> \o @]
     /\ settings' = IF holders[e] = <<>> THEN [settings EXCEPT ![e] = Default(e)] ELSE settings
  \/ holders[e] = <<>> /\ Reply(t, "error", NULL) /\ UNCHANGED <<holders, settings>>

Destroy(t, e, h) ==
  /\ Reply(t, "success", NULL)
  /\ \E i \in DOMAIN holders[e] : holders[e][i] = h /\ holders' = [holders EXCEPT ![e] = RemoveAt(@, i)]
  /\ settings' = IF holders'[e] = <<>> THEN [settings EXCEPT ![e] = NULL] ELSE settings

Query(t, e, h) ==
  /\ Reply(t, "success", Told(e, settings[e], calls[t].what, calls[t].arg, InControl(e, h)))
  /\ UNCHANGED <<holders, settings>>

Change(t, e, h) ==
  /\ LET legal == calls[t].arg \in Legal(e, calls[t].what)
     IN IF InControl(e, h) /\ legal
          THEN /\ settings' = [settings EXCEPT ![e] = Changed(e, @, calls[t].what, calls[t].arg)]
               /\ Reply(t, "success", NULL)
          ELSE /\ Reply(t, IF InControl(e, h) THEN "illegal_argument" ELSE "control_lost", NULL)
               /\ UNCHANGED settings
  /\ UNCHANGED holders

TakeEffect(t) ==
  /\ calls[t].phase = "posted"
  /\ LET e == calls[t].kind
         h == calls[t].handle
     IN CASE calls[t].what = "create"   -> Create(t, e, h)
          [] calls[t].what = "destroy"  -> Destroy(t, e, h)
          [] calls[t].what \in Queries  -> Holds(e, h) /\ Query(t, e, h)
          [] OTHER                      -> Holds(e, h) /\ Change(t, e, h)

Return(t) ==
  /\ calls[t].phase = "replied"
  /\ calls' = [calls EXCEPT ![t] = Idle]
  /\ UNCHANGED <<holders, settings>>

Next == \E t \in Threads : Start(t) \/ Refuse(t) \/ TakeEffect(t) \/ Return(t)
Spec == Init /\ [][Next]_<<holders, settings, calls>>
=============================================================================
