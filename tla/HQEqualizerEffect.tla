------------------------- MODULE HQEqualizerEffect --------------------------
(***************************************************************************)
(* OpenSLMediaPlayerHQEqualizer.cpp: the equalizer of the mixer.  Its      *)
(* presets are the module's own; the levels are given to the HQEqualizer,  *)
(* whose exchange with the mixer thread is in HQEqualizer.tla.             *)
(***************************************************************************)
EXTENDS EffectModule

CONSTANTS NumBands, NumPresets, MinLevel, MaxLevel,
          PresetLevel(_)       \* the level every band has in a preset

UNDEFINED == 65535
Bands == 0 .. NumBands - 1
Presets == 0 .. NumPresets - 1
\* sGetPresetData()
PresetData(preset) == [b \in Bands |-> PresetLevel(preset)]

Getters == {"getEnabled", "getId", "hasControl", "getBand", "getBandFreqRange", "getBandLevel", "getBandLevelRange",
            "getCenterFreq", "getCurrentPreset", "getNumberOfBands", "getNumberOfPresets", "getPresetName",
            "getProperties"}
Setters == {"setEnabled", "setBandLevel", "usePreset", "setProperties"}

wantsModule(options) == "hqequalizer" \in options

AcceptsPointer(what, arg) == what \in Getters => arg # NULL
AcceptsBand(arg) == arg.band \in Bands /\ arg.level \in MinLevel .. MaxLevel
AcceptsPreset(preset) == preset \in Presets \cup {UNDEFINED}
AcceptsProperties(arg) ==
  arg # NULL /\ AcceptsPreset(arg.curPreset) /\ \A b \in Bands : arg.bandLevels[b] \in MinLevel .. MaxLevel
Accepts(what, arg) ==
  /\ AcceptsPointer(what, arg)
  /\ what = "setBandLevel" => AcceptsBand(arg)
  /\ what = "usePreset" => AcceptsPreset(arg)
  /\ what = "setProperties" => AcceptsProperties(arg)

\* what a method of the handle does before a message is posted: the module may be missing
posting(has_module, what, arg) ==
  IF ~has_module THEN "dead_object" ELSE IF Accepts(what, arg) THEN "posted" ELSE "illegal_argument"

\* what the HQEqualizer is told
setEnabled(eq, enabled) == [eq EXCEPT !.enabled = enabled]
setBandLevel(eq, band, level) == [eq EXCEPT !.levels[band] = level]
setAllBandLevel(eq, levels) == [eq EXCEPT !.levels = levels]

\* current_preset_ is a member of the module, which is a new one
onInstall(system) ==
  [system EXCEPT !.hqequalizer = [setAllBandLevel(@, PresetData(0)) EXCEPT !.preset = 0]]

\* the levels stay as they are
onUninstall(system) == [system EXCEPT !.hqequalizer = setEnabled(@, FALSE)]

query(system, what, is_active) ==
  CASE what = "getEnabled"         -> system.hqequalizer.enabled
    [] what = "getId"              -> 0
    [] what = "hasControl"         -> is_active
    [] what = "getBandLevel"       -> system.hqequalizer.levels[0]
    [] what = "getBandLevelRange"  -> MaxLevel
    [] what = "getCurrentPreset"   -> system.hqequalizer.preset
    [] what = "getNumberOfBands"   -> NumBands
    [] what = "getNumberOfPresets" -> NumPresets
    [] what = "getProperties"      -> [curPreset |-> system.hqequalizer.preset, bandLevels |-> system.hqequalizer.levels]
    [] OTHER                       -> NULL

changeBandLevel(eq, arg) ==
  IF eq.levels[arg.band] = arg.level THEN eq
  ELSE [setBandLevel(eq, arg.band, arg.level) EXCEPT !.preset = UNDEFINED]
usePreset(eq, preset) == [setAllBandLevel(eq, PresetData(preset)) EXCEPT !.preset = preset]
setProperties(eq, settings) ==
  IF settings.curPreset # UNDEFINED THEN usePreset(eq, settings.curPreset)
  ELSE [setAllBandLevel(eq, settings.bandLevels) EXCEPT !.preset = UNDEFINED]

\* there is no data for what is no preset
RefusedPreset(what, arg) == what = "usePreset" /\ arg = UNDEFINED

change(eq, what, arg) ==
  CASE what = "setEnabled"    -> setEnabled(eq, arg)
    [] what = "setBandLevel"  -> changeBandLevel(eq, arg)
    [] what = "usePreset"     -> usePreset(eq, arg)
    [] what = "setProperties" -> setProperties(eq, arg)

processMessage(system, what, arg, is_active) ==
  IF what \in Getters THEN Success(system, query(system, what, is_active))
  ELSE IF is_active /\ RefusedPreset(what, arg) THEN Answered(system, "illegal_argument", NULL)
  ELSE IfActive(is_active, system, [system EXCEPT !.hqequalizer = change(@, what, arg)])
=============================================================================
