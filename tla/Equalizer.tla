----------------------------- MODULE Equalizer ------------------------------
(***************************************************************************)
(* OpenSLMediaPlayerEqualizer.cpp: the equalizer of the player of the      *)
(* sink.  What that effect makes of its presets is external: a preset is a *)
(* level for every band, and a band that is changed leaves the preset.     *)
(* Some devices lose the settings when the sink starts, so they are        *)
(* written again before.                                                   *)
(***************************************************************************)
EXTENDS EffectModule

CONSTANTS NumBands, NumPresets, MinLevel, MaxLevel,
          PresetLevel(_)       \* the level every band has in a preset

UNDEFINED == 65535
Bands == 0 .. NumBands - 1
Presets == 0 .. NumPresets - 1
Flat(level) == [b \in Bands |-> level]

Getters == {"getEnabled", "getId", "hasControl", "getBand", "getBandFreqRange", "getBandLevel", "getBandLevelRange",
            "getCenterFreq", "getCurrentPreset", "getNumberOfBands", "getNumberOfPresets", "getPresetName",
            "getProperties"}
Setters == {"setEnabled", "setBandLevel", "usePreset", "setProperties"}

wantsModule(options) == "equalizer" \in options

AcceptsPointer(what, arg) == what \in Getters => arg # NULL
AcceptsBand(arg) == arg.band \in Bands /\ arg.level \in MinLevel .. MaxLevel
AcceptsPreset(preset) == preset \in Presets \cup {UNDEFINED}
AcceptsProperties(arg) ==
  arg # NULL /\ AcceptsPreset(arg.curPreset) /\ \A b \in Bands : arg.bandLevels[b] \in MinLevel .. MaxLevel
Accepts(what, arg) ==
  /\ AcceptsPointer(what, arg)
  /\ what = "setBandLevel" => AcceptsBand(arg)
  /\ what = "usePreset" => AcceptsPreset(arg)
  /\ what = "setProperties" => AcceptsProperties(arg)

\* what a method of the handle does before a message is posted: the module may be missing
posting(has_module, what, arg) ==
  IF ~has_module THEN "dead_object" ELSE IF Accepts(what, arg) THEN "posted" ELSE "illegal_argument"

\* UsePreset() and SetBandLevel() of the OpenSL object
UsePreset(eq, preset) == [eq EXCEPT !.preset = preset, !.levels = Flat(PresetLevel(preset))]
SetBandLevel(eq, band, level) == [eq EXCEPT !.preset = UNDEFINED, !.levels[band] = level]

GetProperties(eq) == [curPreset |-> eq.preset, bandLevels |-> eq.levels]
SetProperties(eq, settings) ==
  IF settings.curPreset # UNDEFINED
    THEN UsePreset(eq, settings.curPreset)
    ELSE [eq EXCEPT !.preset = UNDEFINED, !.levels = settings.bandLevels]
MakeDefaultSettings == [curPreset |-> 0, bandLevels |-> Flat(0)]

workAroundRefreshSettings(eq) == SetProperties(eq, GetProperties(eq))

\* the bands are asked for, and preset 0 is used once more
getEqProperties(eq) == UsePreset(eq, 0)
onInstall(system) ==
  [system EXCEPT !.equalizer = getEqProperties(SetProperties([@ EXCEPT !.enabled = FALSE], MakeDefaultSettings))]
onUninstall(system) ==
  [system EXCEPT !.equalizer = SetProperties([@ EXCEPT !.enabled = FALSE], MakeDefaultSettings)]

onBeforeAudioSinkStateChanged(system, next_is_started) ==
  IF next_is_started THEN [system EXCEPT !.equalizer = workAroundRefreshSettings(@)] ELSE system

\* what is known of the bands was corrected at the installation and is not the equalizer's own word
query(system, what, is_active) ==
  CASE what = "getEnabled"         -> system.equalizer.enabled
    [] what = "getId"              -> 0
    [] what = "hasControl"         -> is_active
    [] what = "getBandLevel"       -> system.equalizer.levels[0]
    [] what = "getBandLevelRange"  -> MaxLevel
    [] what = "getCurrentPreset"   -> system.equalizer.preset
    [] what = "getNumberOfBands"   -> NumBands
    [] what = "getNumberOfPresets" -> NumPresets
    [] what = "getProperties"      -> GetProperties(system.equalizer)
    [] OTHER                       -> NULL

\* UsePreset() refuses what is no preset
RefusedPreset(what, arg) == what = "usePreset" /\ arg = UNDEFINED

change(eq, what, arg) ==
  CASE what = "setEnabled"    -> [(IF arg THEN workAroundRefreshSettings(eq) ELSE eq) EXCEPT !.enabled = arg]
    [] what = "setBandLevel"  -> SetBandLevel(eq, arg.band, arg.level)
    [] what = "usePreset"     -> UsePreset(eq, arg)
    [] what = "setProperties" -> SetProperties(eq, arg)

processMessage(system, what, arg, is_active) ==
  IF what \in Getters THEN Success(system, query(system, what, is_active))
  ELSE IF is_active /\ RefusedPreset(what, arg) THEN Answered(system, "illegal_argument", NULL)
  ELSE IfActive(is_active, system, [system EXCEPT !.equalizer = change(@, what, arg)])
=============================================================================
