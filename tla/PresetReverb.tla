---------------------------- MODULE PresetReverb ----------------------------
(***************************************************************************)
(* OpenSLMediaPlayerPresetReverb.cpp: a reverb of the output mix.  Whether *)
(* it is enabled is the module's own knowledge and decides about the send. *)
(***************************************************************************)
EXTENDS AuxEffects

NONE == 0
Presets == NONE .. 6

Getters == {"getEnabled", "getId", "hasControl", "getPreset", "getProperties"}
Setters == {"setEnabled", "setPreset", "setProperties"}

wantsModule(options) == "presetreverb" \in options

checkPresetNo(preset) == preset \in Presets
AcceptsPointer(what, arg) == what \in Getters => arg # NULL
AcceptsPreset(what, arg) == what \in Setters \ {"setEnabled"} => arg # NULL /\ checkPresetNo(arg)
Accepts(what, arg) == AcceptsPointer(what, arg) /\ AcceptsPreset(what, arg)

\* what a method of the handle does before a message is posted: the module may be missing
posting(has_module, what, arg) ==
  IF ~has_module THEN "dead_object" ELSE IF Accepts(what, arg) THEN "posted" ELSE "illegal_argument"

MakeDefaultSettings == NONE
GetProperties(system) == system.presetreverb.preset
SetProperties(system, preset) == [system EXCEPT !.presetreverb.preset = preset]

onEnabledChanged(system, enabled) == [system EXCEPT !.aux = onSetAuxEffectEnabled(@, "presetreverb", enabled)]

\* the module is new and so is its status
onInstall(system) == [system EXCEPT !.presetreverb = [enabled |-> FALSE, preset |-> MakeDefaultSettings]]

onUninstall(system) == SetProperties(onEnabledChanged(system, FALSE), MakeDefaultSettings)

query(system, what, is_active) ==
  CASE what = "getEnabled" -> system.presetreverb.enabled
    [] what = "getId"      -> 2
    [] what = "hasControl" -> is_active
    [] what \in {"getPreset", "getProperties"} -> GetProperties(system)

setEnabled(system, enabled) ==
  IF system.presetreverb.enabled = enabled THEN system
  ELSE onEnabledChanged([system EXCEPT !.presetreverb.enabled = enabled], enabled)
change(system, what, arg) == IF what = "setEnabled" THEN setEnabled(system, arg) ELSE SetProperties(system, arg)

processMessage(system, what, arg, is_active) ==
  IF what \in Getters THEN Success(system, query(system, what, is_active))
                      ELSE IfActive(is_active, system, change(system, what, arg))
=============================================================================
