------------------------ MODULE EnvironmentalReverb -------------------------
(***************************************************************************)
(* OpenSLMediaPlayerEnvironmentalReverb.cpp: the other reverb of the       *)
(* output mix, with ten parameters, each with a getter and a setter.       *)
(***************************************************************************)
EXTENDS AuxEffects

Parameters == {"RoomLevel", "RoomHFLevel", "DecayTime", "DecayHFRatio", "ReflectionsLevel",
               "ReflectionsDelay", "ReverbLevel", "ReverbDelay", "Diffusion", "Density"}

\* check...Value()
CheckedRange == [
  RoomLevel |-> -9000 .. 0, RoomHFLevel |-> -9000 .. 0, DecayTime |-> 100 .. 7000, DecayHFRatio |-> 100 .. 2000,
  ReflectionsLevel |-> 0 .. 0, ReflectionsDelay |-> 0 .. 0, ReverbLevel |-> -9000 .. 2000, ReverbDelay |-> 0 .. 0,
  Diffusion |-> 0 .. 1000, Density |-> 0 .. 1000]

MakeDefaultSettings == [
  RoomLevel |-> -6000, RoomHFLevel |-> 0, DecayTime |-> 1490, DecayHFRatio |-> 420, ReflectionsLevel |-> 0,
  ReflectionsDelay |-> 0, ReverbLevel |-> -6000, ReverbDelay |-> 0, Diffusion |-> 1000, Density |-> 1000]

checkSettings(settings) == \A p \in Parameters : settings[p] \in CheckedRange[p]

\* there is one message for every parameter and direction
StatusGetters == {"getEnabled", "getId", "hasControl", "getProperties"}
\* a call for a parameter comes with its name
AcceptsPointer(what, arg) == what \in StatusGetters => arg # NULL
AcceptsParameter(what, arg) == what = "setParameter" => arg.value \in CheckedRange[arg.parameter]
AcceptsProperties(what, arg) == what = "setProperties" => arg # NULL /\ checkSettings(arg)
Accepts(what, arg) == AcceptsPointer(what, arg) /\ AcceptsParameter(what, arg) /\ AcceptsProperties(what, arg)

wantsModule(options) == "envreverb" \in options

\* what a method of the handle does before a message is posted: the module may be missing
posting(has_module, what, arg) ==
  IF ~has_module THEN "dead_object" ELSE IF Accepts(what, arg) THEN "posted" ELSE "illegal_argument"

onEnabledChanged(system, enabled) == [system EXCEPT !.aux = onSetAuxEffectEnabled(@, "envreverb", enabled)]

onInstall(system) == [system EXCEPT !.envreverb = [enabled |-> FALSE, settings |-> MakeDefaultSettings]]
onUninstall(system) == [onEnabledChanged(system, FALSE) EXCEPT !.envreverb.settings = MakeDefaultSettings]

queryStatus(system, what, is_active) ==
  CASE what = "getEnabled"    -> system.envreverb.enabled
    [] what = "getId"         -> 1
    [] what = "hasControl"    -> is_active
    [] what = "getProperties" -> system.envreverb.settings
queryParameter(system, parameter) == system.envreverb.settings[parameter]

setEnabled(system, enabled) ==
  IF system.envreverb.enabled = enabled THEN system
  ELSE onEnabledChanged([system EXCEPT !.envreverb.enabled = enabled], enabled)
setParameter(system, parameter, value) == [system EXCEPT !.envreverb.settings[parameter] = value]
change(system, what, arg) ==
  CASE what = "setEnabled"    -> setEnabled(system, arg)
    [] what = "setParameter"  -> setParameter(system, arg.parameter, arg.value)
    [] what = "setProperties" -> [system EXCEPT !.envreverb.settings = arg]

processMessage(system, what, arg, is_active) ==
  CASE what \in StatusGetters -> Success(system, queryStatus(system, what, is_active))
    [] what = "getParameter"  -> Success(system, queryParameter(system, arg))
    [] OTHER                  -> IfActive(is_active, system, change(system, what, arg))
=============================================================================
