------------------------------- MODULE PreAmp -------------------------------
(***************************************************************************)
(* OpenSLMediaPlayerPreAmp.cpp and PreAmp.cpp: the gain the mixer applies  *)
(* to everything it mixes.  Levels are in tenths, 0.0 to 2.0.              *)
(***************************************************************************)
EXTENDS EffectModule

CONSTANT NaN

LEVEL_MAX == 20
UNITY == 10

Getters == {"getEnabled", "getId", "hasControl", "getLevel", "getProperties"}
Setters == {"setEnabled", "setLevel", "setProperties"}

wantsModule(options) == "preamp" \in options

AcceptsPointer(what, arg) == what \in Getters => arg # NULL
AcceptsLevel(what, arg) == what \in Setters \ {"setEnabled"} => arg \notin {NULL, NaN} /\ arg \in 0 .. LEVEL_MAX
Accepts(what, arg) == AcceptsPointer(what, arg) /\ AcceptsLevel(what, arg)

\* what a method of the handle does before a message is posted: the module may be missing
posting(has_module, what, arg) ==
  IF ~has_module THEN "dead_object" ELSE IF Accepts(what, arg) THEN "posted" ELSE "illegal_argument"

\* the PreAmp tells the mixer; a preamp that is off has no say in the level
apply(preamp) == [preamp EXCEPT !.mixer_level = IF preamp.enabled THEN preamp.level ELSE UNITY]
setEnabled(preamp, enabled) == apply([preamp EXCEPT !.enabled = enabled])
setLevel(preamp, level) == apply([preamp EXCEPT !.level = level])

resetToDefaultState(preamp) == setLevel(setEnabled(preamp, FALSE), UNITY)

onInstall(system) == [system EXCEPT !.preamp = resetToDefaultState(@)]
onUninstall(system) == [system EXCEPT !.preamp = resetToDefaultState(@)]

query(system, what, is_active) ==
  CASE what = "getEnabled" -> system.preamp.enabled
    [] what = "getId"      -> 0
    [] what = "hasControl" -> is_active
    [] what \in {"getLevel", "getProperties"} -> system.preamp.level

change(preamp, what, arg) == IF what = "setEnabled" THEN setEnabled(preamp, arg) ELSE setLevel(preamp, arg)

processMessage(system, what, arg, is_active) ==
  IF what \in Getters THEN Success(system, query(system, what, is_active))
                      ELSE IfActive(is_active, system, [system EXCEPT !.preamp = change(@, what, arg)])
=============================================================================
