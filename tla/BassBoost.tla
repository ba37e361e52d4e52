----------------------------- MODULE BassBoost ------------------------------
(* OpenSLMediaPlayerBassBoost.cpp: the bass boost of the player of the sink. *)
EXTENDS EffectModule

STRENGTH_MIN == 0
STRENGTH_MAX == 1000
DEFAULT_STRENGTH == 0

Getters == {"getEnabled", "getId", "hasControl", "getStrengthSupported", "getRoundedStrength", "getProperties"}
Setters == {"setEnabled", "setStrength", "setProperties"}

\* a handle asks for the module only when the context was created with the option
wantsModule(options) == "bassboost" \in options

AcceptsPointer(what, arg) == what \in Getters => arg # NULL
AcceptsStrength(what, arg) == what \in Setters \ {"setEnabled"} => arg # NULL /\ arg \in STRENGTH_MIN .. STRENGTH_MAX
Accepts(what, arg) == AcceptsPointer(what, arg) /\ AcceptsStrength(what, arg)
\* what a method of the handle does before a message is posted: the module may be missing
posting(has_module, what, arg) ==
  IF ~has_module THEN "dead_object" ELSE IF Accepts(what, arg) THEN "posted" ELSE "illegal_argument"
\* the settings are a strength
MakeDefaultSettings == 0
GetProperties(system) == system.bassboost.strength
SetProperties(system, strength) == [system EXCEPT !.bassboost.strength = strength]

onInstall(system) == [system EXCEPT !.bassboost = [enabled |-> FALSE, strength |-> DEFAULT_STRENGTH]]

\* mutant: it stays enabled
onUninstall_Enabled(system) == SetProperties(system, MakeDefaultSettings)
onUninstall(system) == SetProperties([system EXCEPT !.bassboost.enabled = FALSE], MakeDefaultSettings)

query(system, what, is_active) ==
  CASE what = "getEnabled"           -> system.bassboost.enabled
    [] what = "getId"                -> 0
    [] what = "hasControl"           -> is_active
    [] what = "getStrengthSupported" -> TRUE
    [] what \in {"getRoundedStrength", "getProperties"} -> GetProperties(system)

change(system, what, arg) ==
  IF what = "setEnabled" THEN [system EXCEPT !.bassboost.enabled = arg] ELSE SetProperties(system, arg)

processMessage(system, what, arg, is_active) ==
  IF what \in Getters THEN Success(system, query(system, what, is_active))
                      ELSE IfActive(is_active, system, change(system, what, arg))
=============================================================================
