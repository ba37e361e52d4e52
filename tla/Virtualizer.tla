---------------------------- MODULE Virtualizer -----------------------------
(* OpenSLMediaPlayerVirtualizer.cpp: the virtualizer of the player of the sink. *)
EXTENDS EffectModule

STRENGTH_MIN == 0
STRENGTH_MAX == 1000
DEFAULT_STRENGTH == 750

Getters == {"getEnabled", "getId", "hasControl", "getStrengthSupported", "getRoundedStrength", "getProperties"}
Setters == {"setEnabled", "setStrength", "setProperties"}

\* a handle asks for the module only when the context was created with the option
wantsModule(options) == "virtualizer" \in options

AcceptsPointer(what, arg) == what \in Getters => arg # NULL
AcceptsStrength(what, arg) == what \in Setters \ {"setEnabled"} => arg # NULL /\ arg \in STRENGTH_MIN .. STRENGTH_MAX
Accepts(what, arg) == AcceptsPointer(what, arg) /\ AcceptsStrength(what, arg)
\* what a method of the handle does before a message is posted: the module may be missing
posting(has_module, what, arg) ==
  IF ~has_module THEN "dead_object" ELSE IF Accepts(what, arg) THEN "posted" ELSE "illegal_argument"
\* the settings are a strength
MakeDefaultSettings == 0
GetProperties(system) == system.virtualizer.strength
SetProperties(system, strength) == [system EXCEPT !.virtualizer.strength = strength]

onInstall(system) == [system EXCEPT !.virtualizer = [enabled |-> FALSE, strength |-> DEFAULT_STRENGTH]]

onUninstall(system) == SetProperties([system EXCEPT !.virtualizer.enabled = FALSE], MakeDefaultSettings)

query(system, what, is_active) ==
  CASE what = "getEnabled"           -> system.virtualizer.enabled
    [] what = "getId"                -> 0
    [] what = "hasControl"           -> is_active
    [] what = "getStrengthSupported" -> TRUE
    [] what \in {"getRoundedStrength", "getProperties"} -> GetProperties(system)

change(system, what, arg) ==
  IF what = "setEnabled" THEN [system EXCEPT !.virtualizer.enabled = arg] ELSE SetProperties(system, arg)

processMessage(system, what, arg, is_active) ==
  IF what \in Getters THEN Success(system, query(system, what, is_active))
                      ELSE IfActive(is_active, system, change(system, what, arg))
=============================================================================
