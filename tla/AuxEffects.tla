----------------------------- MODULE AuxEffects -----------------------------
(***************************************************************************)
(* The sends from the player of the sink to the two reverbs of the output  *)
(* mix (AudioSinkOpenSLBackend.cpp).  A player selects one of them, or     *)
(* none, and the level; the reverb's own module switches it on.  A level   *)
(* is a factor, here counted in halves of what a millibel can tell apart:  *)
(* it is truncated to a millibel, and what is below -72 dB is not sent.    *)
(***************************************************************************)
EXTENDS EffectModule

AuxEffects == {"envreverb", "presetreverb"}
MIN == 0        \* SL_MILLIBEL_MIN; the levels above are numbers

linearToMillibel(level) == MIN + level \div 2

\* EnableEffectSend() and SetSendLevel()
send(aux, effect, enabled, millibel) == [aux EXCEPT !.sends[effect] = IF enabled /\ millibel > MIN THEN millibel ELSE MIN]

\* mutant: a send that was on stays on when the other effect is selected
applyActiveAuxEffectSettings_OneOnly(aux) ==
  IF aux.active = "none" THEN aux ELSE send(aux, aux.active, aux.enabled[aux.active], aux.millibel)
applyActiveAuxEffectSettings(aux) ==
  [aux EXCEPT !.sends = [effect \in AuxEffects |->
     IF effect = aux.active THEN send(aux, effect, aux.enabled[effect], aux.millibel).sends[effect] ELSE MIN]]

onSelectActiveAuxEffect(aux, effect) ==
  IF aux.active = effect THEN aux ELSE applyActiveAuxEffectSettings([aux EXCEPT !.active = effect])

onSetAuxEffectSendLevel(aux, level) ==
  IF aux.level = level THEN aux
  ELSE applyActiveAuxEffectSettings([aux EXCEPT !.level = level, !.millibel = linearToMillibel(level)])

onSetAuxEffectEnabled(aux, effect, enabled) ==
  IF aux.enabled[effect] = enabled THEN aux
  ELSE applyActiveAuxEffectSettings([aux EXCEPT !.enabled[effect] = enabled])
=============================================================================
