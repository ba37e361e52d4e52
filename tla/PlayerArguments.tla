-------------------------- MODULE PlayerArguments --------------------------
(***************************************************************************)
(* The arguments an AudioPlayer passes to the mixer (AudioPlayer.cpp,      *)
(* make...Params): what slot a source has, what its end starts, and which  *)
(* way it fades.  me is the player's control handle, next that of its next *)
(* player, None when it has none.                                          *)
(***************************************************************************)
CONSTANT None

\* setTriggerConditions()
LoopTarget(me) == <<me, "next">>
NoLoopTarget(next) == IF next = None THEN None ELSE <<next, "active">>

ActiveFadeInParams(me, next, operation) ==
  [client |-> me, operation |-> operation, source_no |-> "active", fade_out |-> FALSE,
   trigger_loop |-> LoopTarget(me), trigger_no_loop |-> NoLoopTarget(next)]

NextFadeInParams(me, next) ==
  [client |-> me, operation |-> "none", source_no |-> "next", fade_out |-> FALSE,
   trigger_loop |-> LoopTarget(me), trigger_no_loop |-> NoLoopTarget(next)]

\* the triggers are cleared: clearTriggerConditions()
ActiveFadeOutParams(me) ==
  [client |-> me, operation |-> "none", source_no |-> "active", fade_out |-> TRUE,
   trigger_loop |-> None, trigger_no_loop |-> None]

OldFadeOutParams(me, next) ==
  [client |-> me, operation |-> "none", source_no |-> "old", fade_out |-> TRUE,
   trigger_loop |-> LoopTarget(me), trigger_no_loop |-> NoLoopTarget(next)]
=============================================================================
