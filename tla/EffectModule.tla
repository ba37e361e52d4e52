---------------------------- MODULE EffectModule ----------------------------
(***************************************************************************)
(* What every extension module inherits (BaseExtensionModule.cpp): the     *)
(* queue of its clients, newest first, and who of them is active; and what *)
(* a message is answered with: the state after it, a result and the value  *)
(* that was asked for.                                                     *)
(*                                                                         *)
(* The modules of the seven effects work on one record, `system', which    *)
(* holds what the OpenSL objects, the mixer and the modules keep for each  *)
(* of them.                                                                *)
(***************************************************************************)
EXTENDS Naturals, Integers, Sequences

CONSTANT NULL    \* a null pointer, and the value of a call that asks for none

handleOnInstall(client) == <<client>>
handleOnAttach(client_queue, client) == <<client>> \o client_queue
handleOnDetach(client_queue, client) ==
  LET kept[n \in 0 .. Len(client_queue)] ==
        IF n = 0 THEN <<>>
        ELSE IF client_queue[n] = client THEN kept[n - 1] ELSE Append(kept[n - 1], client_queue[n])
  IN kept[Len(client_queue)]

\* mutant: any client counts as active
checkIsClientActive_Any(client_queue, client) == \E i \in DOMAIN client_queue : client_queue[i] = client
checkIsClientActive(client_queue, client) == client_queue # <<>> /\ Head(client_queue) = client

\* where a call that asks for a value wants it
Pointers == {NULL, "somewhere"}

Answered(system, result, value) == [system |-> system, result |-> result, value |-> value]
Success(system, value) == Answered(system, "success", value)
\* CHECK_IS_ACTIVE(): only the active client may change a setting
IfActive(is_active, system, changed) ==
  IF is_active THEN Success(changed, NULL) ELSE Answered(system, "control_lost", NULL)
=============================================================================
