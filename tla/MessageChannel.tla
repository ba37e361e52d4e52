--------------------------- MODULE MessageChannel ---------------------------
(***************************************************************************)
(* What MessageHandlerThread promises to the code that posts to it: an     *)
(* accepted message is delivered to the handler once, in posting order,    *)
(* one at a time, and never after the thread has left its loop.  Messages  *)
(* are numbered by their order of acceptance.                              *)
(***************************************************************************)
EXTENDS Naturals

CONSTANTS MaxPosts          \* bound on the number of accepted messages

VARIABLES accepted,         \* number of messages accepted so far
          delivered,        \* number of messages handed to the handler
          message,          \* the message the handler is processing, 0 for none
          phase             \* "off", "running" or "stopped"

vars == <<accepted, delivered, message, phase>>

Init == accepted = 0 /\ delivered = 0 /\ message = 0 /\ phase = "off"

Start == phase = "off" /\ phase' = "running" /\ UNCHANGED <<accepted, delivered, message>>

\* The queue outlives the loop: a post to a stopped thread is still accepted.
Accept ==
  /\ phase # "off"
  /\ accepted < MaxPosts
  /\ accepted' = accepted + 1
  /\ UNCHANGED <<delivered, message, phase>>

\* The handler gets the oldest accepted message it has not had.
Deliver ==
  /\ phase = "running"
  /\ message = 0
  /\ delivered < accepted
  /\ message' = delivered + 1
  /\ delivered' = delivered + 1
  /\ UNCHANGED <<accepted, phase>>

\* A handler that answers false ends the loop with its own message.
Finish ==
  /\ message # 0
  /\ message' = 0
  /\ phase' \in {phase, "stopped"}
  /\ UNCHANGED <<accepted, delivered>>

Stop ==
  /\ phase = "running"
  /\ message = 0
  /\ phase' = "stopped"
  /\ UNCHANGED <<accepted, delivered, message>>

Next == Start \/ Accept \/ Deliver \/ Finish \/ Stop

Spec == Init /\ [][Next]_vars
=============================================================================
