---------------------------- MODULE MCAudioMixer ----------------------------
(* The mixer with the arguments an AudioPlayer gives it. *)
EXTENDS AudioMixer

LOCAL P == INSTANCE PlayerArguments

\* every client may have any other client, or none, as its next player
AllArguments ==
  UNION {UNION {{P!ActiveFadeInParams(c, n, op) : op \in {"none", "start"}}
         \cup {P!NextFadeInParams(c, n), P!ActiveFadeOutParams(c), P!OldFadeOutParams(c, n)}
         : n \in (Clients \cup {None}) \ {c}} : c \in Clients}

\* a source that is attached and started at once
StartArguments == {P!ActiveFadeInParams(c, None, "start") : c \in Clients}
=============================================================================
