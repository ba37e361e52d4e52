---------------------------- MODULE MediaPlayer ----------------------------
(***************************************************************************)
(* The players of one context and the client threads that call them        *)
(* (OpenSLMediaPlayerImpl.cpp, OpenSLMediaPlayerInternalContextImpl.cpp).  *)
(*                                                                         *)
(* A call posts a message and sleeps until the handler thread has answered *)
(* it through a pointer to the caller's stack.  initialize() and release() *)
(* post to the context, which gives a player one of its few handler slots; *)
(* the slot's address is the player's token.  prepare() sleeps a second    *)
(* time, until the preparation it started is over.                         *)
(*                                                                         *)
(* The message thread is the FIFO channel of MessageChannel.  The engine   *)
(* of a player (AudioPlayer.cpp) is abstracted to what its callers see of  *)
(* it: player_ is "null", or says whether a source is being prepared.      *)
(***************************************************************************)
EXTENDS Naturals, Sequences, PlayerState

CONSTANTS Players, Clients,
          NumMessageHandlers,   \* NUM_MESSAGE_HANDLERS (4 in the code)
          MayCall,              \* the <<client, player>> pairs of the application
          ClientRequests,       \* the requests the clients make
          ReleaseAlone,         \* release() is never called during another call
          None

ASSUME HandlersAssumption == NumMessageHandlers \in Nat \ {0}
ASSUME MayCallAssumption  == MayCall \subseteq Clients \X Players
ASSUME RequestsAssumption == ClientRequests \subseteq Requests
ASSUME ReleaseAssumption  == ReleaseAlone \in BOOLEAN
ASSUME NoneAssumption     == None \notin Players /\ None \notin Clients

VARIABLES state_,               \* per player: its public state
          prepared_result_,     \* per player: the outcome prepare() waits for
          player_,              \* per player: its engine
          seeking,              \* per player: the engine prepares a source to seek
          msg_handler_token_,   \* per player: its slot, 0 when it has none
          msgHandlers_,         \* per slot: the player registered there
          mutex_,               \* the client in postAndWaitResult() of the context
          msg_queue_,           \* messages posted and not yet handled
          call,                 \* per client: the call it is in
          asserted              \* the assertion of setState() has failed

playerVars == <<state_, prepared_result_, player_, seeking, msg_handler_token_>>
vars == <<state_, prepared_result_, player_, seeking, msg_handler_token_, msgHandlers_,
          mutex_, msg_queue_, call, asserted>>

Slots == 1..NumMessageHandlers
Engines == {"null", "stopped", "preparing", "prepared"}
Whats == Requests \cup {"register", "unregister"}
Results == {"ok", "error", "illegalArgument", "illegalState", "inErrorState"}
Pcs == {"idle", "checked", "waiting", "answered", "preparing"}
Messages == [client : Clients, player : Players, what : Whats, token : {0} \cup Slots]
Calls == [pc : Pcs, player : Players \cup {None}, what : Whats \cup {"none"},
          result : Results \cup {"none"}]
NoCall == [pc |-> "idle", player |-> None, what |-> "none", result |-> "none"]

Call(pc, p, what) == [pc |-> pc, player |-> p, what |-> what, result |-> "none"]
Message(c, p, what, token) == [client |-> c, player |-> p, what |-> what, token |-> token]

Calling(p) == {c \in Clients : call[c].player = p}

Init ==
  /\ state_ = [p \in Players |-> "CREATED"]
  /\ prepared_result_ = [p \in Players |-> "none"]
  /\ player_ = [p \in Players |-> "null"]
  /\ seeking = [p \in Players |-> FALSE]
  /\ msg_handler_token_ = [p \in Players |-> 0]
  /\ msgHandlers_ = [s \in Slots |-> None]
  /\ mutex_ = None
  /\ msg_queue_ = <<>>
  /\ call = [c \in Clients |-> NoCall]
  /\ asserted = FALSE

(***************************************************************************)
(* The clients.                                                            *)
(***************************************************************************)
\* setState(): an illegal transition trips the assertion and changes nothing.
SetState(p, next) ==
  /\ state_' = [state_ EXCEPT ![p] = setState(@, next)]
  /\ asserted' = (asserted \/ ~checkStateTransition(state_[p], next))

\* The application deletes a released player and makes a new one.
create(p) ==
  /\ state_[p] = "END"
  /\ msg_handler_token_[p] = 0
  /\ Calling(p) = {}
  /\ state_' = [state_ EXCEPT ![p] = "CREATED"]
  /\ prepared_result_' = [prepared_result_ EXCEPT ![p] = "none"]
  /\ UNCHANGED <<player_, seeking, msg_handler_token_, msgHandlers_, mutex_, msg_queue_, call, asserted>>

\* The context's postAndWaitResult() holds its mutex until it is answered.
PostToContext(c, p, what) ==
  /\ mutex_ = None
  /\ mutex_' = c
  /\ msg_queue_' = Append(msg_queue_, Message(c, p, what, msg_handler_token_[p]))
  /\ call' = [call EXCEPT ![c] = Call("waiting", p, what)]

\* A player is initialized by whoever made it, before anyone else knows it.
initialize(c, p) ==
  /\ call[c].pc = "idle"
  /\ <<c, p>> \in MayCall
  /\ state_[p] = "CREATED"
  /\ Calling(p) = {}
  /\ PostToContext(c, p, "register")
  /\ UNCHANGED <<playerVars, msgHandlers_, asserted>>

release(c, p) ==
  /\ call[c].pc = "idle"
  /\ <<c, p>> \in MayCall
  /\ state_[p] \notin {"CREATED", "END"} \/ msg_handler_token_[p] # 0
  /\ \A d \in Calling(p) : ~ReleaseAlone /\ call[d].what \in Requests
  /\ PostToContext(c, p, "unregister")
  /\ UNCHANGED <<playerVars, msgHandlers_, asserted>>

\* postAndWaitResult() of a player first tests its state, without a lock ...
callCheck(c, p, request) ==
  /\ call[c].pc = "idle"
  /\ <<c, p>> \in MayCall
  /\ request \in ClientRequests
  /\ state_[p] \notin {"CREATED", "END"}
  /\ ReleaseAlone => \A d \in Calling(p) : call[d].what # "unregister"
  /\ call' = [call EXCEPT ![c] = Call("checked", p, request)]
  /\ UNCHANGED <<playerVars, msgHandlers_, mutex_, msg_queue_, asserted>>

\* ... and then posts under the token it finds.
callPost(c) ==
  /\ call[c].pc = "checked"
  /\ LET p == call[c].player
         token == msg_handler_token_[p]
     IN IF token \in Slots
        THEN /\ msg_queue_' = Append(msg_queue_, Message(c, p, call[c].what, token))
             /\ call' = [call EXCEPT ![c].pc = "waiting"]
        ELSE /\ call' = [call EXCEPT ![c] = NoCall]
             /\ UNCHANGED msg_queue_
  /\ UNCHANGED <<playerVars, msgHandlers_, mutex_, asserted>>

callReturn_Impatient(c) ==
  /\ call[c].pc \in {"waiting", "answered"}
  /\ call[c].what \in Requests
  /\ call' = [call EXCEPT ![c] = NoCall]
  /\ UNCHANGED <<playerVars, msgHandlers_, mutex_, msg_queue_, asserted>>

\* waitResult() returns from a player's call.
callReturn(c) ==
  /\ call[c].pc = "answered"
  /\ call[c].what \in Requests
  /\ call' = [call EXCEPT ![c] = IF @.what = "prepare" /\ @.result = "ok"
                                 THEN Call("preparing", @.player, "prepare") ELSE NoCall]
  /\ UNCHANGED <<playerVars, msgHandlers_, mutex_, msg_queue_, asserted>>

prepareReturn(c) ==
  /\ call[c].pc = "preparing"
  /\ prepared_result_[call[c].player] # "none"
  /\ prepared_result_' = [prepared_result_ EXCEPT ![call[c].player] = "none"]
  /\ call' = [call EXCEPT ![c] = NoCall]
  /\ UNCHANGED <<state_, player_, seeking, msg_handler_token_, msgHandlers_, mutex_,
                 msg_queue_, asserted>>

initializeReturn(c) ==
  /\ call[c].pc = "answered"
  /\ call[c].what = "register"
  /\ SetState(call[c].player, IF call[c].result = "ok" THEN "IDLE" ELSE "END")
  /\ mutex_' = None
  /\ call' = [call EXCEPT ![c] = NoCall]
  /\ UNCHANGED <<prepared_result_, player_, seeking, msg_handler_token_, msgHandlers_, msg_queue_>>

releaseReturn_KeepToken(c) ==
  /\ call[c].pc = "answered"
  /\ call[c].what = "unregister"
  /\ SetState(call[c].player, "END")
  /\ mutex_' = None
  /\ call' = [call EXCEPT ![c] = NoCall]
  /\ UNCHANGED <<prepared_result_, player_, seeking, msg_handler_token_, msgHandlers_, msg_queue_>>

releaseReturn(c) ==
  /\ call[c].pc = "answered"
  /\ call[c].what = "unregister"
  /\ LET p == call[c].player
     IN /\ msg_handler_token_' = [msg_handler_token_ EXCEPT ![p] = 0]
        /\ player_' = [player_ EXCEPT ![p] = "null"]
        /\ SetState(p, "END")
  /\ mutex_' = None
  /\ call' = [call EXCEPT ![c] = NoCall]
  /\ UNCHANGED <<prepared_result_, seeking, msgHandlers_, msg_queue_>>

(***************************************************************************)
(* The handler thread: messages.                                           *)
(***************************************************************************)
msg == Head(msg_queue_)

notifyResult_SuccessOnly(result) ==
  call' = [call EXCEPT ![msg.client].pc = IF result = "ok" THEN "answered" ELSE @,
                       ![msg.client].result = result]

\* notifyResult() writes through the pointers into the caller's frame.
notifyResult(result) ==
  call' = [call EXCEPT ![msg.client] =
             [pc |-> "answered", player |-> @.player, what |-> @.what, result |-> result]]

Handling(whats) ==
  /\ msg_queue_ # <<>>
  /\ msg.what \in whats
  /\ msg_queue_' = Tail(msg_queue_)

handleRegister_Overwrite ==
  /\ Handling({"register"})
  /\ msgHandlers_' = [msgHandlers_ EXCEPT ![1] = msg.player]
  /\ msg_handler_token_' = [msg_handler_token_ EXCEPT ![msg.player] = 1]
  /\ player_' = [player_ EXCEPT ![msg.player] = "stopped"]
  /\ notifyResult("ok")
  /\ UNCHANGED <<state_, prepared_result_, seeking, mutex_, asserted>>

\* The slot a scan of msgHandlers_ finds first.
FirstFree(s) == msgHandlers_[s] = None /\ \A t \in Slots : msgHandlers_[t] = None => s <= t

\* handleRegisterMessage(): the slot stays taken when onRegisteredAsMessageHandler()
\* cannot make the engine.
handleRegister ==
  /\ Handling({"register"})
  /\ \/ /\ \A s \in Slots : msgHandlers_[s] # None
        /\ notifyResult("error")
        /\ UNCHANGED <<msgHandlers_, msg_handler_token_, player_>>
     \/ \E s \in Slots :
        /\ FirstFree(s)
        /\ msgHandlers_' = [msgHandlers_ EXCEPT ![s] = msg.player]
        /\ msg_handler_token_' = [msg_handler_token_ EXCEPT ![msg.player] = s]
        /\ \/ notifyResult("ok") /\ player_' = [player_ EXCEPT ![msg.player] = "stopped"]
           \/ notifyResult("error") /\ UNCHANGED player_
  /\ UNCHANGED <<state_, prepared_result_, seeking, mutex_, asserted>>

handleUnregister ==
  /\ Handling({"unregister"})
  /\ IF msgHandlers_[msg.token] = msg.player
     THEN /\ msgHandlers_' = [msgHandlers_ EXCEPT ![msg.token] = None]
          /\ player_' = [player_ EXCEPT ![msg.player] = "null"]
          /\ seeking' = [seeking EXCEPT ![msg.player] = FALSE]
     ELSE UNCHANGED <<msgHandlers_, player_, seeking>>
  /\ notifyResult("ok")
  /\ UNCHANGED <<state_, prepared_result_, msg_handler_token_, mutex_, asserted>>

\* What the engine may answer a request that its state mask lets through.
EngineResults(request) ==
  CASE request \in {"setDataSource", "stop", "reset", "setLooping", "setAudioStreamType"} -> {"ok"}
    [] request \in {"isLooping", "isPlaying"} -> {"ok", "illegalArgument"}
    [] OTHER -> {"ok", "error", "illegalArgument"}

EngineAfter_ResetKeepsSource(p, request, result) ==
  CASE request \in {"prepare", "prepareAsync"} -> IF result = "ok" THEN "preparing" ELSE "stopped"
    [] request = "stop"                        -> "stopped"
    [] OTHER                                   -> player_[p]

\* What a request that reaches the engine makes of it.
EngineAfter(p, request, result) ==
  CASE request \in {"prepare", "prepareAsync"} -> IF result = "ok" THEN "preparing" ELSE "stopped"
    [] request \in {"stop", "reset"}           -> "stopped"
    [] OTHER                                   -> player_[p]

SeekingAfter(p, request, result) ==
  CASE request \in {"prepare", "prepareAsync", "stop", "reset"} -> FALSE
    [] request = "seekTo" -> result = "ok" \/ seeking[p]
    [] OTHER              -> seeking[p]

Registered(m) == msgHandlers_[m.token] = m.player

\* The request's effect on its player and on the caller when the engine answers r.
onHandleMessage(p, request, r) ==
  LET accepted == state_[p] \in StateMask[request]
      result == Result(request, state_[p], r)
      next == RequestedState(request, state_[p], result)
  IN /\ IF next = state_[p] THEN UNCHANGED <<state_, asserted>> ELSE SetState(p, next)
     /\ player_' = [player_ EXCEPT ![p] = IF accepted THEN EngineAfter(p, request, r) ELSE @]
     /\ seeking' = [seeking EXCEPT ![p] = IF accepted THEN SeekingAfter(p, request, r) ELSE @]
     /\ prepared_result_' =
          [prepared_result_ EXCEPT ![p] = IF accepted /\ request = "prepare" THEN "none" ELSE @]
     /\ notifyResult(result)

\* A request is handled by the player whose slot the tag names.
handleRequest ==
  /\ Handling(Requests)
  /\ Registered(msg)
  /\ \E r \in EngineResults(msg.what) : onHandleMessage(msg.player, msg.what, r)
  /\ UNCHANGED <<msg_handler_token_, msgHandlers_, mutex_>>

\* A message whose handler has left its slot is dropped, unanswered.
dropRequest ==
  /\ Handling(Requests)
  /\ ~Registered(msg)
  /\ UNCHANGED <<playerVars, msgHandlers_, mutex_, call, asserted>>

(***************************************************************************)
(* The handler thread: events of a poll.                                   *)
(***************************************************************************)
onPrepareCompleted_SuccessOnly(p) ==
  /\ player_[p] = "preparing"
  /\ \E r \in {"ok", "error"} :
       /\ player_' = [player_ EXCEPT ![p] = IF r = "ok" THEN "prepared" ELSE "stopped"]
       /\ prepared_result_' =
            [prepared_result_ EXCEPT ![p] = IF state_[p] = "PREPARING_SYNC" /\ r = "ok" THEN r ELSE @]
       /\ SetState(p, AfterPrepareCompleted(state_[p], r))
  /\ UNCHANGED <<seeking, msg_handler_token_, msgHandlers_, mutex_, msg_queue_, call>>

onPrepareCompleted(p) ==
  /\ player_[p] = "preparing"
  /\ \E r \in {"ok", "error"} :
       /\ player_' = [player_ EXCEPT ![p] = IF r = "ok" THEN "prepared" ELSE "stopped"]
       /\ prepared_result_' = [prepared_result_ EXCEPT ![p] = IF state_[p] = "PREPARING_SYNC" THEN r ELSE @]
       /\ SetState(p, AfterPrepareCompleted(state_[p], r))
  /\ UNCHANGED <<seeking, msg_handler_token_, msgHandlers_, mutex_, msg_queue_, call>>

onSeekCompleted(p) ==
  /\ seeking[p]
  /\ seeking' = [seeking EXCEPT ![p] = FALSE]
  /\ UNCHANGED <<state_, asserted>> \/ SetState(p, "ERROR")
  /\ UNCHANGED <<prepared_result_, player_, msg_handler_token_, msgHandlers_, mutex_, msg_queue_, call>>

\* onPlaybackCompletion() and onPlayerStartedAsNextPlayer() filter by state.
onPlaybackEvent(p) ==
  /\ player_[p] = "prepared"
  /\ \E next \in {AfterPlaybackCompletion(state_[p]), AfterStartedAsNextPlayer(state_[p])} \ {state_[p]} :
       SetState(p, next)
  /\ UNCHANGED <<prepared_result_, player_, seeking, msg_handler_token_, msgHandlers_, mutex_,
                 msg_queue_, call>>

HandleMessage == handleRegister \/ handleUnregister \/ handleRequest \/ dropRequest
Poll(p) == onPrepareCompleted(p) \/ onSeekCompleted(p) \/ onPlaybackEvent(p)
ClientReturns(c) == callPost(c) \/ callReturn(c) \/ prepareReturn(c) \/ initializeReturn(c) \/ releaseReturn(c)

Next ==
  \/ \E p \in Players : create(p) \/ Poll(p)
  \/ \E c \in Clients, p \in Players :
       initialize(c, p) \/ release(c, p) \/ \E r \in ClientRequests : callCheck(c, p, r)
  \/ \E c \in Clients : ClientReturns(c)
  \/ HandleMessage

Spec == Init /\ [][Next]_vars

\* The handler thread runs, clients run when they are answered, and the decoder
\* comes to the end of every preparation.
Fairness ==
  /\ WF_vars(HandleMessage)
  /\ \A c \in Clients : WF_vars(ClientReturns(c))
  /\ \A p \in Players : WF_vars(onPrepareCompleted(p))

FairSpec == Spec /\ Fairness

(***************************************************************************)
(* Properties.                                                             *)
(***************************************************************************)
TypeOK ==
  /\ state_ \in [Players -> PlayerStates]
  /\ prepared_result_ \in [Players -> {"none", "ok", "error"}]
  /\ player_ \in [Players -> Engines]
  /\ seeking \in [Players -> BOOLEAN]
  /\ msg_handler_token_ \in [Players -> {0} \cup Slots]
  /\ msgHandlers_ \in [Slots -> Players \cup {None}]
  /\ mutex_ \in Clients \cup {None}
  /\ msg_queue_ \in Seq(Messages)
  /\ call \in [Clients -> Calls]
  /\ asserted \in BOOLEAN

\* A queued message's result pointer is live: its poster sleeps in the very call
\* the message was made for, and no caller has two messages under way.
ResultPointersLive ==
  /\ \A i \in DOMAIN msg_queue_ :
       LET m == msg_queue_[i]
       IN call[m.client] = Call("waiting", m.player, m.what)
  /\ \A i, j \in DOMAIN msg_queue_ : msg_queue_[i].client = msg_queue_[j].client => i = j

\* Who waits for an answer has a message in the queue, and that message will not
\* be dropped, if release() keeps apart from other calls.
WaitersServed ==
  /\ \A c \in Clients : call[c].pc = "waiting" => \E i \in DOMAIN msg_queue_ : msg_queue_[i].client = c
  /\ \A i \in DOMAIN msg_queue_ : msg_queue_[i].what \in Requests => Registered(msg_queue_[i])

\* The state the clients see and what the engine is doing agree while the player
\* is registered: a request let through by its mask finds the engine it expects.
Agree(state, engine) ==
  /\ state \in StateMaskPreparing => engine = "preparing"
  /\ state \in StateMaskPrepared => engine = "prepared"
  /\ state \in {"IDLE", "INITIALIZED", "STOPPED"} => engine = "stopped"
  /\ state # "END"

EngineMatchesState ==
  \A p \in Players : (\E s \in Slots : msgHandlers_[s] = p) /\ player_[p] # "null" => Agree(state_[p], player_[p])

\* A slot belongs to one player, which holds its address as token until the answer to its unregister is on its
\* way; and as long as each player is one thread's, no assertion fails: the token a call has found is still
\* there when it posts, and setState() is asked for no transition that is not legal.
TokensAgree ==
  /\ ~asserted
  /\ \A s \in Slots : msgHandlers_[s] # None => msg_handler_token_[msgHandlers_[s]] = s
  /\ \A p \in Players : msg_handler_token_[p] # 0 =>
       \/ msgHandlers_[msg_handler_token_[p]] = p
       \/ \E c \in Clients : call[c] = [Call("answered", p, "unregister") EXCEPT !.result = "ok"]
  /\ \A c \in Clients : call[c].pc = "checked" => msg_handler_token_[call[c].player] \in Slots

\* A thread in prepare()'s second wait will be woken: the preparation is under
\* way or its outcome is there; and no outcome is left behind for a later call.
PrepareOutcomeReachesItsCaller ==
  /\ \A c \in Clients : call[c].pc = "preparing" =>
       state_[call[c].player] = "PREPARING_SYNC" \/ prepared_result_[call[c].player] # "none"
  /\ \A p \in Players : prepared_result_[p] # "none" =>
       \E c \in Calling(p) : call[c].what = "prepare" /\ call[c].pc \in {"answered", "preparing"}

\* The public state moves only along the life cycle of a media player.
Lifecycle == INSTANCE PlayerLifecycle WITH state <- state_
LifecycleSpec == Lifecycle!Spec

\* Every call returns when each player is driven by one thread.
CallsReturn == \A c \in Clients : call[c].pc # "idle" ~> call[c].pc = "idle"
=============================================================================
