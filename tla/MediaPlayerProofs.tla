------------------------- MODULE MediaPlayerProofs -------------------------
(***************************************************************************)
(* TLAPS proofs about MediaPlayer, for every number of players, clients    *)
(* and handler slots.                                                      *)
(***************************************************************************)
EXTENDS MediaPlayer, TLAPS

USE HandlersAssumption, MayCallAssumption, RequestsAssumption, ReleaseAssumption, NoneAssumption

InSlot(p) == msg_handler_token_[p] \in Slots /\ msgHandlers_[msg_handler_token_[p]] = p

\* Who is in a call names a player and a message, and has no answer before it is given.
CallsFormed == \A c \in Clients :
  \/ call[c] = NoCall
  \/ /\ call[c].pc # "idle"
     /\ call[c].player \in Players
     /\ call[c].what \in Whats
     /\ call[c].pc \in {"checked", "preparing"} => call[c].what \in Requests
     /\ call[c].pc \in {"checked", "waiting"} => call[c].result = "none"

\* A player's own request was posted under a slot.
RequestsTagged == \A i \in DOMAIN msg_queue_ :
  msg_queue_[i].what \in Requests => msg_queue_[i].token \in Slots

SlotsHeld == \A s \in Slots : msgHandlers_[s] # None => msg_handler_token_[msgHandlers_[s]] = s

\* A player is registered while it is CREATED, by its only caller, and once.
RegistersCreated == \A c \in Clients : call[c].what = "register" =>
  /\ state_[call[c].player] = "CREATED"
  /\ call[c].pc = "waiting" => msg_handler_token_[call[c].player] = 0

CreatedAlone == \A p \in Players : state_[p] = "CREATED" =>
  /\ \A c \in Clients : call[c].player = p => call[c].what = "register"
  /\ \A c, d \in Clients : call[c].player = p /\ call[d].player = p => c = d

CreatedUntagged == \A p \in Players : state_[p] = "CREATED" =>
  \/ msg_handler_token_[p] = 0
  \/ \E c \in Clients : call[c].player = p /\ call[c].pc = "answered"

RegisterAlone == RegistersCreated /\ CreatedAlone /\ CreatedUntagged

\* One thread unregisters a player, with the token the player has, and frees its slot.
UnregisterSingle == \A c, d \in Clients :
  call[c].what = "unregister" /\ call[d].what = "unregister" /\ call[c].player = call[d].player => c = d

UnregisterTagged == \A i \in DOMAIN msg_queue_ : msg_queue_[i].what = "unregister" =>
  msg_queue_[i].token = msg_handler_token_[msg_queue_[i].player]

UnregisterFrees == \A c \in Clients : call[c].what = "unregister" /\ call[c].pc = "answered" =>
  \A s \in Slots : msgHandlers_[s] # call[c].player

UnregisterOnce == UnregisterSingle /\ UnregisterTagged /\ UnregisterFrees

\* An engine exists only in a slot, and works only for a player in use.
EngineSlotted == \A p \in Players : seeking[p] \/ player_[p] # "null" => InSlot(p)

EngineUnused == \A p \in Players :
  /\ state_[p] \in {"CREATED", "END"} => player_[p] \in {"null", "stopped"} /\ ~seeking[p]
  /\ state_[p] = "END" => player_[p] = "null"

EngineRegistered == \A c \in Clients : call[c].what = "register" /\ call[c].pc = "answered" =>
  player_[call[c].player] = IF call[c].result = "ok" THEN "stopped" ELSE "null"

EngineInSlot == EngineSlotted /\ EngineUnused /\ EngineRegistered

IInv == TypeOK /\ CallsFormed /\ ResultPointersLive /\ RequestsTagged /\ SlotsHeld
        /\ RegisterAlone /\ UnregisterOnce /\ EngineInSlot

(***************************************************************************)
(* Facts about the queue.                                                  *)
(***************************************************************************)
LEMMA TailElements ==
  ASSUME NEW S, NEW q \in Seq(S), q # <<>>
  PROVE  /\ Head(q) = q[1] /\ 1 \in DOMAIN q
         /\ Tail(q) \in Seq(S)
         /\ \A i \in DOMAIN Tail(q) : i + 1 \in DOMAIN q /\ Tail(q)[i] = q[i + 1] /\ i \in Nat \ {0}
  OBVIOUS

LEMMA AppendElements ==
  ASSUME NEW S, NEW q \in Seq(S), NEW e \in S
  PROVE  /\ Append(q, e) \in Seq(S)
         /\ \A i \in DOMAIN Append(q, e) :
              \/ i \in DOMAIN q /\ Append(q, e)[i] = q[i]
              \/ i \notin DOMAIN q /\ i = Len(q) + 1 /\ Append(q, e)[i] = e
  OBVIOUS

(***************************************************************************)
(* Type correctness.                                                       *)
(***************************************************************************)
LEMMA SetStateTyped ==
  ASSUME TypeOK, NEW p \in Players, NEW next \in PlayerStates, SetState(p, next)
  PROVE  /\ state_' \in [Players -> PlayerStates]
         /\ asserted' \in BOOLEAN
  <1>1. state_[p] \in PlayerStates
    BY DEF TypeOK
  <1>2. setState(state_[p], next) \in PlayerStates
    BY <1>1 DEF setState
  <1>3. state_' \in [Players -> PlayerStates]
    BY <1>2 DEF TypeOK, SetState
  <1>4. asserted' \in BOOLEAN
    BY Zenon DEF TypeOK, SetState
  <1> QED
    BY <1>3, <1>4

LEMMA CallTyped ==
  ASSUME TypeOK, NEW c \in Clients, NEW new \in Calls, call' = [call EXCEPT ![c] = new]
  PROVE  call' \in [Clients -> Calls]
  BY DEF TypeOK

LEMMA NotifyTyped ==
  ASSUME TypeOK, msg_queue_ # <<>>, NEW result \in Results, notifyResult(result)
  PROVE  call' \in [Clients -> Calls]
  <1>1. msg.client \in Clients
    <2>1. msg \in Messages
      BY TailElements DEF TypeOK, msg
    <2> QED
      BY <2>1 DEF Messages
  <1>2. call[msg.client] \in Calls
    BY <1>1 DEF TypeOK
  <1>3. [pc |-> "answered", player |-> call[msg.client].player, what |-> call[msg.client].what,
         result |-> result] \in Calls
    BY <1>2 DEF Calls, Pcs
  <1> QED
    BY <1>1, <1>2, <1>3 DEF notifyResult, TypeOK

\* What handling a message does to the queue, and who posted it.
LEMMA HandlingTyped ==
  ASSUME TypeOK, NEW whats, Handling(whats)
  PROVE  /\ msg_queue_' \in Seq(Messages)
         /\ msg \in Messages
         /\ msg_queue_ # <<>>
         /\ msg.what \in whats
  BY TailElements DEF TypeOK, Handling, msg

LEMMA RequestsTyped ==
  ASSUME NEW state \in PlayerStates, NEW request \in Requests, NEW r \in EngineResults(request)
  PROVE  /\ Result(request, state, r) \in Results
         /\ RequestedState(request, state, Result(request, state, r)) \in PlayerStates
  <1>1. r \in Results
    BY DEF EngineResults, Requests, Results
  <1>2. Result(request, state, r) \in Results
    BY <1>1 DEF Result, Results
  <1>3. request \in TransitionRequests => Target(request, state) \in PlayerStates
    BY DEF TransitionRequests, Target, PlayerStates
  <1> QED
    BY <1>2, <1>3 DEF RequestedState, PlayerStates

LEMMA TypeInit == Init => TypeOK
  <1> SUFFICES ASSUME Init PROVE TypeOK
    OBVIOUS
  <1>1. msg_queue_ \in Seq(Messages)
    <2>1. <<>> \in Seq(Messages)
      OBVIOUS
    <2> QED
      BY <2>1, Zenon DEF Init
  <1> QED
    BY <1>1 DEF Init, TypeOK, PlayerStates, Engines, Calls, Pcs, NoCall

LEMMA TypeStep == TypeOK /\ CallsFormed /\ [Next]_vars => TypeOK'
  <1> SUFFICES ASSUME TypeOK, CallsFormed, [Next]_vars PROVE TypeOK'
    OBVIOUS
  <1> USE DEF TypeOK
  <1>1. ASSUME NEW p \in Players, create(p) PROVE TypeOK'
    BY <1>1 DEF create, PlayerStates
  <1>2. ASSUME NEW c \in Clients, NEW p \in Players, NEW what \in {"register", "unregister"}, PostToContext(c, p, what)
        PROVE  /\ msg_queue_' \in Seq(Messages)
               /\ mutex_' \in Clients \cup {None}
               /\ call' \in [Clients -> Calls]
    <2>1. Message(c, p, what, msg_handler_token_[p]) \in Messages
      BY <1>2 DEF Message, Messages, Whats
    <2>2. Call("waiting", p, what) \in Calls
      BY <1>2 DEF Call, Calls, Pcs, Whats
    <2> QED
      BY <1>2, <2>1, <2>2, AppendElements, CallTyped DEF PostToContext
  <1>3. ASSUME NEW c \in Clients, NEW p \in Players, initialize(c, p) PROVE TypeOK'
    BY <1>2, <1>3 DEF initialize, playerVars
  <1>4. ASSUME NEW c \in Clients, NEW p \in Players, release(c, p) PROVE TypeOK'
    BY <1>2, <1>4 DEF release, playerVars
  <1>5. ASSUME NEW c \in Clients, NEW p \in Players, NEW r \in ClientRequests, callCheck(c, p, r) PROVE TypeOK'
    <2>1. Call("checked", p, r) \in Calls
      BY <1>5 DEF Call, Calls, Pcs, Whats
    <2> QED
      BY <1>5, <2>1, CallTyped DEF callCheck, playerVars
  <1>6. ASSUME NEW c \in Clients, callPost(c) PROVE TypeOK'
    <2> DEFINE p == call[c].player
    <2>1. NoCall \in Calls /\ [call[c] EXCEPT !.pc = "waiting"] \in Calls
      BY DEF NoCall, Calls, Pcs
    <2>2. CASE msg_handler_token_[p] \in Slots
      <3>1. Message(c, p, call[c].what, msg_handler_token_[p]) \in Messages
        BY <2>2, <1>6 DEF callPost, CallsFormed, Message, Messages, Calls, NoCall
      <3>2. msg_queue_' = Append(msg_queue_, Message(c, p, call[c].what, msg_handler_token_[p]))
        BY <1>6, <2>2 DEF callPost
      <3>3. call' = [call EXCEPT ![c] = [call[c] EXCEPT !.pc = "waiting"]]
        BY <1>6, <2>2 DEF callPost
      <3>4. UNCHANGED <<playerVars, msgHandlers_, mutex_, asserted>>
        BY <1>6, <2>2 DEF callPost
      <3> QED
        BY <2>1, <3>1, <3>2, <3>3, <3>4, AppendElements DEF playerVars
    <2>3. CASE msg_handler_token_[p] \notin Slots
      BY <1>6, <2>1, <2>3 DEF callPost, playerVars
    <2> QED
      BY <2>2, <2>3
  <1>7. ASSUME NEW c \in Clients, callReturn(c) PROVE TypeOK'
    BY <1>7 DEF callReturn, playerVars, Call, Calls, NoCall, Pcs, Whats, Requests
  <1>8. ASSUME NEW c \in Clients, prepareReturn(c) PROVE TypeOK'
    BY <1>8 DEF prepareReturn, Calls, NoCall, Pcs
  <1>9. ASSUME NEW c \in Clients, initializeReturn(c) PROVE TypeOK'
    <2>1. CASE call[c].player \in Players
      BY <1>9, <2>1, SetStateTyped DEF initializeReturn, Calls, NoCall, Pcs, PlayerStates
    <2>2. CASE call[c].player \notin Players
      BY <1>9, <2>2 DEF initializeReturn, SetState, Calls, NoCall, Pcs
    <2> QED
      BY <2>1, <2>2
  <1>10. ASSUME NEW c \in Clients, releaseReturn(c) PROVE TypeOK'
    <2>1. CASE call[c].player \in Players
      BY <1>10, <2>1, SetStateTyped DEF releaseReturn, Calls, NoCall, Pcs, PlayerStates, Engines
    <2>2. CASE call[c].player \notin Players
      BY <1>10, <2>2 DEF releaseReturn, SetState, Calls, NoCall, Pcs
    <2> QED
      BY <2>1, <2>2
  <1>11. ASSUME handleRegister PROVE TypeOK'
    BY <1>11, HandlingTyped, NotifyTyped DEF handleRegister, Messages, Engines, Results
  <1>12. ASSUME handleUnregister PROVE TypeOK'
    BY <1>12, HandlingTyped, NotifyTyped DEF handleUnregister, Messages, Engines, Results
  <1>13. ASSUME handleRequest PROVE TypeOK'
    <2> DEFINE p == msg.player
    <2>1. msg \in Messages /\ msg.what \in Requests /\ msg_queue_' \in Seq(Messages) /\ msg_queue_ # <<>>
      BY <1>13, HandlingTyped DEF handleRequest
    <2>2. p \in Players
      BY <2>1 DEF Messages
    <2>3. PICK r \in EngineResults(msg.what) : onHandleMessage(p, msg.what, r)
      BY <1>13 DEF handleRequest
    <2>4. EngineAfter(p, msg.what, r) \in Engines /\ SeekingAfter(p, msg.what, r) \in BOOLEAN
      BY <2>2 DEF EngineAfter, SeekingAfter, Engines
    <2>5. state_' \in [Players -> PlayerStates] /\ asserted' \in BOOLEAN
      BY <2>1, <2>2, <2>3, RequestsTyped, SetStateTyped DEF onHandleMessage
    <2>6. call' \in [Clients -> Calls]
      BY <2>1, <2>2, <2>3, RequestsTyped, NotifyTyped DEF onHandleMessage
    <2> QED
      BY <1>13, <2>1, <2>2, <2>3, <2>4, <2>5, <2>6 DEF handleRequest, onHandleMessage
  <1>14. ASSUME dropRequest PROVE TypeOK'
    BY <1>14, HandlingTyped DEF dropRequest, playerVars
  <1>15. ASSUME NEW p \in Players, onPrepareCompleted(p) PROVE TypeOK'
    <2>1. PICK r \in {"ok", "error"} : SetState(p, AfterPrepareCompleted(state_[p], r))
      BY <1>15 DEF onPrepareCompleted
    <2>2. AfterPrepareCompleted(state_[p], r) \in PlayerStates
      BY DEF AfterPrepareCompleted, PlayerStates
    <2> QED
      BY <1>15, <2>1, <2>2, SetStateTyped DEF onPrepareCompleted, Engines
  <1>16. ASSUME NEW p \in Players, onSeekCompleted(p) PROVE TypeOK'
    BY <1>16, SetStateTyped DEF onSeekCompleted, PlayerStates
  <1>17. ASSUME NEW p \in Players, onPlaybackEvent(p) PROVE TypeOK'
    <2>1. AfterPlaybackCompletion(state_[p]) \in PlayerStates /\ AfterStartedAsNextPlayer(state_[p]) \in PlayerStates
      BY DEF AfterPlaybackCompletion, AfterStartedAsNextPlayer, PlayerStates
    <2> QED
      BY <1>17, <2>1, SetStateTyped DEF onPlaybackEvent
  <1>18. CASE UNCHANGED vars
    BY <1>18 DEF vars
  <1> QED
    BY <1>1, <1>3, <1>4, <1>5, <1>6, <1>7, <1>8, <1>9, <1>10, <1>11, <1>12, <1>13, <1>14, <1>15, <1>16, <1>17, <1>18
       DEF Next, Poll, ClientReturns, HandleMessage

(***************************************************************************)
(* What a step does to the queue and to the calls.                         *)
(***************************************************************************)
LEMMA PostEffect ==
  ASSUME TypeOK, NEW m \in Messages, msg_queue_' = Append(msg_queue_, m)
  PROVE  \A i \in DOMAIN msg_queue_' :
           \/ i \in DOMAIN msg_queue_ /\ msg_queue_'[i] = msg_queue_[i] /\ msg_queue_'[i] \in Messages
           \/ i \notin DOMAIN msg_queue_ /\ i = Len(msg_queue_) + 1 /\ msg_queue_'[i] = m
  BY DEF TypeOK

LEMMA ContextPostEffect ==
  ASSUME TypeOK, NEW c \in Clients, NEW p \in Players, NEW what \in {"register", "unregister"},
         PostToContext(c, p, what)
  PROVE  /\ Message(c, p, what, msg_handler_token_[p]) \in Messages
         /\ call' = [call EXCEPT ![c] = Call("waiting", p, what)]
         /\ msg_queue_' = Append(msg_queue_, Message(c, p, what, msg_handler_token_[p]))
  BY DEF PostToContext, TypeOK, Message, Messages, Whats

LEMMA CallPostEffect ==
  ASSUME TypeOK, CallsFormed, NEW c \in Clients, callPost(c)
  PROVE  LET p == call[c].player
             m == Message(c, p, call[c].what, msg_handler_token_[p])
         IN /\ p \in Players
            /\ call[c].what \in Requests
            /\ \/ /\ msg_handler_token_[p] \in Slots
                  /\ m \in Messages
                  /\ msg_queue_' = Append(msg_queue_, m)
                  /\ call' = [call EXCEPT ![c] = Call("waiting", p, call[c].what)]
               \/ /\ msg_handler_token_[p] \notin Slots
                  /\ UNCHANGED msg_queue_
                  /\ call' = [call EXCEPT ![c] = NoCall]
            /\ UNCHANGED <<playerVars, msgHandlers_, mutex_, asserted>>
  <1> DEFINE p == call[c].player
  <1>1. call[c].pc = "checked" /\ p \in Players /\ call[c].what \in Requests /\ call[c].result = "none"
    BY DEF callPost, CallsFormed, NoCall
  <1>2. call[c] \in Calls
    BY DEF TypeOK
  <1>3. Message(c, p, call[c].what, msg_handler_token_[p]) \in Messages
    BY <1>1 DEF TypeOK, Message, Messages, Whats
  <1>4. [call[c] EXCEPT !.pc = "waiting"] = Call("waiting", p, call[c].what)
    BY <1>1, <1>2 DEF Calls, Call
  <1> QED
    BY <1>1, <1>3, <1>4 DEF callPost

\* Whoever's message is handled sleeps in the call it was posted for.
LEMMA HandlingEffect ==
  ASSUME TypeOK, CallsFormed, ResultPointersLive, NEW whats, Handling(whats)
  PROVE  /\ msg \in Messages /\ msg.what \in whats
         /\ msg_queue_ # <<>> /\ 1 \in DOMAIN msg_queue_ /\ msg = msg_queue_[1]
         /\ msg.client \in Clients /\ msg.player \in Players
         /\ call[msg.client] = Call("waiting", msg.player, msg.what)
         /\ \A i \in DOMAIN msg_queue_' :
              /\ i + 1 \in DOMAIN msg_queue_
              /\ msg_queue_'[i] = msg_queue_[i + 1]
              /\ msg_queue_'[i] \in Messages
              /\ msg_queue_'[i].client # msg.client
  <1>1. /\ msg \in Messages /\ msg.what \in whats /\ msg_queue_ # <<>>
        /\ 1 \in DOMAIN msg_queue_ /\ msg = msg_queue_[1]
    BY HandlingTyped, TailElements DEF TypeOK, msg
  <1>2. \A i \in DOMAIN msg_queue_' :
          i \in Nat \ {0} /\ i + 1 \in DOMAIN msg_queue_ /\ msg_queue_'[i] = msg_queue_[i + 1] /\ msg_queue_'[i] \in Messages
    BY TailElements DEF TypeOK, Handling
  <1>3. call[msg.client] = Call("waiting", msg.player, msg.what)
    BY <1>1 DEF ResultPointersLive
  <1>4. \A i \in DOMAIN msg_queue_' : msg_queue_[i + 1].client = msg.client => i + 1 = 1
    BY <1>1, <1>2 DEF ResultPointersLive
  <1> QED
    BY <1>1, <1>2, <1>3, <1>4 DEF Messages

LEMMA NotifyEffect ==
  ASSUME TypeOK, msg.client \in Clients, NEW p, NEW what, NEW result,
         call[msg.client] = Call("waiting", p, what), notifyResult(result)
  PROVE  call' = [call EXCEPT ![msg.client] = [pc |-> "answered", player |-> p, what |-> what, result |-> result]]
  BY DEF TypeOK, notifyResult, Call

\* The poster of a queued message is waiting.
LEMMA QueuedClients ==
  ASSUME TypeOK, ResultPointersLive
  PROVE  \A i \in DOMAIN msg_queue_ :
           /\ msg_queue_[i] \in Messages
           /\ msg_queue_[i].client \in Clients
           /\ msg_queue_[i].player \in Players
           /\ call[msg_queue_[i].client] = Call("waiting", msg_queue_[i].player, msg_queue_[i].what)
           /\ call[msg_queue_[i].client].pc = "waiting"
           /\ call[msg_queue_[i].client].player = msg_queue_[i].player
           /\ call[msg_queue_[i].client].what = msg_queue_[i].what
  <1> SUFFICES ASSUME NEW i \in DOMAIN msg_queue_
               PROVE  /\ msg_queue_[i] \in Messages
                      /\ msg_queue_[i].client \in Clients
                      /\ msg_queue_[i].player \in Players
                      /\ call[msg_queue_[i].client] = Call("waiting", msg_queue_[i].player, msg_queue_[i].what)
                      /\ call[msg_queue_[i].client].pc = "waiting"
                      /\ call[msg_queue_[i].client].player = msg_queue_[i].player
                      /\ call[msg_queue_[i].client].what = msg_queue_[i].what
    OBVIOUS
  <1>1. msg_queue_[i] \in Messages
    BY DEF TypeOK
  <1>2. msg_queue_[i].client \in Clients /\ msg_queue_[i].player \in Players
    BY <1>1 DEF Messages
  <1>3. call[msg_queue_[i].client] = Call("waiting", msg_queue_[i].player, msg_queue_[i].what)
    BY DEF ResultPointersLive
  <1>4. /\ call[msg_queue_[i].client].pc = "waiting"
        /\ call[msg_queue_[i].client].player = msg_queue_[i].player
        /\ call[msg_queue_[i].client].what = msg_queue_[i].what
    BY <1>3 DEF Call
  <1> QED
    BY <1>1, <1>2, <1>3, <1>4

LEMMA CallsStep == TypeOK /\ CallsFormed /\ ResultPointersLive /\ [Next]_vars => CallsFormed'
  <1> SUFFICES ASSUME TypeOK, CallsFormed, ResultPointersLive, [Next]_vars PROVE CallsFormed'
    OBVIOUS
  <1>1. ASSUME NEW p \in Players, create(p) PROVE CallsFormed'
    BY <1>1 DEF create, CallsFormed
  <1>2. ASSUME NEW c \in Clients, NEW p \in Players, initialize(c, p) PROVE CallsFormed'
    BY <1>2, ContextPostEffect DEF initialize, TypeOK, CallsFormed, Calls, NoCall, Call, Whats
  <1>3. ASSUME NEW c \in Clients, NEW p \in Players, release(c, p) PROVE CallsFormed'
    BY <1>3, ContextPostEffect DEF release, TypeOK, CallsFormed, Calls, NoCall, Call, Whats
  <1>4. ASSUME NEW c \in Clients, NEW p \in Players, NEW r \in ClientRequests, callCheck(c, p, r) PROVE CallsFormed'
    BY <1>4 DEF callCheck, TypeOK, CallsFormed, Calls, NoCall, Call, Whats
  <1>5. ASSUME NEW c \in Clients, callPost(c) PROVE CallsFormed'
    <2> DEFINE p == call[c].player
    <2>1. p \in Players /\ call[c].what \in Requests
      BY <1>5, CallPostEffect
    <2>2. call' = [call EXCEPT ![c] = Call("waiting", p, call[c].what)] \/ call' = [call EXCEPT ![c] = NoCall]
      BY <1>5, CallPostEffect
    <2> QED
      BY <2>1, <2>2 DEF TypeOK, CallsFormed, Calls, NoCall, Call, Whats
  <1>6. ASSUME NEW c \in Clients, callReturn(c) PROVE CallsFormed'
    BY <1>6 DEF callReturn, TypeOK, Requests, CallsFormed, Calls, NoCall, Call, Whats
  <1>7. ASSUME NEW c \in Clients, prepareReturn(c) PROVE CallsFormed'
    BY <1>7 DEF prepareReturn, TypeOK, CallsFormed, Calls, NoCall, Call, Whats
  <1>8. ASSUME NEW c \in Clients, initializeReturn(c) PROVE CallsFormed'
    BY <1>8 DEF initializeReturn, TypeOK, CallsFormed, Calls, NoCall, Call, Whats
  <1>9. ASSUME NEW c \in Clients, releaseReturn(c) PROVE CallsFormed'
    BY <1>9 DEF releaseReturn, TypeOK, CallsFormed, Calls, NoCall, Call, Whats
  <1>10. ASSUME handleRegister PROVE CallsFormed'
    <2>1. PICK result : notifyResult(result)
      BY <1>10, Zenon DEF handleRegister
    <2>2. call' = [call EXCEPT ![msg.client] =
                    [pc |-> "answered", player |-> msg.player, what |-> msg.what, result |-> result]]
      BY <1>10, <2>1, HandlingEffect, NotifyEffect DEF handleRegister
    <2> QED
      BY <1>10, <2>2, HandlingEffect DEF handleRegister, CallsFormed, TypeOK, Messages, Call, NoCall, Calls
  <1>11. ASSUME handleUnregister PROVE CallsFormed'
    <2>1. PICK result : notifyResult(result)
      BY <1>11, Zenon DEF handleUnregister
    <2>2. call' = [call EXCEPT ![msg.client] =
                    [pc |-> "answered", player |-> msg.player, what |-> msg.what, result |-> result]]
      BY <1>11, <2>1, HandlingEffect, NotifyEffect DEF handleUnregister
    <2> QED
      BY <1>11, <2>2, HandlingEffect DEF handleUnregister, CallsFormed, TypeOK, Messages, Call, NoCall, Calls
  <1>12. ASSUME handleRequest PROVE CallsFormed'
    <2>1. PICK result : notifyResult(result)
      BY <1>12, Zenon DEF handleRequest, onHandleMessage
    <2>2. call' = [call EXCEPT ![msg.client] =
                    [pc |-> "answered", player |-> msg.player, what |-> msg.what, result |-> result]]
      BY <1>12, <2>1, HandlingEffect, NotifyEffect DEF handleRequest
    <2> QED
      BY <1>12, <2>2, HandlingEffect DEF handleRequest, CallsFormed, TypeOK, Messages, Call, NoCall, Calls
  <1>13. ASSUME dropRequest PROVE CallsFormed'
    BY <1>13 DEF dropRequest, CallsFormed
  <1>14. ASSUME NEW p \in Players, onPrepareCompleted(p) PROVE CallsFormed'
    BY <1>14 DEF onPrepareCompleted, CallsFormed
  <1>15. ASSUME NEW p \in Players, onSeekCompleted(p) PROVE CallsFormed'
    BY <1>15 DEF onSeekCompleted, CallsFormed
  <1>16. ASSUME NEW p \in Players, onPlaybackEvent(p) PROVE CallsFormed'
    BY <1>16 DEF onPlaybackEvent, CallsFormed
  <1>17. CASE UNCHANGED vars
    BY <1>17 DEF vars, CallsFormed
  <1> QED
    BY <1>1, <1>2, <1>3, <1>4, <1>5, <1>6, <1>7, <1>8, <1>9, <1>10, <1>11, <1>12, <1>13, <1>14, <1>15, <1>16, <1>17
       DEF Next, Poll, ClientReturns, HandleMessage

LEMMA PointersStep == TypeOK /\ CallsFormed /\ ResultPointersLive /\ [Next]_vars => ResultPointersLive'
  <1> SUFFICES ASSUME TypeOK, CallsFormed, ResultPointersLive, [Next]_vars PROVE ResultPointersLive'
    OBVIOUS
  <1>1. ASSUME NEW p \in Players, create(p) PROVE ResultPointersLive'
    BY <1>1 DEF create, ResultPointersLive
  <1>2. ASSUME NEW c \in Clients, NEW p \in Players, initialize(c, p) PROVE ResultPointersLive'
    <2> DEFINE m == Message(c, p, "register", msg_handler_token_[p])
    <2>1. m \in Messages /\ msg_queue_' = Append(msg_queue_, m) /\ call' = [call EXCEPT ![c] = Call("waiting", p, "register")]
      BY <1>2, ContextPostEffect DEF initialize
    <2>2. \A i \in DOMAIN msg_queue_ : msg_queue_[i].client # c /\ msg_queue_[i] \in Messages
      BY <1>2, QueuedClients DEF initialize
    <2>3. m.client = c /\ m.player = p /\ m.what = "register"
      BY DEF Message
    <2> QED
      BY <2>1, <2>2, <2>3, PostEffect DEF ResultPointersLive, TypeOK, Messages
  <1>3. ASSUME NEW c \in Clients, NEW p \in Players, release(c, p) PROVE ResultPointersLive'
    <2> DEFINE m == Message(c, p, "unregister", msg_handler_token_[p])
    <2>1. m \in Messages /\ msg_queue_' = Append(msg_queue_, m) /\ call' = [call EXCEPT ![c] = Call("waiting", p, "unregister")]
      BY <1>3, ContextPostEffect DEF release
    <2>2. \A i \in DOMAIN msg_queue_ : msg_queue_[i].client # c /\ msg_queue_[i] \in Messages
      BY <1>3, QueuedClients DEF release
    <2>3. m.client = c /\ m.player = p /\ m.what = "unregister"
      BY DEF Message
    <2> QED
      BY <2>1, <2>2, <2>3, PostEffect DEF ResultPointersLive, TypeOK, Messages
  <1>4. ASSUME NEW c \in Clients, NEW p \in Players, NEW r \in ClientRequests, callCheck(c, p, r) PROVE ResultPointersLive'
    <2>1. \A i \in DOMAIN msg_queue_ : msg_queue_[i].client # c
      BY <1>4, QueuedClients DEF callCheck
    <2>2. \A d \in Clients : d # c => call'[d] = call[d]
      BY <1>4 DEF callCheck, TypeOK
    <2> QED
      BY <1>4, <2>1, <2>2, QueuedClients DEF callCheck, ResultPointersLive
  <1>5. ASSUME NEW c \in Clients, callPost(c) PROVE ResultPointersLive'
    <2> DEFINE p == call[c].player
               m == Message(c, p, call[c].what, msg_handler_token_[p])
    <2>1. \A i \in DOMAIN msg_queue_ : msg_queue_[i].client # c /\ msg_queue_[i] \in Messages
      BY <1>5, QueuedClients DEF callPost
    <2>2. m.client = c /\ m.player = p /\ m.what = call[c].what
      BY DEF Message
    <2>3. CASE msg_handler_token_[p] \in Slots
      <3>1. m \in Messages /\ msg_queue_' = Append(msg_queue_, m) /\ call' = [call EXCEPT ![c] = Call("waiting", p, call[c].what)]
        BY <1>5, <2>3, CallPostEffect
      <3> QED
        BY <3>1, <2>1, <2>2, PostEffect DEF ResultPointersLive, TypeOK, Messages
    <2>4. CASE msg_handler_token_[p] \notin Slots
      <3>1. msg_queue_' = msg_queue_ /\ call' = [call EXCEPT ![c] = NoCall]
        BY <1>5, <2>4, CallPostEffect
      <3> QED
        BY <3>1, <2>1 DEF ResultPointersLive, TypeOK, Messages
    <2> QED
      BY <2>3, <2>4
  <1>6. ASSUME NEW c \in Clients, callReturn(c) PROVE ResultPointersLive'
    <2>1. \A i \in DOMAIN msg_queue_ : msg_queue_[i].client # c
      BY <1>6, QueuedClients DEF callReturn
    <2>2. \A d \in Clients : d # c => call'[d] = call[d]
      BY <1>6 DEF callReturn, TypeOK
    <2> QED
      BY <1>6, <2>1, <2>2, QueuedClients DEF callReturn, ResultPointersLive
  <1>7. ASSUME NEW c \in Clients, prepareReturn(c) PROVE ResultPointersLive'
    <2>1. \A i \in DOMAIN msg_queue_ : msg_queue_[i].client # c
      BY <1>7, QueuedClients DEF prepareReturn
    <2>2. \A d \in Clients : d # c => call'[d] = call[d]
      BY <1>7 DEF prepareReturn, TypeOK
    <2> QED
      BY <1>7, <2>1, <2>2, QueuedClients DEF prepareReturn, ResultPointersLive
  <1>8. ASSUME NEW c \in Clients, initializeReturn(c) PROVE ResultPointersLive'
    <2>1. \A i \in DOMAIN msg_queue_ : msg_queue_[i].client # c
      BY <1>8, QueuedClients DEF initializeReturn
    <2>2. \A d \in Clients : d # c => call'[d] = call[d]
      BY <1>8 DEF initializeReturn, TypeOK
    <2> QED
      BY <1>8, <2>1, <2>2, QueuedClients DEF initializeReturn, ResultPointersLive
  <1>9. ASSUME NEW c \in Clients, releaseReturn(c) PROVE ResultPointersLive'
    <2>1. \A i \in DOMAIN msg_queue_ : msg_queue_[i].client # c
      BY <1>9, QueuedClients DEF releaseReturn
    <2>2. \A d \in Clients : d # c => call'[d] = call[d]
      BY <1>9 DEF releaseReturn, TypeOK
    <2> QED
      BY <1>9, <2>1, <2>2, QueuedClients DEF releaseReturn, ResultPointersLive
  <1>10. ASSUME handleRegister PROVE ResultPointersLive'
    <2>1. \A d \in Clients : d # msg.client => call'[d] = call[d]
      BY <1>10 DEF handleRegister, TypeOK, notifyResult
    <2>2. \A i \in DOMAIN msg_queue_' : i \in Nat /\ msg_queue_'[i] = msg_queue_[i + 1] /\ i + 1 \in DOMAIN msg_queue_
                                       /\ msg_queue_'[i].client # msg.client
      BY <1>10, HandlingEffect, HandlingTyped DEF handleRegister, TypeOK
    <2> QED
      BY <2>1, <2>2, QueuedClients DEF ResultPointersLive
  <1>11. ASSUME handleUnregister PROVE ResultPointersLive'
    <2>1. \A d \in Clients : d # msg.client => call'[d] = call[d]
      BY <1>11 DEF handleUnregister, TypeOK, notifyResult
    <2>2. \A i \in DOMAIN msg_queue_' : i \in Nat /\ msg_queue_'[i] = msg_queue_[i + 1] /\ i + 1 \in DOMAIN msg_queue_
                                       /\ msg_queue_'[i].client # msg.client
      BY <1>11, HandlingEffect, HandlingTyped DEF handleUnregister, TypeOK
    <2> QED
      BY <2>1, <2>2, QueuedClients DEF ResultPointersLive
  <1>12. ASSUME handleRequest PROVE ResultPointersLive'
    <2>1. \A d \in Clients : d # msg.client => call'[d] = call[d]
      BY <1>12 DEF handleRequest, TypeOK, notifyResult, onHandleMessage
    <2>2. \A i \in DOMAIN msg_queue_' : i \in Nat /\ msg_queue_'[i] = msg_queue_[i + 1] /\ i + 1 \in DOMAIN msg_queue_
                                       /\ msg_queue_'[i].client # msg.client
      BY <1>12, HandlingEffect, HandlingTyped DEF handleRequest, TypeOK
    <2> QED
      BY <2>1, <2>2, QueuedClients DEF ResultPointersLive
  <1>13. ASSUME dropRequest PROVE ResultPointersLive'
    BY <1>13, HandlingEffect DEF dropRequest, ResultPointersLive, Messages
  <1>14. ASSUME NEW p \in Players, onPrepareCompleted(p) PROVE ResultPointersLive'
    BY <1>14 DEF onPrepareCompleted, ResultPointersLive
  <1>15. ASSUME NEW p \in Players, onSeekCompleted(p) PROVE ResultPointersLive'
    BY <1>15 DEF onSeekCompleted, ResultPointersLive
  <1>16. ASSUME NEW p \in Players, onPlaybackEvent(p) PROVE ResultPointersLive'
    BY <1>16 DEF onPlaybackEvent, ResultPointersLive
  <1>17. CASE UNCHANGED vars
    BY <1>17 DEF vars, ResultPointersLive
  <1> QED
    BY <1>1, <1>2, <1>3, <1>4, <1>5, <1>6, <1>7, <1>8, <1>9, <1>10, <1>11, <1>12, <1>13, <1>14, <1>15, <1>16, <1>17
       DEF Next, Poll, ClientReturns, HandleMessage

LEMMA TagsStep == TypeOK /\ CallsFormed /\ ResultPointersLive /\ RequestsTagged /\ [Next]_vars => RequestsTagged'
  <1> SUFFICES ASSUME TypeOK, CallsFormed, ResultPointersLive, RequestsTagged, [Next]_vars PROVE RequestsTagged'
    OBVIOUS
  <1>1. ASSUME NEW p \in Players, create(p) PROVE RequestsTagged'
    BY <1>1 DEF create, RequestsTagged
  <1>2. ASSUME NEW c \in Clients, NEW p \in Players, initialize(c, p) PROVE RequestsTagged'
    <2> DEFINE m == Message(c, p, "register", msg_handler_token_[p])
    <2>1. m \in Messages /\ msg_queue_' = Append(msg_queue_, m)
      BY <1>2, ContextPostEffect DEF initialize
    <2>2. m.what \notin Requests
      BY DEF Message, Requests
    <2> QED
      BY <2>1, <2>2, PostEffect DEF RequestsTagged
  <1>3. ASSUME NEW c \in Clients, NEW p \in Players, release(c, p) PROVE RequestsTagged'
    <2> DEFINE m == Message(c, p, "unregister", msg_handler_token_[p])
    <2>1. m \in Messages /\ msg_queue_' = Append(msg_queue_, m)
      BY <1>3, ContextPostEffect DEF release
    <2>2. m.what \notin Requests
      BY DEF Message, Requests
    <2> QED
      BY <2>1, <2>2, PostEffect DEF RequestsTagged
  <1>4. ASSUME NEW c \in Clients, NEW p \in Players, NEW r \in ClientRequests, callCheck(c, p, r) PROVE RequestsTagged'
    BY <1>4 DEF callCheck, RequestsTagged
  <1>5. ASSUME NEW c \in Clients, callPost(c) PROVE RequestsTagged'
    <2> DEFINE p == call[c].player
               m == Message(c, p, call[c].what, msg_handler_token_[p])
    <2>1. CASE msg_handler_token_[p] \in Slots
      <3>1. m \in Messages /\ msg_queue_' = Append(msg_queue_, m) /\ m.token \in Slots
        BY <1>5, <2>1, CallPostEffect DEF Message
      <3> QED
        BY <3>1, PostEffect DEF RequestsTagged
    <2>2. CASE msg_handler_token_[p] \notin Slots
      BY <1>5, <2>2, CallPostEffect DEF RequestsTagged
    <2> QED
      BY <2>1, <2>2
  <1>6. ASSUME NEW c \in Clients, callReturn(c) PROVE RequestsTagged'
    BY <1>6 DEF callReturn, RequestsTagged
  <1>7. ASSUME NEW c \in Clients, prepareReturn(c) PROVE RequestsTagged'
    BY <1>7 DEF prepareReturn, RequestsTagged
  <1>8. ASSUME NEW c \in Clients, initializeReturn(c) PROVE RequestsTagged'
    BY <1>8 DEF initializeReturn, RequestsTagged
  <1>9. ASSUME NEW c \in Clients, releaseReturn(c) PROVE RequestsTagged'
    BY <1>9 DEF releaseReturn, RequestsTagged
  <1>10. ASSUME handleRegister PROVE RequestsTagged'
    BY <1>10, HandlingEffect DEF handleRegister, RequestsTagged
  <1>11. ASSUME handleUnregister PROVE RequestsTagged'
    BY <1>11, HandlingEffect DEF handleUnregister, RequestsTagged
  <1>12. ASSUME handleRequest PROVE RequestsTagged'
    BY <1>12, HandlingEffect DEF handleRequest, RequestsTagged
  <1>13. ASSUME dropRequest PROVE RequestsTagged'
    BY <1>13, HandlingEffect DEF dropRequest, RequestsTagged
  <1>14. ASSUME NEW p \in Players, onPrepareCompleted(p) PROVE RequestsTagged'
    BY <1>14 DEF onPrepareCompleted, RequestsTagged
  <1>15. ASSUME NEW p \in Players, onSeekCompleted(p) PROVE RequestsTagged'
    BY <1>15 DEF onSeekCompleted, RequestsTagged
  <1>16. ASSUME NEW p \in Players, onPlaybackEvent(p) PROVE RequestsTagged'
    BY <1>16 DEF onPlaybackEvent, RequestsTagged
  <1>17. CASE UNCHANGED vars
    BY <1>17 DEF vars, RequestsTagged
  <1> QED
    BY <1>1, <1>2, <1>3, <1>4, <1>5, <1>6, <1>7, <1>8, <1>9, <1>10, <1>11, <1>12, <1>13, <1>14, <1>15, <1>16, <1>17
       DEF Next, Poll, ClientReturns, HandleMessage

\* The player whose registration is handled is CREATED, is in no slot and has no other caller.
LEMMA RegisteringUnslotted ==
  ASSUME TypeOK, CallsFormed, ResultPointersLive, SlotsHeld, RegisterAlone, Handling({"register"})
  PROVE  /\ msg.player \in Players
         /\ state_[msg.player] = "CREATED"
         /\ msg_handler_token_[msg.player] = 0
         /\ \A s \in Slots : msgHandlers_[s] # msg.player
         /\ \A d \in Clients : d # msg.client => call[d].player # msg.player
  <1>1. /\ msg.player \in Players /\ msg.client \in Clients /\ msg.what = "register"
        /\ call[msg.client] = Call("waiting", msg.player, msg.what)
    BY HandlingEffect
  <1>2. call[msg.client].what = "register" /\ call[msg.client].player = msg.player /\ call[msg.client].pc = "waiting"
    BY <1>1 DEF Call
  <1>3. state_[msg.player] = "CREATED" /\ msg_handler_token_[msg.player] = 0
    BY <1>1, <1>2 DEF RegisterAlone, RegistersCreated, CreatedAlone
  <1>4. \A s \in Slots : msgHandlers_[s] # msg.player
    <2>1. 0 \notin Slots
      BY DEF Slots
    <2> QED
      BY <1>1, <1>3, <2>1 DEF SlotsHeld
  <1>5. \A d \in Clients : d # msg.client => call[d].player # msg.player
    BY <1>1, <1>2 DEF RegisterAlone, RegistersCreated, CreatedAlone
  <1> QED
    BY <1>1, <1>3, <1>4, <1>5

LEMMA SlotsStep == TypeOK /\ CallsFormed /\ ResultPointersLive /\ SlotsHeld /\ RegisterAlone /\ UnregisterOnce /\ [Next]_vars => SlotsHeld'
  <1> SUFFICES ASSUME TypeOK, CallsFormed, ResultPointersLive, SlotsHeld, RegisterAlone, UnregisterOnce, [Next]_vars PROVE SlotsHeld'
    OBVIOUS
  <1>1. ASSUME NEW p \in Players, create(p) PROVE SlotsHeld'
    BY <1>1 DEF create, SlotsHeld, playerVars
  <1>2. ASSUME NEW c \in Clients, NEW p \in Players, initialize(c, p) PROVE SlotsHeld'
    BY <1>2 DEF initialize, SlotsHeld, playerVars
  <1>3. ASSUME NEW c \in Clients, NEW p \in Players, release(c, p) PROVE SlotsHeld'
    BY <1>3 DEF release, SlotsHeld, playerVars
  <1>4. ASSUME NEW c \in Clients, NEW p \in Players, NEW r \in ClientRequests, callCheck(c, p, r) PROVE SlotsHeld'
    BY <1>4 DEF callCheck, SlotsHeld, playerVars
  <1>5. ASSUME NEW c \in Clients, callPost(c) PROVE SlotsHeld'
    BY <1>5, CallPostEffect DEF SlotsHeld, playerVars
  <1>6. ASSUME NEW c \in Clients, callReturn(c) PROVE SlotsHeld'
    BY <1>6 DEF callReturn, SlotsHeld, playerVars
  <1>7. ASSUME NEW c \in Clients, prepareReturn(c) PROVE SlotsHeld'
    BY <1>7 DEF prepareReturn, SlotsHeld, playerVars
  <1>8. ASSUME NEW c \in Clients, initializeReturn(c) PROVE SlotsHeld'
    BY <1>8 DEF initializeReturn, SlotsHeld, playerVars
  <1>9. ASSUME NEW c \in Clients, releaseReturn(c) PROVE SlotsHeld'
    <2>1. \A s \in Slots : msgHandlers_[s] # call[c].player
      BY <1>9 DEF releaseReturn, UnregisterOnce, UnregisterFrees
    <2> QED
      BY <1>9, <2>1 DEF releaseReturn, SlotsHeld, TypeOK
  <1>10. ASSUME handleRegister PROVE SlotsHeld'
    <2>1. CASE \A s \in Slots : msgHandlers_[s] # None
      BY <1>10, <2>1, HandlingEffect DEF handleRegister, SlotsHeld, FirstFree
    <2>2. CASE \E s \in Slots : /\ FirstFree(s)
                               /\ msgHandlers_' = [msgHandlers_ EXCEPT ![s] = msg.player]
                               /\ msg_handler_token_' = [msg_handler_token_ EXCEPT ![msg.player] = s]
      <3>1. PICK s \in Slots : /\ FirstFree(s)
                              /\ msgHandlers_' = [msgHandlers_ EXCEPT ![s] = msg.player]
                              /\ msg_handler_token_' = [msg_handler_token_ EXCEPT ![msg.player] = s]
        BY <2>2
      <3>2. msg.player \in Players /\ \A t \in Slots : msgHandlers_[t] # msg.player
        BY <1>10, RegisteringUnslotted DEF handleRegister
      <3> QED
        BY <3>1, <3>2 DEF SlotsHeld, TypeOK
    <2> QED
      BY <1>10, <2>1, <2>2 DEF handleRegister
  <1>11. ASSUME handleUnregister PROVE SlotsHeld'
    BY <1>11, HandlingEffect DEF handleUnregister, SlotsHeld, TypeOK
  <1>12. ASSUME handleRequest PROVE SlotsHeld'
    BY <1>12 DEF handleRequest, SlotsHeld, playerVars
  <1>13. ASSUME dropRequest PROVE SlotsHeld'
    BY <1>13 DEF dropRequest, SlotsHeld, playerVars
  <1>14. ASSUME NEW p \in Players, onPrepareCompleted(p) PROVE SlotsHeld'
    BY <1>14 DEF onPrepareCompleted, SlotsHeld, playerVars
  <1>15. ASSUME NEW p \in Players, onSeekCompleted(p) PROVE SlotsHeld'
    BY <1>15 DEF onSeekCompleted, SlotsHeld, playerVars
  <1>16. ASSUME NEW p \in Players, onPlaybackEvent(p) PROVE SlotsHeld'
    BY <1>16 DEF onPlaybackEvent, SlotsHeld, playerVars
  <1>17. CASE UNCHANGED vars
    BY <1>17 DEF vars, SlotsHeld
  <1> QED
    BY <1>1, <1>2, <1>3, <1>4, <1>5, <1>6, <1>7, <1>8, <1>9, <1>10, <1>11, <1>12, <1>13, <1>14, <1>15, <1>16, <1>17
       DEF Next, Poll, ClientReturns, HandleMessage

LEMMA CallersKnown ==
  ASSUME CallsFormed
  PROVE  \A c \in Clients :
           /\ call[c].what # "none" => call[c].player \in Players /\ call[c].pc # "idle" /\ call[c] # NoCall
           /\ call[c].player \in Players => call[c].what \in Whats
           /\ call[c].what = "none" => call[c] = NoCall
           /\ call[c].pc = "idle" => call[c] = NoCall
           /\ call[c].pc \in {"checked", "preparing"} => call[c].what \in Requests
  BY NoneAssumption DEF CallsFormed, NoCall, Whats, Requests

\* setState() makes no player CREATED, and does not take one that is not CREATED there.
LEMMA SetStateCreated ==
  ASSUME TypeOK, NEW p \in Players, NEW next \in PlayerStates \ {"CREATED"}, SetState(p, next),
         state_[p] # "CREATED"
  PROVE  \A q \in Players : state_'[q] = "CREATED" <=> state_[q] = "CREATED"
  BY DEF TypeOK, SetState, setState

LEMMA NextStatesLegal ==
  ASSUME NEW state \in PlayerStates, NEW request \in Requests, NEW r \in EngineResults(request),
         state \notin {"CREATED", "END"}
  PROVE  LET next == RequestedState(request, state, Result(request, state, r))
         IN /\ next \in PlayerStates \ {"CREATED", "END"}
            /\ next # state => checkStateTransition(state, next)
            /\ state \notin StateMask[request] => next \in {state, "ERROR"}
  <1> DEFINE result == Result(request, state, r)
             next == RequestedState(request, state, result)
  <1>1. CASE next = "ERROR"
    BY <1>1 DEF checkStateTransition, PlayerStates
  <1>2. CASE result = "ok" /\ request \in TransitionRequests
    <2>1. next = Target(request, state) /\ state \in StateMask[request]
      BY <1>2 DEF RequestedState, Result
    <2>2. Target(request, state) \in PlayerStates \ {"CREATED", "END"}
      BY <1>2 DEF Target, PlayerStates, TransitionRequests
    <2>3. checkStateTransition(state, Target(request, state))
      BY <1>2, <2>1 DEF StateMask, checkStateTransition, Successors, Target, TransitionRequests, PlayerStates,
         StateMaskPrepared, StateMaskPreparing, StateMaskAny
    <2> QED
      BY <2>1, <2>2, <2>3
  <1>3. CASE next = state
    BY <1>3 DEF checkStateTransition
  <1> QED
    BY <1>1, <1>2, <1>3 DEF RequestedState, Result

LEMMA PlaybackStates ==
  ASSUME NEW state \in PlayerStates \ {"CREATED", "END"},
         NEW next \in {AfterPlaybackCompletion(state), AfterStartedAsNextPlayer(state)}
  PROVE  /\ next \in PlayerStates \ {"CREATED", "END"}
         /\ next # state => state \in StateMaskPrepared /\ next \in {"STARTED", "PLAYBACK_COMPLETED"}
         /\ checkStateTransition(state, next) \/ next = state
  BY DEF AfterPlaybackCompletion, AfterStartedAsNextPlayer, PlayerStates, StateMaskPrepared,
         checkStateTransition, Successors

\* Nothing but the application's deletion of the player leads out of END.
LEMMA EndedStays ==
  ASSUME TypeOK, NEW p \in Players, state_[p] = "END", NEW request \in Requests,
         NEW r \in EngineResults(request), onHandleMessage(p, request, r)
  PROVE  UNCHANGED <<state_, player_, seeking, prepared_result_>>
  <1>1. state_[p] \notin StateMask[request]
    BY DEF StateMask, Requests, StateMaskPrepared, StateMaskAny, StateMaskNoError, PlayerStates, StateMaskPreparing
  <1>2. \A next : setState("END", next) = "END"
    BY DEF setState, checkStateTransition
  <1> QED
    BY <1>1, <1>2 DEF onHandleMessage, SetState, TypeOK

\* A request is handled only for a player in use.
LEMMA RequestsKeepCreated ==
  ASSUME TypeOK, CallsFormed, ResultPointersLive, RegisterAlone, handleRequest
  PROVE  /\ state_[msg.player] # "CREATED"
         /\ \A q \in Players : state_'[q] = "CREATED" <=> state_[q] = "CREATED"
  <1> DEFINE p == msg.player
  <1>1. /\ p \in Players /\ msg.client \in Clients /\ msg.what \in Requests
        /\ call[msg.client] = Call("waiting", p, msg.what)
    BY HandlingEffect DEF handleRequest
  <1>2. state_[p] # "CREATED"
    BY <1>1 DEF RegisterAlone, RegistersCreated, CreatedAlone, Call, Requests
  <1>3. PICK r \in EngineResults(msg.what) : onHandleMessage(p, msg.what, r)
    BY DEF handleRequest
  <1>4. CASE state_[p] = "END"
    <2>1. state_' = state_
      BY <1>1, <1>3, <1>4, EndedStays
    <2> QED
      BY <1>2, <2>1
  <1>5. CASE state_[p] # "END"
    BY <1>1, <1>2, <1>3, <1>5, NextStatesLegal, SetStateCreated DEF onHandleMessage, TypeOK
  <1> QED
    BY <1>2, <1>4, <1>5

LEMMA RegisterStep == TypeOK /\ CallsFormed /\ ResultPointersLive /\ SlotsHeld /\ RegisterAlone /\ UnregisterOnce /\ EngineInSlot /\ [Next]_vars => RegisterAlone'
  <1> SUFFICES ASSUME TypeOK, CallsFormed, ResultPointersLive, SlotsHeld, RegisterAlone, UnregisterOnce, EngineInSlot, [Next]_vars PROVE RegisterAlone'
    OBVIOUS
  <1>1. ASSUME NEW p \in Players, create(p) PROVE RegisterAlone'
    BY <1>1, CallersKnown DEF create, RegisterAlone, RegistersCreated, CreatedAlone, CreatedUntagged, TypeOK, Calling
  <1>2. ASSUME NEW c \in Clients, NEW p \in Players, initialize(c, p) PROVE RegisterAlone'
    <2>1. /\ call[c] = NoCall /\ UNCHANGED <<state_, msg_handler_token_>>
          /\ \A d \in Clients : call'[d] = IF d = c THEN Call("waiting", p, "register") ELSE call[d]
      BY <1>2, CallersKnown, ContextPostEffect DEF initialize, TypeOK, playerVars
    <2>2. state_[p] = "CREATED" /\ msg_handler_token_[p] = 0 /\ \A d \in Clients : call[d].player # p
      BY <1>2 DEF initialize, Calling, CreatedUntagged, RegisterAlone
    <2> QED
      BY <2>1, <2>2 DEF RegisterAlone, RegistersCreated, CreatedAlone, CreatedUntagged, Call, NoCall
  <1>3. ASSUME NEW c \in Clients, NEW p \in Players, release(c, p) PROVE RegisterAlone'
    <2>1. /\ call[c] = NoCall /\ UNCHANGED <<state_, msg_handler_token_>>
          /\ \A d \in Clients : call'[d] = IF d = c THEN Call("waiting", p, "unregister") ELSE call[d]
      BY <1>3, CallersKnown, ContextPostEffect DEF release, TypeOK, playerVars
    <2>2. state_[p] # "CREATED"
      BY <1>3 DEF release, Calling, CreatedUntagged, CreatedAlone, RegisterAlone, Requests
    <2> QED
      BY <2>1, <2>2 DEF RegisterAlone, RegistersCreated, CreatedAlone, CreatedUntagged, Call, NoCall
  <1>4. ASSUME NEW c \in Clients, NEW p \in Players, NEW r \in ClientRequests, callCheck(c, p, r) PROVE RegisterAlone'
    <2>1. /\ call[c] = NoCall /\ UNCHANGED <<state_, msg_handler_token_>>
          /\ \A d \in Clients : call'[d] = IF d = c THEN Call("checked", p, r) ELSE call[d]
      BY <1>4, CallersKnown DEF callCheck, TypeOK, playerVars
    <2>2. state_[p] # "CREATED" /\ r \in Requests
      BY <1>4 DEF callCheck
    <2> QED
      BY <2>1, <2>2 DEF RegisterAlone, RegistersCreated, CreatedAlone, CreatedUntagged, Call, NoCall, Requests
  <1>5. ASSUME NEW c \in Clients, callPost(c) PROVE RegisterAlone'
    <2> DEFINE p == call[c].player
    <2>1. p \in Players /\ call[c].what \in Requests /\ UNCHANGED <<state_, msg_handler_token_>>
      BY <1>5, CallersKnown, CallPostEffect DEF playerVars
    <2>2. call' = [call EXCEPT ![c] = Call("waiting", p, call[c].what)] \/ call' = [call EXCEPT ![c] = NoCall]
      BY <1>5, CallersKnown, CallPostEffect
    <2>3. call[c].pc # "answered"
      BY <1>5, CallersKnown DEF callPost
    <2> QED
      BY <2>1, <2>2, <2>3, CallersKnown DEF TypeOK, RegisterAlone, RegistersCreated, CreatedAlone, CreatedUntagged, Call, NoCall, Requests
  <1>6. ASSUME NEW c \in Clients, callReturn(c) PROVE RegisterAlone'
    BY <1>6, CallersKnown DEF callReturn, TypeOK, RegisterAlone, RegistersCreated, CreatedAlone, CreatedUntagged, Call, NoCall, playerVars, Requests
  <1>7. ASSUME NEW c \in Clients, prepareReturn(c) PROVE RegisterAlone'
    BY <1>7, CallersKnown DEF prepareReturn, TypeOK, RegisterAlone, RegistersCreated, CreatedAlone, CreatedUntagged, Call, NoCall, playerVars, Requests
  <1>8. ASSUME NEW c \in Clients, initializeReturn(c) PROVE RegisterAlone'
    <2> DEFINE p == call[c].player
    <2>1. p \in Players /\ state_[p] = "CREATED"
      BY <1>8, CallersKnown DEF initializeReturn, RegisterAlone, RegistersCreated, CreatedAlone, CreatedUntagged, NoCall
    <2>2. state_' = [state_ EXCEPT ![p] = IF call[c].result = "ok" THEN "IDLE" ELSE "END"]
      BY <1>8, CallersKnown, <2>1 DEF initializeReturn, SetState, setState, checkStateTransition
    <2> QED
      BY <1>8, CallersKnown, <2>1, <2>2 DEF initializeReturn, TypeOK, RegisterAlone, RegistersCreated, CreatedAlone, CreatedUntagged, NoCall
  <1>9. ASSUME NEW c \in Clients, releaseReturn(c) PROVE RegisterAlone'
    <2> DEFINE p == call[c].player
    <2>1. p \in Players /\ state_[p] # "CREATED"
      BY <1>9, CallersKnown DEF releaseReturn, RegisterAlone, RegistersCreated, CreatedAlone, CreatedUntagged, NoCall
    <2>2. state_' = [state_ EXCEPT ![p] = "END"]
      BY <1>9, CallersKnown, <2>1 DEF releaseReturn, SetState, setState, checkStateTransition
    <2> QED
      BY <1>9, CallersKnown, <2>1, <2>2 DEF releaseReturn, TypeOK, RegisterAlone, RegistersCreated, CreatedAlone, CreatedUntagged, NoCall
  <1>10. ASSUME handleRegister PROVE RegisterAlone'
    <2>1. \A c \in Clients : call'[c].player = call[c].player /\ call'[c].what = call[c].what
                               /\ call'[c].pc = IF c = msg.client THEN "answered" ELSE call[c].pc
      BY <1>10, CallersKnown DEF handleRegister, notifyResult, TypeOK
    <2>2. \A q \in Players : msg_handler_token_'[q] = IF q = msg.player THEN msg_handler_token_'[q] ELSE msg_handler_token_[q]
      BY <1>10, CallersKnown DEF handleRegister, TypeOK
    <2>3. call[msg.client].player = msg.player /\ msg.client \in Clients
      BY <1>10, CallersKnown, HandlingEffect DEF handleRegister, Call
    <2>4. \A d \in Clients : d # msg.client => call[d].player # msg.player
      BY <1>10, CallersKnown, RegisteringUnslotted DEF handleRegister
    <2>5. UNCHANGED state_
      BY <1>10, CallersKnown DEF handleRegister
    <2>6. \A c \in Clients : call[c].what = "register" => call[c].player \in Players
      BY DEF CallsFormed, NoCall
    <2> QED
      BY <2>1, <2>2, <2>3, <2>4, <2>5, <2>6, CallersKnown DEF RegisterAlone, RegistersCreated, CreatedAlone, CreatedUntagged
  <1>11. ASSUME handleUnregister PROVE RegisterAlone'
    <2>1. \A c \in Clients : call'[c].player = call[c].player /\ call'[c].what = call[c].what
                               /\ call'[c].pc \in {call[c].pc, "answered"}
      BY <1>11, CallersKnown DEF handleUnregister, notifyResult, TypeOK
    <2> QED
      BY <1>11, CallersKnown, <2>1 DEF handleUnregister, RegisterAlone, RegistersCreated, CreatedAlone, CreatedUntagged
  <1>12. ASSUME handleRequest PROVE RegisterAlone'
    <2>1. \A c \in Clients : call'[c].player = call[c].player /\ call'[c].what = call[c].what
                               /\ call'[c].pc \in {call[c].pc, "answered"}
      BY <1>12, CallersKnown DEF handleRequest, onHandleMessage, notifyResult, TypeOK
    <2>2. \A q \in Players : state_'[q] = "CREATED" <=> state_[q] = "CREATED"
      BY <1>12, CallersKnown, RequestsKeepCreated
    <2> QED
      BY <1>12, CallersKnown, <2>1, <2>2 DEF handleRequest, RegisterAlone, RegistersCreated, CreatedAlone, CreatedUntagged
  <1>13. ASSUME dropRequest PROVE RegisterAlone'
    BY <1>13, CallersKnown DEF dropRequest, playerVars, RegisterAlone, RegistersCreated, CreatedAlone, CreatedUntagged
  <1>14. ASSUME NEW p \in Players, onPrepareCompleted(p) PROVE RegisterAlone'
    <2>1. state_[p] \notin {"CREATED", "END"}
      BY <1>14, CallersKnown DEF onPrepareCompleted, EngineInSlot, EngineUnused
    <2>2. \A q \in Players : state_'[q] = "CREATED" <=> state_[q] = "CREATED"
      BY <1>14, CallersKnown, <2>1, SetStateCreated DEF onPrepareCompleted, AfterPrepareCompleted, PlayerStates
    <2> QED
      BY <1>14, CallersKnown, <2>2 DEF onPrepareCompleted, RegisterAlone, RegistersCreated, CreatedAlone, CreatedUntagged
  <1>15. ASSUME NEW p \in Players, onSeekCompleted(p) PROVE RegisterAlone'
    <2>1. state_[p] \notin {"CREATED", "END"}
      BY <1>15, CallersKnown DEF onSeekCompleted, EngineInSlot, EngineUnused
    <2>2. \A q \in Players : state_'[q] = "CREATED" <=> state_[q] = "CREATED"
      BY <1>15, CallersKnown, <2>1, SetStateCreated DEF onSeekCompleted, PlayerStates
    <2> QED
      BY <1>15, CallersKnown, <2>2 DEF onSeekCompleted, RegisterAlone, RegistersCreated, CreatedAlone, CreatedUntagged
  <1>16. ASSUME NEW p \in Players, onPlaybackEvent(p) PROVE RegisterAlone'
    <2>1. state_[p] \notin {"CREATED", "END"}
      BY <1>16, CallersKnown DEF onPlaybackEvent, EngineInSlot, EngineUnused
    <2>2. \A q \in Players : state_'[q] = "CREATED" <=> state_[q] = "CREATED"
      BY <1>16, CallersKnown, <2>1, SetStateCreated, PlaybackStates DEF onPlaybackEvent, TypeOK
    <2> QED
      BY <1>16, CallersKnown, <2>2 DEF onPlaybackEvent, RegisterAlone, RegistersCreated, CreatedAlone, CreatedUntagged
  <1>17. CASE UNCHANGED vars
    BY <1>17, CallersKnown DEF vars, RegisterAlone, RegistersCreated, CreatedAlone, CreatedUntagged
  <1> QED
    BY <1>1, <1>2, <1>3, <1>4, <1>5, <1>6, <1>7, <1>8, <1>9, <1>10, <1>11, <1>12, <1>13, <1>14, <1>15, <1>16, <1>17
       DEF Next, Poll, ClientReturns, HandleMessage

\* An answer changes neither the player nor the message of anyone's call.
LEMMA NotifyKeeps ==
  ASSUME TypeOK, NEW result, notifyResult(result)
  PROVE  \A c \in Clients :
           /\ call'[c].player = call[c].player
           /\ call'[c].what = call[c].what
           /\ call'[c].pc = IF c = msg.client THEN "answered" ELSE call[c].pc
           /\ call'[c].result = IF c = msg.client THEN result ELSE call[c].result
  BY DEF notifyResult, TypeOK

LEMMA UnregisterStep == TypeOK /\ CallsFormed /\ ResultPointersLive /\ RequestsTagged /\ SlotsHeld /\ RegisterAlone /\ UnregisterOnce /\ [Next]_vars => UnregisterOnce'
  <1> SUFFICES ASSUME TypeOK, CallsFormed, ResultPointersLive, RequestsTagged, SlotsHeld, RegisterAlone, UnregisterOnce, [Next]_vars PROVE UnregisterOnce'
    OBVIOUS
  <1>1. ASSUME NEW p \in Players, create(p) PROVE UnregisterOnce'
    BY <1>1 DEF create, UnregisterOnce, UnregisterSingle, UnregisterTagged, UnregisterFrees
  <1>2. ASSUME NEW c \in Clients, NEW p \in Players, initialize(c, p) PROVE UnregisterOnce'
    <2> DEFINE m == Message(c, p, "register", msg_handler_token_[p])
    <2>1. /\ call[c] = NoCall /\ UNCHANGED <<msgHandlers_, msg_handler_token_>>
          /\ \A d \in Clients : call'[d] = IF d = c THEN Call("waiting", p, "register") ELSE call[d]
          /\ m \in Messages /\ msg_queue_' = Append(msg_queue_, m)
      BY <1>2, CallersKnown, ContextPostEffect DEF initialize, TypeOK, playerVars
    <2>2. UnregisterTagged'
      BY <2>1, PostEffect DEF UnregisterOnce, UnregisterTagged, Message, Messages
    <2>3. UnregisterFrees'
      BY <2>1 DEF UnregisterOnce, UnregisterFrees, Call
    <2>4. UnregisterSingle'
      BY <1>2, <2>1 DEF initialize, Calling, UnregisterOnce, UnregisterSingle, Call, Requests
    <2> QED
      BY <2>2, <2>3, <2>4 DEF UnregisterOnce
  <1>3. ASSUME NEW c \in Clients, NEW p \in Players, release(c, p) PROVE UnregisterOnce'
    <2> DEFINE m == Message(c, p, "unregister", msg_handler_token_[p])
    <2>1. /\ call[c] = NoCall /\ UNCHANGED <<msgHandlers_, msg_handler_token_>>
          /\ \A d \in Clients : call'[d] = IF d = c THEN Call("waiting", p, "unregister") ELSE call[d]
          /\ m \in Messages /\ msg_queue_' = Append(msg_queue_, m)
      BY <1>3, CallersKnown, ContextPostEffect DEF release, TypeOK, playerVars
    <2>2. UnregisterTagged'
      BY <2>1, PostEffect DEF UnregisterOnce, UnregisterTagged, Message, Messages
    <2>3. UnregisterFrees'
      BY <2>1 DEF UnregisterOnce, UnregisterFrees, Call
    <2>4. UnregisterSingle'
      BY <1>3, <2>1 DEF release, Calling, UnregisterOnce, UnregisterSingle, Call, Requests
    <2> QED
      BY <2>2, <2>3, <2>4 DEF UnregisterOnce
  <1>4. ASSUME NEW c \in Clients, NEW p \in Players, NEW r \in ClientRequests, callCheck(c, p, r) PROVE UnregisterOnce'
    <2>1. \A d \in Clients : call'[d].what = "unregister" => call'[d] = call[d]
      BY <1>4, CallersKnown DEF callCheck, TypeOK, NoCall, Call, Requests
    <2> QED
      BY <1>4, <2>1 DEF callCheck, playerVars, UnregisterOnce, UnregisterSingle, UnregisterTagged, UnregisterFrees
  <1>5. ASSUME NEW c \in Clients, callPost(c) PROVE UnregisterOnce'
    <2> DEFINE p == call[c].player
               m == Message(c, p, call[c].what, msg_handler_token_[p])
    <2>1. p \in Players /\ call[c].what \in Requests /\ UNCHANGED <<msgHandlers_, msg_handler_token_>>
      BY <1>5, CallPostEffect DEF playerVars
    <2>2. call' = [call EXCEPT ![c] = Call("waiting", p, call[c].what)] \/ call' = [call EXCEPT ![c] = NoCall]
      BY <1>5, CallPostEffect
    <2>3. \A d \in Clients : call'[d].what = "unregister" => call'[d] = call[d]
      BY <2>1, <2>2 DEF TypeOK, NoCall, Call, Requests
    <2>4. UnregisterTagged'
      <3>1. CASE msg_handler_token_[p] \in Slots
        <4>1. m \in Messages /\ msg_queue_' = Append(msg_queue_, m) /\ m.what \in Requests
          BY <1>5, <2>1, <3>1, CallPostEffect DEF Message
        <4> QED
          BY <2>1, <4>1, PostEffect DEF UnregisterOnce, UnregisterTagged, Requests
      <3>2. CASE msg_handler_token_[p] \notin Slots
        BY <1>5, <2>1, <3>2, CallPostEffect DEF UnregisterOnce, UnregisterTagged
      <3> QED
        BY <3>1, <3>2
    <2> QED
      BY <2>1, <2>3, <2>4 DEF UnregisterOnce, UnregisterSingle, UnregisterFrees
  <1>6. ASSUME NEW c \in Clients, callReturn(c) PROVE UnregisterOnce'
    <2>1. \A d \in Clients : call'[d].what = "unregister" => call'[d] = call[d]
      BY <1>6, CallersKnown DEF callReturn, TypeOK, NoCall, Call, Requests
    <2> QED
      BY <1>6, <2>1 DEF callReturn, playerVars, UnregisterOnce, UnregisterSingle, UnregisterTagged, UnregisterFrees
  <1>7. ASSUME NEW c \in Clients, prepareReturn(c) PROVE UnregisterOnce'
    <2>1. \A d \in Clients : call'[d].what = "unregister" => call'[d] = call[d]
      BY <1>7, CallersKnown DEF prepareReturn, TypeOK, NoCall, Call, Requests
    <2> QED
      BY <1>7, <2>1 DEF prepareReturn, playerVars, UnregisterOnce, UnregisterSingle, UnregisterTagged, UnregisterFrees
  <1>8. ASSUME NEW c \in Clients, initializeReturn(c) PROVE UnregisterOnce'
    <2>1. \A d \in Clients : call'[d].what = "unregister" => call'[d] = call[d]
      BY <1>8, CallersKnown DEF initializeReturn, TypeOK, NoCall, Call, Requests
    <2> QED
      BY <1>8, <2>1 DEF initializeReturn, playerVars, UnregisterOnce, UnregisterSingle, UnregisterTagged, UnregisterFrees
  <1>9. ASSUME NEW c \in Clients, releaseReturn(c) PROVE UnregisterOnce'
    <2> DEFINE p == call[c].player
    <2>1. \A d \in Clients : call'[d].what = "unregister" => call'[d] = call[d] /\ d # c
      BY <1>9 DEF releaseReturn, TypeOK, NoCall
    <2>2. p \in Players /\ UNCHANGED <<msgHandlers_, msg_queue_>> /\ msg_handler_token_' = [msg_handler_token_ EXCEPT ![p] = 0]
      BY <1>9, CallersKnown DEF releaseReturn
    <2>3. \A i \in DOMAIN msg_queue_ : msg_queue_[i].what = "unregister" => msg_queue_[i].player # p
      <3> SUFFICES ASSUME NEW i \in DOMAIN msg_queue_, msg_queue_[i].what = "unregister", msg_queue_[i].player = p PROVE FALSE
        OBVIOUS
      <3>1. LET d == msg_queue_[i].client IN d \in Clients /\ call[d].what = "unregister" /\ call[d].player = p /\ call[d].pc = "waiting"
        BY QueuedClients DEF Call
      <3> QED
        BY <1>9, <3>1 DEF releaseReturn, UnregisterOnce, UnregisterSingle
    <2>4. UnregisterTagged'
      BY <2>2, <2>3, QueuedClients DEF UnregisterOnce, UnregisterTagged, TypeOK
    <2> QED
      BY <2>1, <2>2, <2>4 DEF UnregisterOnce, UnregisterSingle, UnregisterFrees
  <1>10. ASSUME handleRegister PROVE UnregisterOnce'
    <2>1. PICK result : notifyResult(result)
      BY <1>10, Zenon DEF handleRegister
    <2>2. UnregisterSingle'
      BY <2>1, NotifyKeeps DEF UnregisterOnce, UnregisterSingle
    <2>3. \A d \in Clients : call'[d].what = "unregister" => d # msg.client /\ call[d].player # msg.player
                                 /\ call'[d].player = call[d].player /\ call'[d].pc = call[d].pc /\ call[d].what = "unregister"
      BY <1>10, <2>1, NotifyKeeps, RegisteringUnslotted, HandlingEffect DEF handleRegister, Call
    <2>4. \A q \in Players : q # msg.player => msg_handler_token_'[q] = msg_handler_token_[q]
      BY <1>10 DEF handleRegister, TypeOK
    <2>5. \A s \in Slots : msgHandlers_'[s] \in {msgHandlers_[s], msg.player}
      BY <1>10 DEF handleRegister, TypeOK
    <2>6. UnregisterFrees'
      BY <2>3, <2>5 DEF UnregisterOnce, UnregisterFrees
    <2>7. \A i \in DOMAIN msg_queue_' : /\ i + 1 \in DOMAIN msg_queue_ /\ msg_queue_'[i] = msg_queue_[i + 1]
                                         /\ msg_queue_'[i].client # msg.client
      BY <1>10, HandlingEffect DEF handleRegister
    <2>8. \A i \in DOMAIN msg_queue_' : msg_queue_'[i].player # msg.player /\ msg_queue_'[i].player \in Players
      <3>1. \A d \in Clients : d # msg.client => call[d].player # msg.player
        BY <1>10, RegisteringUnslotted DEF handleRegister
      <3> QED
        BY <2>7, <3>1, QueuedClients
    <2>9. UnregisterTagged'
      BY <2>4, <2>7, <2>8 DEF UnregisterOnce, UnregisterTagged
    <2> QED
      BY <2>2, <2>6, <2>9 DEF UnregisterOnce
  <1>11. ASSUME handleUnregister PROVE UnregisterOnce'
    <2> DEFINE p == msg.player
    <2>1. notifyResult("ok") /\ UNCHANGED msg_handler_token_
      BY <1>11 DEF handleUnregister
    <2>2. UnregisterSingle'
      BY <2>1, NotifyKeeps DEF UnregisterOnce, UnregisterSingle
    <2>3. UnregisterTagged'
      BY <1>11, <2>1, HandlingEffect DEF handleUnregister, UnregisterOnce, UnregisterTagged
    <2>4. /\ p \in Players /\ msg.client \in Clients /\ call[msg.client].player = p
          /\ call[msg.client].what = "unregister" /\ msg.token = msg_handler_token_[p]
      BY <1>11, HandlingEffect DEF handleUnregister, Call, UnregisterOnce, UnregisterTagged
    <2>5. \A s \in Slots : msgHandlers_'[s] # p /\ msgHandlers_'[s] \in {msgHandlers_[s], None}
      <3>1. \A s \in Slots : msgHandlers_[s] = p => s = msg.token
        BY <2>4 DEF SlotsHeld
      <3> QED
        BY <1>11, <2>4, <3>1 DEF handleUnregister, TypeOK
    <2>6. \A d \in Clients : call'[d].what = "unregister" /\ call'[d].pc = "answered" =>
             call[d].player = p \/ (call[d].what = "unregister" /\ call[d].pc = "answered")
      BY <2>1, <2>4, NotifyKeeps
    <2>7. UnregisterFrees'
      BY <2>1, <2>5, <2>6, NotifyKeeps, CallersKnown DEF UnregisterOnce, UnregisterFrees
    <2> QED
      BY <2>2, <2>3, <2>7 DEF UnregisterOnce
  <1>12. ASSUME handleRequest PROVE UnregisterOnce'
    <2>1. PICK result : notifyResult(result)
      BY <1>12, Zenon DEF handleRequest, onHandleMessage
    <2>2. UNCHANGED <<msgHandlers_, msg_handler_token_>>
      BY <1>12 DEF handleRequest
    <2>3. call[msg.client].what # "unregister"
      BY <1>12, HandlingEffect DEF handleRequest, Call, Requests
    <2>4. UnregisterTagged'
      BY <1>12, <2>2, HandlingEffect DEF handleRequest, UnregisterOnce, UnregisterTagged
    <2> QED
      BY <2>1, <2>2, <2>3, <2>4, NotifyKeeps DEF UnregisterOnce, UnregisterSingle, UnregisterFrees
  <1>13. ASSUME dropRequest PROVE UnregisterOnce'
    <2>1. UnregisterTagged'
      BY <1>13, HandlingEffect DEF dropRequest, playerVars, UnregisterOnce, UnregisterTagged
    <2> QED
      BY <1>13, <2>1 DEF dropRequest, UnregisterOnce, UnregisterSingle, UnregisterFrees
  <1>14. ASSUME NEW p \in Players, onPrepareCompleted(p) PROVE UnregisterOnce'
    BY <1>14 DEF onPrepareCompleted, UnregisterOnce, UnregisterSingle, UnregisterTagged, UnregisterFrees
  <1>15. ASSUME NEW p \in Players, onSeekCompleted(p) PROVE UnregisterOnce'
    BY <1>15 DEF onSeekCompleted, UnregisterOnce, UnregisterSingle, UnregisterTagged, UnregisterFrees
  <1>16. ASSUME NEW p \in Players, onPlaybackEvent(p) PROVE UnregisterOnce'
    BY <1>16 DEF onPlaybackEvent, UnregisterOnce, UnregisterSingle, UnregisterTagged, UnregisterFrees
  <1>17. CASE UNCHANGED vars
    BY <1>17 DEF vars, UnregisterOnce, UnregisterSingle, UnregisterTagged, UnregisterFrees
  <1> QED
    BY <1>1, <1>2, <1>3, <1>4, <1>5, <1>6, <1>7, <1>8, <1>9, <1>10, <1>11, <1>12, <1>13, <1>14, <1>15, <1>16, <1>17
       DEF Next, Poll, ClientReturns, HandleMessage

\* A player in use stays in use through setState() to a legal state.
LEMMA SetStateUsed ==
  ASSUME TypeOK, NEW p \in Players, NEW next \in PlayerStates \ {"CREATED", "END"}, SetState(p, next),
         state_[p] \notin {"CREATED", "END"}
  PROVE  /\ state_'[p] \notin {"CREATED", "END"}
         /\ \A q \in Players \ {p} : state_'[q] = state_[q]
  BY DEF TypeOK, SetState, setState

\* The request that is handled belongs to the player in the slot it names.
LEMMA RequestSlotted ==
  ASSUME TypeOK, CallsFormed, ResultPointersLive, RequestsTagged, SlotsHeld, RegisterAlone, handleRequest
  PROVE  /\ msg.player \in Players /\ msg.what \in Requests
         /\ InSlot(msg.player)
         /\ state_[msg.player] # "CREATED"
         /\ \A d \in Clients : call[d].what = "register" => call[d].player # msg.player
  <1>1. msg.player \in Players /\ msg.what \in Requests /\ 1 \in DOMAIN msg_queue_ /\ msg = msg_queue_[1]
    BY HandlingEffect DEF handleRequest
  <1>2. msg.token \in Slots
    BY <1>1 DEF RequestsTagged
  <1>3. msgHandlers_[msg.token] = msg.player
    BY DEF handleRequest, Registered
  <1>4. InSlot(msg.player)
    BY <1>1, <1>2, <1>3, NoneAssumption DEF SlotsHeld, InSlot
  <1>5. state_[msg.player] # "CREATED"
    BY RequestsKeepCreated
  <1> QED
    BY <1>1, <1>4, <1>5 DEF RegisterAlone, RegistersCreated

LEMMA EngineStep == TypeOK /\ CallsFormed /\ ResultPointersLive /\ RequestsTagged /\ SlotsHeld /\ RegisterAlone /\ UnregisterOnce /\ EngineInSlot /\ [Next]_vars => EngineInSlot'
  <1> SUFFICES ASSUME TypeOK, CallsFormed, ResultPointersLive, RequestsTagged, SlotsHeld, RegisterAlone, UnregisterOnce, EngineInSlot, [Next]_vars PROVE EngineInSlot'
    OBVIOUS
  <1>1. ASSUME NEW p \in Players, create(p) PROVE EngineInSlot'
    BY <1>1 DEF create, TypeOK, EngineInSlot, EngineSlotted, EngineUnused, EngineRegistered, InSlot
  <1>2. ASSUME NEW c \in Clients, NEW p \in Players, initialize(c, p) PROVE EngineInSlot'
    <2>1. \A d \in Clients : call'[d].what = "register" /\ call'[d].pc = "answered" => call'[d] = call[d]
      BY <1>2, CallersKnown DEF initialize, PostToContext, TypeOK, NoCall, Call, Requests
    <2> QED
      BY <1>2, <2>1 DEF initialize, playerVars, EngineInSlot, EngineSlotted, EngineUnused, EngineRegistered, InSlot
  <1>3. ASSUME NEW c \in Clients, NEW p \in Players, release(c, p) PROVE EngineInSlot'
    <2>1. \A d \in Clients : call'[d].what = "register" /\ call'[d].pc = "answered" => call'[d] = call[d]
      BY <1>3, CallersKnown DEF release, PostToContext, TypeOK, NoCall, Call, Requests
    <2> QED
      BY <1>3, <2>1 DEF release, playerVars, EngineInSlot, EngineSlotted, EngineUnused, EngineRegistered, InSlot
  <1>4. ASSUME NEW c \in Clients, NEW p \in Players, NEW r \in ClientRequests, callCheck(c, p, r) PROVE EngineInSlot'
    <2>1. \A d \in Clients : call'[d].what = "register" /\ call'[d].pc = "answered" => call'[d] = call[d]
      BY <1>4, CallersKnown DEF callCheck, PostToContext, TypeOK, NoCall, Call, Requests
    <2> QED
      BY <1>4, <2>1 DEF callCheck, playerVars, EngineInSlot, EngineSlotted, EngineUnused, EngineRegistered, InSlot
  <1>5. ASSUME NEW c \in Clients, callPost(c) PROVE EngineInSlot'
    <2> DEFINE p == call[c].player
    <2>1. p \in Players /\ call[c].what \in Requests /\ UNCHANGED <<playerVars, msgHandlers_>>
      BY <1>5, CallPostEffect
    <2>2. call' = [call EXCEPT ![c] = Call("waiting", p, call[c].what)] \/ call' = [call EXCEPT ![c] = NoCall]
      BY <1>5, CallPostEffect
    <2>3. \A d \in Clients : call'[d].what = "register" => call'[d] = call[d]
      BY <2>1, <2>2 DEF TypeOK, NoCall, Call, Requests
    <2> QED
      BY <2>1, <2>3 DEF playerVars, EngineInSlot, EngineSlotted, EngineUnused, EngineRegistered, InSlot
  <1>6. ASSUME NEW c \in Clients, callReturn(c) PROVE EngineInSlot'
    <2>1. \A d \in Clients : call'[d].what = "register" /\ call'[d].pc = "answered" => call'[d] = call[d]
      BY <1>6, CallersKnown DEF callReturn, PostToContext, TypeOK, NoCall, Call, Requests
    <2> QED
      BY <1>6, <2>1 DEF callReturn, playerVars, EngineInSlot, EngineSlotted, EngineUnused, EngineRegistered, InSlot
  <1>7. ASSUME NEW c \in Clients, prepareReturn(c) PROVE EngineInSlot'
    <2>1. \A d \in Clients : call'[d].what = "register" /\ call'[d].pc = "answered" => call'[d] = call[d]
      BY <1>7, CallersKnown DEF prepareReturn, PostToContext, TypeOK, NoCall, Call, Requests
    <2> QED
      BY <1>7, <2>1 DEF prepareReturn, playerVars, EngineInSlot, EngineSlotted, EngineUnused, EngineRegistered, InSlot
  <1>8. ASSUME NEW c \in Clients, initializeReturn(c) PROVE EngineInSlot'
    <2> DEFINE p == call[c].player
    <2>1. p \in Players /\ state_[p] = "CREATED"
      BY <1>8, CallersKnown DEF initializeReturn, RegisterAlone, RegistersCreated
    <2>2. state_' = [state_ EXCEPT ![p] = IF call[c].result = "ok" THEN "IDLE" ELSE "END"]
      BY <1>8, <2>1 DEF initializeReturn, SetState, setState, checkStateTransition
    <2>3. call[c].result # "ok" => player_[p] = "null"
      BY <1>8 DEF initializeReturn, EngineInSlot, EngineRegistered
    <2>4. EngineUnused'
      BY <1>8, <2>1, <2>2, <2>3 DEF initializeReturn, TypeOK, EngineInSlot, EngineUnused
    <2>5. \A d \in Clients : call'[d].what = "register" => call'[d] = call[d]
      BY <1>8 DEF initializeReturn, TypeOK, NoCall
    <2> QED
      BY <1>8, <2>4, <2>5 DEF initializeReturn, EngineInSlot, EngineSlotted, EngineRegistered, InSlot
  <1>9. ASSUME NEW c \in Clients, releaseReturn(c) PROVE EngineInSlot'
    <2> DEFINE p == call[c].player
    <2>1. p \in Players /\ state_[p] # "CREATED"
      BY <1>9, CallersKnown DEF releaseReturn, RegisterAlone, CreatedAlone
    <2>2. state_' = [state_ EXCEPT ![p] = "END"]
      BY <1>9, <2>1 DEF releaseReturn, SetState, setState, checkStateTransition
    <2>3. ~InSlot(p)
      BY <1>9 DEF releaseReturn, UnregisterOnce, UnregisterFrees, InSlot
    <2>4. ~seeking[p]
      BY <2>1, <2>3 DEF EngineInSlot, EngineSlotted
    <2>5. EngineUnused'
      BY <1>9, <2>1, <2>2, <2>4 DEF releaseReturn, TypeOK, EngineInSlot, EngineUnused
    <2>6. EngineSlotted'
      BY <1>9, <2>1, <2>4 DEF releaseReturn, TypeOK, EngineInSlot, EngineSlotted, InSlot
    <2>7. \A d \in Clients : call'[d].what = "register" => call'[d] = call[d] /\ call[d].player # p
      BY <1>9, <2>1 DEF releaseReturn, TypeOK, NoCall, RegisterAlone, RegistersCreated
    <2>8. EngineRegistered'
      BY <1>9, <2>1, <2>7, CallersKnown DEF releaseReturn, TypeOK, EngineInSlot, EngineRegistered
    <2> QED
      BY <2>5, <2>6, <2>8 DEF EngineInSlot
  <1>10. ASSUME handleRegister PROVE EngineInSlot'
    <2>0. PICK p \in Players : p = msg.player
      BY <1>10, RegisteringUnslotted DEF handleRegister
    <2>1. /\ p \in Players /\ state_[p] = "CREATED" /\ msg_handler_token_[p] = 0
          /\ \A d \in Clients : d # msg.client => call[d].player # p
      BY <1>10, <2>0, RegisteringUnslotted DEF handleRegister
    <2>2. player_[p] = "null" /\ ~seeking[p]
      BY <2>1 DEF EngineInSlot, EngineSlotted, InSlot, Slots
    <2>3. msg.client \in Clients /\ call[msg.client].player = p
      BY <1>10, <2>0, HandlingEffect DEF handleRegister, Call
    <2>4. /\ UNCHANGED <<state_, seeking>>
          /\ \A q \in Players \ {p} : player_'[q] = player_[q] /\ msg_handler_token_'[q] = msg_handler_token_[q]
      BY <1>10, <2>0 DEF handleRegister, TypeOK
    <2>5. \A s \in Slots : msgHandlers_[s] # None => msgHandlers_'[s] = msgHandlers_[s]
      BY <1>10 DEF handleRegister, TypeOK, FirstFree
    <2>6. \A q \in Players \ {p} : InSlot(q) => InSlot(q)'
      BY <2>4, <2>5, NoneAssumption DEF InSlot
    <2>7. player_'[p] # "null" => InSlot(p)'
      <3>1. CASE \A s \in Slots : msgHandlers_[s] # None
        <4>1. UNCHANGED player_
          BY <1>10, <3>1 DEF handleRegister, FirstFree
        <4> QED
          BY <4>1, <2>2
      <3>2. CASE ~\A s \in Slots : msgHandlers_[s] # None
        <4>1. PICK s \in Slots : /\ msgHandlers_' = [msgHandlers_ EXCEPT ![s] = p]
                              /\ msg_handler_token_' = [msg_handler_token_ EXCEPT ![p] = s]
          BY <1>10, <2>0, <3>2 DEF handleRegister
        <4>2. msg_handler_token_'[p] = s /\ msgHandlers_'[s] = p
          BY <4>1, <2>1 DEF TypeOK
        <4> QED
          BY <4>2 DEF InSlot
      <3> QED
        BY <3>1, <3>2
    <2>8. EngineSlotted'
      <3> SUFFICES ASSUME NEW q \in Players, seeking'[q] \/ player_'[q] # "null" PROVE InSlot(q)'
        BY DEF EngineSlotted
      <3>1. CASE q = p
        BY <3>1, <2>2, <2>4, <2>7 DEF InSlot
      <3>2. CASE q # p
        BY <3>2, <2>4, <2>6 DEF EngineInSlot, EngineSlotted
      <3> QED
        BY <3>1, <3>2
    <2>9. player_'[p] \in {"null", "stopped"}
      BY <1>10, <2>0, <2>1, <2>2 DEF handleRegister, TypeOK
    <2>10. EngineUnused'
      BY <2>1, <2>2, <2>4, <2>9 DEF EngineInSlot, EngineUnused
    <2>11. PICK result : notifyResult(result) /\ player_'[p] = IF result = "ok" THEN "stopped" ELSE "null"
      <3>1. CASE \A s \in Slots : msgHandlers_[s] # None
        BY <1>10, <2>1, <2>2, <3>1 DEF handleRegister, FirstFree
      <3>2. CASE ~\A s \in Slots : msgHandlers_[s] # None
        <4>1. \/ notifyResult("ok") /\ player_' = [player_ EXCEPT ![p] = "stopped"]
              \/ notifyResult("error") /\ UNCHANGED player_
          BY <1>10, <2>0, <3>2 DEF handleRegister
        <4> QED
          BY <4>1, <2>1, <2>2 DEF TypeOK
      <3> QED
        BY <3>1, <3>2
    <2>12. EngineRegistered'
      <3> SUFFICES ASSUME NEW d \in Clients, call'[d].what = "register", call'[d].pc = "answered"
                   PROVE  player_'[call'[d].player] = IF call'[d].result = "ok" THEN "stopped" ELSE "null"
        BY DEF EngineRegistered
      <3>1. CASE d = msg.client
        BY <3>1, <2>3, <2>11, NotifyKeeps
      <3>2. CASE d # msg.client
        BY <3>2, <2>1, <2>4, <2>11, NotifyKeeps, CallersKnown DEF EngineInSlot, EngineRegistered
      <3> QED
        BY <3>1, <3>2
    <2> QED
      BY <2>8, <2>10, <2>12 DEF EngineInSlot
  <1>11. ASSUME handleUnregister PROVE EngineInSlot'
    <2>0. PICK p \in Players : p = msg.player
      BY <1>11, HandlingEffect DEF handleUnregister
    <2>1. /\ p \in Players /\ msg.client \in Clients /\ call[msg.client].player = p
          /\ call[msg.client].what = "unregister" /\ msg.token = msg_handler_token_[p]
      BY <1>11, <2>0, HandlingEffect DEF handleUnregister, Call, UnregisterOnce, UnregisterTagged
    <2>2. \A d \in Clients : call[d].what = "register" => call[d].player # p
      BY <2>1 DEF RegisterAlone, RegistersCreated, CreatedAlone
    <2>3. notifyResult("ok") /\ UNCHANGED <<state_, msg_handler_token_>>
      BY <1>11 DEF handleUnregister
    <2>4. \A q \in Players \ {p} : player_'[q] = player_[q] /\ seeking'[q] = seeking[q]
      BY <1>11, <2>0 DEF handleUnregister, TypeOK
    <2>5. player_'[p] \in {player_[p], "null"} /\ (seeking'[p] => seeking[p])
      BY <1>11, <2>0, <2>1 DEF handleUnregister, TypeOK
    <2>6. EngineUnused'
      BY <2>3, <2>4, <2>5 DEF EngineInSlot, EngineUnused
    <2>7. EngineRegistered'
      BY <2>1, <2>2, <2>3, <2>4, NotifyKeeps, CallersKnown DEF EngineInSlot, EngineRegistered
    <2>8. EngineSlotted'
      <3>1. CASE msgHandlers_[msg.token] = p
        <4>1. player_'[p] = "null" /\ ~seeking'[p] /\ msgHandlers_' = [msgHandlers_ EXCEPT ![msg.token] = None]
          BY <1>11, <2>0, <2>1, <3>1 DEF handleUnregister, TypeOK
        <4>2. \A q \in Players \ {p} : InSlot(q) => InSlot(q)'
          BY <2>3, <3>1, <4>1 DEF InSlot, TypeOK
        <4> QED
          BY <2>4, <4>1, <4>2 DEF EngineInSlot, EngineSlotted
      <3>2. CASE msgHandlers_[msg.token] # p
        BY <1>11, <2>0, <2>3, <3>2 DEF handleUnregister, EngineInSlot, EngineSlotted, InSlot
      <3> QED
        BY <3>1, <3>2
    <2> QED
      BY <2>6, <2>7, <2>8 DEF EngineInSlot
  <1>12. ASSUME handleRequest PROVE EngineInSlot'
    <2> DEFINE p == msg.player
    <2>1. /\ p \in Players /\ msg.what \in Requests /\ InSlot(p) /\ state_[p] # "CREATED"
          /\ \A d \in Clients : call[d].what = "register" => call[d].player # p
      BY <1>12, RequestSlotted
    <2>2. PICK r \in EngineResults(msg.what) : onHandleMessage(p, msg.what, r)
      BY <1>12 DEF handleRequest
    <2>3. UNCHANGED <<msg_handler_token_, msgHandlers_>>
      BY <1>12 DEF handleRequest
    <2>4. \A q \in Players \ {p} : player_'[q] = player_[q] /\ seeking'[q] = seeking[q] /\ state_'[q] = state_[q]
      BY <2>1, <2>2 DEF onHandleMessage, SetState, TypeOK
    <2>5. EngineSlotted'
      BY <2>1, <2>3, <2>4 DEF EngineInSlot, EngineSlotted, InSlot
    <2>6. EngineUnused'
      <3>1. CASE state_[p] = "END"
        BY <2>1, <2>2, <3>1, EndedStays DEF EngineInSlot, EngineUnused
      <3>2. CASE state_[p] # "END"
        <4>1. state_'[p] \notin {"CREATED", "END"}
          BY <2>1, <2>2, <3>2, NextStatesLegal, SetStateUsed DEF onHandleMessage, TypeOK
        <4> QED
          BY <2>4, <4>1 DEF EngineInSlot, EngineUnused
      <3> QED
        BY <3>1, <3>2
    <2>7. EngineRegistered'
      <3>1. PICK result : notifyResult(result)
        BY <2>2, Zenon DEF onHandleMessage
      <3>2. call[msg.client].what # "register"
        BY <1>12, HandlingEffect DEF handleRequest, Call, Requests
      <3> QED
        BY <2>1, <2>4, <3>1, <3>2, NotifyKeeps, CallersKnown DEF EngineInSlot, EngineRegistered
    <2> QED
      BY <2>5, <2>6, <2>7 DEF EngineInSlot
  <1>13. ASSUME dropRequest PROVE EngineInSlot'
    BY <1>13 DEF dropRequest, playerVars, EngineInSlot, EngineSlotted, EngineUnused, EngineRegistered, InSlot
  <1>14. ASSUME NEW p \in Players, onPrepareCompleted(p) PROVE EngineInSlot'
    <2>1. state_[p] \notin {"CREATED", "END"} /\ InSlot(p)
      BY <1>14 DEF onPrepareCompleted, EngineInSlot, EngineUnused, EngineSlotted
    <2>2. state_'[p] \notin {"CREATED", "END"} /\ \A q \in Players \ {p} : state_'[q] = state_[q]
      BY <1>14, <2>1, SetStateUsed DEF onPrepareCompleted, AfterPrepareCompleted, PlayerStates
    <2>3. \A d \in Clients : call[d].what = "register" => call[d].player # p
      BY <2>1 DEF RegisterAlone, RegistersCreated
    <2>4. \A q \in Players \ {p} : player_'[q] = player_[q] /\ seeking'[q] = seeking[q]
      BY <1>14 DEF onPrepareCompleted, TypeOK
    <2>5. EngineSlotted'
      BY <1>14, <2>1, <2>4 DEF onPrepareCompleted, EngineInSlot, EngineSlotted, InSlot
    <2>6. EngineUnused'
      BY <2>2, <2>4 DEF EngineInSlot, EngineUnused
    <2>7. EngineRegistered'
      BY <1>14, <2>3, <2>4, CallersKnown DEF onPrepareCompleted, EngineInSlot, EngineRegistered
    <2> QED
      BY <2>5, <2>6, <2>7 DEF EngineInSlot
  <1>15. ASSUME NEW p \in Players, onSeekCompleted(p) PROVE EngineInSlot'
    <2>1. state_[p] \notin {"CREATED", "END"} /\ InSlot(p)
      BY <1>15 DEF onSeekCompleted, EngineInSlot, EngineUnused, EngineSlotted
    <2>2. state_'[p] \notin {"CREATED", "END"} /\ \A q \in Players \ {p} : state_'[q] = state_[q]
      BY <1>15, <2>1, SetStateUsed DEF onSeekCompleted, PlayerStates
    <2>3. \A d \in Clients : call[d].what = "register" => call[d].player # p
      BY <2>1 DEF RegisterAlone, RegistersCreated
    <2>4. \A q \in Players \ {p} : player_'[q] = player_[q] /\ seeking'[q] = seeking[q]
      BY <1>15 DEF onSeekCompleted, TypeOK
    <2>5. EngineSlotted'
      BY <1>15, <2>1, <2>4 DEF onSeekCompleted, EngineInSlot, EngineSlotted, InSlot
    <2>6. EngineUnused'
      BY <2>2, <2>4 DEF EngineInSlot, EngineUnused
    <2>7. EngineRegistered'
      BY <1>15, <2>3, <2>4, CallersKnown DEF onSeekCompleted, EngineInSlot, EngineRegistered
    <2> QED
      BY <2>5, <2>6, <2>7 DEF EngineInSlot
  <1>16. ASSUME NEW p \in Players, onPlaybackEvent(p) PROVE EngineInSlot'
    <2>1. state_[p] \notin {"CREATED", "END"} /\ InSlot(p)
      BY <1>16 DEF onPlaybackEvent, EngineInSlot, EngineUnused, EngineSlotted
    <2>2. state_'[p] \notin {"CREATED", "END"} /\ \A q \in Players \ {p} : state_'[q] = state_[q]
      BY <1>16, <2>1, SetStateUsed, PlaybackStates DEF onPlaybackEvent, TypeOK
    <2>3. \A d \in Clients : call[d].what = "register" => call[d].player # p
      BY <2>1 DEF RegisterAlone, RegistersCreated
    <2>4. \A q \in Players \ {p} : player_'[q] = player_[q] /\ seeking'[q] = seeking[q]
      BY <1>16 DEF onPlaybackEvent, TypeOK
    <2>5. EngineSlotted'
      BY <1>16, <2>1, <2>4 DEF onPlaybackEvent, EngineInSlot, EngineSlotted, InSlot
    <2>6. EngineUnused'
      BY <2>2, <2>4 DEF EngineInSlot, EngineUnused
    <2>7. EngineRegistered'
      BY <1>16, <2>3, <2>4, CallersKnown DEF onPlaybackEvent, EngineInSlot, EngineRegistered
    <2> QED
      BY <2>5, <2>6, <2>7 DEF EngineInSlot
  <1>17. CASE UNCHANGED vars
    BY <1>17 DEF vars, EngineInSlot, EngineSlotted, EngineUnused, EngineRegistered, InSlot
  <1> QED
    BY <1>1, <1>2, <1>3, <1>4, <1>5, <1>6, <1>7, <1>8, <1>9, <1>10, <1>11, <1>12, <1>13, <1>14, <1>15, <1>16, <1>17
       DEF Next, Poll, ClientReturns, HandleMessage

LEMMA InductiveInit == Init => IInv
  <1> SUFFICES ASSUME Init PROVE IInv
    OBVIOUS
  <1>1. TypeOK
    BY TypeInit
  <1>2. msg_queue_ = <<>> /\ DOMAIN msg_queue_ = {} /\ \A c \in Clients : call[c] = NoCall
    BY DEF Init
  <1>3. CallsFormed /\ ResultPointersLive /\ RequestsTagged
    BY <1>2 DEF CallsFormed, ResultPointersLive, RequestsTagged
  <1>4. SlotsHeld /\ RegisterAlone
    BY <1>2, NoneAssumption DEF Init, SlotsHeld, RegisterAlone, RegistersCreated, CreatedAlone, CreatedUntagged, NoCall
  <1>5. UnregisterOnce
    BY <1>2 DEF UnregisterOnce, UnregisterSingle, UnregisterTagged, UnregisterFrees, NoCall
  <1>6. EngineInSlot
    BY <1>2 DEF Init, EngineInSlot, EngineSlotted, EngineUnused, EngineRegistered, NoCall
  <1> QED
    BY <1>1, <1>3, <1>4, <1>5, <1>6 DEF IInv

LEMMA InductiveHolds == Spec => []IInv
  <1>1. IInv /\ [Next]_vars => IInv'
    BY TypeStep, CallsStep, PointersStep, TagsStep, SlotsStep, RegisterStep, UnregisterStep, EngineStep DEF IInv
  <1> QED
    BY <1>1, InductiveInit, PTL DEF Spec


(***************************************************************************)
(* The engine agrees with the public state.                                *)
(***************************************************************************)
EngineUsed == \A p \in Players :
  InSlot(p) /\ state_[p] \notin {"CREATED", "END"} => player_[p] # "null"

EnginesAgree == \A p \in Players : player_[p] # "null" => Agree(state_[p], player_[p])

LEMMA UsedStep == IInv /\ EngineUsed /\ [Next]_vars => EngineUsed'
  <1> SUFFICES ASSUME IInv, EngineUsed, [Next]_vars PROVE EngineUsed'
    OBVIOUS
  <1>1. ASSUME NEW p \in Players, create(p) PROVE EngineUsed'
    BY <1>1 DEF create, IInv, TypeOK, EngineUsed, InSlot
  <1>2. ASSUME NEW c \in Clients, NEW p \in Players, initialize(c, p) PROVE EngineUsed'
    BY <1>2 DEF initialize, playerVars, EngineUsed, InSlot
  <1>3. ASSUME NEW c \in Clients, NEW p \in Players, release(c, p) PROVE EngineUsed'
    BY <1>3 DEF release, playerVars, EngineUsed, InSlot
  <1>4. ASSUME NEW c \in Clients, NEW p \in Players, NEW r \in ClientRequests, callCheck(c, p, r) PROVE EngineUsed'
    BY <1>4 DEF callCheck, playerVars, EngineUsed, InSlot
  <1>5. ASSUME NEW c \in Clients, callPost(c) PROVE EngineUsed'
    BY <1>5, CallPostEffect DEF IInv, playerVars, EngineUsed, InSlot
  <1>6. ASSUME NEW c \in Clients, callReturn(c) PROVE EngineUsed'
    BY <1>6 DEF callReturn, playerVars, EngineUsed, InSlot
  <1>7. ASSUME NEW c \in Clients, prepareReturn(c) PROVE EngineUsed'
    BY <1>7 DEF prepareReturn, playerVars, EngineUsed, InSlot
  <1>8. ASSUME NEW c \in Clients, initializeReturn(c) PROVE EngineUsed'
    <2> DEFINE p == call[c].player
    <2>1. p \in Players /\ state_[p] = "CREATED"
      BY <1>8, CallersKnown DEF initializeReturn, IInv, RegisterAlone, RegistersCreated
    <2>2. state_' = [state_ EXCEPT ![p] = IF call[c].result = "ok" THEN "IDLE" ELSE "END"]
      BY <1>8, <2>1 DEF initializeReturn, SetState, setState, checkStateTransition
    <2>3. player_[p] = IF call[c].result = "ok" THEN "stopped" ELSE "null"
      BY <1>8 DEF initializeReturn, IInv, EngineInSlot, EngineRegistered
    <2> QED
      BY <1>8, <2>1, <2>2, <2>3 DEF initializeReturn, IInv, TypeOK, EngineUsed, InSlot
  <1>9. ASSUME NEW c \in Clients, releaseReturn(c) PROVE EngineUsed'
    <2> DEFINE p == call[c].player
    <2>1. p \in Players
      BY <1>9, CallersKnown DEF releaseReturn, IInv
    <2>2. state_' = [state_ EXCEPT ![p] = "END"] /\ \A q \in Players \ {p} : player_'[q] = player_[q] /\ msg_handler_token_'[q] = msg_handler_token_[q]
      BY <1>9, <2>1 DEF releaseReturn, SetState, setState, checkStateTransition, IInv, TypeOK
    <2> QED
      BY <1>9, <2>1, <2>2 DEF releaseReturn, IInv, TypeOK, EngineUsed, InSlot
  <1>10. ASSUME handleRegister PROVE EngineUsed'
    <2>0. PICK p \in Players : p = msg.player
      BY <1>10, RegisteringUnslotted DEF handleRegister, IInv
    <2>1. state_[p] = "CREATED" /\ UNCHANGED state_
      BY <1>10, <2>0, RegisteringUnslotted DEF handleRegister, IInv
    <2>2. \A q \in Players \ {p} : player_'[q] = player_[q] /\ msg_handler_token_'[q] = msg_handler_token_[q]
      BY <1>10, <2>0 DEF handleRegister, IInv, TypeOK
    <2>3. \A s \in Slots : msgHandlers_'[s] \in {msgHandlers_[s], p}
      BY <1>10, <2>0 DEF handleRegister, IInv, TypeOK
    <2> QED
      BY <2>1, <2>2, <2>3 DEF EngineUsed, InSlot
  <1>11. ASSUME handleUnregister PROVE EngineUsed'
    <2>0. PICK p \in Players : p = msg.player
      BY <1>11, HandlingEffect DEF handleUnregister, IInv
    <2>1. UNCHANGED <<state_, msg_handler_token_>> /\ \A q \in Players \ {p} : player_'[q] = player_[q]
      BY <1>11, <2>0 DEF handleUnregister, IInv, TypeOK
    <2>2. \A s \in Slots : msgHandlers_'[s] \in {msgHandlers_[s], None}
      BY <1>11 DEF handleUnregister, IInv, TypeOK
    <2>3. InSlot(p)' => UNCHANGED player_
      <3>1. msg.token = msg_handler_token_[p]
        BY <1>11, <2>0, HandlingEffect DEF handleUnregister, IInv, UnregisterOnce, UnregisterTagged
      <3> QED
        BY <1>11, <2>0, <3>1, NoneAssumption DEF handleUnregister, IInv, TypeOK, InSlot
    <2> QED
      BY <2>1, <2>2, <2>3, NoneAssumption DEF EngineUsed, InSlot
  <1>12. ASSUME handleRequest PROVE EngineUsed'
    <2>0. PICK p \in Players : p = msg.player
      BY <1>12, RequestSlotted DEF IInv
    <2>1. /\ msg.what \in Requests /\ InSlot(p) /\ state_[p] # "CREATED"
          /\ UNCHANGED <<msg_handler_token_, msgHandlers_>>
      BY <1>12, <2>0, RequestSlotted DEF handleRequest, IInv
    <2>2. PICK r \in EngineResults(msg.what) : onHandleMessage(p, msg.what, r)
      BY <1>12, <2>0 DEF handleRequest
    <2>3. \A q \in Players \ {p} : player_'[q] = player_[q] /\ state_'[q] = state_[q]
      BY <2>2 DEF onHandleMessage, SetState, IInv, TypeOK
    <2>4. CASE state_[p] = "END"
      BY <2>1, <2>2, <2>3, <2>4, EndedStays DEF IInv, EngineUsed, InSlot
    <2>5. CASE state_[p] # "END"
      <3>1. player_[p] # "null"
        BY <2>1, <2>5 DEF EngineUsed
      <3>2. player_'[p] # "null"
        BY <2>1, <2>2, <3>1 DEF onHandleMessage, EngineAfter, IInv, TypeOK
      <3> QED
        BY <2>1, <2>3, <3>2 DEF EngineUsed, InSlot
    <2> QED
      BY <2>4, <2>5
  <1>13. ASSUME dropRequest PROVE EngineUsed'
    BY <1>13 DEF dropRequest, playerVars, EngineUsed, InSlot
  <1>14. ASSUME NEW p \in Players, onPrepareCompleted(p) PROVE EngineUsed'
    <2>1. state_[p] \notin {"CREATED", "END"} /\ InSlot(p)
      BY <1>14 DEF onPrepareCompleted, IInv, EngineInSlot, EngineUnused, EngineSlotted
    <2>2. player_'[p] # "null" /\ \A q \in Players \ {p} : player_'[q] = player_[q] /\ state_'[q] = state_[q]
      BY <1>14, <2>1 DEF onPrepareCompleted, SetState, IInv, TypeOK, EngineUsed
    <2> QED
      BY <1>14, <2>1, <2>2 DEF onPrepareCompleted, EngineUsed, InSlot
  <1>15. ASSUME NEW p \in Players, onSeekCompleted(p) PROVE EngineUsed'
    <2>1. state_[p] \notin {"CREATED", "END"} /\ InSlot(p)
      BY <1>15 DEF onSeekCompleted, IInv, EngineInSlot, EngineUnused, EngineSlotted
    <2>2. player_'[p] # "null" /\ \A q \in Players \ {p} : player_'[q] = player_[q] /\ state_'[q] = state_[q]
      BY <1>15, <2>1 DEF onSeekCompleted, SetState, IInv, TypeOK, EngineUsed
    <2> QED
      BY <1>15, <2>1, <2>2 DEF onSeekCompleted, EngineUsed, InSlot
  <1>16. ASSUME NEW p \in Players, onPlaybackEvent(p) PROVE EngineUsed'
    <2>1. state_[p] \notin {"CREATED", "END"} /\ InSlot(p)
      BY <1>16 DEF onPlaybackEvent, IInv, EngineInSlot, EngineUnused, EngineSlotted
    <2>2. player_'[p] # "null" /\ \A q \in Players \ {p} : player_'[q] = player_[q] /\ state_'[q] = state_[q]
      BY <1>16, <2>1 DEF onPlaybackEvent, SetState, IInv, TypeOK, EngineUsed
    <2> QED
      BY <1>16, <2>1, <2>2 DEF onPlaybackEvent, EngineUsed, InSlot
  <1>17. CASE UNCHANGED vars
    BY <1>17 DEF vars, EngineUsed, InSlot
  <1> QED
    BY <1>1, <1>2, <1>3, <1>4, <1>5, <1>6, <1>7, <1>8, <1>9, <1>10, <1>11, <1>12, <1>13, <1>14, <1>15, <1>16, <1>17
       DEF Next, Poll, ClientReturns, HandleMessage

LEMMA RequestAgrees ==
  ASSUME TypeOK, NEW p \in Players, NEW request \in Requests, NEW r \in EngineResults(request),
         state_[p] \notin {"CREATED", "END"}, player_[p] # "null", Agree(state_[p], player_[p]),
         onHandleMessage(p, request, r)
  PROVE  Agree(state_'[p], player_'[p])
  <1> DEFINE state == state_[p]
             result == Result(request, state, r)
             next == RequestedState(request, state, result)
  <1>1. state \in PlayerStates \ {"CREATED", "END"}
    BY DEF TypeOK
  <1>2. state_'[p] = next
    BY <1>1, NextStatesLegal DEF onHandleMessage, SetState, setState, TypeOK
  <1>3. player_'[p] = IF state \in StateMask[request] THEN EngineAfter(p, request, r) ELSE player_[p]
    BY DEF onHandleMessage, TypeOK
  <1>4. CASE state \notin StateMask[request]
    <2>1. next \in {state, "ERROR"}
      BY <1>1, <1>4, NextStatesLegal
    <2> QED
      BY <1>2, <1>3, <1>4, <2>1 DEF Agree, StateMaskPreparing, StateMaskPrepared
  <1>5. CASE state \in StateMask[request] /\ request \in {"prepare", "prepareAsync"}
    <2>1. result = r /\ state \in {"INITIALIZED", "STOPPED"} /\ player_'[p] = IF r = "ok" THEN "preparing" ELSE "stopped"
      BY <1>3, <1>5 DEF Result, StateMask, EngineAfter
    <2>2. next = IF r = "ok" THEN Target(request, state) ELSE state
      BY <1>5, <2>1 DEF RequestedState, TransitionRequests, FailureIsFatal
    <2>3. Target(request, state) \in StateMaskPreparing
      BY <1>5 DEF Target, StateMaskPreparing
    <2> QED
      BY <1>2, <2>1, <2>2, <2>3 DEF Agree, StateMaskPreparing, StateMaskPrepared
  <1>6. CASE state \in StateMask[request] /\ request \in {"stop", "reset"}
    <2>1. result = "ok" /\ player_'[p] = "stopped"
      BY <1>3, <1>6 DEF Result, EngineResults, EngineAfter
    <2>2. next \in {"STOPPED", "IDLE"}
      BY <1>6, <2>1 DEF RequestedState, TransitionRequests, Target
    <2> QED
      BY <1>2, <2>1, <2>2 DEF Agree, StateMaskPreparing, StateMaskPrepared
  <1>7. CASE state \in StateMask[request] /\ request \notin {"prepare", "prepareAsync", "stop", "reset"}
    <2>1. player_'[p] = player_[p] /\ result = r
      BY <1>3, <1>7 DEF EngineAfter, Result
    <2>2. CASE next = "ERROR" \/ next = state
      BY <1>2, <2>1, <2>2 DEF Agree, StateMaskPreparing, StateMaskPrepared
    <2>3. CASE request \in {"setDataSource", "start", "pause"} /\ next = Target(request, state)
      BY <1>2, <1>7, <2>1, <2>3 DEF Agree, StateMask, StateMaskPreparing, StateMaskPrepared, Target
    <2> QED
      BY <1>7, <2>2, <2>3 DEF RequestedState, TransitionRequests
  <1> QED
    BY <1>4, <1>5, <1>6, <1>7

LEMMA AgreeStep == IInv /\ EngineUsed /\ EnginesAgree /\ [Next]_vars => EnginesAgree'
  <1> SUFFICES ASSUME IInv, EngineUsed, EnginesAgree, [Next]_vars PROVE EnginesAgree'
    OBVIOUS
  <1>1. ASSUME NEW p \in Players, create(p) PROVE EnginesAgree'
    BY <1>1 DEF create, IInv, TypeOK, EngineInSlot, EngineUnused, EnginesAgree
  <1>2. ASSUME NEW c \in Clients, NEW p \in Players, initialize(c, p) PROVE EnginesAgree'
    BY <1>2 DEF initialize, playerVars, EnginesAgree
  <1>3. ASSUME NEW c \in Clients, NEW p \in Players, release(c, p) PROVE EnginesAgree'
    BY <1>3 DEF release, playerVars, EnginesAgree
  <1>4. ASSUME NEW c \in Clients, NEW p \in Players, NEW r \in ClientRequests, callCheck(c, p, r) PROVE EnginesAgree'
    BY <1>4 DEF callCheck, playerVars, EnginesAgree
  <1>5. ASSUME NEW c \in Clients, callPost(c) PROVE EnginesAgree'
    BY <1>5, CallPostEffect DEF IInv, playerVars, EnginesAgree
  <1>6. ASSUME NEW c \in Clients, callReturn(c) PROVE EnginesAgree'
    BY <1>6 DEF callReturn, playerVars, EnginesAgree
  <1>7. ASSUME NEW c \in Clients, prepareReturn(c) PROVE EnginesAgree'
    BY <1>7 DEF prepareReturn, playerVars, EnginesAgree
  <1>8. ASSUME NEW c \in Clients, initializeReturn(c) PROVE EnginesAgree'
    <2> DEFINE p == call[c].player
    <2>1. p \in Players /\ state_[p] = "CREATED"
      BY <1>8, CallersKnown DEF initializeReturn, IInv, RegisterAlone, RegistersCreated
    <2>2. state_' = [state_ EXCEPT ![p] = IF call[c].result = "ok" THEN "IDLE" ELSE "END"]
      BY <1>8, <2>1 DEF initializeReturn, SetState, setState, checkStateTransition
    <2>3. player_[p] = IF call[c].result = "ok" THEN "stopped" ELSE "null"
      BY <1>8 DEF initializeReturn, IInv, EngineInSlot, EngineRegistered
    <2> QED
      BY <1>8, <2>1, <2>2, <2>3 DEF initializeReturn, IInv, TypeOK, EnginesAgree, Agree, StateMaskPreparing, StateMaskPrepared
  <1>9. ASSUME NEW c \in Clients, releaseReturn(c) PROVE EnginesAgree'
    <2> DEFINE p == call[c].player
    <2>1. p \in Players
      BY <1>9, CallersKnown DEF releaseReturn, IInv
    <2>2. /\ player_' = [player_ EXCEPT ![p] = "null"]
          /\ \A q \in Players \ {p} : state_'[q] = state_[q]
      BY <1>9 DEF releaseReturn, SetState, IInv, TypeOK
    <2> QED
      BY <2>1, <2>2 DEF IInv, TypeOK, EnginesAgree
  <1>10. ASSUME handleRegister PROVE EnginesAgree'
    <2>1. state_[msg.player] = "CREATED" /\ msg.player \in Players
      BY <1>10, RegisteringUnslotted DEF handleRegister, IInv
    <2>2. UNCHANGED state_ /\ \A q \in Players : q # msg.player => player_'[q] = player_[q]
      BY <1>10 DEF handleRegister, IInv, TypeOK
    <2>3. Agree("CREATED", player_'[msg.player])
      BY DEF Agree, StateMaskPreparing, StateMaskPrepared
    <2> QED
      BY <2>1, <2>2, <2>3 DEF EnginesAgree
  <1>11. ASSUME handleUnregister PROVE EnginesAgree'
    BY <1>11 DEF handleUnregister, IInv, TypeOK, EnginesAgree
  <1>12. ASSUME handleRequest PROVE EnginesAgree'
    <2> DEFINE p == msg.player
    <2>1. p \in Players /\ msg.what \in Requests /\ state_[p] # "CREATED"
      BY <1>12, RequestSlotted DEF IInv
    <2>2. PICK r \in EngineResults(msg.what) : onHandleMessage(p, msg.what, r)
      BY <1>12 DEF handleRequest
    <2>3. \A q \in Players \ {p} : player_'[q] = player_[q] /\ state_'[q] = state_[q]
      BY <2>1, <2>2 DEF onHandleMessage, SetState, IInv, TypeOK
    <2>4. CASE state_[p] = "END"
      BY <2>1, <2>2, <2>3, <2>4, EndedStays DEF IInv, EnginesAgree
    <2>5. CASE state_[p] # "END" /\ player_[p] # "null"
      BY <2>1, <2>2, <2>3, <2>5, RequestAgrees DEF IInv, EnginesAgree
    <2>6. CASE state_[p] # "END" /\ player_[p] = "null"
      BY <1>12, <2>1, <2>6, RequestSlotted DEF IInv, EngineUsed
    <2> QED
      BY <2>4, <2>5, <2>6
  <1>13. ASSUME dropRequest PROVE EnginesAgree'
    BY <1>13 DEF dropRequest, playerVars, EnginesAgree
  <1>14. ASSUME NEW p \in Players, onPrepareCompleted(p) PROVE EnginesAgree'
    <2>1. state_[p] \notin {"CREATED", "END"}
      BY <1>14 DEF onPrepareCompleted, IInv, EngineInSlot, EngineUnused
    <2>2. Agree(state_'[p], player_'[p])
      <3>1. PICK r \in {"ok", "error"} :
              /\ player_' = [player_ EXCEPT ![p] = IF r = "ok" THEN "prepared" ELSE "stopped"]
              /\ SetState(p, AfterPrepareCompleted(state_[p], r))
        BY <1>14 DEF onPrepareCompleted
      <3>2. state_'[p] = AfterPrepareCompleted(state_[p], r)
        BY <2>1, <3>1 DEF SetState, setState, checkStateTransition, Successors, AfterPrepareCompleted, IInv, TypeOK, StateMaskPreparing
      <3> QED
        BY <3>1, <3>2 DEF AfterPrepareCompleted, Agree, StateMaskPreparing, StateMaskPrepared, IInv, TypeOK
    <2>3. \A q \in Players \ {p} : player_'[q] = player_[q] /\ state_'[q] = state_[q]
      BY <1>14 DEF onPrepareCompleted, SetState, IInv, TypeOK
    <2> QED
      BY <2>2, <2>3 DEF EnginesAgree
  <1>15. ASSUME NEW p \in Players, onSeekCompleted(p) PROVE EnginesAgree'
    <2>1. state_[p] \notin {"CREATED", "END"}
      BY <1>15 DEF onSeekCompleted, IInv, EngineInSlot, EngineUnused
    <2>2. Agree(state_'[p], player_'[p])
      <3>1. player_[p] # "null"
        BY <1>15, <2>1 DEF onSeekCompleted, IInv, EngineInSlot, EngineSlotted, EngineUsed
      <3>2. UNCHANGED player_ /\ state_'[p] \in {state_[p], "ERROR"}
        BY <1>15 DEF onSeekCompleted, SetState, setState, IInv, TypeOK
      <3> QED
        BY <3>1, <3>2 DEF EnginesAgree, Agree, StateMaskPreparing, StateMaskPrepared
    <2>3. \A q \in Players \ {p} : player_'[q] = player_[q] /\ state_'[q] = state_[q]
      BY <1>15 DEF onSeekCompleted, SetState, IInv, TypeOK
    <2> QED
      BY <2>2, <2>3 DEF EnginesAgree
  <1>16. ASSUME NEW p \in Players, onPlaybackEvent(p) PROVE EnginesAgree'
    <2>1. state_[p] \notin {"CREATED", "END"}
      BY <1>16 DEF onPlaybackEvent, IInv, EngineInSlot, EngineUnused
    <2>2. Agree(state_'[p], player_'[p])
      BY <1>16, <2>1, PlaybackStates DEF onPlaybackEvent, SetState, setState, IInv, TypeOK, EnginesAgree, Agree, StateMaskPreparing, StateMaskPrepared
    <2>3. \A q \in Players \ {p} : player_'[q] = player_[q] /\ state_'[q] = state_[q]
      BY <1>16 DEF onPlaybackEvent, SetState, IInv, TypeOK
    <2> QED
      BY <2>2, <2>3 DEF EnginesAgree
  <1>17. CASE UNCHANGED vars
    BY <1>17 DEF vars, EnginesAgree
  <1> QED
    BY <1>1, <1>2, <1>3, <1>4, <1>5, <1>6, <1>7, <1>8, <1>9, <1>10, <1>11, <1>12, <1>13, <1>14, <1>15, <1>16, <1>17
       DEF Next, Poll, ClientReturns, HandleMessage

\* Every reachable state is well typed.
THEOREM TypeCorrect == Spec => []TypeOK
  BY InductiveHolds, PTL DEF IInv

\* An answer is always written into the frame of the call it belongs to, however
\* requests, registrations and releases interleave.
THEOREM PointersStayLive == Spec => []ResultPointersLive
  BY InductiveHolds, PTL DEF IInv

\* What clients see of a player and what its engine does never contradict each
\* other, even when release() races other calls.
THEOREM EngineFollowsState == Spec => []EngineMatchesState
  <1>1. Init => EngineUsed /\ EnginesAgree
    BY DEF Init, EngineUsed, EnginesAgree, InSlot
  <1>2. IInv /\ EngineUsed /\ EnginesAgree /\ [Next]_vars => (EngineUsed /\ EnginesAgree)'
    BY UsedStep, AgreeStep
  <1>3. EnginesAgree => EngineMatchesState
    BY DEF EnginesAgree, EngineMatchesState
  <1> QED
    BY <1>1, <1>2, <1>3, InductiveHolds, PTL DEF Spec

(***************************************************************************)
(* The public state follows the life cycle.                                *)
(***************************************************************************)
LifecycleMove(from, to) ==
  \/ to = "END"
  \/ from \notin {"CREATED", "END"} /\ to \in {"IDLE", "ERROR"}
  \/ from = "CREATED" /\ to = "IDLE"
  \/ from = "IDLE" /\ to = "INITIALIZED"
  \/ from \in {"INITIALIZED", "STOPPED"} /\ to \in StateMaskPreparing
  \/ from \in StateMaskPreparing /\ to = "PREPARED"
  \/ from \in StateMaskPrepared /\ to \in {"STARTED", "STOPPED"}
  \/ from = "STARTED" /\ to = "PAUSED"
  \/ from \in {"STARTED", "PAUSED"} /\ to = "PLAYBACK_COMPLETED"
  \/ from = "END" /\ to = "CREATED"

LEMMA MoveFollowsLifecycle ==
  ASSUME TypeOK, NEW p \in Players, NEW to, LifecycleMove(state_[p], to), state_' = [state_ EXCEPT ![p] = to]
  PROVE  Lifecycle!Next
  BY DEF LifecycleMove, StateMaskPreparing, StateMaskPrepared, Lifecycle!Next, Lifecycle!Move, Lifecycle!Prepared,
         Lifecycle!Initialize, Lifecycle!SetDataSource, Lifecycle!Prepare, Lifecycle!PrepareDone, Lifecycle!Start,
         Lifecycle!Pause, Lifecycle!Complete, Lifecycle!Stop, Lifecycle!Reset, Lifecycle!Fail, Lifecycle!Release,
         Lifecycle!Create

\* What setState() lets through is a move of the life cycle or changes nothing.
LEMMA SetStateMoves ==
  ASSUME TypeOK, NEW p \in Players, NEW next, SetState(p, next),
         checkStateTransition(state_[p], next) => LifecycleMove(state_[p], next)
  PROVE  [Lifecycle!Next]_state_
  <1>1. CASE checkStateTransition(state_[p], next)
    <2>1. state_' = [state_ EXCEPT ![p] = next]
      BY <1>1 DEF SetState, setState
    <2> QED
      BY <1>1, <2>1, MoveFollowsLifecycle
  <1>2. CASE ~checkStateTransition(state_[p], next)
    <2>1. state_' = state_
      BY <1>2 DEF SetState, setState, TypeOK
    <2> QED
      BY <2>1
  <1> QED
    BY <1>1, <1>2

LEMMA RequestMoves ==
  ASSUME NEW state \in PlayerStates \ {"CREATED", "END"}, NEW request \in Requests, NEW r \in EngineResults(request)
  PROVE  LET next == RequestedState(request, state, Result(request, state, r))
         IN next # state => LifecycleMove(state, next)
  <1> DEFINE result == Result(request, state, r)
             next == RequestedState(request, state, result)
  <1>1. CASE result = "ok" /\ request \in TransitionRequests
    <2>1. next = Target(request, state) /\ state \in StateMask[request]
      BY <1>1 DEF RequestedState, Result
    <2> QED
      BY <1>1, <2>1 DEF Target, StateMask, TransitionRequests, LifecycleMove, StateMaskPreparing, StateMaskPrepared
  <1>2. CASE next \in {state, "ERROR"}
    BY <1>2 DEF LifecycleMove
  <1> QED
    BY <1>1, <1>2 DEF RequestedState

LEMMA LifecycleStep == IInv /\ [Next]_vars => [Lifecycle!Next]_state_
  <1> SUFFICES ASSUME IInv, [Next]_vars PROVE [Lifecycle!Next]_state_
    OBVIOUS
  <1>1. ASSUME NEW p \in Players, create(p) PROVE [Lifecycle!Next]_state_
    BY <1>1, MoveFollowsLifecycle DEF create, IInv, LifecycleMove
  <1>2. ASSUME NEW c \in Clients, NEW p \in Players, initialize(c, p) PROVE [Lifecycle!Next]_state_
    BY <1>2 DEF initialize, playerVars
  <1>3. ASSUME NEW c \in Clients, NEW p \in Players, release(c, p) PROVE [Lifecycle!Next]_state_
    BY <1>3 DEF release, playerVars
  <1>4. ASSUME NEW c \in Clients, NEW p \in Players, NEW r \in ClientRequests, callCheck(c, p, r) PROVE [Lifecycle!Next]_state_
    BY <1>4 DEF callCheck, playerVars
  <1>5. ASSUME NEW c \in Clients, callPost(c) PROVE [Lifecycle!Next]_state_
    BY <1>5, CallPostEffect DEF IInv, playerVars
  <1>6. ASSUME NEW c \in Clients, callReturn(c) PROVE [Lifecycle!Next]_state_
    BY <1>6 DEF callReturn, playerVars
  <1>7. ASSUME NEW c \in Clients, prepareReturn(c) PROVE [Lifecycle!Next]_state_
    BY <1>7 DEF prepareReturn, playerVars
  <1>8. ASSUME NEW c \in Clients, initializeReturn(c) PROVE [Lifecycle!Next]_state_
    <2>1. call[c].player \in Players /\ state_[call[c].player] = "CREATED"
      BY <1>8, CallersKnown DEF initializeReturn, IInv, RegisterAlone, RegistersCreated
    <2> QED
      BY <1>8, <2>1, SetStateMoves DEF initializeReturn, IInv, LifecycleMove
  <1>9. ASSUME NEW c \in Clients, releaseReturn(c) PROVE [Lifecycle!Next]_state_
    <2>1. call[c].player \in Players
      BY <1>9, CallersKnown DEF releaseReturn, IInv
    <2> QED
      BY <1>9, <2>1, SetStateMoves DEF releaseReturn, IInv, LifecycleMove
  <1>10. ASSUME handleRegister PROVE [Lifecycle!Next]_state_
    BY <1>10 DEF handleRegister, playerVars
  <1>11. ASSUME handleUnregister PROVE [Lifecycle!Next]_state_
    BY <1>11 DEF handleUnregister, playerVars
  <1>12. ASSUME handleRequest PROVE [Lifecycle!Next]_state_
    <2> DEFINE p == msg.player
    <2>1. p \in Players /\ msg.what \in Requests /\ state_[p] # "CREATED"
      BY <1>12, RequestSlotted DEF IInv
    <2>2. PICK r \in EngineResults(msg.what) : onHandleMessage(p, msg.what, r)
      BY <1>12 DEF handleRequest
    <2>3. CASE state_[p] = "END"
      BY <2>1, <2>2, <2>3, EndedStays DEF IInv
    <2>4. CASE state_[p] # "END"
      <3> DEFINE next == RequestedState(msg.what, state_[p], Result(msg.what, state_[p], r))
      <3>1. next # state_[p] => LifecycleMove(state_[p], next)
        BY <2>1, <2>4, RequestMoves DEF IInv, TypeOK
      <3>2. UNCHANGED state_ \/ (next # state_[p] /\ SetState(p, next))
        BY <2>2 DEF onHandleMessage
      <3> HIDE DEF next
      <3> QED
        BY <2>1, <3>1, <3>2, SetStateMoves DEF IInv
    <2> QED
      BY <2>3, <2>4
  <1>13. ASSUME dropRequest PROVE [Lifecycle!Next]_state_
    BY <1>13 DEF dropRequest, playerVars
  <1>14. ASSUME NEW p \in Players, onPrepareCompleted(p) PROVE [Lifecycle!Next]_state_
    <2>1. state_[p] \notin {"CREATED", "END"}
      BY <1>14 DEF onPrepareCompleted, IInv, EngineInSlot, EngineUnused
    <2>2. PICK r \in {"ok", "error"} : SetState(p, AfterPrepareCompleted(state_[p], r))
      BY <1>14 DEF onPrepareCompleted
    <2>3. LifecycleMove(state_[p], AfterPrepareCompleted(state_[p], r))
      BY <2>1 DEF AfterPrepareCompleted, LifecycleMove
    <2> QED
      BY <2>2, <2>3, SetStateMoves DEF IInv
  <1>15. ASSUME NEW p \in Players, onSeekCompleted(p) PROVE [Lifecycle!Next]_state_
    <2>1. state_[p] \notin {"CREATED", "END"}
      BY <1>15 DEF onSeekCompleted, IInv, EngineInSlot, EngineUnused
    <2> QED
      BY <1>15, <2>1, SetStateMoves DEF onSeekCompleted, IInv, LifecycleMove
  <1>16. ASSUME NEW p \in Players, onPlaybackEvent(p) PROVE [Lifecycle!Next]_state_
    <2>1. state_[p] \notin {"CREATED", "END"}
      BY <1>16 DEF onPlaybackEvent, IInv, EngineInSlot, EngineUnused
    <2>2. PICK next \in {AfterPlaybackCompletion(state_[p]), AfterStartedAsNextPlayer(state_[p])} \ {state_[p]} :
                 SetState(p, next)
      BY <1>16 DEF onPlaybackEvent
    <2>3. LifecycleMove(state_[p], next)
      BY <2>1 DEF AfterPlaybackCompletion, AfterStartedAsNextPlayer, LifecycleMove, StateMaskPrepared
    <2> QED
      BY <2>2, <2>3, SetStateMoves DEF IInv
  <1>17. CASE UNCHANGED vars
    BY <1>17 DEF vars
  <1> QED
    BY <1>1, <1>2, <1>3, <1>4, <1>5, <1>6, <1>7, <1>8, <1>9, <1>10, <1>11, <1>12, <1>13, <1>14, <1>15, <1>16, <1>17
       DEF Next, Poll, ClientReturns, HandleMessage


\* The players implement the life cycle of a media player, even when release()
\* races other calls.
THEOREM ImplementsLifecycle == Spec => LifecycleSpec
  <1>1. Init => Lifecycle!Init
    BY DEF Init, Lifecycle!Init
  <1> QED
    BY <1>1, LifecycleStep, InductiveHolds, PTL DEF Spec, LifecycleSpec, Lifecycle!Spec

(***************************************************************************)
(* Releases kept apart: who may be in a call together.                     *)
(***************************************************************************)
\* The application drives each player from one thread.
OneThreadEach == \A c, d \in Clients, p \in Players : <<c, p>> \in MayCall /\ <<d, p>> \in MayCall => c = d

\* No call is made to a player that is being released: the application sees to it,
\* or it has no other thread to make one.
ReleaseKeptApart == ReleaseAlone \/ OneThreadEach

CallersAllowed == \A c \in Clients : call[c].player # None => <<c, call[c].player>> \in MayCall

UnregisterAlone == \A c, d \in Clients :
  call[c].what = "unregister" /\ call[c].player = call[d].player => c = d

CallsApart == CallersAllowed /\ UnregisterAlone

LEMMA CallerEffect ==
  ASSUME TypeOK, NEW c \in Clients, NEW new, call' = [call EXCEPT ![c] = new]
  PROVE  \A d \in Clients : call'[d] = IF d = c THEN new ELSE call[d]
  BY DEF TypeOK

\* A thread that is in no call is alone with its players, if nobody shares them.
LEMMA IdleAlone ==
  ASSUME OneThreadEach, CallersAllowed, NEW c \in Clients, NEW p \in Players, <<c, p>> \in MayCall,
         call[c].player = None
  PROVE  \A d \in Clients : call[d].player # p
  BY NoneAssumption DEF OneThreadEach, CallersAllowed

LEMMA ApartStep ==
  ASSUME ReleaseKeptApart
  PROVE  IInv /\ CallsApart /\ [Next]_vars => CallsApart'
  <1> SUFFICES ASSUME IInv, CallsApart, [Next]_vars PROVE CallsApart'
    OBVIOUS
  <1>0. TypeOK /\ CallsFormed /\ ResultPointersLive
    BY DEF IInv
  <1> DEFINE Keeps == \A d \in Clients : call'[d].player = call[d].player /\ call'[d].what = call[d].what
             Ends(c) == \A d \in Clients : call'[d] = IF d = c THEN NoCall ELSE call[d]
             Starts(c, p, what) == \A d \in Clients :
               /\ call'[d].player = IF d = c THEN p ELSE call[d].player
               /\ call'[d].what = IF d = c THEN what ELSE call[d].what
  <1>a. Keeps => CallsApart'
    BY DEF CallsApart, CallersAllowed, UnregisterAlone
  <1>b. ASSUME NEW c \in Clients, Ends(c) PROVE CallsApart'
    <2>1. \A d \in Clients : call'[d] \in {call[d], NoCall}
      BY <1>b
    <2>2. NoCall.player = None /\ NoCall.what = "none"
      BY DEF NoCall
    <2>3. \A d \in Clients : call[d].what = "unregister" => call[d].player # None
      BY <1>0, CallersKnown, NoneAssumption
    <2> HIDE DEF Ends
    <2>4. CallersAllowed'
      BY <2>1, <2>2 DEF CallsApart, CallersAllowed
    <2>5. UnregisterAlone'
      BY <2>1, <2>2, <2>3 DEF CallsApart, UnregisterAlone
    <2> QED
      BY <2>4, <2>5 DEF CallsApart
  <1>1. ASSUME NEW p \in Players, create(p) PROVE CallsApart'
    BY <1>1, <1>a DEF create
  <1>2. ASSUME NEW c \in Clients, NEW p \in Players, initialize(c, p) PROVE CallsApart'
    <2>1. /\ <<c, p>> \in MayCall /\ \A d \in Clients : call[d].player # p
          /\ \A d \in Clients : call'[d] = IF d = c THEN Call("waiting", p, "register") ELSE call[d]
      BY <1>0, <1>2, ContextPostEffect DEF initialize, Calling, TypeOK
    <2> QED
      BY <2>1 DEF CallsApart, CallersAllowed, UnregisterAlone, Call
  <1>3. ASSUME NEW c \in Clients, NEW p \in Players, release(c, p) PROVE CallsApart'
    <2>1. /\ <<c, p>> \in MayCall /\ call[c].player = None
          /\ \A d \in Clients : call'[d] = IF d = c THEN Call("waiting", p, "unregister") ELSE call[d]
      BY <1>0, <1>3, ContextPostEffect, CallersKnown DEF release, TypeOK, NoCall
    <2>2. \A d \in Clients : call[d].player # p
      <3>1. CASE ReleaseAlone
        BY <1>3, <3>1 DEF release, Calling
      <3>2. CASE OneThreadEach
        BY <2>1, <3>2, IdleAlone DEF CallsApart
      <3> QED
        BY <3>1, <3>2 DEF ReleaseKeptApart
    <2> QED
      BY <2>1, <2>2 DEF CallsApart, CallersAllowed, UnregisterAlone, Call
  <1>4. ASSUME NEW c \in Clients, NEW p \in Players, NEW r \in ClientRequests, callCheck(c, p, r) PROVE CallsApart'
    <2>1. /\ <<c, p>> \in MayCall /\ call[c].player = None /\ r \in Requests
          /\ \A d \in Clients : call'[d] = IF d = c THEN Call("checked", p, r) ELSE call[d]
      BY <1>0, <1>4, CallersKnown, RequestsAssumption DEF callCheck, TypeOK, NoCall
    <2>2. \A d \in Clients : call[d].player = p => call[d].what # "unregister"
      <3>1. CASE ReleaseAlone
        BY <1>4, <3>1 DEF callCheck, Calling
      <3>2. CASE OneThreadEach
        BY <2>1, <3>2, IdleAlone DEF CallsApart
      <3> QED
        BY <3>1, <3>2 DEF ReleaseKeptApart
    <2> QED
      BY <2>1, <2>2 DEF CallsApart, CallersAllowed, UnregisterAlone, Call, Requests
  <1>5. ASSUME NEW c \in Clients, callPost(c) PROVE CallsApart'
    <2>1. CASE call' = [call EXCEPT ![c] = NoCall]
      BY <1>0, <1>b, <2>1, CallerEffect
    <2>2. CASE call' = [call EXCEPT ![c] = Call("waiting", call[c].player, call[c].what)]
      BY <1>0, <1>a, <2>2, CallerEffect DEF Call
    <2> QED
      BY <1>0, <1>5, <2>1, <2>2, CallPostEffect
  <1>6. ASSUME NEW c \in Clients, callReturn(c) PROVE CallsApart'
    <2>1. CASE call' = [call EXCEPT ![c] = NoCall]
      BY <1>0, <1>b, <2>1, CallerEffect
    <2>2. CASE call[c].what = "prepare" /\ call' = [call EXCEPT ![c] = Call("preparing", call[c].player, "prepare")]
      BY <1>0, <1>a, <2>2, CallerEffect DEF Call
    <2> QED
      BY <1>0, <1>6, <2>1, <2>2 DEF callReturn
  <1>7. ASSUME NEW c \in Clients, prepareReturn(c) PROVE CallsApart'
    BY <1>0, <1>7, <1>b, CallerEffect DEF prepareReturn
  <1>8. ASSUME NEW c \in Clients, initializeReturn(c) PROVE CallsApart'
    <2>1. call' = [call EXCEPT ![c] = NoCall]
      BY <1>8 DEF initializeReturn
    <2>2. Ends(c)
      BY <1>0, <2>1, CallerEffect
    <2> QED
      BY <1>b, <2>2
  <1>9. ASSUME NEW c \in Clients, releaseReturn(c) PROVE CallsApart'
    <2>1. call' = [call EXCEPT ![c] = NoCall]
      BY <1>9 DEF releaseReturn
    <2>2. Ends(c)
      BY <1>0, <2>1, CallerEffect
    <2> QED
      BY <1>b, <2>2
  <1>10. ASSUME NEW result, notifyResult(result) PROVE CallsApart'
    BY <1>0, <1>10, <1>a, NotifyKeeps
  <1>11. ASSUME handleRequest PROVE CallsApart'
    BY <1>11, <1>10 DEF handleRequest, onHandleMessage
  <1>12. ASSUME UNCHANGED call PROVE CallsApart'
    BY <1>12, <1>a
  <1> HIDE DEF Keeps
  <1> QED
    BY <1>1, <1>2, <1>3, <1>4, <1>5, <1>6, <1>7, <1>8, <1>9, <1>10, <1>11, <1>12
       DEF Next, Poll, ClientReturns, HandleMessage, handleRegister, handleUnregister, dropRequest,
           onPrepareCompleted, onSeekCompleted, onPlaybackEvent, vars

(***************************************************************************)
(* The token of a player.                                                  *)
(***************************************************************************)
\* p's release has been carried out, and its caller does not know it yet.
Unregistered(p) == \E c \in Clients : call[c] = [Call("answered", p, "unregister") EXCEPT !.result = "ok"]

UsedTagged == \A p \in Players : state_[p] \notin {"CREATED", "END"} => msg_handler_token_[p] # 0

TokensHeld == \A p \in Players : msg_handler_token_[p] # 0 => InSlot(p) \/ Unregistered(p)

TokensKept == UsedTagged /\ TokensHeld

\* A call that is not an answered unregister may end or change.
LEMMA UnregisteredStays ==
  ASSUME TypeOK, NEW p \in Players, Unregistered(p), NEW c \in Clients, NEW new,
         call' = [call EXCEPT ![c] = new],
         call[c].what # "unregister" \/ call[c].pc # "answered" \/ call[c].player # p
  PROVE  Unregistered(p)'
  <1>1. PICK d \in Clients : call[d] = [Call("answered", p, "unregister") EXCEPT !.result = "ok"]
    BY DEF Unregistered
  <1>2. call[d].what = "unregister" /\ call[d].pc = "answered" /\ call[d].player = p
    BY <1>1 DEF Call
  <1>3. call'[d] = call[d]
    BY <1>2 DEF TypeOK
  <1> QED
    BY <1>1, <1>3 DEF Unregistered

\* A step that leaves tokens and slots alone and takes no player into use keeps the tokens.
LEMMA TokensUntouched ==
  ASSUME TypeOK, TokensKept, UNCHANGED <<msg_handler_token_, msgHandlers_>>,
         \A p \in Players : state_[p] \in {"CREATED", "END"} => state_'[p] \in {"CREATED", "END"},
         \A p \in Players : Unregistered(p) => Unregistered(p)'
  PROVE  TokensKept'
  BY DEF TokensKept, UsedTagged, TokensHeld, InSlot

LEMMA SetStateUsedStays ==
  ASSUME TypeOK, NEW p \in Players, NEW next, SetState(p, next), state_[p] \notin {"CREATED", "END"}
  PROVE  \A q \in Players : state_[q] \in {"CREATED", "END"} => state_'[q] \in {"CREATED", "END"}
  BY DEF SetState, TypeOK

LEMMA TokensStep == IInv /\ TokensKept /\ [Next]_vars => TokensKept'
  <1> SUFFICES ASSUME IInv, TokensKept, [Next]_vars PROVE TokensKept'
    OBVIOUS
  <1>0. TypeOK /\ CallsFormed /\ ResultPointersLive
    BY DEF IInv
  <1>a. ASSUME UNCHANGED <<msg_handler_token_, msgHandlers_, state_, call>> PROVE TokensKept'
    BY <1>a DEF TokensKept, UsedTagged, TokensHeld, InSlot, Unregistered
  <1>b. ASSUME NEW c \in Clients, NEW new, call' = [call EXCEPT ![c] = new],
               call[c].what # "unregister" \/ call[c].pc # "answered",
               UNCHANGED <<msg_handler_token_, msgHandlers_, state_>>
        PROVE  TokensKept'
    BY <1>0, <1>b, UnregisteredStays, TokensUntouched
  <1>1. ASSUME NEW p \in Players, create(p) PROVE TokensKept'
    <2>1. \A q \in Players : state_[q] \in {"CREATED", "END"} => state_'[q] \in {"CREATED", "END"}
      BY <1>0, <1>1 DEF create, TypeOK
    <2> QED
      BY <1>0, <1>1, <2>1, TokensUntouched DEF create, Unregistered
  <1>2. ASSUME NEW c \in Clients, NEW p \in Players, initialize(c, p) PROVE TokensKept'
    BY <1>0, <1>2, <1>b, ContextPostEffect DEF initialize, playerVars
  <1>3. ASSUME NEW c \in Clients, NEW p \in Players, release(c, p) PROVE TokensKept'
    BY <1>0, <1>3, <1>b, ContextPostEffect DEF release, playerVars
  <1>4. ASSUME NEW c \in Clients, NEW p \in Players, NEW r \in ClientRequests, callCheck(c, p, r) PROVE TokensKept'
    BY <1>4, <1>b DEF callCheck, playerVars
  <1>5. ASSUME NEW c \in Clients, callPost(c) PROVE TokensKept'
    <2>1. call[c].pc # "answered" /\ UNCHANGED <<msg_handler_token_, msgHandlers_, state_>>
      BY <1>5 DEF callPost, playerVars
    <2> QED
      BY <1>0, <1>5, <1>b, <2>1, CallPostEffect
  <1>6. ASSUME NEW c \in Clients, callReturn(c) PROVE TokensKept'
    BY <1>6, <1>b DEF callReturn, playerVars, Requests
  <1>7. ASSUME NEW c \in Clients, prepareReturn(c) PROVE TokensKept'
    BY <1>7, <1>b DEF prepareReturn
  <1>8. ASSUME NEW c \in Clients, initializeReturn(c) PROVE TokensKept'
    <2> DEFINE p == call[c].player
    <2>1. p \in Players /\ state_[p] = "CREATED"
      BY <1>8, <1>0, CallersKnown DEF initializeReturn, IInv, RegisterAlone, RegistersCreated
    <2>2. state_' = [state_ EXCEPT ![p] = IF call[c].result = "ok" THEN "IDLE" ELSE "END"]
      BY <1>8, <2>1 DEF initializeReturn, SetState, setState, checkStateTransition
    <2>3. call[c].result = "ok" => InSlot(p)
      BY <1>8, <2>1 DEF initializeReturn, IInv, EngineInSlot, EngineRegistered, EngineSlotted
    <2>4. call[c].result = "ok" => msg_handler_token_[p] # 0
      BY <2>3 DEF InSlot, Slots
    <2>5. UNCHANGED <<msg_handler_token_, msgHandlers_>> /\ call' = [call EXCEPT ![c] = NoCall]
          /\ call[c].what # "unregister"
      BY <1>8 DEF initializeReturn
    <2>6. UsedTagged'
      BY <1>0, <2>2, <2>4, <2>5 DEF TokensKept, UsedTagged, TypeOK
    <2>7. TokensHeld'
      BY <1>0, <2>5, UnregisteredStays DEF TokensKept, TokensHeld, InSlot
    <2> QED
      BY <2>6, <2>7 DEF TokensKept
  <1>9. ASSUME NEW c \in Clients, releaseReturn(c) PROVE TokensKept'
    <2> DEFINE p == call[c].player
    <2>1. p \in Players
      BY <1>9, <1>0, CallersKnown DEF releaseReturn
    <2>2. state_' = [state_ EXCEPT ![p] = "END"]
      BY <1>9 DEF releaseReturn, SetState, setState, checkStateTransition
    <2>3. /\ UNCHANGED msgHandlers_ /\ call' = [call EXCEPT ![c] = NoCall]
          /\ msg_handler_token_' = [msg_handler_token_ EXCEPT ![p] = 0]
      BY <1>9 DEF releaseReturn
    <2>4. UsedTagged'
      BY <1>0, <2>2, <2>3 DEF TokensKept, UsedTagged, TypeOK
    <2>5. \A q \in Players : q # p /\ Unregistered(q) => Unregistered(q)'
      BY <1>0, <2>3, UnregisteredStays
    <2>6. \A q \in Players \ {p} : msg_handler_token_'[q] = msg_handler_token_[q]
      BY <2>3, <1>0 DEF TypeOK
    <2>7. msg_handler_token_'[p] = 0
      BY <2>1, <2>3, <1>0 DEF TypeOK
    <2>8. TokensHeld'
      BY <2>3, <2>5, <2>6, <2>7 DEF TokensKept, TokensHeld, InSlot
    <2> QED
      BY <2>4, <2>8 DEF TokensKept
  <1>10. ASSUME handleRegister PROVE TokensKept'
    <2>0. PICK p \in Players, c \in Clients :
            p = msg.player /\ c = msg.client /\ call[c] = Call("waiting", p, "register") /\ msg.what = "register"
      BY <1>10, <1>0, HandlingEffect DEF handleRegister
    <2>1. call[c].pc # "answered" /\ \E new : call' = [call EXCEPT ![c] = new]
      BY <2>0, <1>10 DEF handleRegister, notifyResult, Call
    <2>2. UNCHANGED state_ /\ state_[p] = "CREATED"
      BY <1>10, <2>0, RegisteringUnslotted DEF handleRegister, IInv
    <2>3. CASE UNCHANGED <<msgHandlers_, msg_handler_token_>>
      BY <1>b, <2>1, <2>2, <2>3
    <2>4. CASE \E s \in Slots : /\ FirstFree(s)
                               /\ msgHandlers_' = [msgHandlers_ EXCEPT ![s] = p]
                               /\ msg_handler_token_' = [msg_handler_token_ EXCEPT ![p] = s]
      <3>1. PICK s \in Slots : /\ FirstFree(s)
                              /\ msgHandlers_' = [msgHandlers_ EXCEPT ![s] = p]
                              /\ msg_handler_token_' = [msg_handler_token_ EXCEPT ![p] = s]
        BY <2>4
      <3>2. msgHandlers_[s] = None
        BY <3>1 DEF FirstFree
      <3>3. InSlot(p)'
        BY <1>0, <3>1 DEF InSlot, TypeOK
      <3>4. \A q \in Players \ {p} : InSlot(q) => InSlot(q)'
        BY <1>0, <3>1, <3>2, NoneAssumption DEF InSlot, TypeOK
      <3>5. \A q \in Players \ {p} : msg_handler_token_'[q] = msg_handler_token_[q]
        BY <1>0, <3>1 DEF TypeOK
      <3>6. \A q \in Players : Unregistered(q) => Unregistered(q)'
        BY <1>0, <2>1, UnregisteredStays
      <3>7. TokensHeld'
        BY <3>3, <3>4, <3>5, <3>6 DEF TokensKept, TokensHeld
      <3>8. UsedTagged'
        BY <2>2, <3>5 DEF TokensKept, UsedTagged
      <3> QED
        BY <3>7, <3>8 DEF TokensKept
    <2> QED
      BY <1>10, <2>0, <2>3, <2>4 DEF handleRegister
  <1>11. ASSUME handleUnregister PROVE TokensKept'
    <2>0. PICK p \in Players, c \in Clients :
            p = msg.player /\ c = msg.client /\ call[c] = Call("waiting", p, "unregister") /\ msg.what = "unregister"
      BY <1>11, <1>0, HandlingEffect DEF handleUnregister
    <2>1. call' = [call EXCEPT ![c] = [pc |-> "answered", player |-> p, what |-> "unregister", result |-> "ok"]]
      BY <1>0, <1>11, <2>0, NotifyEffect DEF handleUnregister
    <2>2. Unregistered(p)'
      BY <1>0, <2>1 DEF TypeOK, Unregistered, Call
    <2>3. \A q \in Players : Unregistered(q) => Unregistered(q)'
      <3>1. call[c].pc # "answered"
        BY <2>0 DEF Call
      <3> QED
        BY <1>0, <2>1, <3>1, UnregisteredStays
    <2>4. \A s \in Slots : msgHandlers_[s] # p => msgHandlers_'[s] = msgHandlers_[s]
      BY <1>0, <1>11, <2>0 DEF handleUnregister, TypeOK
    <2>5. UNCHANGED <<state_, msg_handler_token_>>
      BY <1>11 DEF handleUnregister
    <2>6. TokensHeld'
      BY <2>2, <2>3, <2>4, <2>5 DEF TokensKept, TokensHeld, InSlot
    <2> QED
      BY <2>5, <2>6 DEF TokensKept, UsedTagged
  <1>12. ASSUME handleRequest PROVE TokensKept'
    <2>0. PICK p \in Players, c \in Clients :
            p = msg.player /\ c = msg.client /\ call[c] = Call("waiting", p, msg.what) /\ msg.what \in Requests
      BY <1>12, <1>0, HandlingEffect DEF handleRequest
    <2>1. PICK r \in EngineResults(msg.what) : onHandleMessage(p, msg.what, r)
      BY <1>12, <2>0 DEF handleRequest
    <2>2. call[c].pc # "answered" /\ \E new : call' = [call EXCEPT ![c] = new]
      <3>1. PICK result : notifyResult(result)
        BY <2>1 DEF onHandleMessage
      <3>2. call' = [call EXCEPT ![c] = [pc |-> "answered", player |-> p, what |-> msg.what, result |-> result]]
        BY <1>0, <2>0, <3>1, NotifyEffect
      <3>3. call[c].pc # "answered"
        BY <2>0 DEF Call
      <3> QED
        BY <3>2, <3>3
    <2>3. \A q \in Players : state_[q] \in {"CREATED", "END"} => state_'[q] \in {"CREATED", "END"}
      <3>1. state_[p] # "CREATED"
        BY <1>12, <2>0, RequestSlotted DEF IInv
      <3>2. CASE state_[p] = "END"
        BY <1>0, <2>0, <2>1, <3>2, EndedStays
      <3>3. CASE state_[p] # "END"
        BY <1>0, <2>1, <3>1, <3>3, SetStateUsedStays DEF onHandleMessage
      <3> QED
        BY <3>2, <3>3
    <2>4. \A q \in Players : Unregistered(q) => Unregistered(q)'
      BY <1>0, <2>2, UnregisteredStays
    <2> QED
      BY <1>0, <1>12, <2>3, <2>4, TokensUntouched DEF handleRequest
  <1>13. ASSUME dropRequest PROVE TokensKept'
    BY <1>13, <1>a DEF dropRequest, playerVars
  <1>14. ASSUME NEW p \in Players, Poll(p) PROVE TokensKept'
    <2>1. state_[p] \notin {"CREATED", "END"}
      BY <1>14 DEF Poll, onPrepareCompleted, onSeekCompleted, onPlaybackEvent, IInv, EngineInSlot, EngineUnused
    <2>2. UNCHANGED <<msg_handler_token_, msgHandlers_, call>> /\ (UNCHANGED state_ \/ \E next : SetState(p, next))
      BY <1>14 DEF Poll, onPrepareCompleted, onSeekCompleted, onPlaybackEvent
    <2>3. \A q \in Players : state_[q] \in {"CREATED", "END"} => state_'[q] \in {"CREATED", "END"}
      BY <1>0, <2>1, <2>2, SetStateUsedStays
    <2> QED
      BY <1>0, <2>2, <2>3, TokensUntouched DEF Unregistered
  <1>15. CASE UNCHANGED vars
    BY <1>15, <1>a DEF vars
  <1> QED
    BY <1>1, <1>2, <1>3, <1>4, <1>5, <1>6, <1>7, <1>8, <1>9, <1>10, <1>11, <1>12, <1>13, <1>14, <1>15
       DEF Next, ClientReturns, HandleMessage

(***************************************************************************)
(* Requests reach their player and are answered.                           *)
(***************************************************************************)
\* Who makes a request of p finds p in use until the request is handled.
RequestsPlaced == \A c \in Clients :
  call[c].what \in Requests /\ call[c].pc \in {"checked", "waiting"} =>
    InSlot(call[c].player) /\ state_[call[c].player] \notin {"CREATED", "END"}

RequestsRegistered == \A i \in DOMAIN msg_queue_ : msg_queue_[i].what \in Requests => Registered(msg_queue_[i])

WaitersQueued == \A c \in Clients :
  call[c].pc = "waiting" => \E i \in DOMAIN msg_queue_ : msg_queue_[i].client = c

RequestsServed == RequestsPlaced /\ RequestsRegistered /\ WaitersQueued /\ ~asserted

\* A player in use is in its slot unless someone is releasing it.
LEMMA UsedPlaced ==
  ASSUME IInv, TokensKept, NEW p \in Players, state_[p] \notin {"CREATED", "END"},
         \A c \in Clients : call[c].player = p => call[c].what # "unregister"
  PROVE  InSlot(p)
  BY DEF IInv, TokensKept, UsedTagged, TokensHeld, Unregistered, Call

\* A step that keeps the slots, the tokens, and every call that is under way or queued.
LEMMA ServedUntouched ==
  ASSUME IInv, RequestsServed, UNCHANGED <<msg_handler_token_, msgHandlers_, msg_queue_>>, ~asserted',
         \A p \in Players : state_[p] \notin {"CREATED", "END"} => state_'[p] \notin {"CREATED", "END"},
         \A c \in Clients : call'[c].pc \in {"checked", "waiting"} => call'[c] = call[c]
  PROVE  RequestsServed'
  <1>1. RequestsPlaced'
    <2>1. \A c \in Clients : call[c].what \in Requests => call[c].player \in Players
      BY CallersKnown DEF IInv, Requests
    <2> QED
      BY <2>1 DEF RequestsServed, RequestsPlaced, InSlot
  <1>2. RequestsRegistered'
    BY DEF RequestsServed, RequestsRegistered, Registered
  <1>3. WaitersQueued'
    BY DEF RequestsServed, WaitersQueued
  <1> QED
    BY <1>1, <1>2, <1>3 DEF RequestsServed

\* A message is posted by the only caller whose call changes.
LEMMA ServedPost ==
  ASSUME IInv, RequestsServed, NEW c \in Clients, NEW p \in Players, NEW what \in Whats, NEW m \in Messages,
         m = Message(c, p, what, msg_handler_token_[p]),
         what \in Requests => InSlot(p) /\ state_[p] \notin {"CREATED", "END"},
         msg_queue_' = Append(msg_queue_, m), call' = [call EXCEPT ![c] = Call("waiting", p, what)],
         UNCHANGED <<msg_handler_token_, msgHandlers_, state_, asserted>>
  PROVE  RequestsServed'
  <1>0. TypeOK
    BY DEF IInv
  <1>1. \A d \in Clients : call'[d] = IF d = c THEN Call("waiting", p, what) ELSE call[d]
    BY <1>0, CallerEffect
  <1>2. RequestsPlaced'
    BY <1>1 DEF RequestsServed, RequestsPlaced, InSlot, Call
  <1>3. RequestsRegistered'
    <2>1. m.what \in Requests => Registered(m)
      BY DEF Message, Registered, InSlot
    <2> QED
      BY <1>0, <2>1, PostEffect DEF RequestsServed, RequestsRegistered, Registered
  <1>4. WaitersQueued'
    <2>1. /\ \A i \in DOMAIN msg_queue_ : i \in DOMAIN msg_queue_' /\ msg_queue_'[i] = msg_queue_[i]
          /\ Len(msg_queue_) + 1 \in DOMAIN msg_queue_' /\ msg_queue_'[Len(msg_queue_) + 1] = m
      BY <1>0 DEF TypeOK
    <2>2. m.client = c
      BY DEF Message
    <2> QED
      BY <1>1, <2>1, <2>2 DEF RequestsServed, WaitersQueued
  <1> QED
    BY <1>2, <1>3, <1>4 DEF RequestsServed

\* The message at the head of the queue is handled and answered; a slot that held the
\* player of a request under way still does.
LEMMA ServedAnswer ==
  ASSUME IInv, RequestsServed, NEW whats, Handling(whats), NEW result, notifyResult(result), ~asserted',
         \A p \in Players : state_[p] \notin {"CREATED", "END"} => state_'[p] \notin {"CREATED", "END"},
         \A c \in Clients : c # msg.client /\ call[c].what \in Requests =>
           /\ msg_handler_token_'[call[c].player] = msg_handler_token_[call[c].player]
           /\ \A s \in Slots : msgHandlers_[s] = call[c].player => msgHandlers_'[s] = msgHandlers_[s]
  PROVE  RequestsServed'
  <1>0. TypeOK /\ CallsFormed /\ ResultPointersLive /\ RequestsTagged
    BY DEF IInv
  <1>1. \A c \in Clients : c # msg.client => /\ call'[c].pc = call[c].pc /\ call'[c].what = call[c].what
                                            /\ call'[c].player = call[c].player
    BY <1>0, NotifyKeeps
  <1>2. msg.client \in Clients /\ call'[msg.client].pc = "answered"
    BY <1>0, HandlingEffect, NotifyKeeps
  <1>3. RequestsPlaced'
    <2>1. \A c \in Clients : call[c].what \in Requests => call[c].player \in Players
      BY <1>0, CallersKnown DEF Requests
    <2> QED
      BY <1>1, <1>2, <2>1 DEF RequestsServed, RequestsPlaced, InSlot
  <1>4. \A i \in DOMAIN msg_queue_' :
          /\ i + 1 \in DOMAIN msg_queue_ /\ msg_queue_'[i] = msg_queue_[i + 1]
          /\ msg_queue_'[i].client # msg.client
    BY <1>0, HandlingEffect
  <1>5. RequestsRegistered'
    <2> SUFFICES ASSUME NEW i \in DOMAIN msg_queue_', msg_queue_'[i].what \in Requests
                 PROVE  msgHandlers_'[msg_queue_'[i].token] = msg_queue_'[i].player
      BY DEF RequestsRegistered, Registered
    <2>1. PICK m \in Messages : m = msg_queue_'[i] /\ m = msg_queue_[i + 1] /\ i + 1 \in DOMAIN msg_queue_
      BY <1>0, <1>4, QueuedClients
    <2>2. m.client \in Clients /\ m.client # msg.client /\ call[m.client].what = m.what /\ call[m.client].player = m.player
      BY <1>0, <1>4, <2>1, QueuedClients
    <2>3. m.token \in Slots /\ msgHandlers_[m.token] = m.player
      BY <1>0, <2>1 DEF RequestsTagged, RequestsServed, RequestsRegistered, Registered
    <2>4. msgHandlers_'[m.token] = m.player
      BY <2>1, <2>2, <2>3
    <2> QED
      BY <2>1, <2>4
  <1>6. WaitersQueued'
    <2>1. \A i \in DOMAIN msg_queue_ : msg_queue_[i].client # msg.client =>
            i - 1 \in DOMAIN msg_queue_' /\ msg_queue_'[i - 1] = msg_queue_[i]
      BY <1>0, TailElements DEF TypeOK, Handling, msg
    <2> QED
      BY <1>1, <1>2, <2>1 DEF RequestsServed, WaitersQueued
  <1> QED
    BY <1>3, <1>5, <1>6 DEF RequestsServed

LEMMA ServedStep ==
  ASSUME ReleaseKeptApart
  PROVE  IInv /\ EngineUsed /\ CallsApart /\ TokensKept /\ RequestsServed /\ [Next]_vars => RequestsServed'
  <1> SUFFICES ASSUME IInv, EngineUsed, CallsApart, TokensKept, RequestsServed, [Next]_vars PROVE RequestsServed'
    OBVIOUS
  <1>0. TypeOK /\ CallsFormed /\ ResultPointersLive /\ RequestsTagged /\ SlotsHeld /\ RegisterAlone /\ ~asserted
    BY DEF IInv, RequestsServed
  \* What setState() is asked for is legal, and leaves the player in use.
  <1>a. ASSUME NEW p \in Players, NEW next \in PlayerStates \ {"CREATED", "END"}, SetState(p, next),
               state_[p] \notin {"CREATED", "END"}, checkStateTransition(state_[p], next)
        PROVE  /\ ~asserted'
               /\ \A q \in Players : state_[q] \notin {"CREATED", "END"} => state_'[q] \notin {"CREATED", "END"}
    <2>1. ~asserted'
      BY <1>0, <1>a DEF SetState
    <2> QED
      BY <1>0, <1>a, <2>1, SetStateUsed
  <1>b. ASSUME NEW c \in Clients, NEW new, call' = [call EXCEPT ![c] = new], new.pc \notin {"checked", "waiting"},
               UNCHANGED <<msg_handler_token_, msgHandlers_, msg_queue_, asserted, state_>>
        PROVE  RequestsServed'
    <2>1. \A d \in Clients : call'[d] = IF d = c THEN new ELSE call[d]
      BY <1>0, <1>b, CallerEffect
    <2> QED
      BY <1>0, <1>b, <2>1, ServedUntouched
  <1>c. NoCall.pc \notin {"checked", "waiting"}
    BY DEF NoCall
  <1>1. ASSUME NEW p \in Players, create(p) PROVE RequestsServed'
    <2>1. \A q \in Players : state_[q] \notin {"CREATED", "END"} => state_'[q] \notin {"CREATED", "END"}
      BY <1>0, <1>1 DEF create, TypeOK
    <2> QED
      BY <1>0, <1>1, <2>1, ServedUntouched DEF create
  <1>2. ASSUME NEW c \in Clients, NEW p \in Players, initialize(c, p) PROVE RequestsServed'
    <2>1. "register" \in Whats /\ "register" \notin Requests
      BY DEF Whats, Requests
    <2> QED
      BY <1>0, <1>2, <2>1, ContextPostEffect, ServedPost DEF initialize, playerVars
  <1>3. ASSUME NEW c \in Clients, NEW p \in Players, release(c, p) PROVE RequestsServed'
    <2>1. "unregister" \in Whats /\ "unregister" \notin Requests
      BY DEF Whats, Requests
    <2> QED
      BY <1>0, <1>3, <2>1, ContextPostEffect, ServedPost DEF release, playerVars
  <1>4. ASSUME NEW c \in Clients, NEW p \in Players, NEW r \in ClientRequests, callCheck(c, p, r) PROVE RequestsServed'
    <2>1. /\ <<c, p>> \in MayCall /\ call[c].player = None /\ state_[p] \notin {"CREATED", "END"}
          /\ \A d \in Clients : call'[d] = IF d = c THEN Call("checked", p, r) ELSE call[d]
      BY <1>0, <1>4, CallersKnown DEF callCheck, TypeOK, NoCall
    <2>2. \A d \in Clients : call[d].player = p => call[d].what # "unregister"
      <3>1. CASE ReleaseAlone
        BY <1>4, <3>1 DEF callCheck, Calling
      <3>2. CASE OneThreadEach
        BY <2>1, <3>2, IdleAlone DEF CallsApart
      <3> QED
        BY <3>1, <3>2 DEF ReleaseKeptApart
    <2>3. InSlot(p)
      BY <2>1, <2>2, UsedPlaced
    <2>4. UNCHANGED <<msg_handler_token_, msgHandlers_, msg_queue_, asserted, state_>>
      BY <1>4 DEF callCheck, playerVars
    <2>5. RequestsPlaced'
      BY <2>1, <2>3, <2>4 DEF RequestsServed, RequestsPlaced, InSlot, Call
    <2>6. RequestsRegistered' /\ WaitersQueued'
      BY <2>1, <2>4 DEF RequestsServed, RequestsRegistered, Registered, WaitersQueued, Call
    <2> QED
      BY <1>0, <2>4, <2>5, <2>6 DEF RequestsServed
  <1>5. ASSUME NEW c \in Clients, callPost(c) PROVE RequestsServed'
    <2> DEFINE p == call[c].player
    <2>1. p \in Players /\ call[c].what \in Requests /\ call[c].what \in Whats /\ call[c].pc = "checked"
      BY <1>0, <1>5, CallPostEffect DEF callPost, Whats
    <2>2. InSlot(p) /\ state_[p] \notin {"CREATED", "END"}
      BY <2>1 DEF RequestsServed, RequestsPlaced
    <2>3. msg_handler_token_[p] \in Slots
      BY <2>2 DEF InSlot
    <2> QED
      BY <1>0, <1>5, <2>1, <2>2, <2>3, CallPostEffect, ServedPost DEF playerVars
  <1>6. ASSUME NEW c \in Clients, callReturn(c) PROVE RequestsServed'
    <2>1. PICK new \in {NoCall, Call("preparing", call[c].player, "prepare")} : call' = [call EXCEPT ![c] = new]
      BY <1>6 DEF callReturn
    <2>2. new.pc \notin {"checked", "waiting"}
      BY <2>1, <1>c DEF Call
    <2> QED
      BY <1>6, <1>b, <2>1, <2>2 DEF callReturn, playerVars
  <1>7. ASSUME NEW c \in Clients, prepareReturn(c) PROVE RequestsServed'
    BY <1>7, <1>b, <1>c DEF prepareReturn
  <1>8. ASSUME NEW c \in Clients, initializeReturn(c) PROVE RequestsServed'
    <2> DEFINE p == call[c].player
    <2>1. p \in Players /\ state_[p] = "CREATED"
      BY <1>8, <1>0, CallersKnown DEF initializeReturn, RegisterAlone, RegistersCreated
    <2>2. ~asserted' /\ state_' = [state_ EXCEPT ![p] = IF call[c].result = "ok" THEN "IDLE" ELSE "END"]
      BY <1>0, <1>8, <2>1 DEF initializeReturn, SetState, setState, checkStateTransition
    <2>3. \A q \in Players : state_[q] \notin {"CREATED", "END"} => state_'[q] \notin {"CREATED", "END"}
      BY <1>0, <2>1, <2>2 DEF TypeOK
    <2>4. call' = [call EXCEPT ![c] = NoCall] /\ UNCHANGED <<msg_handler_token_, msgHandlers_, msg_queue_>>
      BY <1>8 DEF initializeReturn
    <2>5. \A d \in Clients : call'[d] = IF d = c THEN NoCall ELSE call[d]
      BY <1>0, <2>4, CallerEffect
    <2> QED
      BY <1>c, <2>2, <2>3, <2>4, <2>5, ServedUntouched
  <1>9. ASSUME NEW c \in Clients, releaseReturn(c) PROVE RequestsServed'
    <2> DEFINE p == call[c].player
    <2>1. p \in Players /\ call[c].what = "unregister"
      BY <1>9, <1>0, CallersKnown DEF releaseReturn
    <2>2. ~asserted' /\ state_' = [state_ EXCEPT ![p] = "END"]
      BY <1>0, <1>9 DEF releaseReturn, SetState, setState, checkStateTransition
    <2>3. /\ call' = [call EXCEPT ![c] = NoCall] /\ UNCHANGED <<msgHandlers_, msg_queue_>>
          /\ msg_handler_token_' = [msg_handler_token_ EXCEPT ![p] = 0]
      BY <1>9 DEF releaseReturn
    <2>4. \A d \in Clients : call'[d] = IF d = c THEN NoCall ELSE call[d]
      BY <1>0, <2>3, CallerEffect
    <2>5. \A q \in Players \ {p} : msg_handler_token_'[q] = msg_handler_token_[q] /\ state_'[q] = state_[q]
      BY <1>0, <2>2, <2>3 DEF TypeOK
    <2>6. RequestsPlaced'
      <3> SUFFICES ASSUME NEW d \in Clients, call'[d].what \in Requests, call'[d].pc \in {"checked", "waiting"}
                   PROVE  /\ msg_handler_token_'[call'[d].player] \in Slots
                          /\ msgHandlers_'[msg_handler_token_'[call'[d].player]] = call'[d].player
                          /\ state_'[call'[d].player] \notin {"CREATED", "END"}
        BY DEF RequestsPlaced, InSlot
      <3>1. d # c /\ call'[d] = call[d]
        BY <1>c, <2>4
      <3>2. call[d].player # p
        BY <2>1, <3>1 DEF CallsApart, UnregisterAlone
      <3>3. call[d].player \in Players
        BY <1>0, <3>1, CallersKnown DEF Requests
      <3> QED
        BY <2>3, <2>5, <3>1, <3>2, <3>3 DEF RequestsServed, RequestsPlaced, InSlot
    <2>7. RequestsRegistered' /\ WaitersQueued'
      BY <1>c, <2>3, <2>4 DEF RequestsServed, RequestsRegistered, Registered, WaitersQueued
    <2> QED
      BY <2>2, <2>6, <2>7 DEF RequestsServed
  <1>10. ASSUME handleRegister PROVE RequestsServed'
    <2>0. Handling({"register"}) /\ UNCHANGED <<state_, asserted>> /\ \E result : notifyResult(result)
      BY <1>10 DEF handleRegister
    <2>1. msg.player \in Players /\ msg.client \in Clients /\ \A d \in Clients : d # msg.client => call[d].player # msg.player
      BY <1>0, <2>0, RegisteringUnslotted, HandlingEffect
    <2>2. /\ \A p \in Players : p # msg.player => msg_handler_token_'[p] = msg_handler_token_[p]
          /\ \A s \in Slots : msgHandlers_[s] # None => msgHandlers_'[s] = msgHandlers_[s]
      BY <1>0, <1>10, <2>1 DEF handleRegister, FirstFree, TypeOK
    <2>3. \A c \in Clients : c # msg.client /\ call[c].what \in Requests =>
            /\ msg_handler_token_'[call[c].player] = msg_handler_token_[call[c].player]
            /\ \A s \in Slots : msgHandlers_[s] = call[c].player => msgHandlers_'[s] = msgHandlers_[s]
      <3>1. \A c \in Clients : call[c].what \in Requests => call[c].player \in Players /\ call[c].player # None
        BY <1>0, CallersKnown, NoneAssumption DEF Requests
      <3> QED
        BY <2>1, <2>2, <3>1
    <2> QED
      BY <1>0, <2>0, <2>3, ServedAnswer
  <1>11. ASSUME handleUnregister PROVE RequestsServed'
    <2>0. Handling({"unregister"}) /\ UNCHANGED <<state_, asserted, msg_handler_token_>> /\ notifyResult("ok")
      BY <1>11 DEF handleUnregister
    <2>1. msg.player \in Players /\ msg.client \in Clients /\ call[msg.client].what = "unregister" /\ call[msg.client].player = msg.player
      BY <1>0, <2>0, HandlingEffect DEF Call
    <2>2. \A s \in Slots : msgHandlers_[s] # msg.player => msgHandlers_'[s] = msgHandlers_[s]
      BY <1>0, <1>11, <2>1 DEF handleUnregister, TypeOK
    <2>3. \A d \in Clients : d # msg.client => call[d].player # msg.player
      BY <2>1 DEF CallsApart, UnregisterAlone
    <2> QED
      BY <1>0, <2>0, <2>2, <2>3, ServedAnswer
  <1>12. ASSUME handleRequest PROVE RequestsServed'
    <2> DEFINE p == msg.player
    <2>0. /\ Handling(Requests) /\ UNCHANGED <<msg_handler_token_, msgHandlers_>> /\ msg.client \in Clients
          /\ p \in Players /\ msg.what \in Requests /\ call[msg.client] = Call("waiting", p, msg.what)
      BY <1>0, <1>12, HandlingEffect DEF handleRequest
    <2>1. PICK r \in EngineResults(msg.what) : onHandleMessage(p, msg.what, r)
      BY <1>12 DEF handleRequest
    <2>2. state_[p] \notin {"CREATED", "END"} /\ state_[p] \in PlayerStates
      BY <1>0, <2>0 DEF RequestsServed, RequestsPlaced, Call, TypeOK
    <2> DEFINE next == RequestedState(msg.what, state_[p], Result(msg.what, state_[p], r))
    <2>3. next \in PlayerStates \ {"CREATED", "END"} /\ (next # state_[p] => checkStateTransition(state_[p], next))
      BY <2>0, <2>2, NextStatesLegal
    <2>4. UNCHANGED <<state_, asserted>> \/ (next # state_[p] /\ SetState(p, next))
      BY <2>1 DEF onHandleMessage
    <2> HIDE DEF next
    <2>5. /\ ~asserted'
          /\ \A q \in Players : state_[q] \notin {"CREATED", "END"} => state_'[q] \notin {"CREATED", "END"}
      BY <1>0, <1>a, <2>0, <2>2, <2>3, <2>4
    <2>6. \E result : notifyResult(result)
      BY <2>1 DEF onHandleMessage
    <2> QED
      BY <2>0, <2>5, <2>6, ServedAnswer
  <1>13. ASSUME dropRequest PROVE RequestsServed'
    <2>1. Registered(msg)
      BY <1>0, <1>13, HandlingEffect DEF dropRequest, RequestsServed, RequestsRegistered
    <2> QED
      BY <1>13, <2>1 DEF dropRequest
  <1>14. ASSUME NEW p \in Players, Poll(p) PROVE RequestsServed'
    <2>1. state_[p] \notin {"CREATED", "END"} /\ state_[p] \in PlayerStates
      BY <1>0, <1>14 DEF Poll, onPrepareCompleted, onSeekCompleted, onPlaybackEvent, IInv, EngineInSlot, EngineUnused, TypeOK
    <2>2. UNCHANGED <<msg_handler_token_, msgHandlers_, msg_queue_, call>>
      BY <1>14 DEF Poll, onPrepareCompleted, onSeekCompleted, onPlaybackEvent
    <2>3. \/ UNCHANGED <<state_, asserted>>
          \/ \E next \in PlayerStates \ {"CREATED", "END"} : SetState(p, next) /\ checkStateTransition(state_[p], next)
      <3>1. CASE onPrepareCompleted(p)
        <4>1. PICK r \in {"ok", "error"} : SetState(p, AfterPrepareCompleted(state_[p], r))
          BY <3>1 DEF onPrepareCompleted
        <4>2. /\ AfterPrepareCompleted(state_[p], r) \in PlayerStates \ {"CREATED", "END"}
              /\ checkStateTransition(state_[p], AfterPrepareCompleted(state_[p], r))
          BY <2>1 DEF AfterPrepareCompleted, StateMaskPreparing, PlayerStates, checkStateTransition, Successors
        <4> QED
          BY <4>1, <4>2
      <3>2. CASE onSeekCompleted(p)
        BY <2>1, <3>2 DEF onSeekCompleted, PlayerStates, checkStateTransition
      <3>3. CASE onPlaybackEvent(p)
        BY <2>1, <3>3, PlaybackStates DEF onPlaybackEvent
      <3> QED
        BY <1>14, <3>1, <3>2, <3>3 DEF Poll
    <2>4. /\ ~asserted'
          /\ \A q \in Players : state_[q] \notin {"CREATED", "END"} => state_'[q] \notin {"CREATED", "END"}
      BY <1>0, <1>a, <2>1, <2>3
    <2> QED
      BY <2>2, <2>4, ServedUntouched
  <1>15. CASE UNCHANGED vars
    BY <1>0, <1>15, ServedUntouched DEF vars
  <1> QED
    BY <1>1, <1>2, <1>3, <1>4, <1>5, <1>6, <1>7, <1>8, <1>9, <1>10, <1>11, <1>12, <1>13, <1>14, <1>15
       DEF Next, ClientReturns, HandleMessage

LEMMA ApartInit == Init => CallsApart /\ TokensKept /\ RequestsServed
  <1> SUFFICES ASSUME Init PROVE CallsApart /\ TokensKept /\ RequestsServed
    OBVIOUS
  <1>1. /\ msg_queue_ = <<>> /\ DOMAIN msg_queue_ = {} /\ \A c \in Clients : call[c] = NoCall
        /\ \A p \in Players : state_[p] = "CREATED" /\ msg_handler_token_[p] = 0
    BY DEF Init
  <1>2. NoCall.player = None /\ NoCall.what = "none" /\ NoCall.pc = "idle"
    BY DEF NoCall
  <1>3. CallsApart
    BY <1>1, <1>2 DEF CallsApart, CallersAllowed, UnregisterAlone
  <1>4. TokensKept
    BY <1>1 DEF TokensKept, UsedTagged, TokensHeld
  <1>5. RequestsPlaced /\ RequestsRegistered /\ WaitersQueued
    BY <1>1, <1>2 DEF RequestsPlaced, RequestsRegistered, WaitersQueued
  <1> QED
    BY <1>3, <1>4, <1>5 DEF RequestsServed, Init

LEMMA ApartHolds ==
  ASSUME ReleaseKeptApart
  PROVE  Spec => [](IInv /\ EngineUsed /\ EnginesAgree /\ CallsApart /\ TokensKept /\ RequestsServed)
  <1>1. Init => EngineUsed /\ EnginesAgree
    BY DEF Init, EngineUsed, EnginesAgree, InSlot
  <1>2. IInv /\ EngineUsed /\ EnginesAgree /\ CallsApart /\ TokensKept /\ RequestsServed /\ [Next]_vars
          => (EngineUsed /\ EnginesAgree /\ CallsApart /\ TokensKept /\ RequestsServed)'
    BY UsedStep, AgreeStep, ApartStep, TokensStep, ServedStep
  <1> QED
    BY <1>1, <1>2, ApartInit, InductiveHolds, PTL DEF Spec

\* A slot and its player name each other until the player's release has been answered,
\* and no assertion of setState() fails, if no player is released during a call to it.
THEOREM TokensAgreeHolds == ASSUME ReleaseKeptApart PROVE Spec => []TokensAgree
  <1>1. IInv /\ TokensKept /\ RequestsServed => TokensAgree
    <2> SUFFICES ASSUME IInv, TokensKept, RequestsServed PROVE TokensAgree
      OBVIOUS
    <2>1. ~asserted /\ \A s \in Slots : msgHandlers_[s] # None => msg_handler_token_[msgHandlers_[s]] = s
      BY DEF RequestsServed, IInv, SlotsHeld
    <2>2. \A p \in Players : msg_handler_token_[p] # 0 =>
            \/ msgHandlers_[msg_handler_token_[p]] = p
            \/ \E c \in Clients : call[c] = [Call("answered", p, "unregister") EXCEPT !.result = "ok"]
      BY DEF TokensKept, TokensHeld, InSlot, Unregistered
    <2>3. \A c \in Clients : call[c].pc = "checked" => msg_handler_token_[call[c].player] \in Slots
      BY CallersKnown DEF RequestsServed, RequestsPlaced, InSlot, IInv
    <2> QED
      BY <2>1, <2>2, <2>3 DEF TokensAgree
  <1> QED
    BY <1>1, ApartHolds, PTL

\* A caller asleep has its message in the queue, and the message will be handled by its
\* player and not dropped, if no player is released during a call to it.
THEOREM WaitersServedHolds == ASSUME ReleaseKeptApart PROVE Spec => []WaitersServed
  <1>1. RequestsServed => WaitersServed
    BY DEF RequestsServed, WaitersQueued, RequestsRegistered, WaitersServed
  <1> QED
    BY <1>1, ApartHolds, PTL

(***************************************************************************)
(* The outcome of a preparation.                                           *)
(***************************************************************************)
\* c has started a preparation of p and has not returned from prepare().
Prepares(c, p) ==
  /\ call[c].player = p
  /\ call[c].what = "prepare"
  /\ call[c].pc = "preparing" \/ (call[c].pc = "answered" /\ call[c].result = "ok")

PreparationsAwaited == \A p \in Players :
  state_[p] = "PREPARING_SYNC" \/ prepared_result_[p] # "none" => \E c \in Clients : Prepares(c, p)

PreparersServed == \A c \in Clients, p \in Players : Prepares(c, p) =>
  state_[p] = "PREPARING_SYNC" \/ prepared_result_[p] # "none"

SeekingApart == \A p \in Players : seeking[p] => player_[p] # "preparing"

OutcomesLast == \A p \in Players : prepared_result_[p] # "none" => state_[p] # "PREPARING_SYNC"

\* Only prepare() waits twice.
SecondWaits == \A c \in Clients : call[c].pc = "preparing" => call[c].what = "prepare"

Preparations == PreparationsAwaited /\ PreparersServed /\ OutcomesLast /\ SeekingApart

\* With a thread of its own, a player has one caller at a time.
LEMMA OneCaller ==
  ASSUME OneThreadEach, CallersAllowed
  PROVE  \A c, d \in Clients : call[c].player \in Players /\ call[c].player = call[d].player => c = d
  BY NoneAssumption DEF OneThreadEach, CallersAllowed

\* A step after which every player has the preparer, the outcome and the state it had.
LEMMA PreparersUntouched ==
  ASSUME Preparations, UNCHANGED prepared_result_,
         \A c \in Clients, p \in Players : Prepares(c, p)' <=> Prepares(c, p),
         \A p \in Players : state_'[p] = "PREPARING_SYNC" <=> state_[p] = "PREPARING_SYNC",
         SeekingApart'
  PROVE  Preparations'
  BY DEF Preparations, PreparationsAwaited, PreparersServed, OutcomesLast

\* A call that prepares nothing, before or after the step, or the same player.
LEMMA PreparesKept ==
  ASSUME TypeOK, NEW c \in Clients, NEW new, call' = [call EXCEPT ![c] = new],
         LET starts == new.what = "prepare" /\ (new.pc = "preparing" \/ (new.pc = "answered" /\ new.result = "ok"))
         IN \A p \in Players : Prepares(c, p) <=> (new.player = p /\ starts)
  PROVE  \A d \in Clients, p \in Players : Prepares(d, p)' <=> Prepares(d, p)
  BY DEF TypeOK, Prepares

LEMMA PreparationsRequest ==
  ASSUME OneThreadEach, IInv, EngineUsed, EnginesAgree, CallersAllowed, RequestsServed, Preparations, handleRequest
  PROVE  Preparations'
  <1>0. TypeOK /\ CallsFormed /\ ResultPointersLive
    BY DEF IInv
  <1>1. PICK p \in Players, c \in Clients, what \in Requests :
          /\ p = msg.player /\ c = msg.client /\ what = msg.what /\ call[c] = Call("waiting", p, what)
          /\ call[c].player = p /\ call[c].pc = "waiting" /\ call[c].what = what
    BY <1>0, HandlingEffect DEF handleRequest, Call
  <1>2. PICK r \in EngineResults(what) : onHandleMessage(p, what, r)
    BY <1>1 DEF handleRequest
  <1>3. /\ state_[p] \in PlayerStates \ {"CREATED", "END"} /\ InSlot(p)
    BY <1>0, <1>1 DEF RequestsServed, RequestsPlaced, TypeOK
  <1>4. player_[p] # "null" /\ Agree(state_[p], player_[p])
    BY <1>1, <1>3 DEF EngineUsed, EnginesAgree
  <1>5. \A d \in Clients : d # c => call[d].player # p
    BY <1>1, OneCaller
  <1>6. \A d \in Clients : ~Prepares(d, p)
    BY <1>1, <1>5 DEF Prepares
  <1>7. state_[p] # "PREPARING_SYNC" /\ prepared_result_[p] = "none"
    BY <1>1, <1>6 DEF Preparations, PreparationsAwaited
  <1> DEFINE result == Result(what, state_[p], r)
             next == RequestedState(what, state_[p], result)
             accepted == state_[p] \in StateMask[what]
             begins == accepted /\ what = "prepare" /\ r = "ok"
  <1>8. notifyResult(result)
    BY <1>2 DEF onHandleMessage
  <1>9. state_'[p] = next /\ \A q \in Players \ {p} : state_'[q] = state_[q]
    <2>1. next # state_[p] => checkStateTransition(state_[p], next)
      BY <1>1, <1>3, NextStatesLegal
    <2>2. (UNCHANGED state_ /\ next = state_[p]) \/ (next # state_[p] /\ SetState(p, next))
      BY <1>2 DEF onHandleMessage
    <2> HIDE DEF next
    <2> QED
      BY <1>0, <1>1, <2>1, <2>2 DEF TypeOK, SetState, setState
  <1>10. prepared_result_' = prepared_result_
    <2>1. prepared_result_' = [prepared_result_ EXCEPT ![p] = IF accepted /\ what = "prepare" THEN "none" ELSE @]
      BY <1>2 DEF onHandleMessage
    <2> QED
      BY <1>0, <1>1, <1>7, <2>1 DEF TypeOK
  <1>11. begins => next = "PREPARING_SYNC" /\ result = "ok"
    BY DEF Result, RequestedState, TransitionRequests, Target
  <1>12. ~begins => next # "PREPARING_SYNC" /\ (what = "prepare" => result # "ok")
    <2>1. r # "inErrorState" /\ r # "illegalState"
      BY <1>1 DEF EngineResults, Requests
    <2>2. CASE result = "ok" /\ what \in TransitionRequests
      <3>1. accepted /\ r = "ok" /\ next = Target(what, state_[p])
        BY <2>2 DEF Result, RequestedState
      <3> QED
        BY <1>7, <2>2, <3>1 DEF Target, TransitionRequests
    <2>3. CASE ~(result = "ok" /\ what \in TransitionRequests)
      <3>1. next \in {state_[p], "ERROR"}
        BY <2>3 DEF RequestedState
      <3>2. what = "prepare" => result # "ok"
        BY <2>3 DEF TransitionRequests
      <3> QED
        BY <1>7, <3>1, <3>2
    <2> QED
      BY <2>2, <2>3
  <1>13. /\ \A d \in Clients : d # c => \A q \in Players : Prepares(d, q)' <=> Prepares(d, q)
         /\ \A q \in Players : q # p => ~Prepares(c, q)' /\ ~Prepares(c, q)
         /\ Prepares(c, p)' <=> begins
    <2>1. \A d \in Clients :
           /\ call'[d].player = call[d].player /\ call'[d].what = call[d].what
           /\ call'[d].pc = IF d = c THEN "answered" ELSE call[d].pc
           /\ call'[d].result = IF d = c THEN result ELSE call[d].result
      <3> HIDE DEF result
      <3> QED
        BY <1>0, <1>1, <1>8, NotifyKeeps
    <2>2. begins <=> what = "prepare" /\ result = "ok"
      BY <1>11, <1>12
    <2> HIDE DEF result, begins
    <2>3. ASSUME NEW d \in Clients, d # c, NEW q \in Players PROVE Prepares(d, q)' <=> Prepares(d, q)
      BY <2>1, <2>3 DEF Prepares
    <2>4. call'[c].player = p /\ call'[c].what = what /\ call'[c].pc = "answered" /\ call'[c].result = result
      BY <1>1, <2>1
    <2>5. ASSUME NEW q \in Players, q # p PROVE ~Prepares(c, q)' /\ ~Prepares(c, q)
      BY <1>1, <2>4, <2>5 DEF Prepares
    <2>6. Prepares(c, p)' <=> begins
      BY <2>2, <2>4 DEF Prepares
    <2> QED
      BY <2>3, <2>5, <2>6
  <1>14. SeekingApart'
    <2>1. /\ player_' = [player_ EXCEPT ![p] = IF accepted THEN EngineAfter(p, what, r) ELSE @]
          /\ seeking' = [seeking EXCEPT ![p] = IF accepted THEN SeekingAfter(p, what, r) ELSE @]
      BY <1>2 DEF onHandleMessage
    <2>2. \A q \in Players \ {p} : player_'[q] = player_[q] /\ seeking'[q] = seeking[q]
      BY <1>0, <2>1 DEF TypeOK
    <2>3. seeking'[p] => player_'[p] # "preparing"
      <3>1. seeking[p] => player_[p] # "preparing"
        BY <1>1 DEF Preparations, SeekingApart
      <3>2. CASE ~accepted
        BY <1>0, <1>1, <2>1, <3>1, <3>2 DEF TypeOK
      <3>3. CASE accepted /\ what \in {"prepare", "prepareAsync", "stop", "reset"}
        BY <1>0, <1>1, <2>1, <3>3 DEF TypeOK, SeekingAfter
      <3>4. CASE accepted /\ what = "seekTo"
        <4>1. player_[p] = "prepared"
          BY <1>4, <3>4 DEF StateMask, Agree
        <4> QED
          BY <1>0, <1>1, <2>1, <3>4, <4>1 DEF TypeOK, EngineAfter
      <3>5. CASE accepted /\ what \notin {"prepare", "prepareAsync", "stop", "reset", "seekTo"}
        BY <1>0, <1>1, <2>1, <3>1, <3>5 DEF TypeOK, EngineAfter, SeekingAfter
      <3> QED
        BY <3>2, <3>3, <3>4, <3>5
    <2> QED
      BY <2>2, <2>3 DEF Preparations, SeekingApart
  <1>15. state_'[p] = "PREPARING_SYNC" <=> begins
    BY <1>9, <1>11, <1>12
  <1> HIDE DEF begins, result, next, accepted
  <1>16. \A q \in Players : q # p => /\ state_'[q] = state_[q] /\ prepared_result_'[q] = prepared_result_[q]
                                   /\ \A d \in Clients : Prepares(d, q)' <=> Prepares(d, q)
    BY <1>1, <1>9, <1>10, <1>13
  <1>17. \A d \in Clients : d # c => ~Prepares(d, p)'
    BY <1>1, <1>6, <1>13
  <1>18. PreparationsAwaited'
    <2> SUFFICES ASSUME NEW q \in Players, state_'[q] = "PREPARING_SYNC" \/ prepared_result_'[q] # "none"
                 PROVE  \E d \in Clients : Prepares(d, q)'
      BY DEF PreparationsAwaited
    <2>1. CASE q = p
      BY <1>1, <1>7, <1>10, <1>13, <1>15, <2>1
    <2>2. CASE q # p
      BY <1>16, <2>2 DEF Preparations, PreparationsAwaited
    <2> QED
      BY <2>1, <2>2
  <1>19. PreparersServed'
    <2> SUFFICES ASSUME NEW d \in Clients, NEW q \in Players, Prepares(d, q)'
                 PROVE  state_'[q] = "PREPARING_SYNC" \/ prepared_result_'[q] # "none"
      BY DEF PreparersServed
    <2>1. CASE q = p
      BY <1>1, <1>13, <1>15, <1>17, <2>1
    <2>2. CASE q # p
      BY <1>16, <2>2 DEF Preparations, PreparersServed
    <2> QED
      BY <2>1, <2>2
  <1>20. OutcomesLast'
    BY <1>1, <1>7, <1>9, <1>10 DEF Preparations, OutcomesLast
  <1> QED
    BY <1>14, <1>18, <1>19, <1>20 DEF Preparations

\* The end of a preparation, synchronous or not, successful or not.
LEMMA PreparationsCompleted ==
  ASSUME IInv, Preparations, NEW p \in Players, onPrepareCompleted(p)
  PROVE  Preparations'
  <1>0. TypeOK
    BY DEF IInv
  <1>1. PICK r \in {"ok", "error"} :
          /\ player_' = [player_ EXCEPT ![p] = IF r = "ok" THEN "prepared" ELSE "stopped"]
          /\ prepared_result_' = [prepared_result_ EXCEPT ![p] = IF state_[p] = "PREPARING_SYNC" THEN r ELSE @]
          /\ SetState(p, AfterPrepareCompleted(state_[p], r))
    BY DEF onPrepareCompleted
  <1>2. state_[p] \in PlayerStates \ {"CREATED", "END"}
    BY <1>0 DEF onPrepareCompleted, IInv, EngineInSlot, EngineUnused, TypeOK
  <1>3. state_'[p] # "PREPARING_SYNC" /\ \A q \in Players \ {p} : state_'[q] = state_[q]
    BY <1>0, <1>1, <1>2 DEF SetState, setState, AfterPrepareCompleted, checkStateTransition, Successors,
       StateMaskPreparing, TypeOK
  <1>4. \A c \in Clients, q \in Players : Prepares(c, q)' <=> Prepares(c, q)
    BY DEF onPrepareCompleted, Prepares
  <1>5. /\ prepared_result_'[p] = IF state_[p] = "PREPARING_SYNC" THEN r ELSE prepared_result_[p]
        /\ \A q \in Players \ {p} : prepared_result_'[q] = prepared_result_[q]
    BY <1>0, <1>1 DEF TypeOK
  <1>6. SeekingApart'
    BY <1>0, <1>1 DEF Preparations, SeekingApart, TypeOK, onPrepareCompleted
  <1>7. PreparationsAwaited'
    BY <1>3, <1>4, <1>5 DEF Preparations, PreparationsAwaited
  <1>8. PreparersServed'
    BY <1>3, <1>4, <1>5 DEF Preparations, PreparersServed
  <1>9. OutcomesLast'
    BY <1>3, <1>5 DEF Preparations, OutcomesLast
  <1> QED
    BY <1>6, <1>7, <1>8, <1>9 DEF Preparations

LEMMA PreparationsStep ==
  ASSUME OneThreadEach
  PROVE  IInv /\ EngineUsed /\ EnginesAgree /\ CallsApart /\ RequestsServed /\ Preparations /\ [Next]_vars
           => Preparations'
  <1> SUFFICES ASSUME IInv, EngineUsed, EnginesAgree, CallsApart, RequestsServed, Preparations, [Next]_vars
               PROVE  Preparations'
    OBVIOUS
  <1>0. TypeOK /\ CallsFormed /\ ResultPointersLive /\ CallersAllowed
    BY DEF IInv, CallsApart
  \* Nobody is left preparing a player once its only caller is doing something else.
  <1>a. ASSUME NEW c \in Clients, NEW p \in Players, call[c].player = p, ~Prepares(c, p)
        PROVE  state_[p] # "PREPARING_SYNC" /\ prepared_result_[p] = "none"
    <2>1. \A d \in Clients : ~Prepares(d, p)
      BY <1>0, <1>a, OneCaller DEF Prepares
    <2> QED
      BY <2>1 DEF Preparations, PreparationsAwaited
  <1>b. ASSUME NEW c \in Clients, NEW new, call' = [call EXCEPT ![c] = new],
               call[c].what # "prepare" \/ call[c].pc \in {"idle", "checked", "waiting"},
               new.what # "prepare" \/ new.pc \in {"idle", "checked", "waiting"}
        PROVE  \A d \in Clients, p \in Players : Prepares(d, p)' <=> Prepares(d, p)
    BY <1>0, <1>b, PreparesKept DEF Prepares
  <1>c. NoCall.what = "none"
    BY DEF NoCall
  <1>d. UNCHANGED <<player_, seeking>> => SeekingApart'
    BY DEF Preparations, SeekingApart
  <1>1. ASSUME NEW p \in Players, create(p) PROVE Preparations'
    <2>1. prepared_result_[p] = "none"
      BY <1>1 DEF create, Calling, Preparations, PreparationsAwaited, Prepares
    <2>2. UNCHANGED <<prepared_result_, player_, seeking, call>>
      BY <1>0, <1>1, <2>1 DEF create, TypeOK
    <2>3. \A q \in Players : state_'[q] = "PREPARING_SYNC" <=> state_[q] = "PREPARING_SYNC"
      BY <1>0, <1>1 DEF create, TypeOK
    <2> QED
      BY <1>d, <2>2, <2>3, PreparersUntouched DEF Prepares
  <1>2. ASSUME NEW c \in Clients, NEW p \in Players, initialize(c, p) \/ release(c, p) PROVE Preparations'
    <2>1. PICK what \in {"register", "unregister"} : PostToContext(c, p, what) /\ call[c].pc = "idle"
      BY <1>2 DEF initialize, release
    <2>2. Call("waiting", p, what).what # "prepare"
      BY <2>1 DEF Call
    <2> QED
      BY <1>0, <1>2, <1>b, <1>d, <2>1, <2>2, ContextPostEffect, PreparersUntouched DEF initialize, release, playerVars
  <1>3. ASSUME NEW c \in Clients, NEW p \in Players, NEW r \in ClientRequests, callCheck(c, p, r) PROVE Preparations'
    <2>1. Call("checked", p, r).pc = "checked"
      BY DEF Call
    <2> QED
      BY <1>3, <1>b, <1>d, <2>1, PreparersUntouched DEF callCheck, playerVars
  <1>4. ASSUME NEW c \in Clients, callPost(c) PROVE Preparations'
    <2>1. PICK new \in {NoCall, Call("waiting", call[c].player, call[c].what)} : call' = [call EXCEPT ![c] = new]
      BY <1>0, <1>4, CallPostEffect
    <2>2. new.what # "prepare" \/ new.pc = "waiting"
      BY <1>c, <2>1 DEF Call
    <2>3. call[c].pc = "checked"
      BY <1>4 DEF callPost
    <2> QED
      BY <1>0, <1>4, <1>b, <1>d, <2>1, <2>2, <2>3, CallPostEffect, PreparersUntouched DEF playerVars
  <1>5. ASSUME NEW c \in Clients, callReturn(c) PROVE Preparations'
    <2>1. \A d \in Clients, p \in Players : Prepares(d, p)' <=> Prepares(d, p)
      <3>1. CASE call[c].what = "prepare" /\ call[c].result = "ok"
        <4>1. call' = [call EXCEPT ![c] = Call("preparing", call[c].player, "prepare")] /\ call[c].pc = "answered"
          BY <1>5, <3>1 DEF callReturn
        <4> QED
          BY <1>0, <3>1, <4>1, PreparesKept DEF Prepares, Call
      <3>2. CASE ~(call[c].what = "prepare" /\ call[c].result = "ok")
        <4>1. call' = [call EXCEPT ![c] = NoCall] /\ call[c].pc = "answered"
          BY <1>5, <3>2 DEF callReturn
        <4> QED
          BY <1>0, <1>c, <3>2, <4>1, PreparesKept DEF Prepares
      <3> QED
        BY <3>1, <3>2
    <2> QED
      BY <1>5, <1>d, <2>1, PreparersUntouched DEF callReturn, playerVars
  <1>6. ASSUME NEW c \in Clients, prepareReturn(c) PROVE Preparations'
    <2>1. PICK p \in Players :
            p = call[c].player /\ prepared_result_[p] # "none" /\ call[c].pc = "preparing" /\ p # None
      BY <1>0, <1>6, CallersKnown, NoneAssumption DEF prepareReturn, CallsFormed, NoCall
    <2>2. state_[p] # "PREPARING_SYNC"
      BY <2>1 DEF Preparations, OutcomesLast
    <2>3. /\ UNCHANGED <<state_, player_, seeking>>
          /\ prepared_result_'[p] = "none" /\ \A q \in Players \ {p} : prepared_result_'[q] = prepared_result_[q]
      BY <1>0, <1>6, <2>1 DEF prepareReturn, TypeOK
    <2>4. \A d \in Clients : call'[d] = IF d = c THEN NoCall ELSE call[d]
      BY <1>0, <1>6, CallerEffect DEF prepareReturn
    <2>5. \A d \in Clients, q \in Players : q # p => (Prepares(d, q)' <=> Prepares(d, q))
      <3>1. ASSUME NEW d \in Clients, NEW q \in Players, q # p PROVE Prepares(d, q)' <=> Prepares(d, q)
        <4>1. CASE d = c
          BY <1>c, <2>1, <2>4, <3>1, <4>1 DEF Prepares
        <4>2. CASE d # c
          BY <2>4, <4>2 DEF Prepares
        <4> QED
          BY <4>1, <4>2
      <3> QED
        BY <3>1
    <2>6. \A d \in Clients : ~Prepares(d, p)'
      BY <1>0, <1>c, <2>1, <2>4, OneCaller DEF Prepares
    <2>7. PreparationsAwaited'
      BY <2>2, <2>3, <2>5 DEF Preparations, PreparationsAwaited
    <2>8. PreparersServed'
      BY <2>3, <2>5, <2>6 DEF Preparations, PreparersServed
    <2>9. OutcomesLast'
      BY <2>3 DEF Preparations, OutcomesLast
    <2> QED
      BY <1>d, <2>3, <2>7, <2>8, <2>9 DEF Preparations
  <1>7. ASSUME NEW c \in Clients, initializeReturn(c) \/ releaseReturn(c) PROVE Preparations'
    <2> DEFINE p == call[c].player
    <2>1. p \in Players /\ call[c].what # "prepare" /\ call' = [call EXCEPT ![c] = NoCall] /\ UNCHANGED <<prepared_result_, seeking>>
      BY <1>0, <1>7, CallersKnown DEF initializeReturn, releaseReturn
    <2>2. state_[p] # "PREPARING_SYNC"
      BY <1>a, <2>1 DEF Prepares
    <2>3. \E next \in {"IDLE", "END"} : SetState(p, next)
      BY <1>7 DEF initializeReturn, releaseReturn
    <2>4. \A q \in Players : state_'[q] = "PREPARING_SYNC" <=> state_[q] = "PREPARING_SYNC"
      BY <1>0, <2>1, <2>2, <2>3 DEF SetState, setState, TypeOK
    <2>5. \A d \in Clients, q \in Players : Prepares(d, q)' <=> Prepares(d, q)
      BY <1>b, <1>c, <2>1
    <2>6. \A q \in Players : player_'[q] \in {player_[q], "null"}
      BY <1>0, <1>7 DEF initializeReturn, releaseReturn, TypeOK
    <2>7. SeekingApart'
      BY <2>1, <2>6 DEF Preparations, SeekingApart
    <2> QED
      BY <2>1, <2>4, <2>5, <2>7, PreparersUntouched
  <1>8. ASSUME handleRegister \/ handleUnregister PROVE Preparations'
    <2>1. PICK result : notifyResult(result)
      BY <1>8 DEF handleRegister, handleUnregister
    <2>2. PICK c \in Clients, p \in Players, what \in {"register", "unregister"} :
            c = msg.client /\ p = msg.player /\ call[c] = Call("waiting", p, what)
      BY <1>0, <1>8, HandlingEffect DEF handleRegister, handleUnregister
    <2>3. call' = [call EXCEPT ![c] = [pc |-> "answered", player |-> p, what |-> what, result |-> result]]
      BY <1>0, <2>1, <2>2, NotifyEffect
    <2>4. call[c].what # "prepare" /\ what # "prepare"
      BY <2>2 DEF Call
    <2>5. \A d \in Clients, q \in Players : Prepares(d, q)' <=> Prepares(d, q)
      BY <1>b, <2>3, <2>4
    <2>6. \A q \in Players : (player_'[q] \in {player_[q], "stopped", "null"}) /\ (seeking'[q] => seeking[q])
      BY <1>0, <1>8, <2>2 DEF handleRegister, handleUnregister, TypeOK
    <2>7. SeekingApart'
      BY <2>6 DEF Preparations, SeekingApart
    <2> QED
      BY <1>8, <2>5, <2>7, PreparersUntouched DEF handleRegister, handleUnregister
  <1>9. ASSUME handleRequest PROVE Preparations'
    BY <1>0, <1>9, PreparationsRequest
  <1>10. ASSUME dropRequest PROVE Preparations'
    BY <1>10, <1>d, PreparersUntouched DEF dropRequest, playerVars, Prepares
  <1>11. ASSUME NEW p \in Players, onPrepareCompleted(p) PROVE Preparations'
    BY <1>11, PreparationsCompleted
  <1>12. ASSUME NEW p \in Players, onSeekCompleted(p) \/ onPlaybackEvent(p) PROVE Preparations'
    <2>1. state_[p] \in PlayerStates \ {"CREATED", "END"} /\ InSlot(p)
      BY <1>0, <1>12 DEF onSeekCompleted, onPlaybackEvent, IInv, EngineInSlot, EngineUnused, EngineSlotted, TypeOK
    <2>2. player_[p] # "null" /\ player_[p] # "preparing" /\ Agree(state_[p], player_[p])
      BY <1>12, <2>1 DEF onSeekCompleted, onPlaybackEvent, EngineUsed, EnginesAgree, Preparations, SeekingApart
    <2>3. state_[p] # "PREPARING_SYNC"
      BY <2>2 DEF Agree, StateMaskPreparing
    <2>4. UNCHANGED state_ \/ \E next \in {"ERROR", "STARTED", "PLAYBACK_COMPLETED"} : SetState(p, next)
      BY <1>12, <2>1, PlaybackStates DEF onSeekCompleted, onPlaybackEvent
    <2>5. \A q \in Players : state_'[q] = "PREPARING_SYNC" <=> state_[q] = "PREPARING_SYNC"
      BY <1>0, <2>3, <2>4 DEF SetState, setState, TypeOK
    <2>6. SeekingApart'
      BY <1>0, <1>12 DEF onSeekCompleted, onPlaybackEvent, Preparations, SeekingApart, TypeOK
    <2> QED
      BY <1>12, <2>5, <2>6, PreparersUntouched DEF onSeekCompleted, onPlaybackEvent, Prepares
  <1>13. CASE UNCHANGED vars
    BY <1>13, <1>d, PreparersUntouched DEF vars, Prepares
  <1> QED
    BY <1>1, <1>2, <1>3, <1>4, <1>5, <1>6, <1>7, <1>8, <1>9, <1>10, <1>11, <1>12, <1>13
       DEF Next, Poll, ClientReturns, HandleMessage

LEMMA SecondWaitsStep == IInv /\ SecondWaits /\ [Next]_vars => SecondWaits'
  <1> SUFFICES ASSUME IInv, SecondWaits, [Next]_vars PROVE SecondWaits'
    OBVIOUS
  <1>0. TypeOK /\ CallsFormed
    BY DEF IInv
  <1>1. ASSUME NEW c \in Clients, NEW new, call' = [call EXCEPT ![c] = new],
               new.pc = "preparing" => new.what = "prepare"
        PROVE  SecondWaits'
    BY <1>0, <1>1 DEF SecondWaits, TypeOK
  <1>2. NoCall.pc = "idle" /\ \A pc, p, what : Call(pc, p, what).pc = pc /\ Call(pc, p, what).what = what
    BY DEF NoCall, Call
  <1>3. ASSUME NEW c \in Clients, NEW p \in Players, initialize(c, p) \/ release(c, p) PROVE SecondWaits'
    BY <1>1, <1>2, <1>3 DEF initialize, release, PostToContext
  <1>4. ASSUME NEW c \in Clients, NEW p \in Players, NEW r \in ClientRequests, callCheck(c, p, r) PROVE SecondWaits'
    <2>1. call' = [call EXCEPT ![c] = Call("checked", p, r)]
      BY <1>4 DEF callCheck
    <2>2. Call("checked", p, r).pc = "checked"
      BY <1>2
    <2> QED
      BY <1>1, <2>1, <2>2
  <1>5. ASSUME NEW c \in Clients, callPost(c) PROVE SecondWaits'
    BY <1>0, <1>1, <1>2, <1>5, CallPostEffect
  <1>6. ASSUME NEW c \in Clients, callReturn(c) PROVE SecondWaits'
    <2>1. call' = [call EXCEPT ![c] = NoCall] \/ call' = [call EXCEPT ![c] = Call("preparing", call[c].player, "prepare")]
      BY <1>6 DEF callReturn
    <2>2. Call("preparing", call[c].player, "prepare").what = "prepare"
      BY <1>2
    <2> QED
      BY <1>1, <1>2, <2>1, <2>2
  <1>7. ASSUME NEW c \in Clients, prepareReturn(c) \/ initializeReturn(c) \/ releaseReturn(c) PROVE SecondWaits'
    <2>1. call' = [call EXCEPT ![c] = NoCall]
      BY <1>7 DEF prepareReturn, initializeReturn, releaseReturn
    <2> QED
      BY <1>1, <1>2, <2>1
  <1>8. ASSUME NEW result, notifyResult(result) PROVE SecondWaits'
    BY <1>0, <1>8, NotifyKeeps DEF SecondWaits
  <1>9. ASSUME handleRequest PROVE SecondWaits'
    BY <1>8, <1>9 DEF handleRequest, onHandleMessage
  <1>10. ASSUME UNCHANGED call PROVE SecondWaits'
    BY <1>10 DEF SecondWaits
  <1> QED
    BY <1>3, <1>4, <1>5, <1>6, <1>7, <1>8, <1>9, <1>10
       DEF Next, Poll, ClientReturns, HandleMessage, create, handleRegister, handleUnregister, dropRequest,
           onPrepareCompleted, onSeekCompleted, onPlaybackEvent, vars

\* Whoever waits for the end of a preparation will learn its outcome, and no outcome is left
\* behind for a later call, when the application drives each player from one thread.
THEOREM PrepareOutcomeHolds == ASSUME OneThreadEach PROVE Spec => []PrepareOutcomeReachesItsCaller
  <1>1. ReleaseKeptApart
    BY DEF ReleaseKeptApart
  <1>2. Init => Preparations /\ SecondWaits
    BY DEF Init, NoCall, SecondWaits, Preparations, PreparationsAwaited, PreparersServed, OutcomesLast, SeekingApart, Prepares
  <1>3. CallsFormed /\ SecondWaits /\ Preparations => PrepareOutcomeReachesItsCaller
    <2> SUFFICES ASSUME CallsFormed, SecondWaits, Preparations PROVE PrepareOutcomeReachesItsCaller
      OBVIOUS
    <2>1. ASSUME NEW c \in Clients, call[c].pc = "preparing"
          PROVE  state_[call[c].player] = "PREPARING_SYNC" \/ prepared_result_[call[c].player] # "none"
      <3>1. call[c].player \in Players /\ call[c].what = "prepare"
        BY <2>1, NoneAssumption DEF CallsFormed, NoCall, SecondWaits
      <3> QED
        BY <2>1, <3>1 DEF Preparations, PreparersServed, Prepares
    <2>2. ASSUME NEW p \in Players, prepared_result_[p] # "none"
          PROVE  \E c \in Calling(p) : call[c].what = "prepare" /\ call[c].pc \in {"answered", "preparing"}
      BY <2>2 DEF Preparations, PreparationsAwaited, Prepares, Calling
    <2> QED
      BY <2>1, <2>2 DEF PrepareOutcomeReachesItsCaller
  <1> QED
    BY <1>1, <1>2, <1>3, PreparationsStep, SecondWaitsStep, ApartHolds, PTL DEF Spec, IInv
=============================================================================
