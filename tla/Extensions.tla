----------------------------- MODULE Extensions -----------------------------
(***************************************************************************)
(* The extensions of a context: the handles an application creates, the    *)
(* modules the handler thread installs for them, the calls that cross from *)
(* one to the other, and the thread a visualizer captures with.            *)
(*                                                                         *)
(* A handle's constructor and destructor post to the context, one at a     *)
(* time (mutex); its other methods post to its module.  All of them wait   *)
(* for the handler thread, which takes the messages in order.  It waits    *)
(* itself when a visualizer's thread is started or joined; creating the    *)
(* thread and joining it do not fail, but the wait for its start may.      *)
(*                                                                         *)
(* There are more slots than kinds of modules (16 and 9), so a module      *)
(* always finds one and a slot is named by the kind of its module.         *)
(***************************************************************************)
EXTENDS EffectModule, FiniteSets, SequencesExt

CONSTANTS Scenarios,               \* which kinds of handles are used together
          Handles, Threads, NaN,
          NumBands, NumPresets, MinLevel, MaxLevel,
          Asked(_, _),             \* the calls that are made, in a scenario, to a kind of handle
          Legal(_, _), Illegal(_, _)   \* their arguments: what an effect takes, and what it should refuse

PresetLevel(preset) == MinLevel + preset

BB == INSTANCE BassBoost
VI == INSTANCE Virtualizer
EQ == INSTANCE Equalizer
HQ == INSTANCE HQEqualizerEffect
PA == INSTANCE PreAmp
PR == INSTANCE PresetReverb
ER == INSTANCE EnvironmentalReverb
V == INSTANCE Visualizer
HV == INSTANCE HQVisualizer

Visualizers == {"visualizer", "hqvisualizer"}
Effects == {"bassboost", "virtualizer", "equalizer", "hqequalizer", "preamp", "presetreverb", "envreverb"}
Kinds == Effects \cup Visualizers
NeedsInterface == {"bassboost", "virtualizer", "equalizer", "presetreverb", "envreverb"}

\* the methods of a handle
Methods(kind) ==
  CASE kind = "bassboost"    -> BB!Getters \cup BB!Setters
    [] kind = "virtualizer"  -> VI!Getters \cup VI!Setters
    [] kind = "equalizer"    -> EQ!Getters \cup EQ!Setters
    [] kind = "hqequalizer"  -> HQ!Getters \cup HQ!Setters
    [] kind = "preamp"       -> PA!Getters \cup PA!Setters
    [] kind = "presetreverb" -> PR!Getters \cup PR!Setters
    [] kind = "envreverb"    -> ER!StatusGetters \cup {"setEnabled", "getParameter", "setParameter", "setProperties"}
    [] kind = "visualizer"   -> V!Getters \cup V!Setters \cup V!Direct
    [] kind = "hqvisualizer" -> HV!Getters \cup HV!Setters

\* what an effect takes: the handle lets it through, and the module does not refuse it
Takes(kind, what, arg) ==
  CASE kind = "bassboost"    -> BB!Accepts(what, arg)
    [] kind = "virtualizer"  -> VI!Accepts(what, arg)
    [] kind = "equalizer"    -> EQ!Accepts(what, arg) /\ ~EQ!RefusedPreset(what, arg)
    [] kind = "hqequalizer"  -> HQ!Accepts(what, arg) /\ ~HQ!RefusedPreset(what, arg)
    [] kind = "preamp"       -> PA!Accepts(what, arg)
    [] kind = "presetreverb" -> PR!Accepts(what, arg)
    [] kind = "envreverb"    -> ER!Accepts(what, arg)

ASSUME NullAssumption == NULL \notin [kind : Kinds, has_module : BOOLEAN]
ASSUME HandlesAssumption == NULL \notin Handles
ASSUME AskedAssumption ==
  \A kinds \in Scenarios : kinds \subseteq Kinds /\ \A kind \in kinds : Asked(kinds, kind) \subseteq Methods(kind)
ASSUME ArgumentsAssumption ==
  \A kind \in Kinds : Legal(kind, "setEnabled") \cup Illegal(kind, "setEnabled") \subseteq BOOLEAN
ASSUME LegalAssumption ==
  \A kind \in Effects : \A what \in Methods(kind) :
    \A arg \in Legal(kind, what) \cup Illegal(kind, what) : arg \in Legal(kind, what) <=> Takes(kind, what, arg)

VARIABLES scenario, options, supported,   \* as the context is created
          system,       \* what the effects have set
          slots,        \* extensions_ of the context, by kind
          acap,         \* audio_capture_extensions_bitmap_: capturing is enabled when it is not empty
          handles,      \* handle -> its kind and whether it has a module, or NULL
          infos,        \* handle -> its ClientInfo
          calls,        \* thread -> the call it makes
          mutex,        \* the thread that holds the context's mutex_, or NULL
          queue,        \* messages of the handler thread, each named by its thread
          handler,      \* what the handler thread is about
          status,       \* visualizer -> the status of its module
          capture,      \* visualizer -> the thread of its module
          timed_out     \* a start of the thread was given up

contextVars == <<scenario, options, supported>>
moduleVars == <<system, slots, acap, infos, status>>
threadVars == <<capture, timed_out>>
vars == <<contextVars, moduleVars, handles, calls, mutex, queue, handler, threadVars>>

Idle == [phase |-> "idle"]
FreeSlot == [installed |-> FALSE, num_attached |-> 0, client_queue |-> <<>>]
NoThread == [state |-> "none", client |-> NULL, stop_req |-> FALSE]

Init ==
  /\ scenario \in Scenarios
  /\ options \in {scenario, {}}
  /\ supported \in {NeedsInterface \cap scenario, {}}
  /\ system = [bassboost |-> [enabled |-> FALSE, strength |-> 0], virtualizer |-> [enabled |-> FALSE, strength |-> 0],
               equalizer |-> [enabled |-> FALSE, preset |-> 0, levels |-> EQ!Flat(0)],
               hqequalizer |-> [enabled |-> FALSE, preset |-> 0, levels |-> HQ!PresetData(0)],
               preamp |-> [enabled |-> FALSE, level |-> PA!UNITY, mixer_level |-> PA!UNITY],
               presetreverb |-> [enabled |-> FALSE, preset |-> PR!NONE],
               envreverb |-> [enabled |-> FALSE, settings |-> ER!MakeDefaultSettings],
               aux |-> [active |-> "none", enabled |-> [e \in PR!AuxEffects |-> FALSE], level |-> 0,
                        millibel |-> PR!MIN, sends |-> [e \in PR!AuxEffects |-> PR!MIN]]]
  /\ slots = [k \in Kinds |-> FreeSlot]
  /\ acap = {}
  /\ handles = [h \in Handles |-> NULL]
  /\ infos = [h \in Handles |-> V!ClientInfo]
  /\ calls = [t \in Threads |-> Idle]
  /\ mutex = NULL
  /\ queue = <<>>
  /\ handler = "idle"
  /\ status = [visualizer |-> V!VisualizerStatus, hqvisualizer |-> HV!HQVisualizerStatus]
  /\ capture = [k \in Visualizers |-> NoThread]
  /\ timed_out = FALSE

-----------------------------------------------------------------------------
(* The caller's side *)

wantsModule(kind) ==
  CASE kind = "bassboost"    -> BB!wantsModule(options)
    [] kind = "virtualizer"  -> VI!wantsModule(options)
    [] kind = "equalizer"    -> EQ!wantsModule(options)
    [] kind = "hqequalizer"  -> HQ!wantsModule(options)
    [] kind = "preamp"       -> PA!wantsModule(options)
    [] kind = "presetreverb" -> PR!wantsModule(options)
    [] kind = "envreverb"    -> ER!wantsModule(options)
    [] kind = "visualizer"   -> V!wantsModule(options)
    [] kind = "hqvisualizer" -> HV!wantsModule(options)

posting(h, what, arg) ==
  LET has_module == handles[h].has_module
      kind == handles[h].kind
  IN CASE kind = "bassboost"    -> BB!posting(has_module, what, arg)
       [] kind = "virtualizer"  -> VI!posting(has_module, what, arg)
       [] kind = "equalizer"    -> EQ!posting(has_module, what, arg)
       [] kind = "hqequalizer"  -> HQ!posting(has_module, what, arg)
       [] kind = "preamp"       -> PA!posting(has_module, what, arg)
       [] kind = "presetreverb" -> PR!posting(has_module, what, arg)
       [] kind = "envreverb"    -> ER!posting(has_module, what, arg)
       [] kind = "visualizer"   -> V!posting(has_module, status[kind], h, what, arg)
       [] kind = "hqvisualizer" -> HV!posting(has_module, what, arg)

Call(h, kind, what, arg) ==
  [phase |-> "posted", handle |-> h, kind |-> kind, what |-> what, arg |-> arg, result |-> NULL, value |-> NULL]
Replied(call, result, value) == [call EXCEPT !.phase = "replied", !.result = result, !.value = value]
Calls(h) == {t \in Threads : calls[t] # Idle /\ calls[t].handle = h}

post(t, call) ==
  /\ calls' = [calls EXCEPT ![t] = call]
  /\ queue' = Append(queue, t)

\* the constructor: extAttachOrInstall(), unless the context was created without the option
Create(t, h, kind) ==
  /\ calls[t] = Idle /\ handles[h] = NULL /\ Calls(h) = {}
  /\ LET call == Call(h, kind, "create", NULL)
     IN IF wantsModule(kind)
          THEN mutex = NULL /\ mutex' = t /\ post(t, call)
          ELSE calls' = [calls EXCEPT ![t] = Replied(call, "dead_object", NULL)] /\ UNCHANGED <<mutex, queue>>
  /\ UNCHANGED <<contextVars, moduleVars, handles, handler, threadVars>>

\* the destructor: extDetachOrUninstall(), if there is a module; nobody uses the handle any more
Destroy(t, h) ==
  /\ calls[t] = Idle /\ handles[h] # NULL /\ Calls(h) = {}
  /\ LET call == Call(h, handles[h].kind, "destroy", NULL)
     IN IF handles[h].has_module
          THEN mutex = NULL /\ mutex' = t /\ post(t, call)
          ELSE calls' = [calls EXCEPT ![t] = Replied(call, "dead_object", NULL)] /\ UNCHANGED <<mutex, queue>>
  /\ UNCHANGED <<contextVars, moduleVars, handles, handler, threadVars>>

\* any other method
Use(t, h, what, arg) ==
  /\ calls[t] = Idle /\ handles[h] # NULL
  /\ \A u \in Calls(h) : calls[u].what \notin {"create", "destroy"}
  /\ LET call == Call(h, handles[h].kind, what, arg)
         outcome == posting(h, what, arg)
     IN IF outcome = "posted" THEN post(t, call)
        ELSE calls' = [calls EXCEPT ![t] = Replied(call, outcome, NULL)] /\ UNCHANGED queue
  /\ UNCHANGED <<contextVars, moduleVars, handles, mutex, handler, threadVars>>

\* waitResult() is over
Return(t) ==
  /\ calls[t].phase = "replied"
  /\ LET c == calls[t]
     IN /\ handles' = CASE c.what = "create"  ->
                             [handles EXCEPT ![c.handle] = [kind |-> c.kind, has_module |-> c.result = "success"]]
                        [] c.what = "destroy" -> [handles EXCEPT ![c.handle] = NULL]
                        [] OTHER              -> handles
        /\ infos' = IF c.what = "destroy" THEN [infos EXCEPT ![c.handle] = V!ClientInfo] ELSE infos
  /\ mutex' = IF mutex = t THEN NULL ELSE mutex
  /\ calls' = [calls EXCEPT ![t] = Idle]
  /\ UNCHANGED <<contextVars, system, slots, acap, status, queue, handler, threadVars>>

-----------------------------------------------------------------------------
(* The handler thread.  A message leaves the queue when it is answered. *)

message == calls[Head(queue)]

reply(result, value) ==
  /\ calls' = [calls EXCEPT ![Head(queue)] = Replied(@, result, value)]
  /\ queue' = Tail(queue)
  /\ handler' = "idle"

is_active(m) == checkIsClientActive(slots[m.kind].client_queue, m.handle)

processAfterExtensionTraitsChanged(kind, traits) ==
  acap' = IF "capture_audio_data" \in traits THEN acap \cup {kind} ELSE acap \ {kind}
traits(kind, s) == IF kind = "visualizer" THEN V!getExtensionTraits(s) ELSE HV!getExtensionTraits(s)

onInstall(kind) ==
  CASE kind = "bassboost"    -> BB!onInstall(system)
    [] kind = "virtualizer"  -> VI!onInstall(system)
    [] kind = "equalizer"    -> EQ!onInstall(system)
    [] kind = "hqequalizer"  -> HQ!onInstall(system)
    [] kind = "preamp"       -> PA!onInstall(system)
    [] kind = "presetreverb" -> PR!onInstall(system)
    [] kind = "envreverb"    -> ER!onInstall(system)
    [] OTHER                 -> system
onUninstall(kind) ==
  CASE kind = "bassboost"    -> BB!onUninstall(system)
    [] kind = "virtualizer"  -> VI!onUninstall(system)
    [] kind = "equalizer"    -> EQ!onUninstall(system)
    [] kind = "hqequalizer"  -> HQ!onUninstall(system)
    [] kind = "preamp"       -> PA!onUninstall(system)
    [] kind = "presetreverb" -> PR!onUninstall(system)
    [] kind = "envreverb"    -> ER!onUninstall(system)
    [] OTHER                 -> system
newStatus(kind) == IF kind = "visualizer" THEN V!VisualizerStatus ELSE HV!HQVisualizerStatus
onAttach(kind, client) ==
  IF kind = "visualizer" THEN V!onAttach(status[kind], client) ELSE HV!onAttach(status[kind], client)

\* mutant: the module forgets how many are attached to it
attach_Uncounted(slot, client) == [slot EXCEPT !.client_queue = handleOnAttach(@, client)]
attach(slot, client) == [slot EXCEPT !.num_attached = @ + 1, !.client_queue = handleOnAttach(@, client)]

internalExtAttach(m) ==
  /\ slots[m.kind].installed
  /\ slots' = [slots EXCEPT ![m.kind] = attach(@, m.handle)]
  /\ status' = IF m.kind \in Visualizers THEN [status EXCEPT ![m.kind] = onAttach(m.kind, m.handle)] ELSE status
  /\ reply("success", NULL)
  /\ UNCHANGED <<system, acap>>

internalExtInstall(m) ==
  /\ ~slots[m.kind].installed
  /\ IF m.kind \in NeedsInterface \ supported
       THEN reply("error", NULL) /\ UNCHANGED <<system, slots, acap, status>>
       ELSE /\ slots' = [slots EXCEPT ![m.kind] =
                 [installed |-> TRUE, num_attached |-> 1, client_queue |-> handleOnInstall(m.handle)]]
            /\ system' = onInstall(m.kind)
            /\ IF m.kind \in Visualizers
                 THEN /\ status' = [status EXCEPT ![m.kind] = newStatus(m.kind)]
                      /\ processAfterExtensionTraitsChanged(m.kind, traits(m.kind, newStatus(m.kind)))
                 ELSE UNCHANGED <<status, acap>>
            /\ reply("success", NULL)

handleExtAttachOrInstall ==
  /\ handler = "idle" /\ queue # <<>>
  /\ message.what = "create"
  /\ internalExtAttach(message) \/ internalExtInstall(message)
  /\ UNCHANGED <<contextVars, infos, handles, mutex, threadVars>>

-----------------------------------------------------------------------------
(* The thread of a visualizer, started and joined by the handler thread *)

\* the flag is raised; the handler thread waits in pthread_join()
stopPeriodicCapturing(kind) ==
  /\ capture' = [capture EXCEPT ![kind].stop_req = TRUE]
  /\ handler' = "stopping"
  /\ UNCHANGED <<calls, queue>>

\* the handler thread waits, three seconds at most, until the thread has read what it needs
startPeriodicCapturing(kind) ==
  /\ capture' = [capture EXCEPT ![kind] = [state |-> "starting", client |-> NULL, stop_req |-> FALSE]]
  /\ handler' = "starting"
  /\ UNCHANGED <<calls, queue>>

available(kind) == capture[kind].state # "none"

\* periodicCaptureThreadEntryFunc(): the active client of this moment is the one it works for
ThreadStarts(kind) ==
  /\ capture[kind].state = "starting"
  /\ capture' = [capture EXCEPT ![kind].state = "running", ![kind].client = Head(slots[kind].client_queue)]
  /\ UNCHANGED <<contextVars, moduleVars, handles, calls, mutex, queue, handler, timed_out>>

\* processPeriodicCapture(): the listener of the client is called, and takes its time
ListenerCalled(kind) ==
  /\ capture[kind].state = "running" /\ ~capture[kind].stop_req
  /\ capture' = [capture EXCEPT ![kind].state = "calling"]
  /\ UNCHANGED <<contextVars, moduleVars, handles, calls, mutex, queue, handler, timed_out>>
ListenerReturns(kind) ==
  /\ capture[kind].state = "calling"
  /\ capture' = [capture EXCEPT ![kind].state = "running"]
  /\ UNCHANGED <<contextVars, moduleVars, handles, calls, mutex, queue, handler, timed_out>>

ThreadExits(kind) ==
  /\ capture[kind].state = "running" /\ capture[kind].stop_req
  /\ capture' = [capture EXCEPT ![kind].state = "exited"]
  /\ UNCHANGED <<contextVars, moduleVars, handles, calls, mutex, queue, handler, timed_out>>

-----------------------------------------------------------------------------
(* What a visualizer's message does after its thread was started or joined *)

preparedForCapturing(h) == V!preparedForCapturing(infos[h])
enabledChanged(m) ==
  IF m.kind = "visualizer" THEN V!enabledChanged(status[m.kind], m.arg, m.handle)
                           ELSE HV!enabledChanged(status[m.kind], m.arg, m.handle)
afterDetach(m, active) ==
  IF m.kind = "visualizer" THEN V!afterDetach(status[m.kind], m.handle, active)
                           ELSE HV!afterDetach(status[m.kind], m.handle, active)

\* MSG_SET_ENABLED, from where the thread is started, stopped or not needed
finishSetEnabled(m) ==
  /\ status' = [status EXCEPT ![m.kind] = enabledChanged(m)]
  /\ processAfterExtensionTraitsChanged(m.kind, traits(m.kind, enabledChanged(m)))
  /\ reply("success", NULL)
  /\ UNCHANGED <<system, slots>>

detached(slot, client) == [slot EXCEPT !.client_queue = handleOnDetach(@, client)]

\* onDetach(), from where a running capture is stopped: it goes on for the client that is active now
finishDetach(m, capturing_stopped) ==
  LET slot == detached([slots[m.kind] EXCEPT !.num_attached = @ - 1], m.handle)
      active == Head(slot.client_queue)
  IN /\ slots' = [slots EXCEPT ![m.kind] = slot]
     /\ IF m.kind \in Visualizers
          THEN status' = [status EXCEPT ![m.kind] = afterDetach(m, active)]
          ELSE UNCHANGED status
     /\ IF capturing_stopped /\ status[m.kind].enabled /\ preparedForCapturing(active)
          THEN startPeriodicCapturing(m.kind)
          ELSE /\ capture' = IF capturing_stopped THEN [capture EXCEPT ![m.kind] = NoThread] ELSE capture
               /\ reply("success", NULL)
     /\ UNCHANGED <<system, acap>>

\* onUninstall(): the slot was cleared first
finishUninstall(m) ==
  /\ slots' = [slots EXCEPT ![m.kind] = FreeSlot]
  /\ acap' = acap \ {m.kind}
  /\ system' = onUninstall(m.kind)
  /\ capture' = IF m.kind \in Visualizers THEN [capture EXCEPT ![m.kind] = NoThread] ELSE capture
  /\ reply("success", NULL)
  /\ UNCHANGED status

\* mutant: who leaves without control takes the capture along, who has control leaves it behind
stopsAtDetach_Other(m) == status[m.kind].enabled /\ ~is_active(m)
stopsAtDetach(m) == status[m.kind].enabled /\ is_active(m)

\* nobody looks at the slot while the thread is joined: it is cleared, or counted down, afterwards
handleExtDetachOrUninstall ==
  LET m == message
      last == slots[m.kind].num_attached <= 1
      stops == m.kind \in Visualizers /\ (last \/ stopsAtDetach(m))
  IN /\ handler = "idle" /\ queue # <<>> /\ m.what = "destroy"
     /\ IF stops /\ available(m.kind)
          THEN /\ stopPeriodicCapturing(m.kind)
               /\ acap' = IF last THEN acap \ {m.kind} ELSE acap
               /\ UNCHANGED <<system, slots, status>>
          ELSE IF last THEN finishUninstall(m) ELSE finishDetach(m, stops)
     /\ UNCHANGED <<contextVars, infos, handles, mutex, timed_out>>

processMessage(m) ==
  LET active == is_active(m)
  IN CASE m.kind = "bassboost"    -> BB!processMessage(system, m.what, m.arg, active)
       [] m.kind = "virtualizer"  -> VI!processMessage(system, m.what, m.arg, active)
       [] m.kind = "equalizer"    -> EQ!processMessage(system, m.what, m.arg, active)
       [] m.kind = "hqequalizer"  -> HQ!processMessage(system, m.what, m.arg, active)
       [] m.kind = "preamp"       -> PA!processMessage(system, m.what, m.arg, active)
       [] m.kind = "presetreverb" -> PR!processMessage(system, m.what, m.arg, active)
       [] m.kind = "envreverb"    -> ER!processMessage(system, m.what, m.arg, active)

handleEffectMessage(m) ==
  LET answer == processMessage(m)
  IN /\ system' = answer.system
     /\ reply(answer.result, answer.value)
     /\ UNCHANGED <<slots, acap, infos, status, capture>>

own(m) == [status |-> status[m.kind], info |-> infos[m.handle]]
processVisualizerMessage(m) ==
  IF m.kind = "visualizer" THEN V!processMessage(own(m), m.handle, m.what, m.arg, is_active(m))
                           ELSE HV!processMessage(own(m), m.handle, m.what, m.arg, is_active(m))
StartsThread(m) ==
  IF m.kind = "visualizer" THEN V!StartsThread(own(m), m.what, m.arg, is_active(m))
                           ELSE HV!StartsThread(own(m), m.what, m.arg, is_active(m))
StopsThread(m) ==
  IF m.kind = "visualizer" THEN V!StopsThread(own(m), m.what, m.arg, is_active(m))
                           ELSE HV!StopsThread(own(m), m.what, m.arg, is_active(m))

\* the traits are asked for again when the module has said so
handleVisualizerMessage(m) ==
  IF StartsThread(m) THEN startPeriodicCapturing(m.kind) /\ UNCHANGED moduleVars
  ELSE IF StopsThread(m) /\ available(m.kind) THEN stopPeriodicCapturing(m.kind) /\ UNCHANGED moduleVars
  ELSE LET answer == processVisualizerMessage(m)
       IN /\ status' = [status EXCEPT ![m.kind] = answer.system.status]
          /\ infos' = [infos EXCEPT ![m.handle] = answer.system.info]
          /\ IF answer.system.status.enabled # status[m.kind].enabled
               THEN processAfterExtensionTraitsChanged(m.kind, traits(m.kind, answer.system.status))
               ELSE UNCHANGED acap
          /\ reply(answer.result, answer.value)
          /\ UNCHANGED <<system, slots, capture>>

\* handleExtensionMessages(): nobody answers when the slot is empty
unanswered ==
  /\ queue' = Tail(queue)
  /\ UNCHANGED <<moduleVars, calls, handler, capture>>

handleExtensionMessage ==
  /\ handler = "idle" /\ queue # <<>> /\ message.what \notin {"create", "destroy"}
  /\ IF ~slots[message.kind].installed THEN unanswered
     ELSE IF message.kind \in Visualizers THEN handleVisualizerMessage(message)
     ELSE handleEffectMessage(message)
  /\ UNCHANGED <<contextVars, handles, mutex, timed_out>>

\* the thread is joined: MSG_SET_ENABLED, onDetach() and onUninstall() go on
CaptureStopped ==
  /\ handler = "stopping" /\ capture[message.kind].state = "exited"
  /\ IF message.what = "setEnabled"
       THEN finishSetEnabled(message) /\ capture' = [capture EXCEPT ![message.kind] = NoThread]
       ELSE IF slots[message.kind].num_attached <= 1 THEN finishUninstall(message) ELSE finishDetach(message, TRUE)
  /\ UNCHANGED <<contextVars, infos, handles, mutex, timed_out>>

CaptureStarted ==
  /\ handler = "starting" /\ capture[message.kind].state # "starting"
  /\ IF message.what = "setEnabled" THEN finishSetEnabled(message)
     ELSE reply("success", NULL) /\ UNCHANGED <<system, slots, acap, status>>
  /\ UNCHANGED <<contextVars, infos, handles, mutex, threadVars>>

\* three seconds have passed; the thread may have answered in the meantime
StartTimesOut ==
  /\ handler = "starting"
  /\ capture' = [capture EXCEPT ![message.kind].stop_req = TRUE]
  /\ handler' = "giving_up"
  /\ timed_out' = TRUE
  /\ UNCHANGED <<contextVars, moduleVars, handles, calls, mutex, queue>>

StartGivenUp ==
  /\ handler = "giving_up" /\ capture[message.kind].state = "exited"
  /\ capture' = [capture EXCEPT ![message.kind] = NoThread]
  /\ reply(IF message.what = "setEnabled" THEN "internal_error" ELSE "success", NULL)
  /\ UNCHANGED <<contextVars, moduleVars, handles, mutex, timed_out>>

-----------------------------------------------------------------------------
(* What else the handler thread does to the effects *)

\* AudioSystem::poll(), around a change of the sink's state
raiseOnBeforeAudioSinkStateChanged(next_is_started) ==
  /\ handler = "idle" /\ slots["equalizer"].installed
  /\ system' = EQ!onBeforeAudioSinkStateChanged(system, next_is_started)
  /\ UNCHANGED <<contextVars, slots, acap, infos, status, handles, calls, mutex, queue, handler, threadVars>>

\* a player's attachAuxEffect() and setAuxEffectSendLevel()
selectActiveAuxEffect(effect) ==
  /\ handler = "idle" /\ scenario \cap PR!AuxEffects # {}
  /\ system' = [system EXCEPT !.aux = PR!onSelectActiveAuxEffect(@, effect)]
  /\ UNCHANGED <<contextVars, slots, acap, infos, status, handles, calls, mutex, queue, handler, threadVars>>
setAuxEffectSendLevel(level) ==
  /\ handler = "idle" /\ scenario \cap PR!AuxEffects # {}
  /\ system' = [system EXCEPT !.aux = PR!onSetAuxEffectSendLevel(@, level)]
  /\ UNCHANGED <<contextVars, slots, acap, infos, status, handles, calls, mutex, queue, handler, threadVars>>

-----------------------------------------------------------------------------
Handle == handleExtAttachOrInstall \/ handleExtDetachOrUninstall \/ handleExtensionMessage
Wait == CaptureStopped \/ CaptureStarted \/ StartGivenUp

Next ==
  \/ \E t \in Threads, h \in Handles :
       \/ \E kind \in scenario : Create(t, h, kind)
       \/ Destroy(t, h)
       \/ handles[h] # NULL /\ \E what \in Asked(scenario, handles[h].kind) :
            \E arg \in Legal(handles[h].kind, what) \cup Illegal(handles[h].kind, what) : Use(t, h, what, arg)
  \/ \E t \in Threads : Return(t)
  \/ Handle
  \/ Wait
  \/ StartTimesOut
  \/ \E kind \in Visualizers :
       ThreadStarts(kind) \/ ListenerCalled(kind) \/ ListenerReturns(kind) \/ ThreadExits(kind)
  \/ \E next_is_started \in BOOLEAN : raiseOnBeforeAudioSinkStateChanged(next_is_started)
  \/ \E effect \in PR!AuxEffects \cup {"none"} : selectActiveAuxEffect(effect)
  \/ \E level \in 0 .. 2 : setAuxEffectSendLevel(level)

\* the handler thread and the threads of the visualizers are scheduled, and a listener returns
Fairness ==
  /\ WF_vars(Handle)
  /\ WF_vars(Wait)
  /\ \A kind \in Visualizers :
       WF_vars(ThreadStarts(kind)) /\ WF_vars(ListenerReturns(kind)) /\ WF_vars(ThreadExits(kind))
  /\ \A t \in Threads : WF_vars(Return(t))

Spec == Init /\ [][Next]_vars /\ Fairness

-----------------------------------------------------------------------------
(* Properties *)

\* what an effect is set to
shown(s, k) ==
  [enabled |-> s[k].enabled,
   setting |-> CASE k \in {"bassboost", "virtualizer"}     -> s[k].strength
                 [] k \in {"equalizer", "hqequalizer"} -> [curPreset |-> s[k].preset, bandLevels |-> s[k].levels]
                 [] k = "preamp"                       -> s[k].level
                 [] k = "presetreverb"                 -> s[k].preset
                 [] k = "envreverb"                    -> s[k].settings]

Holders == [k \in Effects |-> slots[k].client_queue]
Settings == [k \in Effects |-> IF slots[k].installed THEN shown(system, k) ELSE NULL]
EffectCall(c) == IF c.phase # "idle" /\ c.kind \in Effects THEN c ELSE Idle
EffectCalls == [t \in Threads |-> EffectCall(calls[t])]

Control == INSTANCE EffectControl WITH holders <- Holders, settings <- Settings, calls <- EffectCalls

\* The handles of the seven effects do what EffectControl promises: control goes to the newest handle and
\* back, a call takes effect once, and an effect starts over when nobody is left.
EffectControlSpec == Control!Spec

\* Nothing goes on when the last handle of a kind is gone: the effects of the sink are off, the mixer's gain
\* is one, nothing is sent to the reverbs, no thread captures.
SilentWithoutHandles ==
  handler = "idle" => \A k \in Kinds : ~slots[k].installed =>
    CASE k \in {"bassboost", "virtualizer", "equalizer", "hqequalizer"} -> ~system[k].enabled
      [] k = "preamp"            -> system.preamp.mixer_level = PA!UNITY
      [] k \in PR!AuxEffects     -> system.aux.sends[k] = PR!MIN
      [] k \in Visualizers       -> capture[k].state = "none" /\ k \notin acap

\* The sink sends to the reverb that is selected and enabled, with the level that was set last (in millibel),
\* and to no other, in whatever order the players and the two reverbs said so.
SendsFollowSelection ==
  \A k \in PR!AuxEffects :
    system.aux.sends[k] =
      IF k = system.aux.active /\ slots[k].installed /\ system[k].enabled
      THEN PR!linearToMillibel(system.aux.level) ELSE PR!MIN

\* A message posted to a module finds it installed, with its sender attached: the sender is answered.
MessagesFindTheirModule ==
  \A i \in DOMAIN queue :
    LET c == calls[queue[i]]
    IN c.what # "create" /\ (i > 1 \/ handler = "idle") =>
         slots[c.kind].installed /\ Contains(slots[c.kind].client_queue, c.handle)

\* Between messages the mixer captures for a visualizer just when that is enabled; there is a thread only
\* then, and there is one when the active client has a listener, unless a start was given up; and what can be
\* read directly can be read by the active client.
CaptureFollowsControl ==
  handler = "idle" => \A k \in Visualizers :
    LET on == slots[k].installed /\ status[k].enabled
        active == Head(slots[k].client_queue)
    IN /\ k \in acap <=> on
       /\ capture[k].state # "none" => on /\ ~capture[k].stop_req
       /\ on /\ preparedForCapturing(active) /\ ~timed_out => capture[k].state # "none"
       /\ slots[k].installed =>
            status[k].get_waveform_fft_state \in {V!PackWaveFftStatus(status[k].enabled, active), V!PackWaveFftStatus(FALSE, NULL)}

\* The client with control that disables its visualizer, or releases it, is not called any more when that returns.
ListenerLeavesWithControl ==
  [][\A t \in Threads :
       LET c == calls[t]
       IN /\ c # Idle /\ c.phase = "posted" /\ calls'[t].phase = "replied" /\ calls'[t].result = "success"
          /\ c.kind \in Visualizers /\ checkIsClientActive(slots[c.kind].client_queue, c.handle)
          /\ c.what = "destroy" \/ (c.what = "setEnabled" /\ ~c.arg)
          => capture'[c.kind].client # c.handle]_vars
=============================================================================
