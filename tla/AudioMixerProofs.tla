-------------------------- MODULE AudioMixerProofs --------------------------
(***************************************************************************)
(* TLAPS proofs about AudioMixer, for every number of pipes, clients and   *)
(* items: its types, the conservation of the items, that a pipe the        *)
(* handler thread has given up is unknown to the mixer thread, that flags  *)
(* and states agree, that the handler thread receives no report it does    *)
(* not expect, and that what has been played to its end is not started     *)
(* again.                                                                  *)
(***************************************************************************)
EXTENDS AudioMixer, TLAPS

USE NumItemsAssumption, ArgumentsAssumption, PoolAssumption, LoopingAssumption, NoneAssumption

SourceSets == [slots : [Pipes -> Slots \cup {None}], updated : SUBSET Pipes]
Contexts == [slots : [Pipes -> Slots \cup {None}], flags : [Pipes -> SUBSET FlagNames],
             state : [Pipes -> SlotStates], fading : SUBSET Pipes]

-----------------------------------------------------------------------------
(* What the operators of the two threads return.                           *)

LEMMA ContextTyped == TypeOK => Context \in Contexts
  BY DEF TypeOK, Context, Contexts

LEMMA AttachOrUpdateTyped ==
  ASSUME NEW set \in SourceSets, NEW p \in Pipes, NEW args \in Arguments
  PROVE  AttachOrUpdate(set, p, args) \in SourceSets
  <1>1. args \in Slots
    BY DEF ArgumentRecords, Slots
  <1> QED  BY <1>1 DEF AttachOrUpdate, SourceSets

LEMMA DetachTyped ==
  ASSUME NEW set \in SourceSets, NEW p \in Pipes
  PROVE  Detach(set, p) \in SourceSets
  <1>1. CASE set.slots[p] = None \/ Detaching(set, p)
    BY <1>1 DEF Detach
  <1>2. CASE ~(set.slots[p] = None \/ Detaching(set, p))
    <2>1. set.slots[p] \in Slots
      BY <1>2 DEF SourceSets
    <2>2. [set.slots[p] EXCEPT !.operation = "detach"] \in Slots
      BY <2>1 DEF Slots
    <2> QED  BY <1>2, <2>2 DEF Detach, SourceSets
  <1> QED  BY <1>1, <1>2

LEMMA InitializeSourcesTyped ==
  ASSUME TypeOK, NEW request \in Items(Slots)
  PROVE  InitializeSources(request) \in Contexts
  <1> DEFINE c == InitializeSources(request)
  <1>1. c.slots \in [Pipes -> Slots \cup {None}]
    BY DEF InitializeSources, TypeOK, Items
  <1>2. \A f \in SUBSET FlagNames : \A o : OperationFlags(f, o) \in SUBSET FlagNames
    BY DEF OperationFlags, FlagNames
  <1>3. \A p \in Pipes : EndFlags(p) \in SUBSET FlagNames
    BY DEF EndFlags, FlagNames
  <1>4. c.flags \in [Pipes -> SUBSET FlagNames]
    BY <1>2, <1>3 DEF InitializeSources, TypeOK
  <1>5. \A s \in SlotStates : \A o : UpdatedState(s, o) \in SlotStates
    BY DEF UpdatedState, SlotStates, Started, Stopped
  <1>6. \A o : AttachedState(o) \in SlotStates
    BY DEF AttachedState, SlotStates, Started, Stopped
  <1>7. c.state \in [Pipes -> SlotStates]
    BY <1>5, <1>6 DEF InitializeSources, TypeOK
  <1>8. c.fading \in SUBSET Pipes
    BY DEF InitializeSources
  <1> QED  BY <1>1, <1>4, <1>7, <1>8 DEF InitializeSources, Contexts

LEMMA EndsAfterTyped ==
  ASSUME NEW c \in Contexts, NEW S
  PROVE  EndsAfter(c, S) \in Contexts /\ EndsAfter(c, S).slots = c.slots
  BY DEF EndsAfter, Contexts, FlagNames

LEMMA CheckStartConditionsTyped ==
  ASSUME NEW c \in Contexts, NEW fire \in Firings(c)
  PROVE  /\ CheckStartConditions(c, fire) \in Contexts
         /\ CheckStartConditions(c, fire).slots = c.slots
         /\ DOMAIN fire \subseteq Pipes
  <1>1. DOMAIN fire \subseteq Pipes
    BY DEF Firings
  <1>2. CheckStartConditions(c, fire).flags \in [Pipes -> SUBSET FlagNames]
    BY DEF CheckStartConditions, Contexts, FlagNames
  <1>3. CheckStartConditions(c, fire).state \in [Pipes -> SlotStates]
    BY DEF CheckStartConditions, Contexts, SlotStates, Started
  <1> QED  BY <1>1, <1>2, <1>3 DEF CheckStartConditions, Contexts

LEMMA CheckStopConditionsTyped ==
  ASSUME NEW c \in Contexts, NEW faded
  PROVE  CheckStopConditions(c, faded) \in Contexts /\ CheckStopConditions(c, faded).slots = c.slots
  <1>1. \A f : StopState(f) \in SlotStates
    BY DEF StopState, SlotStates, Stopped
  <1>2. CheckStopConditions(c, faded).flags \in [Pipes -> SUBSET FlagNames]
    BY DEF CheckStopConditions, Contexts
  <1>3. CheckStopConditions(c, faded).state \in [Pipes -> SlotStates]
    BY <1>1 DEF CheckStopConditions, Contexts
  <1> QED  BY <1>2, <1>3 DEF CheckStopConditions, Contexts

LEMMA CleanUpTyped ==
  ASSUME NEW c \in Contexts
  PROVE  CleanUp(c) \in Contexts
  BY DEF CleanUp, Contexts, SlotStates

LEMMA ReportOfTyped ==
  ASSUME NEW c \in Contexts, NEW D
  PROVE  ReportOf(c, D) \in [Pipes -> Reports \cup {None}]
  BY DEF ReportOf, Contexts, Reports

LEMMA OnlyTyped ==
  ASSUME NEW set \in SourceSets
  PROVE  RequestItem(set.updated, Only(set.updated, set.slots)) \in Items(Slots)
  BY DEF RequestItem, Only, SourceSets, Items

LEMMA ApplyTyped ==
  ASSUME TypeOK, NEW set \in SourceSets, Apply(set)
  PROVE  /\ requested' \in SourceSets
         /\ request_free' \in Nat
         /\ request_queue' \in Seq(Items(Slots))
  <1>1. CASE set.updated # {} /\ request_free > 0
    <2>1. requested' \in SourceSets
      BY <1>1 DEF Apply, SourceSets
    <2>2. request_queue' \in Seq(Items(Slots))
      <3> DEFINE sent == RequestItem(set.updated, Only(set.updated, set.slots))
      <3>1. sent \in Items(Slots)
        BY OnlyTyped
      <3>2. request_queue' = Append(request_queue, sent)
        BY <1>1 DEF Apply
      <3> HIDE DEF sent
      <3> QED  BY <3>1, <3>2 DEF TypeOK
    <2> QED  BY <1>1, <2>1, <2>2 DEF Apply, TypeOK
  <1>2. CASE ~(set.updated # {} /\ request_free > 0)
    BY <1>2 DEF Apply, TypeOK
  <1> QED  BY <1>1, <1>2

-----------------------------------------------------------------------------
(* Types.                                                                  *)

LEMMA TypeInit == Init => TypeOK
  <1> SUFFICES ASSUME Init PROVE TypeOK
    OBVIOUS
  <1>1. <<>> \in Seq(Items(Slots))
    OBVIOUS
  <1>2. <<>> \in Seq(Items(Reports))
    OBVIOUS
  <1> QED  BY <1>1, <1>2 DEF Init, TypeOK, SlotStates

\* the mixer's variables after a step that sets its context
LEMMA SetContextTyped ==
  ASSUME NEW c \in Contexts, NEW updated \in SUBSET Pipes, SetContext(c, updated)
  PROVE  /\ current' \in SourceSets
         /\ slot_state' \in [Pipes -> SlotStates]
         /\ flags' \in [Pipes -> SUBSET FlagNames]
         /\ fading_out' \subseteq Pipes
  BY DEF SetContext, Contexts, SourceSets

LEMMA ConsumeEndsTyped ==
  ASSUME TypeOK, NEW c, NEW S, ConsumeEnds(c, S)
  PROVE  data_end' \in [Pipes -> {"none", "queued", "end", "loop"}] /\ sources' \subseteq Pipes
  BY DEF ConsumeEnds, TypeOK

LEMMA MixerItemTyped ==
  ASSUME NEW D \in SUBSET Pipes, NEW f \in [Pipes -> Reports \cup {None}]
  PROVE  MixerItem(D, f) \in Items(Reports) /\ RequestItem(D, f) \in Items(Reports)
  BY DEF MixerItem, RequestItem, Items

LEMMA NotifyTyped ==
  ASSUME TypeOK, NEW c \in Contexts, NEW updated \in SUBSET Pipes, Notify(c, updated)
  PROVE  /\ current' \in SourceSets
         /\ slot_state' \in [Pipes -> SlotStates]
         /\ flags' \in [Pipes -> SUBSET FlagNames]
         /\ fading_out' \subseteq Pipes
         /\ notify_queue' \in Seq(Items(Reports))
         /\ mixer_free' \in Nat
  <1>1. CASE updated # {} /\ mixer_free > 0
    <2>1. SetContext(c, {}) /\ notify_queue' = Append(notify_queue, MixerItem(updated, ReportOf(c, updated)))
          /\ mixer_free' = mixer_free - 1
      BY <1>1 DEF Notify
    <2>2. MixerItem(updated, ReportOf(c, updated)) \in Items(Reports)
      BY ReportOfTyped, MixerItemTyped
    <2> QED  BY <1>1, <2>1, <2>2, SetContextTyped DEF TypeOK
  <1>2. CASE ~(updated # {} /\ mixer_free > 0)
    BY <1>2, SetContextTyped DEF Notify, TypeOK
  <1> QED  BY <1>1, <1>2

\* An iteration of the mixer without a request keeps its slots, whatever ends, starts or
\* stops in it.
LEMMA MixerMixOutcome ==
  ASSUME TypeOK, MixerMix
  PROVE  \E S \in SUBSET ReachedEnd(Context), e \in Contexts, updated \in SUBSET Pipes :
           /\ ConsumeEnds(Context, S)
           /\ e.slots = current.slots
           /\ \E fire \in Firings(EndsAfter(Context, S)), faded \in SUBSET Pipes :
                /\ e = CheckStopConditions(CheckStartConditions(EndsAfter(Context, S), fire), faded)
                /\ updated \subseteq current.updated \cup DOMAIN fire
                     \cup StartedSlots(CheckStartConditions(EndsAfter(Context, S), fire))
           /\ \/ /\ mixer = "update" /\ mixer' = "remix"
                 /\ SetContext(e, updated)
                 /\ UNCHANGED <<notify_queue, mixer_free>>
              \/ mixer' = "top" /\ Notify(e, updated)
  <1>1. PICK S \in SUBSET ReachedEnd(Context) :
          /\ ConsumeEnds(Context, S)
          /\ \E fire \in Firings(EndsAfter(Context, S)) :
               LET d == CheckStartConditions(EndsAfter(Context, S), fire)
               IN \E faded \in SUBSET (StartedSlots(d) \cap d.fading) :
                    LET e == CheckStopConditions(d, faded)
                        updated == current.updated \cup DOMAIN fire
                                     \cup (StartedSlots(d) \ StartedSlots(e))
                    IN \/ /\ mixer = "update" /\ mixer' = "remix"
                          /\ SetContext(e, updated)
                          /\ UNCHANGED <<notify_queue, mixer_free>>
                       \/ mixer' = "top" /\ Notify(e, updated)
    BY Zenon DEF MixerMix
  <1> DEFINE c == EndsAfter(Context, S)
  <1>2. c \in Contexts /\ c.slots = current.slots
    BY ContextTyped, EndsAfterTyped DEF Context
  <1> HIDE DEF c
  <1>3. PICK fire \in Firings(c) :
          LET d == CheckStartConditions(c, fire)
          IN \E faded \in SUBSET (StartedSlots(d) \cap d.fading) :
               LET e == CheckStopConditions(d, faded)
                   updated == current.updated \cup DOMAIN fire
                                \cup (StartedSlots(d) \ StartedSlots(e))
               IN \/ /\ mixer = "update" /\ mixer' = "remix"
                     /\ SetContext(e, updated)
                     /\ UNCHANGED <<notify_queue, mixer_free>>
                  \/ mixer' = "top" /\ Notify(e, updated)
    BY <1>1, Zenon DEF c
  <1> DEFINE d == CheckStartConditions(c, fire)
  <1>4. d \in Contexts /\ d.slots = current.slots /\ DOMAIN fire \subseteq Pipes
    BY <1>2, CheckStartConditionsTyped
  <1> HIDE DEF d
  <1>5. PICK faded \in SUBSET (StartedSlots(d) \cap d.fading) :
          LET e == CheckStopConditions(d, faded)
              updated == current.updated \cup DOMAIN fire
                           \cup (StartedSlots(d) \ StartedSlots(e))
          IN \/ /\ mixer = "update" /\ mixer' = "remix"
                /\ SetContext(e, updated)
                /\ UNCHANGED <<notify_queue, mixer_free>>
             \/ mixer' = "top" /\ Notify(e, updated)
    BY <1>3, Zenon DEF d
  <1> DEFINE e == CheckStopConditions(d, faded)
             updated == current.updated \cup DOMAIN fire \cup (StartedSlots(d) \ StartedSlots(e))
  <1>6. e \in Contexts /\ e.slots = current.slots
    BY <1>2, <1>4, CheckStopConditionsTyped
  <1>7. updated \in SUBSET Pipes
    BY <1>4 DEF TypeOK, StartedSlots
  <1>8. \/ /\ mixer = "update" /\ mixer' = "remix"
           /\ SetContext(e, updated)
           /\ UNCHANGED <<notify_queue, mixer_free>>
        \/ mixer' = "top" /\ Notify(e, updated)
    BY <1>5, Zenon
  <1>9. /\ fire \in Firings(EndsAfter(Context, S)) /\ faded \in SUBSET Pipes
        /\ e = CheckStopConditions(CheckStartConditions(EndsAfter(Context, S), fire), faded)
        /\ updated \subseteq current.updated \cup DOMAIN fire
             \cup StartedSlots(CheckStartConditions(EndsAfter(Context, S), fire))
    BY DEF c, d, StartedSlots
  <1> HIDE DEF e, updated
  <1> QED  BY <1>1, <1>6, <1>7, <1>8, <1>9

LEMMA MixerTypes ==
  ASSUME TypeOK, MixerThread
  PROVE  TypeOK'
  <1> USE DEF requestVars, mixerVars, pipeVars
  <1>1. CASE MixerTop
    BY <1>1 DEF MixerTop, BeginIteration, TypeOK
  <1>2. CASE MixerUnpark
    BY <1>2 DEF MixerUnpark, BeginIteration, TypeOK
  <1>3. CASE MixerParkedPoll
    <2>1. PICK S \in SUBSET ReachedEnd(Context) \ {{}} :
            ConsumeEnds(Context, S) /\ flags' = EndsAfter(Context, S).flags
      BY <1>3 DEF MixerParkedPoll
    <2>2. flags' \in [Pipes -> SUBSET FlagNames]
      BY <2>1, ContextTyped, EndsAfterTyped DEF Contexts
    <2>3. data_end' \in [Pipes -> {"none", "queued", "end", "loop"}] /\ sources' \subseteq Pipes
      BY <2>1, ConsumeEndsTyped
    <2> QED  BY <1>3, <2>2, <2>3 DEF MixerParkedPoll, TypeOK
  <1>4. CASE MixerUpdateRequest
    <2> DEFINE request == Head(request_queue)
               c == InitializeSources(request)
               updated == current.updated \cup request.updated
    <2>1. request \in Items(Slots)
      BY <1>4 DEF MixerUpdateRequest, TypeOK
    <2>2. c \in Contexts
      BY <2>1, InitializeSourcesTyped
    <2>3. updated \in SUBSET Pipes
      BY <2>1 DEF TypeOK, Items
    <2>4. PICK fire \in Firings(c) : SetContext(CleanUp(CheckStartConditions(c, fire)), {})
      BY <1>4 DEF MixerUpdateRequest
    <2>5. CleanUp(CheckStartConditions(c, fire)) \in Contexts
      BY <2>2, CheckStartConditionsTyped, CleanUpTyped
    <2>6. notify_queue' = Append(notify_queue, RequestItem(updated, ReportOf(c, updated)))
      BY <1>4 DEF MixerUpdateRequest
    <2>7. RequestItem(updated, ReportOf(c, updated)) \in Items(Reports)
      BY <2>2, <2>3, ReportOfTyped, MixerItemTyped
    <2>8. notify_queue' \in Seq(Items(Reports))
      BY <2>6, <2>7 DEF TypeOK
    <2>9. request_queue' \in Seq(Items(Slots))
      BY <1>4 DEF MixerUpdateRequest, TypeOK
    <2>10. /\ current' \in SourceSets
           /\ slot_state' \in [Pipes -> SlotStates]
           /\ flags' \in [Pipes -> SUBSET FlagNames]
           /\ fading_out' \subseteq Pipes
      BY <2>4, <2>5, SetContextTyped
    <2> HIDE DEF request, c, updated
    <2> QED  BY <1>4, <2>8, <2>9, <2>10 DEF MixerUpdateRequest, TypeOK, SourceSets
  <1>5. CASE MixerUpdateRecycle
    <2>1. PICK fire \in Firings(Context) :
            SetContext(CheckStartConditions(Context, fire), current.updated \cup DOMAIN fire)
      BY <1>5 DEF MixerUpdateRecycle
    <2>2. current.updated \cup DOMAIN fire \in SUBSET Pipes
      BY ContextTyped, CheckStartConditionsTyped DEF TypeOK
    <2>3. CheckStartConditions(Context, fire) \in Contexts
      BY ContextTyped, CheckStartConditionsTyped
    <2>4. /\ current' \in SourceSets
          /\ slot_state' \in [Pipes -> SlotStates]
          /\ flags' \in [Pipes -> SUBSET FlagNames]
          /\ fading_out' \subseteq Pipes
      BY <2>1, <2>2, <2>3, SetContextTyped
    <2>5. request_queue' \in Seq(Items(Slots)) /\ mixer_free' \in Nat
      BY <1>5 DEF MixerUpdateRecycle, TypeOK
    <2> QED  BY <1>5, <2>4, <2>5 DEF MixerUpdateRecycle, TypeOK, SourceSets
  <1>6. CASE MixerMix
    <2>1. PICK S \in SUBSET ReachedEnd(Context), e \in Contexts, updated \in SUBSET Pipes :
            /\ ConsumeEnds(Context, S)
            /\ e.slots = current.slots
            /\ \/ /\ mixer = "update" /\ mixer' = "remix"
                  /\ SetContext(e, updated)
                  /\ UNCHANGED <<notify_queue, mixer_free>>
               \/ mixer' = "top" /\ Notify(e, updated)
      BY <1>6, MixerMixOutcome
    <2>2. /\ current' \in SourceSets
          /\ slot_state' \in [Pipes -> SlotStates]
          /\ flags' \in [Pipes -> SUBSET FlagNames]
          /\ fading_out' \subseteq Pipes
          /\ notify_queue' \in Seq(Items(Reports))
          /\ mixer_free' \in Nat
          /\ mixer' \in {"top", "parked", "update", "remix"}
      <3>1. CASE mixer' = "remix" /\ SetContext(e, updated) /\ UNCHANGED <<notify_queue, mixer_free>>
        BY <3>1, SetContextTyped DEF TypeOK
      <3>2. CASE mixer' = "top" /\ Notify(e, updated)
        BY <3>2, NotifyTyped
      <3> QED  BY <2>1, <3>1, <3>2
    <2>3. data_end' \in [Pipes -> {"none", "queued", "end", "loop"}] /\ sources' \subseteq Pipes
      BY <2>1, ConsumeEndsTyped
    <2> QED  BY <1>6, <2>2, <2>3 DEF MixerMix, TypeOK, SourceSets
  <1> QED  BY <1>1, <1>2, <1>3, <1>4, <1>5, <1>6 DEF MixerThread

LEMMA HandlerTypes ==
  ASSUME TypeOK, HandlerThread
  PROVE  TypeOK'
  <1> USE DEF requestVars, mixerVars, pipeVars
  <1>1. CASE Suspend \/ Resume \/ PollMixer
    BY <1>1 DEF Suspend, Resume, PollMixer, Between, TypeOK
  <1>2. CASE ReceiveItem
    <2>1. item' \in Items(Reports) /\ notify_queue' \in Seq(Items(Reports))
      BY <1>2 DEF ReceiveItem, TypeOK
    <2>2. item' # None
      BY <2>1
    <2> QED  BY <1>2, <2>1, <2>2 DEF ReceiveItem, TypeOK
  <1>3. CASE \E p \in Pipes : HandleSlot(p)
    <2>1. PICK p \in Pipes : HandleSlot(p)
      BY <1>3
    <2>2. item \in Items(Reports)
      BY <2>1 DEF HandleSlot, InItem, TypeOK
    <2>3. item' \in Items(Reports)
      BY <2>1, <2>2 DEF HandleSlot, Items
    <2>4. item' # None
      BY <2>3
    <2>5. active' \in [Pipes -> SlotStates \cup {None}]
      <3>1. item.slots[p] # None => item.slots[p].state \in SlotStates
        BY <2>2 DEF Items, Reports
      <3> QED  BY <2>1, <3>1 DEF HandleSlot, TypeOK
    <2>6. requested' \in SourceSets
      BY <2>1 DEF HandleSlot, TypeOK, SourceSets
    <2>7. data_end' \in [Pipes -> {"none", "queued", "end", "loop"}]
      BY <2>1 DEF HandleSlot, TypeOK
    <2>8. handler' \in {"item", "callback"}
      BY <2>1 DEF HandleSlot
    <2> QED  BY <2>1, <2>3, <2>4, <2>5, <2>6, <2>7, <2>8 DEF HandleSlot, TypeOK, SourceSets
  <1>4. CASE RecycleItem
    <2>1. item \in Items(Reports)
      BY <1>4 DEF RecycleItem, InItem, TypeOK
    <2>2. MixerItem({}, Only({}, item.slots)) \in Items(Slots)
      BY DEF MixerItem, Only, Items
    <2>3. request_free' \in Nat /\ request_queue' \in Seq(Items(Slots))
      <3> DEFINE sent == MixerItem({}, Only({}, item.slots))
      <3>1. \/ request_free' = request_free + 1 /\ UNCHANGED request_queue
            \/ request_queue' = Append(request_queue, sent) /\ UNCHANGED request_free
        BY <1>4 DEF RecycleItem, GiveBack
      <3> HIDE DEF sent
      <3>2. sent \in Items(Slots)
        BY <2>2 DEF sent
      <3>3. request_queue \in Seq(Items(Slots)) /\ request_free \in Nat
        BY DEF TypeOK
      <3>4. Append(request_queue, sent) \in Seq(Items(Slots))
        BY <3>2, <3>3
      <3> QED  BY <3>1, <3>3, <3>4
    <2> QED  BY <1>4, <2>3 DEF RecycleItem, TypeOK
  <1>5. CASE PollDone
    <2>1. requested \in SourceSets /\ Apply(requested)
      BY <1>5 DEF PollDone, TypeOK, SourceSets
    <2>2. requested' \in SourceSets /\ request_free' \in Nat /\ request_queue' \in Seq(Items(Slots))
      BY <2>1, ApplyTyped
    <2> QED  BY <1>5, <2>2 DEF PollDone, TypeOK, SourceSets
  <1>6. CASE ApplyRequests
    <2>1. requested \in SourceSets /\ Apply(requested)
      BY <1>6 DEF ApplyRequests, TypeOK, SourceSets
    <2>2. requested' \in SourceSets /\ request_free' \in Nat /\ request_queue' \in Seq(Items(Slots))
      BY <2>1, ApplyTyped
    <2> QED  BY <1>6, <2>2 DEF ApplyRequests, TypeOK, SourceSets
  <1> QED  BY <1>1, <1>2, <1>3, <1>4, <1>5, <1>6 DEF HandlerThread

LEMMA ClientTypes ==
  ASSUME TypeOK, ClientsOfMixer
  PROVE  TypeOK'
  <1> USE DEF requestVars, mixerVars, pipeVars
  <1>0. requested \in SourceSets
    BY DEF TypeOK, SourceSets
  <1>1. ASSUME NEW p \in Pipes, CreateSource(p)
        PROVE  TypeOK'
    BY <1>1 DEF CreateSource, TypeOK
  <1>2. ASSUME NEW p \in Pipes, ReleaseSource(p)
        PROVE  TypeOK'
    <2>1. requested' \in SourceSets
      BY <1>0, <1>2, DetachTyped DEF ReleaseSource
    <2>2. data_end' \in [Pipes -> {"none", "queued", "end", "loop"}]
      BY <1>2 DEF ReleaseSource, TypeOK
    <2> QED  BY <1>2, <2>1, <2>2 DEF ReleaseSource, TypeOK, SourceSets
  <1>3. ASSUME NEW p \in Pipes, DecoderEnds(p)
        PROVE  TypeOK'
    BY <1>3 DEF DecoderEnds, TypeOK
  <1>4. ASSUME NEW p \in Pipes, NEW args \in Arguments, Request(p, args)
        PROVE  TypeOK'
    <2>1. requested' \in SourceSets
      BY <1>0, <1>4, AttachOrUpdateTyped DEF Request
    <2> QED  BY <1>4, <2>1 DEF Request, TypeOK, SourceSets
  <1>5. ASSUME NEW c \in Togglers, SetLooping(c)
        PROVE  TypeOK'
    BY <1>5 DEF SetLooping, TypeOK
  <1> QED  BY <1>1, <1>2, <1>3, <1>4, <1>5 DEF ClientsOfMixer

LEMMA TypeStep == TypeOK /\ [Next]_vars => TypeOK'
  <1> SUFFICES ASSUME TypeOK, [Next]_vars PROVE TypeOK'
    OBVIOUS
  <1>1. CASE UNCHANGED vars
    BY <1>1 DEF TypeOK, vars, requestVars, mixerVars, pipeVars
  <1> QED  BY <1>1, MixerTypes, HandlerTypes, ClientTypes DEF Next

\* Every variable of the mixer and of its handler thread keeps its type; in particular a
\* thread never takes more items from its free queue than it has given back.
THEOREM TypeCorrect == Spec => []TypeOK
  BY TypeInit, TypeStep, PTL DEF Spec

-----------------------------------------------------------------------------
(* The items: each step moves one from a place to another.                 *)

LEMMA ItemsStep == TypeOK /\ ItemsConserved /\ [Next]_vars => ItemsConserved'
  <1> SUFFICES ASSUME TypeOK, ItemsConserved, [Next]_vars PROVE ItemsConserved'
    OBVIOUS
  <1> USE DEF ItemsConserved, Travelling, requestVars, mixerVars, pipeVars
  <1>0. /\ request_free \in Nat /\ mixer_free \in Nat
        /\ request_queue \in Seq(Items(Slots)) /\ notify_queue \in Seq(Items(Reports))
    BY DEF TypeOK
  <1>1. CASE UNCHANGED vars
    BY <1>1 DEF vars
  <1>2. ASSUME NEW set, Apply(set)
        PROVE  request_free' + Len(request_queue') = request_free + Len(request_queue)
    <2>1. CASE set.updated # {} /\ request_free > 0
      BY <1>0, <1>2, <2>1 DEF Apply
    <2>2. CASE ~(set.updated # {} /\ request_free > 0)
      BY <1>2, <2>2 DEF Apply
    <2> QED  BY <2>1, <2>2
  <1>3. CASE MixerThread
    <2>1. CASE MixerTop \/ MixerUnpark \/ MixerParkedPoll
      BY <2>1 DEF MixerTop, MixerUnpark, MixerParkedPoll
    <2>2. CASE MixerUpdateRequest
      <3>1. PICK sent : notify_queue' = Append(notify_queue, sent)
        BY <2>2 DEF MixerUpdateRequest
      <3>2. Len(notify_queue') = Len(notify_queue) + 1
        BY <1>0, <3>1
      <3>3. Len(request_queue') = Len(request_queue) - 1
        BY <1>0, <2>2 DEF MixerUpdateRequest
      <3>4. UNCHANGED <<request_free, mixer_free, item>>
        BY <2>2 DEF MixerUpdateRequest
      <3> QED  BY <1>0, <3>2, <3>3, <3>4
    <2>3. CASE MixerUpdateRecycle
      <3>1. Len(request_queue') = Len(request_queue) - 1
        BY <1>0, <2>3 DEF MixerUpdateRecycle
      <3> QED  BY <1>0, <2>3, <3>1 DEF MixerUpdateRecycle
    <2>4. CASE MixerMix
      <3>1. PICK e \in Contexts, updated \in SUBSET Pipes :
              UNCHANGED <<notify_queue, mixer_free>> \/ Notify(e, updated)
        BY <2>4, MixerMixOutcome
      <3>2. mixer_free' + Len(notify_queue') = mixer_free + Len(notify_queue)
        <4>1. CASE updated # {} /\ mixer_free > 0 /\ Notify(e, updated)
          <5> DEFINE sent == MixerItem(updated, ReportOf(e, updated))
          <5>1. notify_queue' = Append(notify_queue, sent) /\ mixer_free' = mixer_free - 1
            BY <4>1 DEF Notify
          <5> HIDE DEF sent
          <5> QED  BY <1>0, <5>1
        <4>2. CASE UNCHANGED <<notify_queue, mixer_free>>
          BY <4>2
        <4> QED  BY <3>1, <4>1, <4>2 DEF Notify
      <3>3. Len(request_queue) \in Nat /\ Len(notify_queue) \in Nat /\ Len(notify_queue') \in Nat
            /\ mixer_free' \in Nat
        <4>1. CASE UNCHANGED <<notify_queue, mixer_free>>
          BY <1>0, <4>1
        <4>2. CASE Notify(e, updated) /\ ~UNCHANGED <<notify_queue, mixer_free>>
          <5> DEFINE sent == MixerItem(updated, ReportOf(e, updated))
          <5>1. mixer_free > 0 /\ notify_queue' = Append(notify_queue, sent) /\ mixer_free' = mixer_free - 1
            BY <4>2 DEF Notify
          <5> HIDE DEF sent
          <5> QED  BY <1>0, <5>1
        <4> QED  BY <3>1, <4>1, <4>2
      <3>4. UNCHANGED <<request_free, request_queue, item>>
        BY <2>4 DEF MixerMix
      <3>5. request_free \in Nat /\ mixer_free \in Nat
        BY <1>0
      <3>6. PICK held \in Nat : held = IF item = None THEN 0 ELSE 1
        OBVIOUS
      <3>7. request_free + mixer_free + (Len(request_queue) + Len(notify_queue) + held) = 2 * NumItems
        BY <3>6
      <3>8. request_free + mixer_free' + (Len(request_queue) + Len(notify_queue') + held) = 2 * NumItems
        BY <3>2, <3>3, <3>5, <3>6, <3>7
      <3> QED  BY <3>4, <3>6, <3>8
    <2> QED  BY <1>3, <2>1, <2>2, <2>3, <2>4 DEF MixerThread
  <1>4. CASE HandlerThread
    <2>1. CASE Suspend \/ Resume \/ PollMixer
      BY <2>1 DEF Suspend, Resume, PollMixer
    <2>2. CASE ReceiveItem
      <3>1. item = None /\ item' # None
        <4>1. Head(notify_queue) \in Items(Reports)
          BY <1>0, <2>2 DEF ReceiveItem
        <4> QED  BY <2>2, <4>1 DEF ReceiveItem, TypeOK
      <3>2. Len(notify_queue') = Len(notify_queue) - 1
        BY <1>0, <2>2 DEF ReceiveItem
      <3> QED  BY <1>0, <2>2, <3>1, <3>2 DEF ReceiveItem
    <2>3. CASE \E p \in Pipes : HandleSlot(p)
      <3>1. item # None /\ item' # None
        <4>1. item # None
          BY <2>3 DEF HandleSlot, InItem, TypeOK
        <4>2. PICK p \in Pipes : HandleSlot(p)
          BY <2>3
        <4>3. item \in Items(Reports)
          BY <4>1 DEF TypeOK
        <4>4. item' \in Items(Reports)
          BY <4>2, <4>3 DEF HandleSlot, Items
        <4> QED  BY <4>1, <4>4
      <3> QED  BY <2>3, <3>1 DEF HandleSlot
    <2>4. CASE RecycleItem
      <3>1. item # None /\ item' = None
        BY <2>4 DEF RecycleItem, InItem, TypeOK
      <3>2. request_free' + Len(request_queue') = request_free + Len(request_queue) + 1
        BY <1>0, <2>4 DEF RecycleItem, GiveBack
      <3>3. request_free' \in Nat /\ Len(request_queue') \in Nat
        BY <2>4, <1>0 DEF RecycleItem, GiveBack
      <3> QED  BY <1>0, <2>4, <3>1, <3>2, <3>3 DEF RecycleItem
    <2>5. CASE PollDone \/ ApplyRequests
      <3>1. Apply(requested)
        BY <2>5 DEF PollDone, ApplyRequests
      <3>2. request_free' \in Nat /\ request_queue' \in Seq(Items(Slots))
        BY <3>1, ApplyTyped DEF TypeOK, SourceSets
      <3>3. UNCHANGED <<notify_queue, mixer_free, item>>
        BY <2>5 DEF PollDone, ApplyRequests
      <3>4. request_free' + Len(request_queue') = request_free + Len(request_queue)
        BY <1>2, <3>1
      <3>5. Len(request_queue') \in Nat /\ Len(request_queue) \in Nat /\ Len(notify_queue) \in Nat
        BY <1>0, <3>2
      <3> QED  BY <1>0, <3>2, <3>3, <3>4, <3>5
    <2> QED  BY <1>4, <2>1, <2>2, <2>3, <2>4, <2>5 DEF HandlerThread
  <1>5. CASE ClientsOfMixer
    BY <1>5 DEF ClientsOfMixer, CreateSource, ReleaseSource, DecoderEnds, Request, SetLooping
  <1> QED  BY <1>1, <1>3, <1>4, <1>5 DEF Next

\* No item is lost or duplicated on its way through the four queues, so the pushes whose
\* failure the code only logs cannot fail.
THEOREM ItemsConservedHolds == Spec => []ItemsConserved
  <1>1. Init => ItemsConserved
    BY DEF Init, ItemsConserved, Travelling
  <1> QED  BY <1>1, ItemsStep, TypeCorrect, PTL DEF Spec

-----------------------------------------------------------------------------
(* A released pipe is unknown to the mixer thread.  ReleasedPipeUnused is  *)
(* not inductive: the step that clears a slot must know that the answer it *)
(* handles was the last of its kind.                                       *)

\* the item tells that the slot was detached
Detached(it, p) == p \in it.updated /\ it.slots[p] # None /\ it.slots[p].detached

\* p waits for its detachment to be told, and nothing else about it is under way
Leaving(p) ==
  /\ Detaching(requested, p) /\ p \notin requested.updated
  /\ current.slots[p] = None
  /\ \A i \in 1..Len(request_queue) : p \notin request_queue[i].updated

\* What is marked, requested or held by the mixer is attached.
MarkedAttached == \A p \in requested.updated : requested.slots[p] # None
RequestedAttached ==
  \A i \in 1..Len(request_queue) : \A p \in request_queue[i].updated :
    requested.slots[p] # None /\ request_queue[i].slots[p] # None
HeldAttached ==
  \A p \in Pipes : current.slots[p] # None =>
    requested.slots[p] # None /\ current.slots[p].operation # "detach"

\* The request of a detachment is the last request about its pipe.
DetachmentLast ==
  \A i \in 1..Len(request_queue) : \A p \in request_queue[i].updated :
    request_queue[i].slots[p].operation = "detach" =>
      /\ Detaching(requested, p) /\ p \notin requested.updated
      /\ \A j \in 1..Len(request_queue) : j > i => p \notin request_queue[j].updated

\* A detachment is told once, after the mixer has forgotten the pipe.
ToldOnce ==
  /\ \A i \in 1..Len(notify_queue) : \A p \in Pipes : Detached(notify_queue[i], p) =>
       /\ Leaving(p)
       /\ \A j \in 1..Len(notify_queue) : Detached(notify_queue[j], p) => j = i
  /\ item # None => \A p \in Pipes : Detached(item, p) =>
       /\ Leaving(p)
       /\ \A i \in 1..Len(notify_queue) : ~Detached(notify_queue[i], p)

Releasing == MarkedAttached /\ RequestedAttached /\ HeldAttached /\ DetachmentLast /\ ToldOnce

LEMMA ReleasingSuffices == TypeOK /\ Releasing => ReleasedPipeUnused
  BY DEF TypeOK, Releasing, RequestedAttached, HeldAttached, ReleasedPipeUnused, Items

LEMMA ReleasingInit == Init => Releasing
  BY DEF Init, Releasing, MarkedAttached, RequestedAttached, HeldAttached, DetachmentLast, ToldOnce

LEMMA ReleasingApply ==
  ASSUME TypeOK, Releasing, Apply(requested), UNCHANGED <<current, notify_queue, item>>
  PROVE  Releasing'
  <1>1. CASE requested.updated # {} /\ request_free > 0
    <2> DEFINE sent == RequestItem(requested.updated, Only(requested.updated, requested.slots))
               n == Len(request_queue)
    <2>1. /\ requested' = [slots |-> requested.slots, updated |-> {}]
          /\ request_queue' = Append(request_queue, sent)
      BY <1>1 DEF Apply
    <2>2. /\ sent.updated = requested.updated
          /\ \A p \in requested.updated : p \in Pipes /\ sent.slots[p] = requested.slots[p]
      BY DEF RequestItem, Only, TypeOK
    <2> HIDE DEF sent
    <2>3. /\ n \in Nat /\ Len(request_queue') = n + 1
          /\ \A i \in 1..n : request_queue'[i] = request_queue[i]
          /\ request_queue'[n + 1] = sent
      BY <2>1 DEF TypeOK
    <2>4. \A p \in Pipes : Detaching(requested', p) <=> Detaching(requested, p)
      BY <2>1 DEF Detaching
    <2>5. \A p \in Pipes : Leaving(p) => Leaving(p)'
      <3> SUFFICES ASSUME NEW p \in Pipes, Leaving(p) PROVE Leaving(p)'
        OBVIOUS
      <3>1. Detaching(requested', p) /\ p \notin requested'.updated /\ current'.slots[p] = None
        BY <2>1, <2>4 DEF Leaving
      <3>2. ASSUME NEW i \in 1..(n + 1)
            PROVE  p \notin request_queue'[i].updated
        <4>1. CASE i \in 1..n
          BY <2>3, <4>1 DEF Leaving
        <4>2. CASE i = n + 1
          BY <2>2, <2>3, <4>2 DEF Leaving
        <4> QED  BY <2>3, <4>1, <4>2
      <3> QED  BY <2>3, <3>1, <3>2 DEF Leaving, Detaching
    <2>6. MarkedAttached' /\ HeldAttached'
      BY <2>1 DEF Releasing, MarkedAttached, HeldAttached
    <2>7. RequestedAttached'
      BY <2>1, <2>2, <2>3 DEF Releasing, MarkedAttached, RequestedAttached
    <2>8. DetachmentLast'
      <3> SUFFICES ASSUME NEW i \in 1..(n + 1), NEW p \in request_queue'[i].updated,
                          request_queue'[i].slots[p].operation = "detach"
                   PROVE  /\ Detaching(requested', p) /\ p \notin requested'.updated
                          /\ \A j \in 1..(n + 1) : j > i => p \notin request_queue'[j].updated
        BY <2>3 DEF DetachmentLast
      <3>1. CASE i \in 1..n
        <4>1. p \in Pipes
          <5>1. request_queue[i] \in Items(Slots)
            BY <3>1 DEF TypeOK
          <5> QED  BY <2>3, <3>1, <5>1 DEF Items
        <4>2. /\ p \in request_queue[i].updated
              /\ request_queue[i].slots[p].operation = "detach"
          BY <2>3, <3>1
        <4>3. /\ Detaching(requested, p) /\ p \notin requested.updated
              /\ \A j \in 1..n : j > i => p \notin request_queue[j].updated
          BY <3>1, <4>2 DEF Releasing, DetachmentLast
        <4>4. ASSUME NEW j \in 1..(n + 1), j > i
              PROVE  p \notin request_queue'[j].updated
          <5>1. CASE j \in 1..n
            BY <2>3, <4>3, <4>4, <5>1
          <5>2. CASE j = n + 1
            BY <2>2, <2>3, <4>3, <5>2
          <5> QED  BY <2>3, <5>1, <5>2
        <4> QED  BY <2>1, <2>4, <4>1, <4>3, <4>4
      <3>2. CASE i = n + 1
        BY <2>1, <2>2, <2>3, <2>4, <3>2 DEF Releasing, MarkedAttached, Detaching
      <3> QED  BY <2>3, <3>1, <3>2
    <2>9. ToldOnce'
      BY <2>5 DEF Releasing, ToldOnce, Detached
    <2> QED  BY <2>6, <2>7, <2>8, <2>9 DEF Releasing
  <1>2. CASE ~(requested.updated # {} /\ request_free > 0)
    BY <1>2 DEF Apply, Releasing, MarkedAttached, RequestedAttached, HeldAttached, DetachmentLast,
                ToldOnce, Leaving, Detached, Detaching
  <1> QED  BY <1>1, <1>2

\* a step of the mixer that keeps its slots tells of no detachment
LEMMA ReportKept ==
  ASSUME TypeOK, Releasing, NEW c \in Contexts, c.slots = current.slots, NEW D \in SUBSET Pipes, NEW p \in Pipes
  PROVE  ~Detached(MixerItem(D, ReportOf(c, D)), p)
  BY DEF Releasing, HeldAttached, Detached, MixerItem, ReportOf

LEMMA ReleasingMix ==
  ASSUME TypeOK, Releasing, MixerMix
  PROVE  Releasing'
  <1>1. PICK e \in Contexts, updated \in SUBSET Pipes :
          /\ e.slots = current.slots
          /\ (SetContext(e, updated) /\ UNCHANGED notify_queue) \/ Notify(e, updated)
    BY MixerMixOutcome
  <1>2. UNCHANGED <<requested, request_queue, item>>
    BY DEF MixerMix, requestVars
  <1>3. current'.slots = current.slots
    BY <1>1 DEF SetContext, Notify
  <1>4. MarkedAttached' /\ RequestedAttached' /\ HeldAttached' /\ DetachmentLast'
    BY <1>2, <1>3 DEF Releasing, MarkedAttached, RequestedAttached, HeldAttached, DetachmentLast, Detaching
  <1>5. \A p \in Pipes : Leaving(p) => Leaving(p)'
    BY <1>2, <1>3 DEF Leaving, Detaching
  <1>6. ToldOnce'
    <2>1. CASE UNCHANGED notify_queue
      BY <1>2, <1>5, <2>1 DEF Releasing, ToldOnce, Detached
    <2>2. CASE Notify(e, updated) /\ ~UNCHANGED notify_queue
      <3> DEFINE sent == MixerItem(updated, ReportOf(e, updated))
                 n == Len(notify_queue)
      <3>1. notify_queue' = Append(notify_queue, sent)
        BY <2>2 DEF Notify
      <3>2. \A p \in Pipes : ~Detached(sent, p)
        BY <1>1, ReportKept
      <3> HIDE DEF sent
      <3>3. /\ n \in Nat /\ Len(notify_queue') = n + 1
            /\ \A i \in 1..n : notify_queue'[i] = notify_queue[i]
            /\ notify_queue'[n + 1] = sent
        BY <3>1 DEF TypeOK
      <3>4. \A i \in 1..(n + 1), p \in Pipes : Detached(notify_queue'[i], p) =>
              i \in 1..n /\ Detached(notify_queue[i], p)
        <4> SUFFICES ASSUME NEW i \in 1..(n + 1), NEW p \in Pipes, Detached(notify_queue'[i], p)
                     PROVE  i \in 1..n /\ Detached(notify_queue[i], p)
          OBVIOUS
        <4>1. i # n + 1
          BY <3>2, <3>3
        <4> QED  BY <3>3, <4>1
      <3> HIDE DEF n
      <3>5. ASSUME NEW i \in 1..(n + 1), NEW p \in Pipes, Detached(notify_queue'[i], p)
            PROVE  /\ Leaving(p)'
                   /\ \A j \in 1..(n + 1) : Detached(notify_queue'[j], p) => j = i
        <4>1. i \in 1..n /\ Detached(notify_queue[i], p)
          BY <3>4, <3>5
        <4>2. Leaving(p) /\ \A j \in 1..n : Detached(notify_queue[j], p) => j = i
          BY <4>1 DEF Releasing, ToldOnce, n
        <4> QED  BY <1>5, <3>4, <4>2
      <3>6. ASSUME item # None, NEW p \in Pipes, Detached(item, p)
            PROVE  Leaving(p)' /\ \A i \in 1..(n + 1) : ~Detached(notify_queue'[i], p)
        <4>1. Leaving(p) /\ \A i \in 1..n : ~Detached(notify_queue[i], p)
          BY <3>6 DEF Releasing, ToldOnce, n
        <4> QED  BY <1>5, <3>4, <4>1
      <3> QED  BY <1>2, <3>3, <3>5, <3>6 DEF ToldOnce, Detached
    <2> QED  BY <1>1, <2>1, <2>2
  <1> QED  BY <1>4, <1>6 DEF Releasing

LEMMA ReleasingRecycle ==
  ASSUME TypeOK, Releasing, MixerUpdateRecycle
  PROVE  Releasing'
  <1>1. current'.slots = current.slots
    BY ContextTyped, CheckStartConditionsTyped DEF MixerUpdateRecycle, SetContext, Context
  <1>2. UNCHANGED <<requested, notify_queue, item>>
    BY DEF MixerUpdateRecycle, requestVars
  <1>3. /\ Len(request_queue') = Len(request_queue) - 1
        /\ \A i \in 1..Len(request_queue') : request_queue'[i] = request_queue[i + 1]
                                             /\ i + 1 \in 1..Len(request_queue)
    BY DEF MixerUpdateRecycle, TypeOK
  <1>4. \A p \in Pipes : Leaving(p) => Leaving(p)'
    BY <1>1, <1>2, <1>3 DEF Leaving, Detaching
  <1>5. MarkedAttached' /\ HeldAttached'
    BY <1>1, <1>2 DEF Releasing, MarkedAttached, HeldAttached
  <1>6. RequestedAttached'
    BY <1>2, <1>3 DEF Releasing, RequestedAttached
  <1>7. DetachmentLast'
    <2> SUFFICES ASSUME NEW i \in 1..Len(request_queue'), NEW p \in request_queue'[i].updated,
                        request_queue'[i].slots[p].operation = "detach"
                 PROVE  /\ Detaching(requested, p) /\ p \notin requested.updated
                        /\ \A j \in 1..Len(request_queue') : j > i => p \notin request_queue'[j].updated
      BY <1>2 DEF DetachmentLast, Detaching
    <2>1. /\ i + 1 \in 1..Len(request_queue) /\ p \in request_queue[i + 1].updated
          /\ request_queue[i + 1].slots[p].operation = "detach"
      BY <1>3
    <2>2. /\ Detaching(requested, p) /\ p \notin requested.updated
          /\ \A j \in 1..Len(request_queue) : j > i + 1 => p \notin request_queue[j].updated
      BY <2>1 DEF Releasing, DetachmentLast
    <2>3. \A j \in 1..Len(request_queue') : j > i => p \notin request_queue'[j].updated
      BY <1>3, <2>2
    <2> QED  BY <2>2, <2>3
  <1>8. ToldOnce'
    BY <1>2, <1>4 DEF Releasing, ToldOnce, Detached
  <1> QED  BY <1>5, <1>6, <1>7, <1>8 DEF Releasing

LEMMA ReleasingRequest ==
  ASSUME TypeOK, Releasing, MixerUpdateRequest
  PROVE  Releasing'
  <1> DEFINE request == Head(request_queue)
             c == InitializeSources(request)
             updated == current.updated \cup request.updated
             sent == RequestItem(updated, ReportOf(c, updated))
             n == Len(notify_queue)
  <1>1. UNCHANGED <<requested, item>>
    BY DEF MixerUpdateRequest, requestVars
  <1>2. /\ request = request_queue[1] /\ request \in Items(Slots)
        /\ 1 \in 1..Len(request_queue)
        /\ Len(request_queue') = Len(request_queue) - 1
        /\ \A i \in 1..Len(request_queue') : request_queue'[i] = request_queue[i + 1]
                                             /\ i + 1 \in 1..Len(request_queue) /\ i + 1 > 1
    BY DEF MixerUpdateRequest, TypeOK
  <1>3. c \in Contexts
    BY <1>2, InitializeSourcesTyped
  <1>4. \A p \in Pipes : c.slots[p] = IF p \in request.updated THEN request.slots[p] ELSE current.slots[p]
    BY DEF InitializeSources
  <1>5. PICK fire \in Firings(c) : SetContext(CleanUp(CheckStartConditions(c, fire)), {})
    BY DEF MixerUpdateRequest
  <1>6. \A p \in Pipes : current'.slots[p] = IF Detaching(c, p) THEN None ELSE c.slots[p]
    BY <1>3, <1>5, CheckStartConditionsTyped DEF SetContext, CleanUp, Detaching
  <1>7. notify_queue' = Append(notify_queue, sent)
    BY DEF MixerUpdateRequest
  <1>8. \A p \in Pipes : Detached(sent, p) => Detaching(c, p)
    BY DEF Detached, RequestItem, ReportOf, Detaching
  <1> HIDE DEF sent, c, request
  <1>9. ASSUME NEW p \in Pipes, Detaching(c, p)
        PROVE  p \in request.updated /\ ~Leaving(p) /\ Leaving(p)'
    <2>1. p \in request.updated /\ request.slots[p].operation = "detach"
      BY <1>4, <1>9 DEF Detaching, Releasing, HeldAttached
    <2>2. /\ Detaching(requested, p) /\ p \notin requested.updated
          /\ \A j \in 1..Len(request_queue) : j > 1 => p \notin request_queue[j].updated
      BY <1>2, <2>1 DEF Releasing, DetachmentLast
    <2>3. current'.slots[p] = None
      BY <1>6, <1>9
    <2>4. \A i \in 1..Len(request_queue') : p \notin request_queue'[i].updated
      BY <1>2, <2>2
    <2> QED  BY <1>1, <1>2, <2>1, <2>2, <2>3, <2>4 DEF Leaving, Detaching
  <1>10. ASSUME NEW p \in Pipes, Leaving(p)
         PROVE  Leaving(p)'
    <2>1. p \notin request.updated /\ c.slots[p] = None
      BY <1>2, <1>4, <1>10 DEF Leaving
    <2>2. current'.slots[p] = None
      BY <1>6, <2>1
    <2>3. \A i \in 1..Len(request_queue') : p \notin request_queue'[i].updated
      BY <1>2, <1>10 DEF Leaving
    <2> QED  BY <1>1, <1>10, <2>2, <2>3 DEF Leaving, Detaching
  <1>11. MarkedAttached'
    BY <1>1 DEF Releasing, MarkedAttached
  <1>12. RequestedAttached'
    BY <1>1, <1>2 DEF Releasing, RequestedAttached
  <1>13. HeldAttached'
    <2> SUFFICES ASSUME NEW p \in Pipes, current'.slots[p] # None
                 PROVE  requested'.slots[p] # None /\ current'.slots[p].operation # "detach"
      BY DEF HeldAttached
    <2>1. current'.slots[p] = c.slots[p] /\ ~Detaching(c, p)
      BY <1>6
    <2>2. requested.slots[p] # None
      BY <1>2, <1>4, <2>1 DEF Releasing, RequestedAttached, HeldAttached
    <2> QED  BY <1>1, <2>1, <2>2 DEF Detaching
  <1>14. DetachmentLast'
    <2> SUFFICES ASSUME NEW i \in 1..Len(request_queue'), NEW p \in request_queue'[i].updated,
                        request_queue'[i].slots[p].operation = "detach"
                 PROVE  /\ Detaching(requested', p) /\ p \notin requested'.updated
                        /\ \A j \in 1..Len(request_queue') : j > i => p \notin request_queue'[j].updated
      BY DEF DetachmentLast
    <2>1. /\ i + 1 \in 1..Len(request_queue)
          /\ p \in request_queue[i + 1].updated
          /\ request_queue[i + 1].slots[p].operation = "detach"
      BY <1>2
    <2>2. /\ Detaching(requested, p) /\ p \notin requested.updated
          /\ \A j \in 1..Len(request_queue) : j > i + 1 => p \notin request_queue[j].updated
      BY <2>1 DEF Releasing, DetachmentLast
    <2>3. ASSUME NEW j \in 1..Len(request_queue'), j > i
          PROVE  p \notin request_queue'[j].updated
      BY <1>2, <2>2, <2>3
    <2> QED  BY <1>1, <2>2, <2>3
  <1>15. /\ n \in Nat /\ Len(notify_queue') = n + 1
         /\ \A i \in 1..n : notify_queue'[i] = notify_queue[i]
         /\ notify_queue'[n + 1] = sent
    BY <1>7 DEF TypeOK
  <1>16. ToldOnce'
    <2>1. ASSUME NEW i \in 1..(n + 1), NEW p \in Pipes, Detached(notify_queue'[i], p)
          PROVE  /\ Leaving(p)'
                 /\ \A j \in 1..(n + 1) : Detached(notify_queue'[j], p) => j = i
      <3>1. CASE i \in 1..n
        <4>1. Leaving(p) /\ \A j \in 1..n : Detached(notify_queue[j], p) => j = i
          BY <1>15, <2>1, <3>1 DEF Releasing, ToldOnce
        <4>2. ~Detached(sent, p)
          BY <1>8, <1>9, <4>1
        <4> QED  BY <1>10, <1>15, <4>1, <4>2
      <3>2. CASE i = n + 1
        <4>1. Detaching(c, p)
          BY <1>8, <1>15, <2>1, <3>2
        <4>2. ~Leaving(p) /\ Leaving(p)'
          BY <1>9, <4>1
        <4>3. \A j \in 1..n : ~Detached(notify_queue[j], p)
          BY <4>2 DEF Releasing, ToldOnce
        <4> QED  BY <1>15, <3>2, <4>2, <4>3
      <3> QED  BY <1>15, <3>1, <3>2
    <2>2. ASSUME item # None, NEW p \in Pipes, Detached(item, p)
          PROVE  Leaving(p)' /\ \A i \in 1..(n + 1) : ~Detached(notify_queue'[i], p)
      <3>1. Leaving(p) /\ \A i \in 1..n : ~Detached(notify_queue[i], p)
        BY <2>2 DEF Releasing, ToldOnce
      <3>2. ~Detached(sent, p)
        BY <1>8, <1>9, <3>1
      <3> QED  BY <1>10, <1>15, <3>1, <3>2
    <2> QED  BY <1>1, <1>15, <2>1, <2>2 DEF ToldOnce, Detached
  <1> QED  BY <1>11, <1>12, <1>13, <1>14, <1>16 DEF Releasing

LEMMA ReleasingReceive ==
  ASSUME TypeOK, Releasing, ReceiveItem
  PROVE  Releasing'
  <1>1. UNCHANGED <<requested, request_queue, current>>
    BY DEF ReceiveItem, mixerVars
  <1>2. /\ item' = notify_queue[1] /\ 1 \in 1..Len(notify_queue)
        /\ Len(notify_queue') = Len(notify_queue) - 1
        /\ \A i \in 1..Len(notify_queue') : notify_queue'[i] = notify_queue[i + 1]
                                            /\ i + 1 \in 1..Len(notify_queue) /\ i + 1 # 1
    BY DEF ReceiveItem, TypeOK
  <1>3. MarkedAttached' /\ RequestedAttached' /\ HeldAttached' /\ DetachmentLast'
    BY <1>1 DEF Releasing, MarkedAttached, RequestedAttached, HeldAttached, DetachmentLast, Detaching
  <1>4. \A p \in Pipes : Leaving(p) => Leaving(p)'
    BY <1>1 DEF Leaving, Detaching
  <1>5. ASSUME NEW i \in 1..Len(notify_queue'), NEW p \in Pipes, Detached(notify_queue'[i], p)
        PROVE  /\ Leaving(p)'
               /\ \A j \in 1..Len(notify_queue') : Detached(notify_queue'[j], p) => j = i
    <2>1. Leaving(p) /\ \A j \in 1..Len(notify_queue) : Detached(notify_queue[j], p) => j = i + 1
      BY <1>2, <1>5 DEF Releasing, ToldOnce
    <2> QED  BY <1>2, <1>4, <2>1
  <1>6. ASSUME NEW p \in Pipes, Detached(item', p)
        PROVE  Leaving(p)' /\ \A i \in 1..Len(notify_queue') : ~Detached(notify_queue'[i], p)
    <2>1. Leaving(p) /\ \A j \in 1..Len(notify_queue) : Detached(notify_queue[j], p) => j = 1
      BY <1>2, <1>6 DEF Releasing, ToldOnce
    <2> QED  BY <1>2, <1>4, <2>1
  <1> QED  BY <1>3, <1>5, <1>6 DEF Releasing, ToldOnce, Detached

LEMMA ReleasingHandle ==
  ASSUME TypeOK, Releasing, NEW p \in Pipes, HandleSlot(p)
  PROVE  Releasing'
  <1>1. UNCHANGED <<request_queue, notify_queue, current>>
    BY DEF HandleSlot, mixerVars
  <1>2. item \in Items(Reports) /\ item # None /\ p \in item.updated
    BY DEF HandleSlot, InItem, TypeOK
  <1>3. \A q \in Pipes : Detached(item', q) => q # p /\ Detached(item, q)
    BY <1>2 DEF HandleSlot, Detached, Items
  <1>4. CASE requested' = requested
    <2>1. MarkedAttached' /\ RequestedAttached' /\ HeldAttached' /\ DetachmentLast'
      BY <1>1, <1>4 DEF Releasing, MarkedAttached, RequestedAttached, HeldAttached, DetachmentLast, Detaching
    <2>2. \A q \in Pipes : Leaving(q) => Leaving(q)'
      BY <1>1, <1>4 DEF Leaving, Detaching
    <2>3. ToldOnce'
      BY <1>1, <1>2, <1>3, <2>2 DEF Releasing, ToldOnce, Detached
    <2> QED  BY <2>1, <2>3 DEF Releasing
  <1>5. CASE Detached(item, p) /\ requested' = [slots |-> [requested.slots EXCEPT ![p] = None],
                                                updated |-> requested.updated \ {p}]
    <2>1. Leaving(p) /\ \A i \in 1..Len(notify_queue) : ~Detached(notify_queue[i], p)
      BY <1>2, <1>5 DEF Releasing, ToldOnce
    <2>2. \A q \in Pipes : q # p => requested'.slots[q] = requested.slots[q]
      BY <1>5 DEF TypeOK
    <2>3. \A q \in Pipes : q # p /\ Leaving(q) => Leaving(q)'
      BY <1>1, <1>5, <2>2 DEF Leaving, Detaching
    <2>4. ASSUME NEW i \in 1..Len(request_queue)
          PROVE  request_queue[i].updated \subseteq Pipes
      <3>1. request_queue[i] \in Items(Slots)
        BY DEF TypeOK
      <3> QED  BY <3>1 DEF Items
    <2>5. MarkedAttached'
      BY <1>5, <2>2 DEF Releasing, MarkedAttached, TypeOK
    <2>6. RequestedAttached'
      BY <1>1, <2>1, <2>2, <2>4 DEF Releasing, RequestedAttached, Leaving
    <2>7. HeldAttached'
      BY <1>1, <2>1, <2>2 DEF Releasing, HeldAttached, Leaving
    <2>8. DetachmentLast'
      <3> SUFFICES ASSUME NEW i \in 1..Len(request_queue), NEW q \in request_queue[i].updated,
                          request_queue[i].slots[q].operation = "detach"
                   PROVE  /\ Detaching(requested', q) /\ q \notin requested'.updated
                          /\ \A j \in 1..Len(request_queue) : j > i => q \notin request_queue[j].updated
        BY <1>1 DEF DetachmentLast
      <3>1. q # p /\ q \in Pipes
        BY <2>1, <2>4 DEF Leaving
      <3> QED  BY <1>5, <2>2, <3>1 DEF Releasing, DetachmentLast, Detaching
    <2>9. ToldOnce'
      <3>1. ASSUME NEW i \in 1..Len(notify_queue), NEW q \in Pipes, Detached(notify_queue[i], q)
            PROVE  /\ Leaving(q)'
                   /\ \A j \in 1..Len(notify_queue) : Detached(notify_queue[j], q) => j = i
        <4>1. q # p
          BY <2>1, <3>1
        <4> QED  BY <2>3, <3>1, <4>1 DEF Releasing, ToldOnce
      <3>2. ASSUME NEW q \in Pipes, Detached(item', q)
            PROVE  Leaving(q)' /\ \A i \in 1..Len(notify_queue) : ~Detached(notify_queue[i], q)
        BY <1>2, <1>3, <2>3, <3>2 DEF Releasing, ToldOnce
      <3> QED  BY <1>1, <3>1, <3>2 DEF ToldOnce, Detached
    <2> QED  BY <2>5, <2>6, <2>7, <2>8, <2>9 DEF Releasing
  <1> QED  BY <1>2, <1>4, <1>5 DEF HandleSlot, Detached

LEMMA ReleasingGiveBack ==
  ASSUME TypeOK, Releasing, RecycleItem
  PROVE  Releasing'
  <1>1. UNCHANGED <<requested, notify_queue, current>> /\ item' = None
    BY DEF RecycleItem, mixerVars
  <1>2. /\ Len(request_queue') \in Nat
        /\ \A i \in 1..Len(request_queue') :
             \/ i \in 1..Len(request_queue) /\ request_queue'[i] = request_queue[i]
             \/ request_queue'[i].updated = {}
    <2> DEFINE sent == MixerItem({}, Only({}, item.slots))
    <2>1. request_queue' = request_queue \/ request_queue' = Append(request_queue, sent)
      BY DEF RecycleItem, GiveBack
    <2>2. sent.updated = {}
      BY DEF MixerItem
    <2> HIDE DEF sent
    <2>3. request_queue \in Seq(Items(Slots))
      BY DEF TypeOK
    <2>4. CASE request_queue' = Append(request_queue, sent)
      <3>1. /\ Len(request_queue) \in Nat /\ Len(request_queue') = Len(request_queue) + 1
            /\ \A i \in 1..Len(request_queue) : request_queue'[i] = request_queue[i]
            /\ request_queue'[Len(request_queue) + 1] = sent
        BY <2>3, <2>4
      <3> QED  BY <2>2, <3>1
    <2> QED  BY <2>1, <2>3, <2>4
  <1>3. \A p \in Pipes : Leaving(p) => Leaving(p)'
    BY <1>1, <1>2 DEF Leaving, Detaching
  <1>4. MarkedAttached' /\ HeldAttached'
    BY <1>1 DEF Releasing, MarkedAttached, HeldAttached
  <1>5. RequestedAttached'
    BY <1>1, <1>2 DEF Releasing, RequestedAttached
  <1>6. DetachmentLast'
    <2> SUFFICES ASSUME NEW i \in 1..Len(request_queue'), NEW p \in request_queue'[i].updated,
                        request_queue'[i].slots[p].operation = "detach"
                 PROVE  /\ Detaching(requested', p) /\ p \notin requested'.updated
                        /\ \A j \in 1..Len(request_queue') : j > i => p \notin request_queue'[j].updated
      BY DEF DetachmentLast
    <2>1. i \in 1..Len(request_queue) /\ request_queue'[i] = request_queue[i]
      BY <1>2
    <2>2. /\ Detaching(requested, p) /\ p \notin requested.updated
          /\ \A j \in 1..Len(request_queue) : j > i => p \notin request_queue[j].updated
      BY <2>1 DEF Releasing, DetachmentLast
    <2>3. ASSUME NEW j \in 1..Len(request_queue'), j > i
          PROVE  p \notin request_queue'[j].updated
      BY <1>2, <2>2, <2>3
    <2> QED  BY <1>1, <2>2, <2>3
  <1>7. ToldOnce'
    BY <1>1, <1>3 DEF Releasing, ToldOnce, Detached
  <1> QED  BY <1>4, <1>5, <1>6, <1>7 DEF Releasing

\* a pipe that is not being detached is marked, attached or not
LEMMA ReleasingMark ==
  ASSUME TypeOK, Releasing, NEW p \in Pipes, ~Detaching(requested, p),
         requested' = [slots |-> requested'.slots, updated |-> requested.updated \cup {p}],
         requested'.slots[p] # None,
         \A q \in Pipes : q # p => requested'.slots[q] = requested.slots[q],
         UNCHANGED <<request_queue, notify_queue, current, item>>
  PROVE  Releasing'
  <1>1. \A i \in 1..Len(request_queue) : request_queue[i] \in Items(Slots)
    BY DEF TypeOK
  <1>2. \A i \in 1..Len(request_queue) : request_queue[i].updated \subseteq Pipes
    BY <1>1 DEF Items
  <1>3. requested.updated \subseteq Pipes
    BY DEF TypeOK
  <1>4. ASSUME NEW q \in Pipes, Leaving(q)
        PROVE  Leaving(q)'
    <2>1. q # p
      BY <1>4 DEF Leaving
    <2> QED  BY <1>4, <2>1 DEF Leaving, Detaching
  <1>5. MarkedAttached'
    BY <1>3 DEF Releasing, MarkedAttached
  <1>6. RequestedAttached'
    BY <1>2 DEF Releasing, RequestedAttached
  <1>7. HeldAttached'
    BY DEF Releasing, HeldAttached
  <1>8. DetachmentLast'
    <2> SUFFICES ASSUME NEW i \in 1..Len(request_queue), NEW q \in request_queue[i].updated,
                        request_queue[i].slots[q].operation = "detach"
                 PROVE  /\ Detaching(requested', q) /\ q \notin requested'.updated
                        /\ \A j \in 1..Len(request_queue) : j > i => q \notin request_queue[j].updated
      BY DEF DetachmentLast
    <2>1. /\ Detaching(requested, q) /\ q \notin requested.updated
          /\ \A j \in 1..Len(request_queue) : j > i => q \notin request_queue[j].updated
      BY DEF Releasing, DetachmentLast
    <2>2. q # p /\ q \in Pipes
      BY <1>2, <2>1
    <2> QED  BY <2>1, <2>2 DEF Detaching
  <1>9. ToldOnce'
    BY <1>4 DEF Releasing, ToldOnce, Detached
  <1> QED  BY <1>5, <1>6, <1>7, <1>8, <1>9 DEF Releasing

LEMMA ReleasingClients ==
  ASSUME TypeOK, Releasing, ClientsOfMixer
  PROVE  Releasing'
  <1> USE DEF requestVars, mixerVars, pipeVars
  <1>1. ASSUME NEW p \in Pipes, ReleaseSource(p)
        PROVE  Releasing'
    <2>1. CASE requested.slots[p] = None \/ Detaching(requested, p)
      BY <1>1, <2>1 DEF ReleaseSource, Detach, Releasing, MarkedAttached, RequestedAttached, HeldAttached,
                        DetachmentLast, ToldOnce, Leaving, Detached, Detaching
    <2>2. CASE ~(requested.slots[p] = None \/ Detaching(requested, p))
      <3> DEFINE leaving == [requested.slots[p] EXCEPT !.operation = "detach"]
      <3>1. requested' = [slots |-> [requested.slots EXCEPT ![p] = leaving],
                          updated |-> requested.updated \cup {p}]
        BY <1>1, <2>2 DEF ReleaseSource, Detach
      <3>2. requested.slots[p] \in Slots
        BY <2>2 DEF TypeOK
      <3>3. leaving \in Slots
        BY <3>2 DEF Slots
      <3>4. leaving # None
        BY <3>3
      <3> HIDE DEF leaving
      <3>5. requested'.slots[p] # None
            /\ \A q \in Pipes : q # p => requested'.slots[q] = requested.slots[q]
        BY <3>1, <3>4 DEF TypeOK
      <3>6. requested' = [slots |-> requested'.slots, updated |-> requested.updated \cup {p}]
        BY <3>1
      <3>7. UNCHANGED <<request_queue, notify_queue, current, item>>
        BY <1>1 DEF ReleaseSource
      <3> QED  BY <2>2, <3>5, <3>6, <3>7, ReleasingMark
    <2> QED  BY <2>1, <2>2
  <1>2. ASSUME NEW p \in Pipes, NEW args \in Arguments, Request(p, args)
        PROVE  Releasing'
    <2>1. args \in Slots
      BY DEF ArgumentRecords, Slots
    <2>2. requested' = [slots |-> [requested.slots EXCEPT ![p] = args],
                        updated |-> requested.updated \cup {p}]
      BY <1>2 DEF Request, AttachOrUpdate
    <2> QED  BY <1>2, <2>1, <2>2, ReleasingMark DEF Request, TypeOK
  <1>3. CASE UNCHANGED <<requested, request_queue, notify_queue, current, item>>
    BY <1>3 DEF Releasing, MarkedAttached, RequestedAttached, HeldAttached, DetachmentLast, ToldOnce,
                Leaving, Detached, Detaching
  <1> QED  BY <1>1, <1>2, <1>3 DEF ClientsOfMixer, CreateSource, DecoderEnds, SetLooping

LEMMA ReleasingStep == TypeOK /\ Releasing /\ [Next]_vars => Releasing'
  <1> SUFFICES ASSUME TypeOK, Releasing, [Next]_vars PROVE Releasing'
    OBVIOUS
  <1> USE DEF requestVars, mixerVars, pipeVars
  <1>1. CASE UNCHANGED <<requested, request_queue, notify_queue, current, item>>
    BY <1>1 DEF Releasing, MarkedAttached, RequestedAttached, HeldAttached, DetachmentLast, ToldOnce,
                Leaving, Detached, Detaching
  <1>2. CASE MixerThread
    BY <1>1, <1>2, ReleasingMix, ReleasingRecycle, ReleasingRequest
       DEF MixerThread, MixerTop, MixerUnpark, MixerParkedPoll
  <1>3. CASE HandlerThread
    <2>1. CASE PollDone \/ ApplyRequests
      BY <2>1, ReleasingApply DEF PollDone, ApplyRequests
    <2> QED  BY <1>1, <1>3, <2>1, ReleasingReceive, ReleasingHandle, ReleasingGiveBack
                DEF HandlerThread, Suspend, Resume, PollMixer
  <1>4. CASE UNCHANGED vars
    BY <1>1, <1>4 DEF vars
  <1> QED  BY <1>2, <1>3, <1>4, ReleasingClients DEF Next

\* Once the handler thread has given a pipe up, the mixer thread neither holds it nor
\* finds it in a request, so the pipe's next source is not mixed in the old one's place.
THEOREM ReleasedPipeSafe == Spec => []ReleasedPipeUnused
  <1>1. Spec => [](TypeOK /\ Releasing)
    BY TypeInit, ReleasingInit, TypeStep, ReleasingStep, PTL DEF Spec
  <1> QED  BY <1>1, ReleasingSuffices, PTL

-----------------------------------------------------------------------------
(* The flags and the states.  Inside an iteration they may differ, but a   *)
(* slot whose flag says started and whose state does not is at its end, so *)
(* that the stop conditions at the end of the iteration clear the flag.    *)

Ended == {"stoppedEnd", "stoppedEndNoLoop", "stoppedEndLoop"}

AgreeingSlot(c, p) ==
  /\ c.state[p] \in Started => "started" \in c.flags[p]
  /\ "started" \in c.flags[p] /\ c.state[p] \notin Started => "ended" \in c.flags[p]
  /\ c.state[p] \in Ended => "ended" \in c.flags[p]
  /\ "detach" \in c.flags[p] => Detaching(c, p)
  /\ c.slots[p] # None /\ ~Detaching(c, p) => c.state[p] # "unused"
Agreeing(c) == \A p \in Pipes : AgreeingSlot(c, p)

FlagsInv == Agreeing(Context) /\ FlagsMatchStates

LEMMA AgreeingInitialize ==
  ASSUME TypeOK, Releasing, Agreeing(Context), NEW request \in Items(Slots),
         \A p \in request.updated : request.slots[p] # None
  PROVE  Agreeing(InitializeSources(request))
  <1> DEFINE c == InitializeSources(request)
  <1> SUFFICES ASSUME NEW p \in Pipes PROVE AgreeingSlot(c, p)
    BY DEF Agreeing
  <1>1. CASE p \notin request.updated
    BY <1>1 DEF InitializeSources, Agreeing, AgreeingSlot, Context, Detaching
  <1>2. CASE p \in request.updated
    <2> DEFINE o == request.slots[p].operation
               same == current.slots[p] # None /\ current.slots[p].client = request.slots[p].client
               f == (IF same THEN flags[p] ELSE {}) \cup EndFlags(p)
    <2>1. /\ c.slots[p] = request.slots[p]
          /\ c.flags[p] = OperationFlags(f, o)
          /\ c.state[p] = IF same THEN UpdatedState(slot_state[p], o) ELSE AttachedState(o)
      BY <1>2 DEF InitializeSources
    <2>2. o \in {"none", "start", "stop", "detach"} /\ (Detaching(c, p) <=> o = "detach")
      BY <1>2, <2>1 DEF Items, Slots, Detaching
    <2>3. EndFlags(p) \in SUBSET {"ended", "looped"}
      BY DEF EndFlags
    <2>4. "detach" \notin f /\ f \in SUBSET FlagNames
      BY <2>3 DEF Agreeing, AgreeingSlot, Context, Detaching, Releasing, HeldAttached, TypeOK, FlagNames
    <2>5. slot_state[p] \in SlotStates
      BY DEF TypeOK
    <2>6. CASE same
      <3>1. AgreeingSlot(Context, p) /\ current.slots[p] # None /\ ~Detaching(Context, p)
        BY <2>6 DEF Agreeing, Releasing, HeldAttached, Detaching, Context
      <3>2. /\ slot_state[p] \in Started => "started" \in f
            /\ "started" \in f /\ slot_state[p] \notin Started => "ended" \in f
            /\ slot_state[p] \in Ended => "ended" \in f
            /\ slot_state[p] # "unused"
        BY <2>3, <2>6, <3>1 DEF AgreeingSlot, Context
      <3> HIDE DEF c, f, o, same
      <3>3. CASE o = "start"
        BY <2>1, <2>2, <2>4, <2>5, <2>6, <3>2, <3>3
           DEF AgreeingSlot, OperationFlags, UpdatedState, SlotStates, Started, Stopped, Ended
      <3>4. CASE o = "stop"
        BY <2>1, <2>2, <2>4, <2>5, <2>6, <3>2, <3>4
           DEF AgreeingSlot, OperationFlags, UpdatedState, SlotStates, Started, Stopped, Ended
      <3>5. CASE o = "detach"
        BY <2>1, <2>2, <2>6, <3>5 DEF AgreeingSlot, OperationFlags, UpdatedState, Started, Ended
      <3>6. CASE o = "none"
        BY <2>1, <2>2, <2>4, <2>6, <3>2, <3>6 DEF AgreeingSlot, OperationFlags, UpdatedState
      <3> QED  BY <2>2, <3>3, <3>4, <3>5, <3>6
    <2>7. CASE ~same
      <3>1. "started" \notin f
        BY <2>3, <2>7
      <3> HIDE DEF c, f, o, same
      <3> QED  BY <2>1, <2>2, <2>4, <2>7, <3>1
                  DEF AgreeingSlot, OperationFlags, AttachedState, Started, Ended
    <2> QED  BY <2>6, <2>7
  <1> QED  BY <1>1, <1>2

LEMMA AgreeingEnds ==
  ASSUME NEW c \in Contexts, Agreeing(c), NEW S
  PROVE  Agreeing(EndsAfter(c, S))
  <1>1. ASSUME NEW p \in Pipes
        PROVE  AgreeingSlot(EndsAfter(c, S), p)
    <2>1. AgreeingSlot(c, p)
      BY DEF Agreeing
    <2>2. /\ EndsAfter(c, S).slots = c.slots /\ EndsAfter(c, S).state = c.state
          /\ \A x \in {"started", "detach"} : x \in EndsAfter(c, S).flags[p] <=> x \in c.flags[p]
          /\ "ended" \in c.flags[p] => "ended" \in EndsAfter(c, S).flags[p]
      BY DEF EndsAfter, Contexts
    <2> QED  BY <2>1, <2>2 DEF AgreeingSlot, Detaching
  <1> QED  BY <1>1 DEF Agreeing

LEMMA AgreeingStart ==
  ASSUME NEW c \in Contexts, Agreeing(c), NEW fire \in Firings(c)
  PROVE  Agreeing(CheckStartConditions(c, fire))
  <1>1. ASSUME NEW p \in Pipes
        PROVE  AgreeingSlot(CheckStartConditions(c, fire), p)
    <2> DEFINE d == CheckStartConditions(c, fire)
    <2>1. AgreeingSlot(c, p)
      BY DEF Agreeing
    <2>2. d.slots = c.slots
      BY DEF CheckStartConditions
    <2>3. CASE p \in DOMAIN fire
      <3>1. d.state[p] \in {"startedLoop", "startedNoLoop"} /\ "started" \in d.flags[p]
            /\ ("detach" \in d.flags[p] => "detach" \in c.flags[p])
        BY <2>3 DEF CheckStartConditions
      <3> QED  BY <2>1, <2>2, <3>1 DEF AgreeingSlot, Detaching, Started, Ended
    <2>4. CASE p \notin DOMAIN fire
      <3>1. d.state[p] = c.state[p]
            /\ \E F \in SUBSET {"fired"} : d.flags[p] = c.flags[p] \cup F
        BY <2>4 DEF CheckStartConditions
      <3> QED  BY <2>1, <2>2, <3>1 DEF AgreeingSlot, Detaching
    <2> QED  BY <2>3, <2>4
  <1> QED  BY <1>1 DEF Agreeing

LEMMA AgreeingCleanUp ==
  ASSUME NEW c \in Contexts, Agreeing(c)
  PROVE  Agreeing(CleanUp(c))
  BY DEF Agreeing, AgreeingSlot, CleanUp, Detaching, Started, Ended

\* after the stop conditions the flags and the states tell the same
LEMMA AgreeingStop ==
  ASSUME NEW c \in Contexts, Agreeing(c), NEW faded
  PROVE  /\ Agreeing(CheckStopConditions(c, faded))
         /\ \A p \in Pipes : "started" \in CheckStopConditions(c, faded).flags[p]
                               <=> CheckStopConditions(c, faded).state[p] \in Started
  <1> DEFINE e == CheckStopConditions(c, faded)
  <1>1. ASSUME NEW p \in Pipes
        PROVE  AgreeingSlot(e, p) /\ ("started" \in e.flags[p] <=> e.state[p] \in Started)
    <2>1. AgreeingSlot(c, p)
      BY DEF Agreeing
    <2>2. e.slots = c.slots
      BY DEF CheckStopConditions
    <2>3. StopState(c.flags[p]) \in Ended \cup {"stoppedFaded"}
          /\ (StopState(c.flags[p]) \in Ended => "ended" \in c.flags[p])
      BY DEF StopState, Ended
    <2>4. CASE "started" \in c.flags[p] /\ ("ended" \in c.flags[p] \/ p \in faded)
      <3>1. e.state[p] = StopState(c.flags[p]) /\ e.flags[p] = c.flags[p] \ {"started"}
        BY <2>4 DEF CheckStopConditions, StartedSlots
      <3> QED  BY <2>1, <2>2, <2>3, <3>1 DEF AgreeingSlot, Detaching, Started, Ended
    <2>5. CASE ~("started" \in c.flags[p] /\ ("ended" \in c.flags[p] \/ p \in faded))
      <3>1. e.state[p] = c.state[p] /\ e.flags[p] = c.flags[p]
        BY <2>5 DEF CheckStopConditions, StartedSlots
      <3> QED  BY <2>1, <2>2, <2>5, <3>1 DEF AgreeingSlot, Detaching
    <2> QED  BY <2>4, <2>5
  <1> QED  BY <1>1 DEF Agreeing

LEMMA FlagsInit == Init => FlagsInv
  BY DEF Init, FlagsInv, FlagsMatchStates, Agreeing, AgreeingSlot, Context, Started, Ended

LEMMA SetContextAgrees ==
  ASSUME NEW c, NEW updated, SetContext(c, updated), Agreeing(c)
  PROVE  Agreeing(Context)'
  BY DEF SetContext, Agreeing, AgreeingSlot, Context, Detaching

LEMMA FlagsStep == TypeOK /\ Releasing /\ FlagsInv /\ [Next]_vars => FlagsInv'
  <1> SUFFICES ASSUME TypeOK, Releasing, FlagsInv, [Next]_vars PROVE FlagsInv'
    OBVIOUS
  <1> USE DEF requestVars, mixerVars, pipeVars
  <1>1. CASE UNCHANGED <<current, slot_state, flags, fading_out>>
             /\ (mixer' \in {"top", "parked"} => mixer \in {"top", "parked"})
    BY <1>1 DEF FlagsInv, FlagsMatchStates, Agreeing, AgreeingSlot, Context, Detaching
  <1>2. CASE MixerParkedPoll
    <2>1. PICK S : flags' = EndsAfter(Context, S).flags
      BY <1>2 DEF MixerParkedPoll
    <2>2. UNCHANGED <<current, slot_state, mixer>>
      BY <1>2 DEF MixerParkedPoll
    <2>3. Agreeing(EndsAfter(Context, S))
      BY ContextTyped, AgreeingEnds DEF FlagsInv
    <2>4. /\ EndsAfter(Context, S).slots = current.slots
          /\ EndsAfter(Context, S).state = slot_state
      BY DEF EndsAfter, Context
    <2>5. Agreeing(Context)'
      BY <2>1, <2>2, <2>3, <2>4 DEF Agreeing, AgreeingSlot, Context, Detaching
    <2>6. \A p \in Pipes : "started" \in flags'[p] <=> "started" \in flags[p]
      BY <2>1 DEF EndsAfter, Context, TypeOK
    <2> QED  BY <1>2, <2>2, <2>5, <2>6 DEF FlagsInv, FlagsMatchStates, MixerParkedPoll
  <1>3. CASE MixerUpdateRequest
    <2> DEFINE request == Head(request_queue)
               c == InitializeSources(request)
    <2>1. request = request_queue[1] /\ 1 \in 1..Len(request_queue) /\ request \in Items(Slots)
      BY <1>3 DEF MixerUpdateRequest, TypeOK
    <2>2. c \in Contexts /\ Agreeing(c)
      BY <2>1, InitializeSourcesTyped, AgreeingInitialize DEF FlagsInv, Releasing, RequestedAttached
    <2>3. PICK fire \in Firings(c) : SetContext(CleanUp(CheckStartConditions(c, fire)), {})
      BY <1>3 DEF MixerUpdateRequest
    <2> HIDE DEF c
    <2>4. Agreeing(CleanUp(CheckStartConditions(c, fire)))
      BY <2>2, CheckStartConditionsTyped, AgreeingStart, AgreeingCleanUp
    <2>5. Agreeing(Context)'
      BY <2>3, <2>4, SetContextAgrees
    <2> QED  BY <1>3, <2>5 DEF FlagsInv, FlagsMatchStates, MixerUpdateRequest
  <1>4. CASE MixerUpdateRecycle
    <2>1. PICK fire \in Firings(Context) : \E updated : SetContext(CheckStartConditions(Context, fire), updated)
      BY <1>4 DEF MixerUpdateRecycle
    <2>1a. PICK updated : SetContext(CheckStartConditions(Context, fire), updated)
      BY <2>1
    <2>2. Agreeing(Context)'
      BY <2>1a, ContextTyped, AgreeingStart, SetContextAgrees DEF FlagsInv
    <2> QED  BY <1>4, <2>2 DEF FlagsInv, FlagsMatchStates, MixerUpdateRecycle
  <1>5. CASE MixerMix
    <2>1. PICK S \in SUBSET ReachedEnd(Context), e \in Contexts, updated \in SUBSET Pipes :
            /\ \E fire \in Firings(EndsAfter(Context, S)), faded \in SUBSET Pipes :
                 e = CheckStopConditions(CheckStartConditions(EndsAfter(Context, S), fire), faded)
            /\ SetContext(e, updated) \/ Notify(e, updated)
      BY <1>5, MixerMixOutcome
    <2>2. PICK fire \in Firings(EndsAfter(Context, S)), faded \in SUBSET Pipes :
            e = CheckStopConditions(CheckStartConditions(EndsAfter(Context, S), fire), faded)
      BY <2>1
    <2>3. EndsAfter(Context, S) \in Contexts /\ Agreeing(EndsAfter(Context, S))
      BY ContextTyped, EndsAfterTyped, AgreeingEnds DEF FlagsInv
    <2> DEFINE d == CheckStartConditions(EndsAfter(Context, S), fire)
    <2>4. d \in Contexts /\ Agreeing(d)
      BY <2>3, CheckStartConditionsTyped, AgreeingStart
    <2> HIDE DEF d
    <2>5. /\ Agreeing(e)
          /\ \A p \in Pipes : "started" \in e.flags[p] <=> e.state[p] \in Started
      BY <2>2, <2>4, AgreeingStop DEF d
    <2>6. PICK u : SetContext(e, u)
      BY <2>1 DEF Notify
    <2> QED  BY <2>5, <2>6, SetContextAgrees DEF FlagsInv, FlagsMatchStates, SetContext
  <1>6. CASE MixerThread
    BY <1>1, <1>2, <1>3, <1>4, <1>5, <1>6 DEF MixerThread, MixerTop, MixerUnpark, BeginIteration
  <1>7. CASE HandlerThread
    BY <1>1, <1>7 DEF HandlerThread, Suspend, Resume, PollMixer, ReceiveItem, HandleSlot, RecycleItem,
                      PollDone, ApplyRequests
  <1>8. CASE ClientsOfMixer
    BY <1>1, <1>8 DEF ClientsOfMixer, CreateSource, ReleaseSource, DecoderEnds, Request, SetLooping
  <1>9. CASE UNCHANGED vars
    BY <1>1, <1>9 DEF vars
  <1> QED  BY <1>6, <1>7, <1>8, <1>9 DEF Next

\* Between two iterations of the mixer thread the flags that decide what is mixed and the
\* states that are reported to the handler thread tell the same of every slot.
THEOREM FlagsMatchStatesHolds == Spec => []FlagsMatchStates
  <1>1. Spec => [](TypeOK /\ Releasing /\ FlagsInv)
    BY TypeInit, ReleasingInit, FlagsInit, TypeStep, ReleasingStep, FlagsStep, PTL DEF Spec
  <1> QED  BY <1>1, PTL DEF FlagsInv
-----------------------------------------------------------------------------
(* What the handler thread is told.  A report about a slot has something   *)
(* to tell, and the report of a detachment meets a slot that was told to   *)
(* be attached: the attachment went the same way before it.                *)

\* What the mixer has marked is attached, and so is what the reports are about.
ReportsFilled ==
  /\ \A p \in current.updated : current.slots[p] # None
  /\ \A i \in 1..Len(notify_queue) : \A p \in notify_queue[i].updated : notify_queue[i].slots[p] # None
  /\ item # None => \A p \in item.updated : item.slots[p] # None
\* The mixer's own items come back empty.
ReturnsEmpty ==
  \A i \in 1..Len(request_queue) : request_queue[i].owner = "mixer" => request_queue[i].updated = {}
\* A slot the mixer has no pipe in has no flags.
EmptySlots(c) == \A p \in Pipes : c.slots[p] = None => c.flags[p] = {}

\* the set attaches the pipe; the item tells of it as attached
Attaches(set, p) == p \in set.updated /\ set.slots[p] # None /\ set.slots[p].operation # "detach"
Tells(it, p) == p \in it.updated /\ it.slots[p] # None /\ ~it.slots[p].detached

\* the handler thread has been told that the pipe is attached, or will be
Awaited(p) ==
  \/ active[p] # None
  \/ Attaches(requested, p)
  \/ \E i \in 1..Len(request_queue) : Attaches(request_queue[i], p)
  \/ \E i \in 1..Len(notify_queue) : Tells(notify_queue[i], p)
  \/ item # None /\ Tells(item, p)
AttachmentTold == \A p \in Pipes : requested.slots[p] # None => Awaited(p)

FilledInv == ReportsFilled /\ ReturnsEmpty /\ EmptySlots(Context)

\* Nothing about a pipe is told after its detachment.
DetachmentToldLast ==
  /\ \A i, j \in 1..Len(notify_queue) : \A p \in Pipes :
       Detached(notify_queue[i], p) /\ j > i => p \notin notify_queue[j].updated
  /\ item # None => \A i \in 1..Len(notify_queue) : \A p \in Pipes :
       Detached(item, p) => p \notin notify_queue[i].updated

LEMMA ToldSuffices == TypeOK /\ Releasing /\ FilledInv /\ DetachmentToldLast /\ AttachmentTold => ReportsExpected
  <1> SUFFICES ASSUME TypeOK, Releasing, FilledInv, DetachmentToldLast,
                      AttachmentTold, item # None, NEW p \in item.updated
               PROVE  item.slots[p] # None /\ (item.slots[p].detached => active[p] # None)
    BY DEF ReportsExpected
  <1>1. p \in Pipes
    BY DEF TypeOK, Items
  <1>2. item.slots[p] # None
    BY DEF FilledInv, ReportsFilled
  <1>3. ASSUME item.slots[p].detached
        PROVE  active[p] # None
    <2>1. Leaving(p) /\ \A i \in 1..Len(notify_queue) : ~Detached(notify_queue[i], p)
      BY <1>1, <1>2, <1>3 DEF Releasing, ToldOnce, Detached
    <2>2. Awaited(p)
      BY <1>1, <2>1 DEF AttachmentTold, Leaving, Detaching
    <2>3. ~Attaches(requested, p) /\ ~Tells(item, p)
      BY <1>3, <2>1 DEF Leaving, Attaches, Tells
    <2>4. \A i \in 1..Len(request_queue) : ~Attaches(request_queue[i], p)
      BY <2>1 DEF Leaving, Attaches
    <2>5. \A i \in 1..Len(notify_queue) : ~Tells(notify_queue[i], p)
      BY <1>1, <1>2, <1>3 DEF DetachmentToldLast, Detached, Tells
    <2> QED  BY <2>2, <2>3, <2>4, <2>5 DEF Awaited
  <1> QED  BY <1>2, <1>3

-----------------------------------------------------------------------------
LEMMA EmptyInitialize ==
  ASSUME TypeOK, EmptySlots(Context), NEW request \in Items(Slots),
         \A p \in request.updated : request.slots[p] # None
  PROVE  EmptySlots(InitializeSources(request))
  BY DEF EmptySlots, InitializeSources, Context

LEMMA EmptyEnds ==
  ASSUME NEW c \in Contexts, EmptySlots(c), NEW S \in SUBSET ReachedEnd(c)
  PROVE  EmptySlots(EndsAfter(c, S))
  <1>1. \A p \in S : c.slots[p] # None
    BY DEF EmptySlots, ReachedEnd, StartedSlots
  <1> QED  BY <1>1 DEF EmptySlots, EndsAfter

\* what starts and what it is started by are attached
LEMMA FiringFilled ==
  ASSUME NEW c, NEW fire \in Firings(c), NEW t \in DOMAIN fire
  PROVE  /\ t \in Pipes /\ fire[t] \in Pipes
         /\ c.slots[t] # None /\ c.slots[fire[t]] # None
         /\ c.flags[t] \cap {"started", "ended"} = {}
  <1>1. Triggers(c, fire[t], t)
    BY DEF Firings
  <1>2. t \in Pipes /\ fire[t] \in Pipes
    BY DEF Firings
  <1> QED  BY <1>1, <1>2 DEF Triggers

LEMMA EmptyStart ==
  ASSUME NEW c \in Contexts, EmptySlots(c), NEW fire \in Firings(c)
  PROVE  EmptySlots(CheckStartConditions(c, fire))
  BY FiringFilled DEF EmptySlots, CheckStartConditions

LEMMA EmptyStop ==
  ASSUME NEW c \in Contexts, EmptySlots(c), NEW faded
  PROVE  EmptySlots(CheckStopConditions(c, faded))
  BY DEF EmptySlots, CheckStopConditions, StartedSlots

LEMMA EmptyCleanUp ==
  ASSUME NEW c \in Contexts, EmptySlots(c)
  PROVE  EmptySlots(CleanUp(c))
  BY DEF EmptySlots, CleanUp

LEMMA SetContextEmpty ==
  ASSUME NEW c, NEW updated, SetContext(c, updated), EmptySlots(c)
  PROVE  EmptySlots(Context)' /\ current' = [slots |-> c.slots, updated |-> updated]
  BY DEF SetContext, EmptySlots, Context

\* A mixing iteration marks attached slots only, and reports nothing else.
LEMMA FilledMix ==
  ASSUME TypeOK, FilledInv, MixerMix
  PROVE  /\ EmptySlots(Context)'
         /\ current'.slots = current.slots
         /\ \A p \in current'.updated : current'.slots[p] # None
         /\ \/ UNCHANGED notify_queue
            \/ \E sent \in Items(Reports) :
                 /\ notify_queue' = Append(notify_queue, sent)
                 /\ \A p \in sent.updated : sent.slots[p] # None /\ current.slots[p] # None
  <1>1. PICK S \in SUBSET ReachedEnd(Context), e \in Contexts, updated \in SUBSET Pipes :
          /\ e.slots = current.slots
          /\ \E fire \in Firings(EndsAfter(Context, S)), faded \in SUBSET Pipes :
               /\ e = CheckStopConditions(CheckStartConditions(EndsAfter(Context, S), fire), faded)
               /\ updated \subseteq current.updated \cup DOMAIN fire
                    \cup StartedSlots(CheckStartConditions(EndsAfter(Context, S), fire))
          /\ (SetContext(e, updated) /\ UNCHANGED notify_queue) \/ Notify(e, updated)
    BY MixerMixOutcome
  <1> DEFINE c == EndsAfter(Context, S)
  <1>2. PICK fire \in Firings(c), faded \in SUBSET Pipes :
          /\ e = CheckStopConditions(CheckStartConditions(c, fire), faded)
          /\ updated \subseteq current.updated \cup DOMAIN fire \cup StartedSlots(CheckStartConditions(c, fire))
    BY <1>1
  <1>3. c \in Contexts /\ c.slots = current.slots /\ EmptySlots(c)
    BY ContextTyped, EndsAfterTyped, EmptyEnds DEF FilledInv, Context
  <1> HIDE DEF c
  <1> DEFINE d == CheckStartConditions(c, fire)
  <1>4. d \in Contexts /\ d.slots = current.slots /\ EmptySlots(d)
    BY <1>3, CheckStartConditionsTyped, EmptyStart
  <1>5. e = CheckStopConditions(d, faded)
        /\ updated \subseteq current.updated \cup DOMAIN fire \cup StartedSlots(d)
    BY <1>2
  <1> HIDE DEF d
  <1>6. EmptySlots(e)
    BY <1>4, <1>5, EmptyStop
  <1>7. \A p \in StartedSlots(d) : current.slots[p] # None
    BY <1>4 DEF EmptySlots, StartedSlots
  <1>8. \A p \in DOMAIN fire : current.slots[p] # None
    BY <1>3, FiringFilled
  <1>9. \A p \in updated : current.slots[p] # None
    BY <1>5, <1>7, <1>8 DEF FilledInv, ReportsFilled
  <1>10. CASE SetContext(e, updated) /\ UNCHANGED notify_queue
    BY <1>1, <1>6, <1>9, <1>10, SetContextEmpty
  <1>11. CASE Notify(e, updated)
    <2>1. CASE updated # {} /\ mixer_free > 0
      <3> DEFINE sent == MixerItem(updated, ReportOf(e, updated))
      <3>1. notify_queue' = Append(notify_queue, sent) /\ SetContext(e, {})
        BY <1>11, <2>1 DEF Notify
      <3>2. sent \in Items(Reports)
        BY ReportOfTyped, MixerItemTyped
      <3>3. \A p \in updated : ReportOf(e, updated)[p] \in Reports
        BY <1>1, <1>9 DEF ReportOf, Reports, Contexts
      <3>3a. None \notin Reports
        OBVIOUS
      <3>4. \A p \in sent.updated : sent.slots[p] # None /\ current.slots[p] # None
        BY <1>9, <3>3, <3>3a DEF MixerItem
      <3> HIDE DEF sent
      <3>5. EmptySlots(Context)' /\ current' = [slots |-> e.slots, updated |-> {}]
        BY <1>6, <3>1, SetContextEmpty
      <3> QED  BY <1>1, <3>1, <3>2, <3>4, <3>5
    <2>2. CASE ~(updated # {} /\ mixer_free > 0)
      <3>1. SetContext(e, updated) /\ UNCHANGED notify_queue
        BY <1>11, <2>2 DEF Notify
      <3> QED  BY <1>1, <1>6, <1>9, <3>1, SetContextEmpty
    <2> QED  BY <2>1, <2>2
  <1> QED  BY <1>1, <1>10, <1>11

\* Answering a request does the same; what it reports is what it was asked or had marked.
LEMMA FilledRequest ==
  ASSUME TypeOK, Releasing, FilledInv, MixerUpdateRequest
  PROVE  /\ EmptySlots(Context)'
         /\ current'.updated = {}
         /\ \E sent \in Items(Reports) :
              /\ notify_queue' = Append(notify_queue, sent)
              /\ Head(request_queue).updated \subseteq sent.updated
              /\ \A p \in sent.updated :
                   /\ sent.slots[p] # None
                   /\ current.slots[p] # None \/ p \in Head(request_queue).updated
              /\ \A p \in Head(request_queue).updated :
                   sent.slots[p].detached <=> Head(request_queue).slots[p].operation = "detach"
  <1> DEFINE request == Head(request_queue)
             c == InitializeSources(request)
             updated == current.updated \cup request.updated
             sent == RequestItem(updated, ReportOf(c, updated))
  <1>1. request \in Items(Slots) /\ request = request_queue[1] /\ 1 \in 1..Len(request_queue)
    BY DEF MixerUpdateRequest, TypeOK
  <1>2. \A p \in request.updated : p \in Pipes /\ request.slots[p] # None
    BY <1>1 DEF Releasing, RequestedAttached, Items
  <1>3. c \in Contexts /\ EmptySlots(c)
    BY <1>1, <1>2, InitializeSourcesTyped, EmptyInitialize DEF FilledInv
  <1>4. \A p \in Pipes : c.slots[p] = IF p \in request.updated THEN request.slots[p] ELSE current.slots[p]
    BY DEF InitializeSources
  <1>5. PICK fire \in Firings(c) : SetContext(CleanUp(CheckStartConditions(c, fire)), {})
    BY DEF MixerUpdateRequest
  <1>6. notify_queue' = Append(notify_queue, sent)
    BY DEF MixerUpdateRequest
  <1> HIDE DEF c
  <1>7. EmptySlots(CleanUp(CheckStartConditions(c, fire)))
    BY <1>3, CheckStartConditionsTyped, EmptyStart, EmptyCleanUp
  <1>8. EmptySlots(Context)' /\ current'.updated = {}
    BY <1>5, <1>7, SetContextEmpty
  <1>9. updated \in SUBSET Pipes
    BY <1>1 DEF TypeOK, Items
  <1>10. sent \in Items(Reports)
    BY <1>3, <1>9, ReportOfTyped, MixerItemTyped
  <1>11. \A p \in updated : c.slots[p] # None /\ (current.slots[p] # None \/ p \in request.updated)
    BY <1>2, <1>4, <1>9 DEF FilledInv, ReportsFilled
  <1>12. \A p \in updated : /\ ReportOf(c, updated)[p] \in Reports
                            /\ ReportOf(c, updated)[p].detached <=> c.slots[p].operation = "detach"
    BY <1>3, <1>9, <1>11 DEF ReportOf, Reports, Contexts
  <1>13. None \notin Reports
    OBVIOUS
  <1>14. sent.updated = updated /\ \A p \in updated : sent.slots[p] = ReportOf(c, updated)[p]
    BY DEF RequestItem
  <1> HIDE DEF sent
  <1>15. \A p \in sent.updated : sent.slots[p] # None
                                 /\ (current.slots[p] # None \/ p \in request.updated)
    BY <1>11, <1>12, <1>13, <1>14
  <1>16. \A p \in request.updated : sent.slots[p].detached <=> request.slots[p].operation = "detach"
    BY <1>2, <1>4, <1>12, <1>14
  <1> QED  BY <1>6, <1>8, <1>10, <1>14, <1>15, <1>16

LEMMA FilledRecycle ==
  ASSUME TypeOK, FilledInv, MixerUpdateRecycle
  PROVE  /\ EmptySlots(Context)'
         /\ \A p \in current'.updated : current'.slots[p] # None
  <1>1. PICK fire \in Firings(Context) :
          SetContext(CheckStartConditions(Context, fire), current.updated \cup DOMAIN fire)
    BY DEF MixerUpdateRecycle
  <1> DEFINE d == CheckStartConditions(Context, fire)
             u == current.updated \cup DOMAIN fire
  <1>2. d \in Contexts /\ d.slots = current.slots /\ EmptySlots(d)
    BY ContextTyped, CheckStartConditionsTyped, EmptyStart DEF FilledInv, Context
  <1>3. \A p \in DOMAIN fire : Context.slots[p] # None
    BY FiringFilled
  <1>4. \A p \in u : current.slots[p] # None
    BY <1>3 DEF FilledInv, ReportsFilled, Context
  <1>5. SetContext(d, u)
    BY <1>1
  <1> HIDE DEF d, u
  <1>6. EmptySlots(Context)' /\ current' = [slots |-> d.slots, updated |-> u]
    BY <1>2, <1>5, SetContextEmpty
  <1> QED  BY <1>2, <1>4, <1>6

-----------------------------------------------------------------------------
(* How the two queues change: what is taken is the oldest item, what is    *)
(* put comes last.                                                         *)

LEMMA TailQueue ==
  ASSUME NEW S, NEW u \in Seq(S), u # <<>>, NEW v, v = Tail(u)
  PROVE  /\ Head(u) = u[1] /\ 1 \in 1..Len(u)
         /\ Len(v) = Len(u) - 1 /\ Len(v) \in Nat
         /\ \A i \in 1..Len(v) : v[i] = u[i + 1] /\ i + 1 \in 1..Len(u)
         /\ \A i \in 1..Len(u) : i = 1 \/ (i - 1 \in 1..Len(v) /\ u[i] = v[i - 1])
  OBVIOUS

LEMMA AppendQueue ==
  ASSUME NEW S, NEW u \in Seq(S), NEW x, NEW v, v = Append(u, x)
  PROVE  /\ Len(u) \in Nat /\ Len(v) = Len(u) + 1
         /\ \A i \in 1..Len(u) : v[i] = u[i] /\ i \in 1..Len(v)
         /\ v[Len(u) + 1] = x /\ Len(u) + 1 \in 1..Len(v)
         /\ \A i \in 1..Len(v) : i \in 1..Len(u) \/ i = Len(u) + 1
  OBVIOUS

\* what apply() sends
LEMMA AppliedQueue ==
  ASSUME TypeOK, Apply(requested)
  PROVE  \/ UNCHANGED <<requested, request_queue>>
         \/ \E sent \in Items(Slots) :
              /\ request_queue' = Append(request_queue, sent)
              /\ requested' = [slots |-> requested.slots, updated |-> {}]
              /\ sent.owner = "request" /\ sent.updated = requested.updated
              /\ \A p \in sent.updated : sent.slots[p] = requested.slots[p]
  <1>1. CASE requested.updated # {} /\ request_free > 0
    <2> DEFINE sent == RequestItem(requested.updated, Only(requested.updated, requested.slots))
    <2>1. /\ requested' = [slots |-> requested.slots, updated |-> {}]
          /\ request_queue' = Append(request_queue, sent)
      BY <1>1 DEF Apply
    <2>2. sent \in Items(Slots)
      BY OnlyTyped DEF TypeOK, SourceSets
    <2>3. /\ sent.owner = "request" /\ sent.updated = requested.updated
          /\ \A p \in sent.updated : sent.slots[p] = requested.slots[p]
      BY DEF RequestItem, Only, TypeOK
    <2> HIDE DEF sent
    <2> QED  BY <2>1, <2>2, <2>3
  <1>2. CASE ~(requested.updated # {} /\ request_free > 0)
    BY <1>2 DEF Apply
  <1> QED  BY <1>1, <1>2

\* what giving an item back puts in the request queue
LEMMA ReturnedQueue ==
  ASSUME RecycleItem
  PROVE  \/ UNCHANGED request_queue
         \/ \E sent : /\ request_queue' = Append(request_queue, sent)
                      /\ sent.owner = "mixer" /\ sent.updated = {}
  BY DEF RecycleItem, GiveBack, MixerItem

LEMMA FilledInit == Init => FilledInv
  BY DEF Init, FilledInv, ReportsFilled, ReturnsEmpty, EmptySlots, Context

LEMMA ReturnsEmptyStep ==
  ASSUME TypeOK, ReturnsEmpty, [Next]_vars
  PROVE  ReturnsEmpty'
  <1> USE DEF requestVars, mixerVars, pipeVars
  <1>0. request_queue \in Seq(Items(Slots))
    BY DEF TypeOK
  <1>1. CASE UNCHANGED request_queue
    BY <1>1 DEF ReturnsEmpty
  <1>2. CASE request_queue # <<>> /\ request_queue' = Tail(request_queue)
    BY <1>0, <1>2, TailQueue DEF ReturnsEmpty
  <1>3. CASE \E sent : /\ request_queue' = Append(request_queue, sent)
                       /\ sent.owner = "mixer" => sent.updated = {}
    <2>1. PICK sent : /\ request_queue' = Append(request_queue, sent)
                      /\ sent.owner = "mixer" => sent.updated = {}
      BY <1>3
    <2> QED  BY <1>0, <2>1, AppendQueue DEF ReturnsEmpty
  <1>4. CASE MixerThread
    BY <1>1, <1>2, <1>4 DEF MixerThread, MixerTop, MixerUnpark, MixerParkedPoll, MixerUpdateRequest,
                            MixerUpdateRecycle, MixerMix
  <1>5. CASE HandlerThread
    <2>1. CASE RecycleItem
      BY <1>1, <1>3, <2>1, ReturnedQueue
    <2>2. CASE PollDone \/ ApplyRequests
      <3>1. Apply(requested)
        BY <2>2 DEF PollDone, ApplyRequests
      <3> QED  BY <1>1, <1>3, <3>1, AppliedQueue
    <2> QED  BY <1>1, <1>5, <2>1, <2>2 DEF HandlerThread, Suspend, Resume, PollMixer, ReceiveItem, HandleSlot
  <1>6. CASE ClientsOfMixer
    BY <1>1, <1>6 DEF ClientsOfMixer, CreateSource, ReleaseSource, DecoderEnds, Request, SetLooping
  <1>7. CASE UNCHANGED vars
    BY <1>1, <1>7 DEF vars
  <1> QED  BY <1>4, <1>5, <1>6, <1>7 DEF Next

LEMMA FilledStep == TypeOK /\ Releasing /\ FilledInv /\ [Next]_vars => FilledInv'
  <1> SUFFICES ASSUME TypeOK, Releasing, FilledInv, [Next]_vars PROVE FilledInv'
    OBVIOUS
  <1> USE DEF requestVars, mixerVars, pipeVars
  <1>0. /\ ReturnsEmpty' /\ notify_queue \in Seq(Items(Reports))
    BY ReturnsEmptyStep DEF FilledInv, TypeOK
  <1>1. CASE UNCHANGED <<current, slot_state, flags, fading_out, notify_queue, item>>
    BY <1>0, <1>1 DEF FilledInv, ReportsFilled, EmptySlots, Context
  <1>2. CASE MixerParkedPoll
    <2>1. PICK S \in SUBSET ReachedEnd(Context) : flags' = EndsAfter(Context, S).flags
      BY <1>2 DEF MixerParkedPoll
    <2>2. EmptySlots(EndsAfter(Context, S)) /\ EndsAfter(Context, S).slots = current.slots
      BY ContextTyped, EmptyEnds, EndsAfterTyped DEF FilledInv, Context
    <2> QED  BY <1>0, <1>2, <2>1, <2>2 DEF MixerParkedPoll, FilledInv, ReportsFilled, EmptySlots, Context
  <1>3. ASSUME EmptySlots(Context)', \A p \in current'.updated : current'.slots[p] # None, UNCHANGED item,
               NEW sent, notify_queue' = Append(notify_queue, sent),
               \A p \in sent.updated : sent.slots[p] # None
        PROVE  FilledInv'
    <2>1. \A i \in 1..Len(notify_queue') : \A p \in notify_queue'[i].updated :
            notify_queue'[i].slots[p] # None
      BY <1>0, <1>3, AppendQueue DEF FilledInv, ReportsFilled
    <2> QED  BY <1>0, <1>3, <2>1 DEF FilledInv, ReportsFilled
  <1>4. ASSUME EmptySlots(Context)', \A p \in current'.updated : current'.slots[p] # None,
               UNCHANGED <<item, notify_queue>>
        PROVE  FilledInv'
    BY <1>0, <1>4 DEF FilledInv, ReportsFilled
  <1>5. CASE MixerUpdateRequest
    <2>1. UNCHANGED item /\ \A p \in current'.updated : current'.slots[p] # None
      BY <1>5, FilledRequest DEF MixerUpdateRequest
    <2> QED  BY <1>3, <1>5, <2>1, FilledRequest
  <1>6. CASE MixerUpdateRecycle
    <2>1. UNCHANGED <<item, notify_queue>>
      BY <1>6 DEF MixerUpdateRecycle
    <2> QED  BY <1>4, <1>6, <2>1, FilledRecycle
  <1>7. CASE MixerMix
    <2>1. UNCHANGED item
      BY <1>7 DEF MixerMix
    <2> QED  BY <1>3, <1>4, <1>7, <2>1, FilledMix
  <1>8. CASE ReceiveItem
    <2>1. /\ notify_queue # <<>> /\ notify_queue' = Tail(notify_queue) /\ item' = Head(notify_queue)
          /\ UNCHANGED <<current, flags, slot_state, fading_out>>
      BY <1>8 DEF ReceiveItem
    <2>2. item' = notify_queue[1] /\ 1 \in 1..Len(notify_queue)
          /\ \A i \in 1..Len(notify_queue') : notify_queue'[i] = notify_queue[i + 1]
                                              /\ i + 1 \in 1..Len(notify_queue)
      BY <1>0, <2>1, TailQueue
    <2> QED  BY <1>0, <2>1, <2>2 DEF FilledInv, ReportsFilled, EmptySlots, Context
  <1>9. ASSUME NEW p \in Pipes, HandleSlot(p)
        PROVE  FilledInv'
    <2>1. item \in Items(Reports) /\ item # None
      BY <1>9 DEF HandleSlot, InItem, TypeOK
    <2>2. \A q \in item'.updated : q \in item.updated /\ q # p /\ item'.slots[q] = item.slots[q]
      BY <1>9, <2>1 DEF HandleSlot, Items
    <2>3. UNCHANGED <<current, flags, slot_state, fading_out, notify_queue>>
      BY <1>9 DEF HandleSlot
    <2> QED  BY <1>0, <2>1, <2>2, <2>3 DEF FilledInv, ReportsFilled, EmptySlots, Context
  <1>10. CASE RecycleItem
    BY <1>0, <1>10 DEF RecycleItem, FilledInv, ReportsFilled, EmptySlots, Context
  <1>11. CASE MixerThread
    BY <1>1, <1>2, <1>5, <1>6, <1>7, <1>11 DEF MixerThread, MixerTop, MixerUnpark, BeginIteration
  <1>12. CASE HandlerThread
    BY <1>1, <1>8, <1>9, <1>10, <1>12
       DEF HandlerThread, Suspend, Resume, PollMixer, PollDone, ApplyRequests
  <1>13. CASE ClientsOfMixer
    BY <1>1, <1>13 DEF ClientsOfMixer, CreateSource, ReleaseSource, DecoderEnds, Request, SetLooping
  <1>14. CASE UNCHANGED vars
    BY <1>1, <1>14 DEF vars
  <1> QED  BY <1>11, <1>12, <1>13, <1>14 DEF Next

-----------------------------------------------------------------------------
(* The order of the reports.                                               *)

LEMMA ToldLastInit == Init => DetachmentToldLast
  BY DEF Init, DetachmentToldLast

\* a report is put behind the others that tells of no slot that was told to be detached
LEMMA ToldLastSent ==
  ASSUME TypeOK, Releasing, DetachmentToldLast, UNCHANGED item,
         NEW sent \in Items(Reports), notify_queue' = Append(notify_queue, sent),
         \A p \in sent.updated : ~Leaving(p)
  PROVE  DetachmentToldLast'
  <1>1. notify_queue \in Seq(Items(Reports))
    BY DEF TypeOK
  <1> DEFINE n == Len(notify_queue)
  <1>2. /\ n \in Nat /\ Len(notify_queue') = n + 1
        /\ \A i \in 1..n : notify_queue'[i] = notify_queue[i] /\ i \in 1..(n + 1)
        /\ notify_queue'[n + 1] = sent
        /\ \A i \in 1..(n + 1) : i \in 1..n \/ i = n + 1
    BY <1>1, AppendQueue
  <1>3. \A i \in 1..n : \A p \in Pipes : Detached(notify_queue[i], p) => p \notin sent.updated
    BY DEF Releasing, ToldOnce
  <1>4. item # None => \A p \in Pipes : Detached(item, p) => p \notin sent.updated
    BY DEF Releasing, ToldOnce
  <1> HIDE DEF n
  <1>5. ASSUME NEW i \in 1..(n + 1), NEW j \in 1..(n + 1), NEW p \in Pipes,
               Detached(notify_queue'[i], p), j > i
        PROVE  p \notin notify_queue'[j].updated
    <2>1. i \in 1..n
      BY <1>2, <1>5
    <2>2. CASE j \in 1..n
      BY <1>2, <1>5, <2>1, <2>2 DEF DetachmentToldLast, n
    <2>3. CASE j = n + 1
      BY <1>2, <1>3, <1>5, <2>1, <2>3
    <2> QED  BY <1>2, <2>2, <2>3
  <1>6. ASSUME item # None, NEW i \in 1..(n + 1), NEW p \in Pipes, Detached(item, p)
        PROVE  p \notin notify_queue'[i].updated
    BY <1>2, <1>4, <1>6 DEF DetachmentToldLast, n
  <1> QED  BY <1>2, <1>5, <1>6 DEF DetachmentToldLast, Detached

LEMMA ToldLastStep == TypeOK /\ Releasing /\ FilledInv /\ DetachmentToldLast /\ [Next]_vars => DetachmentToldLast'
  <1> SUFFICES ASSUME TypeOK, Releasing, FilledInv, DetachmentToldLast, [Next]_vars
               PROVE  DetachmentToldLast'
    OBVIOUS
  <1> USE DEF requestVars, mixerVars, pipeVars
  <1>1. CASE UNCHANGED <<notify_queue, item>>
    BY <1>1 DEF DetachmentToldLast, Detached
  <1>2. CASE MixerUpdateRequest
    <2>1. PICK sent \in Items(Reports) :
            /\ notify_queue' = Append(notify_queue, sent)
            /\ \A p \in sent.updated : current.slots[p] # None \/ p \in Head(request_queue).updated
      BY <1>2, FilledRequest
    <2>2. Head(request_queue) = request_queue[1] /\ 1 \in 1..Len(request_queue) /\ UNCHANGED item
      BY <1>2, TailQueue DEF MixerUpdateRequest, TypeOK
    <2>3. \A p \in sent.updated : ~Leaving(p)
      BY <2>1, <2>2 DEF Leaving
    <2> QED  BY <2>1, <2>2, <2>3, ToldLastSent
  <1>3. CASE MixerMix
    <2>1. UNCHANGED item
      BY <1>3 DEF MixerMix
    <2>2. CASE \E sent \in Items(Reports) :
                 /\ notify_queue' = Append(notify_queue, sent)
                 /\ \A p \in sent.updated : current.slots[p] # None
      <3>1. PICK sent \in Items(Reports) : /\ notify_queue' = Append(notify_queue, sent)
                                           /\ \A p \in sent.updated : current.slots[p] # None
        BY <2>2
      <3>2. \A p \in sent.updated : ~Leaving(p)
        BY <3>1 DEF Leaving
      <3> QED  BY <2>1, <3>1, <3>2, ToldLastSent
    <2> QED  BY <1>1, <1>3, <2>1, <2>2, FilledMix
  <1>4. CASE ReceiveItem
    <2>1. /\ notify_queue # <<>> /\ notify_queue' = Tail(notify_queue) /\ item' = Head(notify_queue)
          /\ notify_queue \in Seq(Items(Reports))
      BY <1>4 DEF ReceiveItem, TypeOK
    <2>2. item' = notify_queue[1] /\ 1 \in 1..Len(notify_queue)
          /\ \A i \in 1..Len(notify_queue') : notify_queue'[i] = notify_queue[i + 1]
                                              /\ i + 1 \in 1..Len(notify_queue) /\ i + 1 > 1
      BY <2>1, TailQueue
    <2>3. ASSUME NEW i \in 1..Len(notify_queue'), NEW j \in 1..Len(notify_queue'), NEW p \in Pipes,
                 Detached(notify_queue'[i], p), j > i
          PROVE  p \notin notify_queue'[j].updated
      <3>1. i + 1 \in 1..Len(notify_queue) /\ j + 1 \in 1..Len(notify_queue) /\ j + 1 > i + 1
        BY <2>2, <2>3
      <3>2. Detached(notify_queue[i + 1], p)
        BY <2>2, <2>3
      <3>3. p \notin notify_queue[j + 1].updated
        BY <3>1, <3>2 DEF DetachmentToldLast
      <3> QED  BY <2>2, <3>3
    <2>4. ASSUME NEW i \in 1..Len(notify_queue'), NEW p \in Pipes, Detached(item', p)
          PROVE  p \notin notify_queue'[i].updated
      BY <2>2, <2>4 DEF DetachmentToldLast
    <2> QED  BY <2>3, <2>4 DEF DetachmentToldLast, Detached
  <1>5. ASSUME NEW p \in Pipes, HandleSlot(p)
        PROVE  DetachmentToldLast'
    <2>1. item \in Items(Reports) /\ item # None /\ UNCHANGED notify_queue
      BY <1>5 DEF HandleSlot, InItem, TypeOK
    <2>2. \A q \in Pipes : Detached(item', q) => Detached(item, q)
      BY <1>5, <2>1 DEF HandleSlot, Detached, Items
    <2> QED  BY <2>1, <2>2 DEF DetachmentToldLast, Detached
  <1>6. CASE RecycleItem
    BY <1>6 DEF RecycleItem, DetachmentToldLast, Detached
  <1>7. CASE MixerThread
    BY <1>1, <1>2, <1>3, <1>7 DEF MixerThread, MixerTop, MixerUnpark, MixerParkedPoll, MixerUpdateRecycle
  <1>8. CASE HandlerThread
    BY <1>1, <1>4, <1>5, <1>6, <1>8
       DEF HandlerThread, Suspend, Resume, PollMixer, PollDone, ApplyRequests
  <1>9. CASE ClientsOfMixer
    BY <1>1, <1>9 DEF ClientsOfMixer, CreateSource, ReleaseSource, DecoderEnds, Request, SetLooping
  <1>10. CASE UNCHANGED vars
    BY <1>1, <1>10 DEF vars
  <1> QED  BY <1>7, <1>8, <1>9, <1>10 DEF Next

-----------------------------------------------------------------------------
(* The attachment of a slot is never lost on its way.                      *)

LEMMA AwaitedQueues ==
  ASSUME TypeOK, Releasing, FilledInv, NEW p \in Pipes, Awaited(p), [Next]_vars,
         UNCHANGED <<active, requested, item>>
  PROVE  Awaited(p)'
  <1> USE DEF requestVars, mixerVars, pipeVars
  <1>0. request_queue \in Seq(Items(Slots)) /\ notify_queue \in Seq(Items(Reports))
    BY DEF TypeOK
  <1>1. CASE active[p] # None \/ Attaches(requested, p) \/ (item # None /\ Tells(item, p))
    BY <1>1 DEF Awaited, Attaches, Tells
  <1>2. CASE UNCHANGED <<request_queue, notify_queue>>
    BY <1>2 DEF Awaited, Attaches, Tells
  <1>3. ASSUME NEW i \in 1..Len(request_queue), Attaches(request_queue[i], p),
               NEW sent, request_queue' = Append(request_queue, sent)
        PROVE  Awaited(p)'
    <2>1. i \in 1..Len(request_queue') /\ request_queue'[i] = request_queue[i]
      BY <1>0, <1>3, AppendQueue
    <2> QED  BY <1>3, <2>1 DEF Awaited, Attaches
  <1>4. ASSUME NEW i \in 1..Len(notify_queue), Tells(notify_queue[i], p),
               NEW sent, notify_queue' = Append(notify_queue, sent)
        PROVE  Awaited(p)'
    <2>1. i \in 1..Len(notify_queue') /\ notify_queue'[i] = notify_queue[i]
      BY <1>0, <1>4, AppendQueue
    <2> QED  BY <1>4, <2>1 DEF Awaited, Tells
  <1>5. ASSUME NEW i \in 1..Len(request_queue), Attaches(request_queue[i], p), i # 1,
               request_queue # <<>>, request_queue' = Tail(request_queue)
        PROVE  Awaited(p)'
    <2>1. i - 1 \in 1..Len(request_queue') /\ request_queue'[i - 1] = request_queue[i]
      BY <1>0, <1>5, TailQueue
    <2> QED  BY <1>5, <2>1 DEF Awaited, Attaches
  <1>6. CASE \E i \in 1..Len(request_queue) : Attaches(request_queue[i], p)
    <2>1. PICK i \in 1..Len(request_queue) : Attaches(request_queue[i], p)
      BY <1>6
    <2>2. CASE MixerUpdateRequest
      <3>1. request_queue # <<>> /\ request_queue' = Tail(request_queue)
        BY <2>2 DEF MixerUpdateRequest
      <3>2. CASE i = 1
        <4>1. PICK sent \in Items(Reports) :
                /\ notify_queue' = Append(notify_queue, sent)
                /\ Head(request_queue).updated \subseteq sent.updated
                /\ \A q \in sent.updated : sent.slots[q] # None
                /\ \A q \in Head(request_queue).updated :
                     sent.slots[q].detached <=> Head(request_queue).slots[q].operation = "detach"
          BY <2>2, FilledRequest
        <4>2. Head(request_queue) = request_queue[1]
          BY <1>0, <3>1, TailQueue
        <4>3. Tells(sent, p)
          BY <2>1, <3>2, <4>1, <4>2 DEF Attaches, Tells
        <4>4. notify_queue'[Len(notify_queue) + 1] = sent
              /\ Len(notify_queue) + 1 \in 1..Len(notify_queue')
          BY <1>0, <4>1, AppendQueue
        <4> QED  BY <4>3, <4>4 DEF Awaited, Tells
      <3> QED  BY <1>5, <2>1, <3>1, <3>2
    <2>3. CASE MixerUpdateRecycle
      <3>1. request_queue # <<>> /\ request_queue' = Tail(request_queue)
            /\ Head(request_queue).owner = "mixer"
        BY <2>3 DEF MixerUpdateRecycle
      <3>2. i # 1
        BY <1>0, <2>1, <3>1, TailQueue DEF FilledInv, ReturnsEmpty, Attaches
      <3> QED  BY <1>5, <2>1, <3>1, <3>2
    <2>4. CASE UNCHANGED request_queue
      BY <2>1, <2>4 DEF Awaited, Attaches
    <2>5. CASE MixerThread
      BY <2>2, <2>3, <2>4, <2>5 DEF MixerThread, MixerTop, MixerUnpark, MixerParkedPoll, MixerMix
    <2>6. CASE HandlerThread
      <3>1. CASE RecycleItem
        BY <1>3, <2>1, <2>4, <3>1, ReturnedQueue
      <3>2. CASE PollDone \/ ApplyRequests
        <4>1. Apply(requested)
          BY <3>2 DEF PollDone, ApplyRequests
        <4> QED  BY <1>3, <2>1, <2>4, <4>1, AppliedQueue
      <3> QED  BY <2>4, <2>6, <3>1, <3>2
                  DEF HandlerThread, Suspend, Resume, PollMixer, ReceiveItem, HandleSlot
    <2>7. CASE ClientsOfMixer
      BY <2>4, <2>7 DEF ClientsOfMixer, CreateSource, ReleaseSource, DecoderEnds, Request, SetLooping
    <2> QED  BY <2>4, <2>5, <2>6, <2>7 DEF Next, vars
  <1>7. CASE \E i \in 1..Len(notify_queue) : Tells(notify_queue[i], p)
    <2>1. PICK i \in 1..Len(notify_queue) : Tells(notify_queue[i], p)
      BY <1>7
    <2>2. CASE UNCHANGED notify_queue
      BY <2>1, <2>2 DEF Awaited, Tells
    <2>3. CASE MixerUpdateRequest
      BY <1>4, <2>1, <2>3, FilledRequest
    <2>4. CASE MixerMix
      BY <1>4, <2>1, <2>2, <2>4, FilledMix
    <2>5. CASE ReceiveItem
      BY <2>5 DEF ReceiveItem, TypeOK
    <2>6. CASE MixerThread
      BY <2>2, <2>3, <2>4, <2>6 DEF MixerThread, MixerTop, MixerUnpark, MixerParkedPoll, MixerUpdateRecycle
    <2>7. CASE HandlerThread
      BY <2>2, <2>5, <2>7 DEF HandlerThread, Suspend, Resume, PollMixer, HandleSlot, RecycleItem, PollDone,
                              ApplyRequests
    <2>8. CASE ClientsOfMixer
      BY <2>2, <2>8 DEF ClientsOfMixer, CreateSource, ReleaseSource, DecoderEnds, Request, SetLooping
    <2> QED  BY <2>2, <2>6, <2>7, <2>8 DEF Next, vars
  <1> QED  BY <1>1, <1>6, <1>7 DEF Awaited

LEMMA AwaitedApply ==
  ASSUME TypeOK, Releasing, NEW p \in Pipes, Awaited(p), Apply(requested),
         UNCHANGED <<active, item, notify_queue>>
  PROVE  Awaited(p)'
  <1>0. request_queue \in Seq(Items(Slots))
    BY DEF TypeOK
  <1>1. CASE UNCHANGED <<requested, request_queue>>
    BY <1>1 DEF Awaited, Attaches, Tells
  <1>2. ASSUME NEW sent \in Items(Slots), request_queue' = Append(request_queue, sent),
               sent.updated = requested.updated,
               \A q \in sent.updated : sent.slots[q] = requested.slots[q]
        PROVE  Awaited(p)'
    <2>1. /\ \A i \in 1..Len(request_queue) : request_queue'[i] = request_queue[i]
                                              /\ i \in 1..Len(request_queue')
          /\ request_queue'[Len(request_queue) + 1] = sent
          /\ Len(request_queue) + 1 \in 1..Len(request_queue')
      BY <1>0, <1>2, AppendQueue
    <2>2. CASE Attaches(requested, p)
      <3>1. Attaches(sent, p)
        BY <1>2, <2>2 DEF Attaches
      <3> QED  BY <2>1, <3>1 DEF Awaited, Attaches
    <2>3. CASE \E i \in 1..Len(request_queue) : Attaches(request_queue[i], p)
      BY <2>1, <2>3 DEF Awaited, Attaches
    <2> QED  BY <2>2, <2>3 DEF Awaited, Attaches, Tells
  <1> QED  BY <1>1, <1>2, AppliedQueue

LEMMA AwaitedReceive ==
  ASSUME TypeOK, NEW p \in Pipes, Awaited(p), ReceiveItem
  PROVE  Awaited(p)'
  <1>1. /\ notify_queue # <<>> /\ notify_queue' = Tail(notify_queue) /\ item' = Head(notify_queue)
        /\ notify_queue \in Seq(Items(Reports))
        /\ UNCHANGED <<active, requested, request_queue>> /\ item = None
    BY DEF ReceiveItem, TypeOK
  <1>2. /\ item' = notify_queue[1] /\ 1 \in 1..Len(notify_queue)
        /\ \A i \in 1..Len(notify_queue) : i = 1 \/ (/\ i - 1 \in 1..Len(notify_queue')
                                                     /\ notify_queue[i] = notify_queue'[i - 1])
    BY <1>1, TailQueue
  <1>3. item' # None
    <2>1. notify_queue[1] \in Items(Reports)
      BY <1>1, <1>2
    <2> QED  BY <1>2, <2>1
  <1>4. CASE \E i \in 1..Len(notify_queue) : Tells(notify_queue[i], p)
    BY <1>2, <1>3, <1>4 DEF Awaited, Tells
  <1> QED  BY <1>1, <1>4 DEF Awaited, Attaches, Tells

LEMMA AwaitedHandle ==
  ASSUME TypeOK, Releasing, NEW p \in Pipes, Awaited(p), NEW q \in Pipes, HandleSlot(q),
         requested'.slots[p] # None
  PROVE  Awaited(p)'
  <1>0. /\ item \in Items(Reports) /\ item # None /\ q \in item.updated
        /\ UNCHANGED <<request_queue, notify_queue>>
    BY DEF HandleSlot, InItem, TypeOK
  <1>1. item' # None /\ (p # q => (Tells(item', p) <=> Tells(item, p)))
    <2>1. item' = [owner |-> item.owner, updated |-> item.updated \ {q},
                   slots |-> [item.slots EXCEPT ![q] = None]]
      BY DEF HandleSlot
    <2>2. item' \in Items(Reports)
      BY <1>0, <2>1 DEF Items
    <2>3. p # q => item'.slots[p] = item.slots[p]
      BY <1>0, <2>1 DEF Items
    <2> QED  BY <2>1, <2>2, <2>3 DEF Tells
  <1>2. CASE p # q
    <2>1. active'[p] = active[p] /\ (Attaches(requested, p) => Attaches(requested', p))
      BY <1>2 DEF HandleSlot, TypeOK, Attaches
    <2> QED  BY <1>0, <1>1, <1>2, <2>1 DEF Awaited, Attaches, Tells
  <1>3. CASE p = q
    <2> DEFINE told == item.slots[p]
    <2>1. CASE told = None
      <3>1. UNCHANGED <<active, requested>>
        BY <1>3, <2>1 DEF HandleSlot, TypeOK
      <3>2. ~Tells(item, p)
        BY <2>1 DEF Tells
      <3> QED  BY <1>0, <3>1, <3>2 DEF Awaited, Attaches, Tells
    <2>2. CASE told # None /\ ~(active[p] # None /\ told.detached)
      <3>1. active'[p] = told.state
        BY <1>3, <2>2 DEF HandleSlot, TypeOK
      <3>2. told \in Reports
        BY <1>0, <2>2 DEF Items
      <3>3. told.state # None
        BY <3>2 DEF Reports
      <3> QED  BY <3>1, <3>3 DEF Awaited
    <2>3. CASE told # None /\ active[p] # None /\ told.detached
      <3>1. requested' = [slots |-> [requested.slots EXCEPT ![p] = None],
                          updated |-> requested.updated \ {p}]
        BY <1>3, <2>3 DEF HandleSlot
      <3> QED  BY <3>1 DEF TypeOK
    <2> QED  BY <2>1, <2>2, <2>3
  <1> QED  BY <1>2, <1>3

\* A pipe is attached by the request that marks it: the request of its detachment does not
\* take the place of one that has not been sent.
LEMMA AwaitedRequest ==
  ASSUME TypeOK, Releasing, AttachmentTold, NEW p \in Pipes, NEW q \in Pipes, NEW args \in Arguments,
         Request(q, args), requested'.slots[p] # None
  PROVE  Awaited(p)'
  <1>1. UNCHANGED <<active, item, request_queue, notify_queue>>
    BY DEF Request
  <1>2. requested' = [slots |-> [requested.slots EXCEPT ![q] = args], updated |-> requested.updated \cup {q}]
    BY DEF Request, AttachOrUpdate
  <1>3. CASE p = q
    <2>1. args \in Slots /\ args.operation # "detach"
      BY DEF ArgumentRecords, Slots
    <2>2. requested'.slots[p] = args /\ p \in requested'.updated
      BY <1>2, <1>3 DEF TypeOK
    <2> QED  BY <2>1, <2>2 DEF Awaited, Attaches
  <1>4. CASE p # q
    <2>1. requested'.slots[p] = requested.slots[p] /\ (p \in requested.updated => p \in requested'.updated)
      BY <1>2, <1>4 DEF TypeOK
    <2> QED  BY <1>1, <2>1 DEF AttachmentTold, Awaited, Attaches, Tells
  <1> QED  BY <1>3, <1>4

LEMMA AwaitedRelease ==
  ASSUME ~PoolMayRunOut, TypeOK, Releasing, AttachmentTold, NEW p \in Pipes, NEW q \in Pipes,
         ReleaseSource(q), requested'.slots[p] # None
  PROVE  Awaited(p)'
  <1>1. UNCHANGED <<active, item, request_queue, notify_queue>>
    BY DEF ReleaseSource
  <1>2. q \notin requested.updated /\ requested' = Detach(requested, q)
    BY DEF ReleaseSource
  <1>3. requested.slots[p] # None /\ (Attaches(requested, p) => Attaches(requested', p))
    <2>1. CASE requested' = requested
      BY <2>1
    <2>2. CASE requested' # requested
      <3>1. /\ requested' = [slots |-> [requested.slots EXCEPT ![q] = [@ EXCEPT !.operation = "detach"]],
                             updated |-> requested.updated \cup {q}]
            /\ requested.slots[q] # None
        BY <1>2, <2>2 DEF Detach
      <3>2. p # q => requested'.slots[p] = requested.slots[p]
        BY <3>1 DEF TypeOK
      <3>3. Attaches(requested, p) => p # q
        BY <1>2 DEF Attaches
      <3> QED  BY <3>1, <3>2, <3>3 DEF Attaches
    <2> QED  BY <2>1, <2>2
  <1> QED  BY <1>1, <1>3 DEF AttachmentTold, Awaited, Attaches, Tells

LEMMA AttachmentToldInit == Init => AttachmentTold
  BY DEF Init, AttachmentTold

LEMMA AttachmentToldStep ==
  ASSUME ~PoolMayRunOut
  PROVE  TypeOK /\ Releasing /\ FilledInv /\ AttachmentTold /\ [Next]_vars => AttachmentTold'
  <1> SUFFICES ASSUME TypeOK, Releasing, FilledInv, AttachmentTold, [Next]_vars,
                      NEW p \in Pipes, requested'.slots[p] # None
               PROVE  Awaited(p)'
    BY DEF AttachmentTold
  <1> USE DEF requestVars, mixerVars, pipeVars
  <1>1. CASE UNCHANGED <<active, requested, item>>
    BY <1>1, AwaitedQueues DEF AttachmentTold
  <1>2. CASE ReceiveItem
    BY <1>2, AwaitedReceive DEF AttachmentTold, ReceiveItem
  <1>3. ASSUME NEW q \in Pipes, HandleSlot(q)
        PROVE  Awaited(p)'
    <2>1. requested.slots[p] # None
      BY <1>3 DEF HandleSlot, TypeOK
    <2> QED  BY <1>3, <2>1, AwaitedHandle DEF AttachmentTold
  <1>4. CASE RecycleItem
    <2>1. UNCHANGED <<active, requested, notify_queue>> /\ item' = None /\ item.updated = {}
      BY <1>4 DEF RecycleItem
    <2>2. Awaited(p) /\ ~Tells(item, p)
      BY <2>1 DEF AttachmentTold, Tells
    <2>3. CASE \E i \in 1..Len(request_queue) : Attaches(request_queue[i], p)
      <3>1. PICK i \in 1..Len(request_queue) : Attaches(request_queue[i], p)
        BY <2>3
      <3>2. i \in 1..Len(request_queue') /\ request_queue'[i] = request_queue[i]
        BY <1>4, ReturnedQueue, AppendQueue DEF TypeOK
      <3> QED  BY <3>1, <3>2 DEF Awaited, Attaches
    <2> QED  BY <2>1, <2>2, <2>3 DEF Awaited, Attaches, Tells
  <1>5. CASE PollDone \/ ApplyRequests
    <2>1. Apply(requested) /\ UNCHANGED <<active, item, notify_queue>>
      BY <1>5 DEF PollDone, ApplyRequests
    <2>2. requested.slots[p] # None
      BY <2>1, AppliedQueue
    <2> QED  BY <2>1, <2>2, AwaitedApply DEF AttachmentTold
  <1>6. CASE MixerThread
    BY <1>1, <1>6 DEF MixerThread, MixerTop, MixerUnpark, MixerParkedPoll, MixerUpdateRequest,
                      MixerUpdateRecycle, MixerMix
  <1>7. CASE HandlerThread
    BY <1>1, <1>2, <1>3, <1>4, <1>5, <1>7 DEF HandlerThread, Suspend, Resume, PollMixer
  <1>8. CASE ClientsOfMixer
    BY <1>1, <1>8, AwaitedRequest, AwaitedRelease
       DEF ClientsOfMixer, CreateSource, DecoderEnds, SetLooping
  <1>9. CASE UNCHANGED vars
    BY <1>1, <1>9 DEF vars
  <1> QED  BY <1>6, <1>7, <1>8, <1>9 DEF Next

\* While no batch of requests is begun that the pool has no item for, the handler thread
\* receives no report it does not expect: none without a slot, and no detachment of a slot
\* it was not told to be attached, whose pipe it would never give up.
THEOREM ReportsExpectedHolds ==
  ASSUME ~PoolMayRunOut
  PROVE  Spec => []ReportsExpected
  <1> DEFINE Told == FilledInv /\ DetachmentToldLast /\ AttachmentTold
  <1>1. Init => TypeOK /\ Releasing /\ Told
    BY TypeInit, ReleasingInit, FilledInit, ToldLastInit, AttachmentToldInit
  <1>2. TypeOK /\ Releasing /\ Told /\ [Next]_vars => TypeOK' /\ Releasing' /\ Told'
    BY TypeStep, ReleasingStep, FilledStep, ToldLastStep, AttachmentToldStep
  <1>3. TypeOK /\ Releasing /\ Told => ReportsExpected
    BY ToldSuffices
  <1> QED  BY <1>1, <1>2, <1>3, PTL DEF Spec
-----------------------------------------------------------------------------
(* A source that has been played to its end is not started again.  The end *)
(* of the data is a fact about the pipe, which outlives the slot and its   *)
(* flags: the next source of the pipe must not find it, and the requests   *)
(* about the slot must be those of the client that holds it.               *)

\* no client asks for a stop: a slot that was stopped by request may be started again,
\* whether its data has ended meanwhile or not
NoStops == \A args \in Arguments : args.operation # "stop"

Over == {"end", "loop"}

\* The requests about a pipe come from the client that holds it, and none is a stop.
OneClient ==
  /\ \A p \in Pipes : requested.slots[p] # None => requested.slots[p].operation # "stop"
  /\ \A p \in Pipes : current.slots[p] # None => current.slots[p].client = requested.slots[p].client
  /\ \A i \in 1..Len(request_queue) : \A p \in request_queue[i].updated :
       /\ request_queue[i].slots[p].client = requested.slots[p].client
       /\ request_queue[i].slots[p].operation # "stop"
\* A source that is being detached has been given up.
DetachingReleased == \A p \in Pipes : Detaching(requested, p) => p \notin sources
\* A pipe whose data has ended stays attached, or waits for its detachment to be told.
EndsAttached ==
  \A p \in Pipes : data_end[p] \in Over =>
    requested.slots[p] # None /\ (current.slots[p] = None => Leaving(p))
\* The slot of such a pipe knows of the end, and has stopped or is about to.
PlayedSlot(c, end, p) ==
  /\ "ended" \in c.flags[p] => end[p] \in Over
  /\ end[p] \in Over /\ c.slots[p] # None =>
       /\ "ended" \in c.flags[p]
       /\ ~Detaching(c, p) => c.state[p] \in Started \cup Ended
Played(c, end) == \A p \in Pipes : PlayedSlot(c, end, p)

PlayedInv == OneClient /\ DetachingReleased /\ EndsAttached /\ Played(Context, data_end)

LEMMA PlayedInit == Init => PlayedInv
  BY DEF Init, PlayedInv, OneClient, DetachingReleased, EndsAttached, Played, PlayedSlot, Over, Context,
         Detaching

\* a pipe that waits for its detachment to be told waits until it is
LEMMA LeavingStep ==
  ASSUME TypeOK, [Next]_vars, NEW p \in Pipes, Leaving(p), requested'.slots[p] # None
  PROVE  Leaving(p)'
  <1> USE DEF requestVars, mixerVars, pipeVars
  <1>0. request_queue \in Seq(Items(Slots))
    BY DEF TypeOK
  <1>1. CASE UNCHANGED <<requested, request_queue>> /\ current'.slots = current.slots
    BY <1>1 DEF Leaving, Detaching
  <1>2. CASE MixerUpdateRequest
    <2> DEFINE c == InitializeSources(Head(request_queue))
    <2>1. /\ Head(request_queue) = request_queue[1] /\ 1 \in 1..Len(request_queue)
          /\ \A i \in 1..Len(request_queue') : request_queue'[i] = request_queue[i + 1]
                                               /\ i + 1 \in 1..Len(request_queue)
      BY <1>0, <1>2, TailQueue DEF MixerUpdateRequest
    <2>2. PICK fire \in Firings(c) : SetContext(CleanUp(CheckStartConditions(c, fire)), {})
      BY <1>2 DEF MixerUpdateRequest
    <2>3. c.slots[p] = None
      BY <2>1 DEF InitializeSources, Leaving
    <2>4. current'.slots[p] = None
      BY <2>2, <2>3 DEF SetContext, CleanUp, CheckStartConditions
    <2>5. \A i \in 1..Len(request_queue') : p \notin request_queue'[i].updated
      BY <2>1 DEF Leaving
    <2>6. UNCHANGED requested
      BY <1>2 DEF MixerUpdateRequest
    <2> QED  BY <2>4, <2>5, <2>6 DEF Leaving, Detaching
  <1>3. CASE MixerUpdateRecycle
    <2>1. UNCHANGED requested /\ current'.slots = current.slots
      BY <1>3 DEF MixerUpdateRecycle, SetContext, CheckStartConditions, Context
    <2>2. \A i \in 1..Len(request_queue') : request_queue'[i] = request_queue[i + 1]
                                            /\ i + 1 \in 1..Len(request_queue)
      BY <1>0, <1>3, TailQueue DEF MixerUpdateRecycle
    <2> QED  BY <2>1, <2>2 DEF Leaving, Detaching
  <1>4. CASE MixerMix
    <2>1. current'.slots = current.slots
      BY <1>4, MixerMixOutcome DEF SetContext, Notify
    <2> QED  BY <1>1, <1>4, <2>1 DEF MixerMix
  <1>5. ASSUME NEW q \in Pipes, HandleSlot(q)
        PROVE  Leaving(p)'
    <2>1. UNCHANGED <<current, request_queue>>
      BY <1>5 DEF HandleSlot
    <2>2. requested'.slots[p] = requested.slots[p] /\ requested'.updated \subseteq requested.updated
      BY <1>5 DEF HandleSlot, TypeOK
    <2> QED  BY <2>1, <2>2 DEF Leaving, Detaching
  <1>6. ASSUME NEW sent, request_queue' = Append(request_queue, sent), p \notin sent.updated,
               requested'.slots = requested.slots, requested'.updated \subseteq requested.updated,
               UNCHANGED current
        PROVE  Leaving(p)'
    <2>1. \A i \in 1..Len(request_queue') : p \notin request_queue'[i].updated
      BY <1>0, <1>6, AppendQueue DEF Leaving
    <2> QED  BY <1>6, <2>1 DEF Leaving, Detaching
  <1>7. CASE RecycleItem
    <2>1. UNCHANGED <<requested, current>>
      BY <1>7 DEF RecycleItem
    <2> QED  BY <1>1, <1>6, <1>7, <2>1, ReturnedQueue
  <1>8. CASE PollDone \/ ApplyRequests
    <2>1. Apply(requested) /\ UNCHANGED current
      BY <1>8 DEF PollDone, ApplyRequests
    <2>2. CASE UNCHANGED <<requested, request_queue>>
      BY <1>1, <2>1, <2>2
    <2>3. CASE ~UNCHANGED <<requested, request_queue>>
      <3>1. PICK sent \in Items(Slots) :
              /\ request_queue' = Append(request_queue, sent)
              /\ requested' = [slots |-> requested.slots, updated |-> {}]
              /\ sent.updated = requested.updated
        BY <2>1, <2>3, AppliedQueue
      <3> QED  BY <1>6, <2>1, <3>1 DEF Leaving
    <2> QED  BY <2>2, <2>3
  <1>9. ASSUME NEW q \in Pipes, NEW args \in Arguments, Request(q, args)
        PROVE  Leaving(p)'
    <2>1. q # p
      BY <1>9 DEF Request, Leaving
    <2>2. /\ requested'.slots[p] = requested.slots[p] /\ requested'.updated = requested.updated \cup {q}
          /\ UNCHANGED <<current, request_queue>>
      BY <1>9, <2>1 DEF Request, AttachOrUpdate, TypeOK
    <2> QED  BY <2>1, <2>2 DEF Leaving, Detaching
  <1>10. ASSUME NEW q \in Pipes, ReleaseSource(q)
         PROVE  Leaving(p)'
    <2>1. UNCHANGED <<current, request_queue>> /\ requested' = Detach(requested, q)
      BY <1>10 DEF ReleaseSource
    <2>2. requested' = requested \/ (/\ q # p /\ requested'.updated = requested.updated \cup {q}
                                     /\ requested'.slots[p] = requested.slots[p])
      BY <2>1 DEF Detach, Leaving, TypeOK
    <2> QED  BY <2>1, <2>2 DEF Leaving, Detaching
  <1>11. CASE MixerThread
    BY <1>1, <1>2, <1>3, <1>4, <1>11 DEF MixerThread, MixerTop, MixerUnpark, MixerParkedPoll
  <1>12. CASE HandlerThread
    BY <1>1, <1>5, <1>7, <1>8, <1>12 DEF HandlerThread, Suspend, Resume, PollMixer, ReceiveItem
  <1>13. CASE ClientsOfMixer
    BY <1>1, <1>9, <1>10, <1>13 DEF ClientsOfMixer, CreateSource, DecoderEnds, SetLooping
  <1>14. CASE UNCHANGED vars
    BY <1>1, <1>14 DEF vars
  <1> QED  BY <1>11, <1>12, <1>13, <1>14 DEF Next

\* the mixer answers the request of a detachment: nothing else is on its way
LEMMA RequestLeaves ==
  ASSUME TypeOK, Releasing, MixerUpdateRequest, NEW p \in Pipes, p \in Head(request_queue).updated,
         Head(request_queue).slots[p].operation = "detach"
  PROVE  Leaving(p)'
  <1> DEFINE request == Head(request_queue)
             c == InitializeSources(request)
  <1>1. /\ request = request_queue[1] /\ 1 \in 1..Len(request_queue)
        /\ \A i \in 1..Len(request_queue') : request_queue'[i] = request_queue[i + 1]
                                             /\ i + 1 \in 1..Len(request_queue) /\ i + 1 > 1
    BY TailQueue DEF MixerUpdateRequest, TypeOK
  <1>2. /\ Detaching(requested, p) /\ p \notin requested.updated
        /\ \A i \in 1..Len(request_queue) : i > 1 => p \notin request_queue[i].updated
        /\ request.slots[p] # None
    BY <1>1 DEF Releasing, DetachmentLast, RequestedAttached
  <1>3. PICK fire \in Firings(c) : SetContext(CleanUp(CheckStartConditions(c, fire)), {})
    BY DEF MixerUpdateRequest
  <1>4. c.slots[p] = request.slots[p]
    BY DEF InitializeSources
  <1>5. current'.slots[p] = None
    BY <1>2, <1>3, <1>4 DEF SetContext, CleanUp, CheckStartConditions, Detaching
  <1>6. \A i \in 1..Len(request_queue') : p \notin request_queue'[i].updated
    BY <1>1, <1>2
  <1>7. UNCHANGED requested
    BY DEF MixerUpdateRequest, requestVars
  <1> QED  BY <1>2, <1>5, <1>6, <1>7 DEF Leaving, Detaching

\* requests are added to the queue, or taken from it, and their clients stay the same
LEMMA OneClientQueue ==
  ASSUME TypeOK, OneClient,
         \A p \in Pipes : requested'.slots[p] # None => requested'.slots[p].operation # "stop",
         \A p \in Pipes : current'.slots[p] # None => current'.slots[p].client = requested'.slots[p].client,
         \A p \in Pipes : /\ \A i \in 1..Len(request_queue) : p \in request_queue[i].updated =>
                               requested'.slots[p].client = requested.slots[p].client,
         \/ UNCHANGED request_queue
         \/ request_queue # <<>> /\ request_queue' = Tail(request_queue)
         \/ \E sent : /\ request_queue' = Append(request_queue, sent)
                      /\ \A p \in sent.updated : /\ sent.slots[p].client = requested'.slots[p].client
                                                 /\ sent.slots[p].operation # "stop"
  PROVE  OneClient'
  <1>0. request_queue \in Seq(Items(Slots))
    BY DEF TypeOK
  <1>1. \A i \in 1..Len(request_queue) : request_queue[i].updated \subseteq Pipes
    <2>1. \A i \in 1..Len(request_queue) : request_queue[i] \in Items(Slots)
      BY <1>0
    <2> QED  BY <2>1 DEF Items
  <1>2. \A i \in 1..Len(request_queue) : \A p \in request_queue[i].updated :
          /\ request_queue[i].slots[p].client = requested'.slots[p].client
          /\ request_queue[i].slots[p].operation # "stop"
    BY <1>1 DEF OneClient
  <1>3. CASE UNCHANGED request_queue
    BY <1>2, <1>3 DEF OneClient
  <1>4. CASE request_queue # <<>> /\ request_queue' = Tail(request_queue)
    BY <1>0, <1>2, <1>4, TailQueue DEF OneClient
  <1>5. ASSUME NEW sent, request_queue' = Append(request_queue, sent),
               \A p \in sent.updated : /\ sent.slots[p].client = requested'.slots[p].client
                                       /\ sent.slots[p].operation # "stop"
        PROVE  OneClient'
    BY <1>0, <1>2, <1>5, AppendQueue DEF OneClient
  <1> QED  BY <1>3, <1>4, <1>5

LEMMA OneClientStep ==
  ASSUME NoStops
  PROVE  TypeOK /\ Releasing /\ OneClient /\ [Next]_vars => OneClient'
  <1> SUFFICES ASSUME TypeOK, Releasing, OneClient, [Next]_vars PROVE OneClient'
    OBVIOUS
  <1> USE DEF requestVars, mixerVars, pipeVars
  <1>0. /\ request_queue \in Seq(Items(Slots))
        /\ \A i \in 1..Len(request_queue) : request_queue[i].updated \subseteq Pipes
    <2>1. request_queue \in Seq(Items(Slots))
      BY DEF TypeOK
    <2>2. \A i \in 1..Len(request_queue) : request_queue[i] \in Items(Slots)
      BY <2>1
    <2>3. \A i \in 1..Len(request_queue) : request_queue[i].updated \subseteq Pipes
      BY <2>2 DEF Items
    <2> QED  BY <2>1, <2>3
  <1>1. CASE UNCHANGED <<requested, request_queue>> /\ current'.slots = current.slots
    BY <1>1 DEF OneClient
  <1>2. CASE MixerUpdateRequest
    <2> DEFINE request == Head(request_queue)
               c == InitializeSources(request)
    <2>1. /\ request_queue # <<>> /\ request_queue' = Tail(request_queue) /\ UNCHANGED requested
          /\ request = request_queue[1] /\ 1 \in 1..Len(request_queue)
      BY <1>0, <1>2, TailQueue DEF MixerUpdateRequest
    <2>2. PICK fire \in Firings(c) : SetContext(CleanUp(CheckStartConditions(c, fire)), {})
      BY <1>2 DEF MixerUpdateRequest
    <2>3. \A p \in Pipes : \/ current'.slots[p] = None
                           \/ p \in request.updated /\ current'.slots[p] = request.slots[p]
                           \/ current'.slots[p] = current.slots[p]
      BY <2>2 DEF SetContext, CleanUp, CheckStartConditions, InitializeSources
    <2>4. \A p \in Pipes : current'.slots[p] # None => current'.slots[p].client = requested.slots[p].client
      BY <2>1, <2>3 DEF OneClient
    <2> QED  BY <2>1, <2>4, OneClientQueue DEF OneClient
  <1>3. CASE MixerUpdateRecycle
    <2>1. UNCHANGED requested /\ current'.slots = current.slots
          /\ request_queue # <<>> /\ request_queue' = Tail(request_queue)
      BY <1>3 DEF MixerUpdateRecycle, SetContext, CheckStartConditions, Context
    <2> QED  BY <2>1, OneClientQueue DEF OneClient
  <1>4. CASE MixerMix
    <2>1. current'.slots = current.slots
      BY <1>4, MixerMixOutcome DEF SetContext, Notify
    <2> QED  BY <1>1, <1>4, <2>1 DEF MixerMix
  <1>5. ASSUME NEW q \in Pipes, HandleSlot(q)
        PROVE  OneClient'
    <2>1. UNCHANGED <<current, request_queue>> /\ item # None
      BY <1>5 DEF HandleSlot, InItem, TypeOK
    <2>2. CASE UNCHANGED requested
      BY <1>1, <2>1, <2>2
    <2>3. CASE Detached(item, q) /\ requested'.slots = [requested.slots EXCEPT ![q] = None]
      <3>1. Leaving(q)
        BY <2>1, <2>3 DEF Releasing, ToldOnce
      <3>2. \A p \in Pipes : p # q => requested'.slots[p] = requested.slots[p]
        BY <2>3 DEF TypeOK
      <3>3. requested'.slots[q] = None
        BY <2>3 DEF TypeOK
      <3>4. \A p \in Pipes : requested'.slots[p] # None => requested'.slots[p].operation # "stop"
        BY <3>2, <3>3 DEF OneClient
      <3>5. \A p \in Pipes : current'.slots[p] # None => current'.slots[p].client = requested'.slots[p].client
        BY <2>1, <3>1, <3>2 DEF OneClient, Leaving
      <3>6. \A p \in Pipes : \A i \in 1..Len(request_queue) : p \in request_queue[i].updated =>
              requested'.slots[p].client = requested.slots[p].client
        BY <3>1, <3>2 DEF Leaving
      <3> QED  BY <2>1, <3>4, <3>5, <3>6, OneClientQueue
    <2> QED  BY <1>5, <2>2, <2>3 DEF HandleSlot, InItem, Detached
  <1>6. CASE RecycleItem
    <2>1. UNCHANGED <<requested, current>>
      BY <1>6 DEF RecycleItem
    <2>2. \/ UNCHANGED request_queue
          \/ \E sent : /\ request_queue' = Append(request_queue, sent)
                       /\ \A p \in sent.updated : /\ sent.slots[p].client = requested'.slots[p].client
                                                  /\ sent.slots[p].operation # "stop"
      BY <1>6, ReturnedQueue
    <2>3. \A p \in Pipes : requested'.slots[p] # None => requested'.slots[p].operation # "stop"
      BY <2>1 DEF OneClient
    <2>4. \A p \in Pipes : current'.slots[p] # None => current'.slots[p].client = requested'.slots[p].client
      BY <2>1 DEF OneClient
    <2> QED  BY <2>1, <2>2, <2>3, <2>4, OneClientQueue
  <1>7. CASE PollDone \/ ApplyRequests
    <2>1. Apply(requested) /\ UNCHANGED current
      BY <1>7 DEF PollDone, ApplyRequests
    <2>2. CASE UNCHANGED <<requested, request_queue>>
      BY <1>1, <2>1, <2>2
    <2>3. CASE ~UNCHANGED <<requested, request_queue>>
      <3>1. PICK sent \in Items(Slots) :
              /\ request_queue' = Append(request_queue, sent)
              /\ requested' = [slots |-> requested.slots, updated |-> {}]
              /\ sent.updated = requested.updated
              /\ \A p \in sent.updated : sent.slots[p] = requested.slots[p]
        BY <2>1, <2>3, AppliedQueue
      <3>2. requested.updated \subseteq Pipes
        BY DEF TypeOK
      <3>3. \A p \in sent.updated : /\ sent.slots[p].client = requested'.slots[p].client
                                    /\ sent.slots[p].operation # "stop"
        BY <3>1, <3>2 DEF OneClient, Releasing, MarkedAttached
      <3>4. requested'.slots = requested.slots
        BY <3>1
      <3>5. \A p \in Pipes : requested'.slots[p] # None => requested'.slots[p].operation # "stop"
        BY <3>4 DEF OneClient
      <3>6. \A p \in Pipes : current'.slots[p] # None => current'.slots[p].client = requested'.slots[p].client
        BY <2>1, <3>4 DEF OneClient
      <3> QED  BY <3>1, <3>3, <3>4, <3>5, <3>6, OneClientQueue
    <2> QED  BY <2>2, <2>3
  <1>8. ASSUME NEW q \in Pipes, UNCHANGED <<current, request_queue>>,
               \A p \in Pipes : p # q => requested'.slots[p] = requested.slots[p],
               requested.slots[q] # None => requested'.slots[q].client = requested.slots[q].client,
               requested'.slots[q].operation # "stop"
        PROVE  OneClient'
    <2>1. \A p \in Pipes : requested'.slots[p] # None => requested'.slots[p].operation # "stop"
      BY <1>8 DEF OneClient
    <2>2. \A p \in Pipes : current'.slots[p] # None => current'.slots[p].client = requested'.slots[p].client
      BY <1>8 DEF OneClient, Releasing, HeldAttached
    <2>3. \A p \in Pipes : \A i \in 1..Len(request_queue) : p \in request_queue[i].updated =>
            requested'.slots[p].client = requested.slots[p].client
      BY <1>8 DEF Releasing, RequestedAttached
    <2> QED  BY <1>8, <2>1, <2>2, <2>3, OneClientQueue
  <1>9. ASSUME NEW q \in Pipes, NEW args \in Arguments, Request(q, args)
        PROVE  OneClient'
    <2>1. /\ UNCHANGED <<current, request_queue>>
          /\ requested'.slots[q] = args
          /\ \A p \in Pipes : p # q => requested'.slots[p] = requested.slots[p]
          /\ requested.slots[q] # None => requested.slots[q].client = args.client
      BY <1>9 DEF Request, AttachOrUpdate, TypeOK
    <2> QED  BY <1>8, <2>1 DEF NoStops
  <1>10. ASSUME NEW q \in Pipes, ReleaseSource(q)
         PROVE  OneClient'
    <2>1. UNCHANGED <<current, request_queue>> /\ requested' = Detach(requested, q)
      BY <1>10 DEF ReleaseSource
    <2>2. CASE UNCHANGED requested
      BY <1>1, <2>1, <2>2
    <2>3. CASE requested.slots[q] # None
               /\ requested'.slots = [requested.slots EXCEPT ![q] = [@ EXCEPT !.operation = "detach"]]
      <3> DEFINE s == requested.slots[q]
                 t == [s EXCEPT !.operation = "detach"]
      <3>1. s \in Slots
        BY <2>3 DEF TypeOK
      <3>2. t.operation = "detach" /\ t.client = s.client
        BY <3>1 DEF Slots
      <3>3. requested'.slots[q] = t /\ \A p \in Pipes : p # q => requested'.slots[p] = requested.slots[p]
        BY <2>3 DEF TypeOK
      <3> HIDE DEF t
      <3> QED  BY <1>8, <2>1, <3>2, <3>3
    <2> QED  BY <2>1, <2>2, <2>3 DEF Detach
  <1>11. CASE MixerThread
    BY <1>1, <1>2, <1>3, <1>4, <1>11 DEF MixerThread, MixerTop, MixerUnpark, MixerParkedPoll
  <1>12. CASE HandlerThread
    BY <1>1, <1>5, <1>6, <1>7, <1>12 DEF HandlerThread, Suspend, Resume, PollMixer, ReceiveItem
  <1>13. CASE ClientsOfMixer
    BY <1>1, <1>9, <1>10, <1>13 DEF ClientsOfMixer, CreateSource, DecoderEnds, SetLooping
  <1>14. CASE UNCHANGED vars
    BY <1>1, <1>14 DEF vars
  <1> QED  BY <1>11, <1>12, <1>13, <1>14 DEF Next

LEMMA DetachingReleasedStep == TypeOK /\ DetachingReleased /\ [Next]_vars => DetachingReleased'
  <1> SUFFICES ASSUME TypeOK, DetachingReleased, [Next]_vars, NEW p \in Pipes, Detaching(requested', p)
               PROVE  p \notin sources'
    BY DEF DetachingReleased, Detaching
  <1> USE DEF requestVars, mixerVars, pipeVars
  <1>1. CASE requested'.slots = requested.slots /\ UNCHANGED sources
    BY <1>1 DEF DetachingReleased, Detaching
  <1>2. CASE MixerThread
    BY <1>1, <1>2 DEF MixerThread, MixerTop, MixerUnpark, MixerParkedPoll, MixerUpdateRequest,
                      MixerUpdateRecycle, MixerMix, ConsumeEnds
  <1>3. CASE PollDone \/ ApplyRequests
    BY <1>1, <1>3, AppliedQueue DEF PollDone, ApplyRequests
  <1>4. ASSUME NEW q \in Pipes, HandleSlot(q)
        PROVE  p \notin sources'
    <2>1. requested'.slots[p] \in {requested.slots[p], None} /\ UNCHANGED sources
      <3>1. \/ requested' = requested
            \/ requested' = [slots |-> [requested.slots EXCEPT ![q] = None], updated |-> requested.updated \ {q}]
        BY <1>4 DEF HandleSlot
      <3> QED  BY <1>4, <3>1 DEF HandleSlot, TypeOK
    <2> QED  BY <2>1 DEF DetachingReleased, Detaching
  <1>5. CASE HandlerThread
    BY <1>1, <1>3, <1>4, <1>5 DEF HandlerThread, Suspend, Resume, PollMixer, ReceiveItem, RecycleItem
  <1>6. ASSUME NEW q \in Pipes, CreateSource(q)
        PROVE  p \notin sources'
    BY <1>6 DEF CreateSource, DetachingReleased, Detaching
  <1>7. ASSUME NEW q \in Pipes, NEW args \in Arguments, Request(q, args)
        PROVE  p \notin sources'
    <2>1. args.operation # "detach"
      BY DEF ArgumentRecords
    <2> QED  BY <1>7, <2>1 DEF Request, AttachOrUpdate, DetachingReleased, Detaching, TypeOK
  <1>8. ASSUME NEW q \in Pipes, ReleaseSource(q)
        PROVE  p \notin sources'
    BY <1>8 DEF ReleaseSource, Detach, DetachingReleased, Detaching, TypeOK
  <1>9. CASE ClientsOfMixer
    BY <1>1, <1>6, <1>7, <1>8, <1>9 DEF ClientsOfMixer, DecoderEnds, SetLooping
  <1>10. CASE UNCHANGED vars
    BY <1>1, <1>10 DEF vars
  <1> QED  BY <1>2, <1>5, <1>9, <1>10 DEF Next

-----------------------------------------------------------------------------
(* The steps of an iteration on the slots of pipes whose data has ended:   *)
(* what each of them starts was started already, or has not ended.         *)

\* every slot of an ended pipe that is started in d was started in c
StartsNone(c, d, end) == \A p \in Pipes : end[p] \in Over /\ d.state[p] \in Started => c.state[p] \in Started

LEMMA PlayedInitialize ==
  ASSUME TypeOK, Releasing, OneClient, EndsAttached, Played(Context, data_end),
         MixerUpdateRequest
  PROVE  /\ Played(InitializeSources(Head(request_queue)), data_end)
         /\ StartsNone(Context, InitializeSources(Head(request_queue)), data_end)
  <1> DEFINE request == Head(request_queue)
             c == InitializeSources(request)
  <1>0. /\ request = request_queue[1] /\ 1 \in 1..Len(request_queue) /\ request \in Items(Slots)
    BY TailQueue DEF MixerUpdateRequest, TypeOK
  <1> SUFFICES ASSUME NEW p \in Pipes
               PROVE  /\ PlayedSlot(c, data_end, p)
                      /\ data_end[p] \in Over /\ c.state[p] \in Started => slot_state[p] \in Started
    BY DEF Played, StartsNone, Context
  <1>1. PlayedSlot(Context, data_end, p)
    BY DEF Played
  <1>2. CASE p \notin request.updated
    BY <1>1, <1>2 DEF InitializeSources, PlayedSlot, Context, Detaching
  <1>3. CASE p \in request.updated
    <2> DEFINE o == request.slots[p].operation
               same == current.slots[p] # None /\ current.slots[p].client = request.slots[p].client
               f == (IF same THEN flags[p] ELSE {}) \cup EndFlags(p)
    <2>1. /\ c.slots[p] = request.slots[p]
          /\ c.flags[p] = OperationFlags(f, o)
          /\ c.state[p] = IF same THEN UpdatedState(slot_state[p], o) ELSE AttachedState(o)
      BY <1>3 DEF InitializeSources
    <2>2. o \in {"none", "start", "detach"} /\ (Detaching(c, p) => o = "detach")
          /\ (o = "detach" => Detaching(c, p))
      BY <1>0, <1>3, <2>1 DEF Items, Slots, Detaching, OneClient, Releasing, RequestedAttached
    <2>3. "ended" \in EndFlags(p) <=> data_end[p] \in Over
      BY DEF EndFlags, Over
    <2>4. "ended" \in flags[p] => data_end[p] \in Over
      BY <1>1 DEF PlayedSlot, Context
    <2>5. "ended" \in c.flags[p] <=> data_end[p] \in Over
      BY <2>1, <2>3, <2>4 DEF OperationFlags
    <2>6. ASSUME data_end[p] \in Over
          PROVE  same /\ slot_state[p] \in Started \cup Ended
      <3>1. current.slots[p] # None
        BY <1>0, <1>3, <2>6 DEF EndsAttached, Leaving
      <3>2. request.slots[p].client = current.slots[p].client
        BY <1>0, <1>3, <3>1 DEF OneClient
      <3>3. ~Detaching(Context, p)
        BY <3>1 DEF Releasing, HeldAttached, Detaching, Context
      <3> QED  BY <1>1, <2>6, <3>1, <3>2, <3>3 DEF PlayedSlot, Context
    <2>7. ASSUME data_end[p] \in Over
          PROVE  /\ ~Detaching(c, p) => c.state[p] \in Started \cup Ended
                 /\ c.state[p] \in Started => slot_state[p] \in Started
      <3>1. c.state[p] = UpdatedState(slot_state[p], o) /\ slot_state[p] \in Started \cup Ended
        BY <2>1, <2>6, <2>7
      <3> HIDE DEF c, o, same, f
      <3> QED  BY <2>2, <3>1 DEF UpdatedState, Started, Ended
    <2> HIDE DEF c, o, same, f
    <2> QED  BY <2>5, <2>7 DEF PlayedSlot
  <1> QED  BY <1>2, <1>3

LEMMA PlayedEnds ==
  ASSUME TypeOK, Agreeing(Context), EmptySlots(Context), Played(Context, data_end),
         NEW S \in SUBSET ReachedEnd(Context), ConsumeEnds(Context, S)
  PROVE  /\ Played(EndsAfter(Context, S), data_end')
         /\ StartsNone(Context, EndsAfter(Context, S), data_end')
         /\ \A p \in Pipes : data_end[p] \in Over => data_end'[p] \in Over
         /\ \A p \in Pipes : data_end'[p] \in Over =>
              data_end[p] \in Over \/ current.slots[p] # None
  <1> DEFINE c == EndsAfter(Context, S)
  <1>1. c.slots = Context.slots /\ c.state = Context.state
    BY DEF EndsAfter, Context
  <1>2. ASSUME NEW p \in Pipes, p \in S
        PROVE  /\ PlayedSlot(c, data_end', p) /\ current.slots[p] # None
               /\ data_end[p] \notin Over
    <2>1. "started" \in flags[p] /\ data_end[p] = "queued"
      BY <1>2 DEF ReachedEnd, StartedSlots, Context
    <2>2. current.slots[p] # None
      BY <2>1 DEF EmptySlots, Context
    <2>3. data_end'[p] \in Over
      BY <1>2 DEF ConsumeEnds, Over
    <2>4. slot_state[p] \in Started
      BY <2>1 DEF Agreeing, AgreeingSlot, Played, PlayedSlot, Over, Context
    <2>5. "ended" \in c.flags[p]
      BY <1>2 DEF EndsAfter
    <2>6. c.state[p] \in Started
      BY <1>1, <2>4 DEF Context
    <2> HIDE DEF c
    <2> QED  BY <2>1, <2>2, <2>3, <2>5, <2>6 DEF PlayedSlot, Over
  <1>3. ASSUME NEW p \in Pipes, p \notin S
        PROVE  PlayedSlot(c, data_end', p) /\ data_end'[p] = data_end[p]
    <2>1. c.flags[p] = Context.flags[p]
      BY <1>3 DEF EndsAfter
    <2>2. data_end'[p] = data_end[p]
      BY <1>3 DEF ConsumeEnds
    <2>3. PlayedSlot(Context, data_end, p)
      BY DEF Played
    <2> QED  BY <1>1, <2>1, <2>2, <2>3 DEF PlayedSlot, Detaching
  <1>4. \A p \in Pipes : c.state[p] = Context.state[p]
    BY <1>1
  <1>5. \A p \in S : data_end'[p] \in Over
    BY DEF ConsumeEnds, Over, ReachedEnd, StartedSlots
  <1> HIDE DEF c
  <1> QED  BY <1>2, <1>3, <1>4, <1>5 DEF Played, StartsNone, c

LEMMA PlayedStart ==
  ASSUME NEW c \in Contexts, EmptySlots(c), NEW end, Played(c, end), NEW fire \in Firings(c)
  PROVE  /\ Played(CheckStartConditions(c, fire), end)
         /\ StartsNone(c, CheckStartConditions(c, fire), end)
  <1> DEFINE d == CheckStartConditions(c, fire)
  <1>1. ASSUME NEW p \in Pipes
        PROVE  PlayedSlot(d, end, p) /\ (end[p] \in Over /\ d.state[p] \in Started => c.state[p] \in Started)
    <2>1. PlayedSlot(c, end, p)
      BY DEF Played
    <2>2. d.slots = c.slots /\ ("ended" \in d.flags[p] <=> "ended" \in c.flags[p])
      BY DEF CheckStartConditions
    <2>3. CASE p \in DOMAIN fire
      <3>1. c.slots[p] # None /\ "ended" \notin c.flags[p]
        BY <2>3, FiringFilled
      <3>2. end[p] \notin Over
        BY <2>1, <3>1 DEF PlayedSlot
      <3> HIDE DEF d
      <3> QED  BY <2>1, <2>2, <3>1, <3>2 DEF PlayedSlot
    <2>4. CASE p \notin DOMAIN fire
      <3>1. d.state[p] = c.state[p]
        BY <2>4 DEF CheckStartConditions
      <3> HIDE DEF d
      <3> QED  BY <2>1, <2>2, <3>1 DEF PlayedSlot, Detaching
    <2> QED  BY <2>3, <2>4
  <1> QED  BY <1>1 DEF Played, StartsNone

LEMMA PlayedStop ==
  ASSUME NEW c \in Contexts, NEW end, Played(c, end), NEW faded
  PROVE  /\ Played(CheckStopConditions(c, faded), end)
         /\ StartsNone(c, CheckStopConditions(c, faded), end)
  <1> DEFINE e == CheckStopConditions(c, faded)
  <1>1. ASSUME NEW p \in Pipes
        PROVE  PlayedSlot(e, end, p) /\ (end[p] \in Over /\ e.state[p] \in Started => c.state[p] \in Started)
    <2>1. PlayedSlot(c, end, p)
      BY DEF Played
    <2>2. e.slots = c.slots /\ ("ended" \in e.flags[p] <=> "ended" \in c.flags[p])
      BY DEF CheckStopConditions
    <2>3. /\ StopState(c.flags[p]) \in Stopped
          /\ "ended" \in c.flags[p] => StopState(c.flags[p]) \in Ended
      BY DEF StopState, Stopped, Ended
    <2>4. e.state[p] = StopState(c.flags[p]) \/ e.state[p] = c.state[p]
      BY DEF CheckStopConditions
    <2>5. Stopped \cap Started = {}
      BY DEF Stopped, Started
    <2> HIDE DEF e
    <2> QED  BY <2>1, <2>2, <2>3, <2>4, <2>5 DEF PlayedSlot, Detaching
  <1> QED  BY <1>1 DEF Played, StartsNone

LEMMA PlayedCleanUp ==
  ASSUME NEW c \in Contexts, NEW end, Played(c, end)
  PROVE  Played(CleanUp(c), end) /\ StartsNone(c, CleanUp(c), end)
  <1>1. ASSUME NEW p \in Pipes
        PROVE  /\ PlayedSlot(CleanUp(c), end, p)
               /\ CleanUp(c).state[p] \in Started => c.state[p] \in Started
    BY DEF CleanUp, Played, PlayedSlot, Detaching, Started
  <1> QED  BY <1>1 DEF Played, StartsNone

LEMMA PlayedMix ==
  ASSUME TypeOK, FlagsInv, FilledInv, Played(Context, data_end), MixerMix
  PROVE  /\ Played(Context, data_end)'
         /\ \A p \in Pipes : data_end[p] \in Over /\ slot_state'[p] \in Started => slot_state[p] \in Started
         /\ \A p \in Pipes : data_end'[p] \in Over => data_end[p] \in Over \/ current.slots[p] # None
  <1>1. PICK S \in SUBSET ReachedEnd(Context), e \in Contexts, updated \in SUBSET Pipes :
          /\ ConsumeEnds(Context, S)
          /\ \E fire \in Firings(EndsAfter(Context, S)), faded \in SUBSET Pipes :
               e = CheckStopConditions(CheckStartConditions(EndsAfter(Context, S), fire), faded)
          /\ SetContext(e, updated) \/ Notify(e, updated)
    BY MixerMixOutcome
  <1> DEFINE c == EndsAfter(Context, S)
             end == data_end'
  <1>2. PICK fire \in Firings(c), faded \in SUBSET Pipes :
          e = CheckStopConditions(CheckStartConditions(c, fire), faded)
    BY <1>1
  <1>3. c \in Contexts /\ EmptySlots(c)
    BY ContextTyped, EndsAfterTyped, EmptyEnds DEF FilledInv
  <1>4. /\ Played(c, end) /\ StartsNone(Context, c, end)
        /\ \A p \in Pipes : data_end[p] \in Over => end[p] \in Over
        /\ \A p \in Pipes : end[p] \in Over => data_end[p] \in Over \/ current.slots[p] # None
    BY <1>1, PlayedEnds DEF FilledInv, FlagsInv
  <1> DEFINE d == CheckStartConditions(c, fire)
  <1> HIDE DEF c, end
  <1>5. d \in Contexts /\ Played(d, end) /\ StartsNone(c, d, end)
    BY <1>3, <1>4, CheckStartConditionsTyped, PlayedStart
  <1>6. e = CheckStopConditions(d, faded)
    BY <1>2
  <1> HIDE DEF d
  <1>7. Played(e, end) /\ StartsNone(d, e, end)
    BY <1>5, <1>6, PlayedStop
  <1>8. PICK u : SetContext(e, u)
    BY <1>1 DEF Notify
  <1>9. \A p \in Pipes : end[p] \in Over /\ e.state[p] \in Started => Context.state[p] \in Started
    BY <1>4, <1>5, <1>7 DEF StartsNone
  <1>10. current'.slots = e.slots /\ flags' = e.flags /\ slot_state' = e.state
    BY <1>8 DEF SetContext
  <1>11. Played(Context, data_end)'
    BY <1>7, <1>10 DEF Played, PlayedSlot, Detaching, Context, end
  <1>12. \A p \in Pipes : data_end[p] \in Over /\ slot_state'[p] \in Started => slot_state[p] \in Started
    BY <1>4, <1>9, <1>10 DEF Context
  <1> QED  BY <1>4, <1>11, <1>12 DEF end

LEMMA PlayedRequest ==
  ASSUME TypeOK, Releasing, FilledInv, PlayedInv, MixerUpdateRequest
  PROVE  /\ Played(Context, data_end)'
         /\ \A p \in Pipes : data_end[p] \in Over /\ slot_state'[p] \in Started => slot_state[p] \in Started
         /\ \A p \in Pipes : current.slots[p] # None /\ current'.slots[p] = None => Leaving(p)'
  <1> DEFINE request == Head(request_queue)
             c == InitializeSources(request)
  <1>1. request \in Items(Slots) /\ request = request_queue[1] /\ 1 \in 1..Len(request_queue)
    BY TailQueue DEF MixerUpdateRequest, TypeOK
  <1>2. Played(c, data_end) /\ StartsNone(Context, c, data_end)
    BY PlayedInitialize DEF PlayedInv
  <1>3. \A p \in request.updated : request.slots[p] # None
    BY <1>1 DEF Releasing, RequestedAttached
  <1>4. c \in Contexts /\ EmptySlots(c)
    BY <1>1, <1>3, InitializeSourcesTyped, EmptyInitialize DEF FilledInv
  <1>5. PICK fire \in Firings(c) : SetContext(CleanUp(CheckStartConditions(c, fire)), {})
    BY DEF MixerUpdateRequest
  <1>6. \A p \in Pipes : c.slots[p] = IF p \in request.updated THEN request.slots[p] ELSE current.slots[p]
    BY DEF InitializeSources
  <1> DEFINE d == CheckStartConditions(c, fire)
             e == CleanUp(d)
  <1> HIDE DEF c
  <1>7. d \in Contexts /\ d.slots = c.slots /\ Played(d, data_end) /\ StartsNone(c, d, data_end)
    BY <1>2, <1>4, CheckStartConditionsTyped, PlayedStart
  <1> HIDE DEF d
  <1>8. Played(e, data_end) /\ StartsNone(d, e, data_end)
    BY <1>7, PlayedCleanUp
  <1>9. \A p \in Pipes : e.slots[p] = IF Detaching(d, p) THEN None ELSE d.slots[p]
    BY DEF CleanUp
  <1> HIDE DEF e
  <1>10. \A p \in Pipes : data_end[p] \in Over /\ e.state[p] \in Started => Context.state[p] \in Started
    BY <1>2, <1>7, <1>8 DEF StartsNone
  <1>11. current'.slots = e.slots /\ flags' = e.flags /\ slot_state' = e.state /\ UNCHANGED data_end
    BY <1>5 DEF SetContext, MixerUpdateRequest, pipeVars, d, e
  <1>12. Played(Context, data_end)'
    BY <1>8, <1>11 DEF Played, PlayedSlot, Detaching, Context
  <1>13. \A p \in Pipes : data_end[p] \in Over /\ slot_state'[p] \in Started => slot_state[p] \in Started
    BY <1>10, <1>11 DEF Context
  <1>14. ASSUME NEW p \in Pipes, current.slots[p] # None, current'.slots[p] = None
         PROVE  Leaving(p)'
    <2>1. p \in request.updated /\ request.slots[p].operation = "detach"
      BY <1>3, <1>6, <1>7, <1>9, <1>11, <1>14 DEF Detaching, Releasing, HeldAttached
    <2> QED  BY <2>1, RequestLeaves
  <1> QED  BY <1>12, <1>13, <1>14

LEMMA PlayedRecycle ==
  ASSUME TypeOK, FilledInv, Played(Context, data_end), MixerUpdateRecycle
  PROVE  /\ Played(Context, data_end)'
         /\ \A p \in Pipes : data_end[p] \in Over /\ slot_state'[p] \in Started => slot_state[p] \in Started
         /\ current'.slots = current.slots
  <1>1. PICK fire \in Firings(Context) :
          SetContext(CheckStartConditions(Context, fire), current.updated \cup DOMAIN fire)
    BY DEF MixerUpdateRecycle
  <1> DEFINE d == CheckStartConditions(Context, fire)
  <1>2. d.slots = current.slots /\ Played(d, data_end) /\ StartsNone(Context, d, data_end)
    BY ContextTyped, CheckStartConditionsTyped, PlayedStart DEF FilledInv, Context
  <1>3. current'.slots = d.slots /\ flags' = d.flags /\ slot_state' = d.state /\ UNCHANGED data_end
    BY <1>1 DEF SetContext, MixerUpdateRecycle, pipeVars
  <1> HIDE DEF d
  <1>4. Played(Context, data_end)'
    BY <1>2, <1>3 DEF Played, PlayedSlot, Detaching, Context
  <1> QED  BY <1>2, <1>3, <1>4 DEF StartsNone, Context

\* What has ended was attached, and a pipe the handler thread gives up has not ended.
LEMMA EndsAttachedKept ==
  ASSUME TypeOK, Releasing, EndsAttached, [Next]_vars, NEW p \in Pipes, data_end'[p] \in Over,
         data_end[p] \in Over \/ current.slots[p] # None,
         requested.slots[p] # None => requested'.slots[p] # None,
         current'.slots[p] = None => current.slots[p] = None \/ Leaving(p)'
  PROVE  requested'.slots[p] # None /\ (current'.slots[p] = None => Leaving(p)')
  <1>1. requested'.slots[p] # None
    BY DEF EndsAttached, Releasing, HeldAttached
  <1> QED  BY <1>1, LeavingStep DEF EndsAttached

LEMMA PlayedMixer ==
  ASSUME TypeOK, Releasing, FilledInv, FlagsInv, PlayedInv, MixerThread
  PROVE  /\ Played(Context, data_end)' /\ EndsAttached'
         /\ \A p \in Pipes : data_end[p] \in Over /\ slot_state'[p] \in Started => slot_state[p] \in Started
  <1> USE DEF requestVars, mixerVars, pipeVars
  <1>0. [Next]_vars /\ UNCHANGED requested
    BY DEF Next, MixerThread, MixerTop, MixerUnpark, MixerParkedPoll, MixerUpdateRequest, MixerUpdateRecycle,
           MixerMix
  <1>1. ASSUME \A p \in Pipes : data_end'[p] \in Over => data_end[p] \in Over \/ current.slots[p] # None,
               \A p \in Pipes : current'.slots[p] = None => current.slots[p] = None \/ Leaving(p)'
        PROVE  EndsAttached'
    <2>1. ASSUME NEW p \in Pipes, data_end'[p] \in Over
          PROVE  requested'.slots[p] # None /\ (current'.slots[p] = None => Leaving(p)')
      BY <1>0, <1>1, <2>1, EndsAttachedKept DEF PlayedInv
    <2> QED  BY <2>1 DEF EndsAttached, Leaving, Detaching
  <1>2. CASE MixerTop \/ MixerUnpark
    <2>1. UNCHANGED <<current, flags, slot_state, fading_out, data_end>>
      BY <1>2 DEF MixerTop, MixerUnpark
    <2> QED  BY <1>1, <2>1 DEF PlayedInv, Played, PlayedSlot, Detaching, Context
  <1>3. CASE MixerParkedPoll
    <2>1. PICK S \in SUBSET ReachedEnd(Context) :
            ConsumeEnds(Context, S) /\ flags' = EndsAfter(Context, S).flags
      BY <1>3 DEF MixerParkedPoll
    <2>2. UNCHANGED <<current, slot_state>>
      BY <1>3 DEF MixerParkedPoll
    <2> DEFINE c == EndsAfter(Context, S)
    <2>3. /\ Played(c, data_end')
          /\ \A p \in Pipes : data_end'[p] \in Over => data_end[p] \in Over \/ current.slots[p] # None
      BY <2>1, PlayedEnds DEF FlagsInv, FilledInv, PlayedInv
    <2>4. c.slots = current.slots /\ c.state = slot_state
      BY DEF EndsAfter, Context
    <2>5. flags' = c.flags
      BY <2>1
    <2> HIDE DEF c
    <2>6. Played(Context, data_end)'
      BY <2>2, <2>3, <2>4, <2>5 DEF Played, PlayedSlot, Detaching, Context
    <2> QED  BY <1>1, <2>2, <2>3, <2>6
  <1>4. CASE MixerUpdateRequest
    <2>1. UNCHANGED data_end
      BY <1>4 DEF MixerUpdateRequest
    <2> QED  BY <1>1, <1>4, <2>1, PlayedRequest
  <1>5. CASE MixerUpdateRecycle
    <2>1. UNCHANGED data_end
      BY <1>5 DEF MixerUpdateRecycle
    <2> QED  BY <1>1, <1>5, <2>1, PlayedRecycle DEF PlayedInv
  <1>6. CASE MixerMix
    <2>1. current'.slots = current.slots
      BY <1>6, FilledMix
    <2> QED  BY <1>1, <1>6, <2>1, PlayedMix DEF PlayedInv
  <1> QED  BY <1>2, <1>3, <1>4, <1>5, <1>6 DEF MixerThread

LEMMA PlayedOthers ==
  ASSUME TypeOK, Releasing, FilledInv, PlayedInv, [Next]_vars, ~MixerThread
  PROVE  Played(Context, data_end)' /\ EndsAttached' /\ UNCHANGED slot_state
  <1> USE DEF requestVars, mixerVars, pipeVars
  <1>1. UNCHANGED <<current, flags, slot_state, fading_out>>
    BY DEF Next, HandlerThread, Suspend, Resume, PollMixer, ReceiveItem, HandleSlot, RecycleItem, PollDone,
           ApplyRequests, ClientsOfMixer, CreateSource, ReleaseSource, DecoderEnds, Request, SetLooping, vars
  <1>2. ASSUME NEW p \in Pipes
        PROVE  /\ data_end'[p] \in Over => data_end[p] \in Over
               /\ data_end[p] \in Over => data_end'[p] \in Over \/ current.slots[p] = None
               /\ data_end'[p] \in Over /\ requested.slots[p] # None => requested'.slots[p] # None
    <2>1. CASE UNCHANGED data_end /\ requested'.slots = requested.slots
      BY <2>1
    <2>2. ASSUME NEW q \in Pipes, HandleSlot(q)
          PROVE  /\ data_end'[p] \in Over => data_end[p] \in Over
                 /\ data_end[p] \in Over => data_end'[p] \in Over \/ current.slots[p] = None
                 /\ data_end'[p] \in Over /\ requested.slots[p] # None => requested'.slots[p] # None
      <3>1. CASE UNCHANGED <<requested, data_end>>
        BY <3>1
      <3>2. CASE /\ Detached(item, q) /\ item # None
                 /\ requested'.slots = [requested.slots EXCEPT ![q] = None]
                 /\ data_end' = [data_end EXCEPT ![q] = IF q \in sources THEN @ ELSE "none"]
        <4>1. Leaving(q) /\ q \notin sources
          BY <3>2 DEF Releasing, ToldOnce, PlayedInv, DetachingReleased, Leaving
        <4>2. p # q => requested'.slots[p] = requested.slots[p] /\ data_end'[p] = data_end[p]
          BY <3>2 DEF TypeOK
        <4>3. data_end'[q] = "none" /\ current.slots[q] = None
          BY <3>2, <4>1 DEF TypeOK, Leaving
        <4> QED  BY <4>2, <4>3 DEF Over
      <3>3. item # None /\ q \in item.updated
        BY <2>2 DEF HandleSlot, InItem, TypeOK
      <3>4. CASE active[q] # None /\ item.slots[q] # None /\ item.slots[q].detached
        BY <2>2, <3>2, <3>3, <3>4 DEF HandleSlot, Detached
      <3>5. CASE ~(active[q] # None /\ item.slots[q] # None /\ item.slots[q].detached)
        BY <2>2, <3>1, <3>5 DEF HandleSlot
      <3> QED  BY <3>4, <3>5
    <2>3. CASE PollDone \/ ApplyRequests
      BY <2>1, <2>3, AppliedQueue DEF PollDone, ApplyRequests
    <2>4. CASE HandlerThread
      BY <2>1, <2>2, <2>3, <2>4 DEF HandlerThread, Suspend, Resume, PollMixer, ReceiveItem, RecycleItem
    <2>5. ASSUME NEW q \in Pipes, ReleaseSource(q)
          PROVE  /\ data_end'[p] \in Over => data_end[p] \in Over
                 /\ data_end[p] \in Over => data_end'[p] \in Over \/ current.slots[p] = None
                 /\ data_end'[p] \in Over /\ requested.slots[p] # None => requested'.slots[p] # None
      <3>1. /\ data_end' = [data_end EXCEPT ![q] = IF requested.slots[q] = None THEN "none" ELSE @]
            /\ requested' = Detach(requested, q)
        BY <2>5 DEF ReleaseSource
      <3>2. data_end'[p] \in Over => data_end[p] \in Over
        BY <3>1 DEF TypeOK, Over
      <3>3. data_end[p] \in Over => data_end'[p] \in Over
        BY <3>1 DEF TypeOK, PlayedInv, EndsAttached
      <3>4. requested.slots[p] # None => requested'.slots[p] # None
        <4>1. CASE requested' = requested
          BY <4>1
        <4>2. CASE /\ requested.slots[q] # None
                   /\ requested'.slots = [requested.slots EXCEPT ![q] = [@ EXCEPT !.operation = "detach"]]
          <5> DEFINE s == requested.slots[q]
                     t == [s EXCEPT !.operation = "detach"]
          <5>1. s \in Slots
            BY <4>2 DEF TypeOK
          <5>2. t \in Slots
            BY <5>1 DEF Slots
          <5>3. t # None
            BY <5>2
          <5>4. requested'.slots[p] = IF p = q THEN t ELSE requested.slots[p]
            BY <4>2 DEF TypeOK
          <5> QED  BY <5>3, <5>4
        <4> QED  BY <3>1, <4>1, <4>2 DEF Detach
      <3> QED  BY <3>2, <3>3, <3>4
    <2>6. ASSUME NEW q \in Pipes, NEW args \in Arguments, Request(q, args)
          PROVE  UNCHANGED data_end /\ (requested.slots[p] # None => requested'.slots[p] # None)
      <3>1. args \in Slots
        BY DEF ArgumentRecords, Slots
      <3> QED  BY <2>6, <3>1 DEF Request, AttachOrUpdate, TypeOK
    <2>7. ASSUME NEW q \in Pipes, DecoderEnds(q)
          PROVE  /\ UNCHANGED requested
                 /\ data_end'[p] \in Over => data_end[p] \in Over
                 /\ data_end[p] \in Over => data_end'[p] \in Over
      BY <2>7 DEF DecoderEnds, TypeOK, Over
    <2>8. CASE ClientsOfMixer
      BY <2>1, <2>5, <2>6, <2>7, <2>8 DEF ClientsOfMixer, CreateSource, SetLooping
    <2>9. CASE UNCHANGED vars
      BY <2>1, <2>9 DEF vars
    <2> QED  BY <2>4, <2>8, <2>9 DEF Next
  <1>3. Played(Context, data_end)'
    <2>1. ASSUME NEW p \in Pipes
          PROVE  PlayedSlot(Context, data_end, p)'
      <3>1. current.slots[p] = None => "ended" \notin flags[p]
        BY DEF FilledInv, EmptySlots, Context
      <3> QED  BY <1>1, <1>2, <3>1 DEF PlayedInv, Played, PlayedSlot, Detaching, Context
    <2> QED  BY <2>1 DEF Played
  <1>4. EndsAttached'
    <2>1. ASSUME NEW p \in Pipes, data_end'[p] \in Over
          PROVE  requested'.slots[p] # None /\ (current'.slots[p] = None => Leaving(p)')
      BY <1>1, <1>2, <2>1, EndsAttachedKept DEF PlayedInv
    <2> QED  BY <2>1 DEF EndsAttached, Leaving, Detaching
  <1> QED  BY <1>1, <1>3, <1>4

LEMMA PlayedStep ==
  ASSUME NoStops
  PROVE  TypeOK /\ Releasing /\ FilledInv /\ FlagsInv /\ PlayedInv /\ [Next]_vars => PlayedInv'
  <1> SUFFICES ASSUME TypeOK, Releasing, FilledInv, FlagsInv, PlayedInv, [Next]_vars PROVE PlayedInv'
    OBVIOUS
  <1>1. OneClient' /\ DetachingReleased'
    BY OneClientStep, DetachingReleasedStep DEF PlayedInv
  <1>2. Played(Context, data_end)' /\ EndsAttached'
    BY PlayedMixer, PlayedOthers
  <1> QED  BY <1>1, <1>2 DEF PlayedInv

\* A source that has been played to its end is not started again: not by a request, not as
\* the target of a trigger, and not as the next source of the same pipe.
THEOREM NeverRestartedHolds ==
  ASSUME NoStops
  PROVE  Spec => NeverRestarted
  <1> DEFINE IInv == TypeOK /\ Releasing /\ FilledInv /\ FlagsInv /\ PlayedInv
             Step == \A p \in Pipes : data_end[p] \in {"end", "loop"} /\ slot_state'[p] \in Started
                                        => slot_state[p] \in Started
  <1>1. Init => IInv
    BY TypeInit, ReleasingInit, FilledInit, FlagsInit, PlayedInit
  <1>2. IInv /\ [Next]_vars => IInv'
    BY TypeStep, ReleasingStep, FilledStep, FlagsStep, PlayedStep
  <1>3. IInv /\ [Next]_vars => [Step]_vars
    BY PlayedMixer, PlayedOthers DEF Over
  <1> QED  BY <1>1, <1>2, <1>3, PTL DEF Spec, NeverRestarted
=============================================================================
