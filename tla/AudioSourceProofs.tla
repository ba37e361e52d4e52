------------------------- MODULE AudioSourceProofs -------------------------
(***************************************************************************)
(* TLAPS proofs about AudioSource, for every capacity, room, prefetch      *)
(* count and bound: no block is lost or shared, the end of data and the    *)
(* prefetch never lack room, the decoder's thread never sleeps past a      *)
(* wakeup, and what was pushed comes back in order, the end last.          *)
(***************************************************************************)
EXTENDS AudioSource, SequenceTheorems, TLAPS

USE ItemsAssumption, NoneAssumption, ParamsAssumption, BoundsAssumption

-----------------------------------------------------------------------------
(* Sequences without duplicates.                                           *)

LEMMA TailRange ==
  ASSUME NEW S, NEW q \in Seq(S), q # <<>>, IsInjective(q)
  PROVE  /\ Tail(q) \in Seq(S) /\ IsInjective(Tail(q))
         /\ Range(Tail(q)) = Range(q) \ {Head(q)}
         /\ Head(q) \in Range(q) /\ Head(q) \in S
         /\ Len(Tail(q)) = Len(q) - 1
<1>1. /\ Len(q) \in Nat /\ Len(q) > 0 /\ DOMAIN q = 1 .. Len(q)
      /\ Tail(q) \in Seq(S) /\ Len(Tail(q)) = Len(q) - 1 /\ DOMAIN Tail(q) = 1 .. Len(q) - 1
      /\ \A k \in 1 .. Len(q) - 1 : Tail(q)[k] = q[k + 1]
      /\ Head(q) = q[1] /\ q[1] \in S
  OBVIOUS
<1>2. IsInjective(Tail(q))
  BY <1>1 DEF IsInjective
<1>3. \A x \in Range(q) \ {Head(q)} : x \in Range(Tail(q))
  <2> TAKE x \in Range(q) \ {Head(q)}
  <2>1. PICK k \in 1 .. Len(q) : q[k] = x
    BY <1>1 DEF Range
  <2>2. k - 1 \in 1 .. Len(q) - 1 /\ Tail(q)[k - 1] = x
    BY <1>1, <2>1
  <2> QED
    BY <1>1, <2>2 DEF Range
<1>4. \A x \in Range(Tail(q)) : x \in Range(q) \ {Head(q)}
  <2> SUFFICES ASSUME NEW k \in 1 .. Len(q) - 1 PROVE Tail(q)[k] \in Range(q) /\ Tail(q)[k] # q[1]
    BY <1>1 DEF Range
  <2>1. k + 1 \in 1 .. Len(q) /\ Tail(q)[k] = q[k + 1] /\ 1 \in 1 .. Len(q) /\ k + 1 # 1
    BY <1>1
  <2> QED
    BY <1>1, <2>1 DEF Range, IsInjective
<1>5. Head(q) \in Range(q)
  BY <1>1 DEF Range
<1> QED
  BY <1>1, <1>2, <1>3, <1>4, <1>5

LEMMA AppendRange ==
  ASSUME NEW S, NEW q \in Seq(S), NEW x \in S, x \notin Range(q), IsInjective(q)
  PROVE  /\ Append(q, x) \in Seq(S) /\ IsInjective(Append(q, x))
         /\ Range(Append(q, x)) = Range(q) \cup {x}
         /\ Len(Append(q, x)) = Len(q) + 1
<1> DEFINE r == Append(q, x)
<1>1. /\ Len(q) \in Nat /\ DOMAIN q = 1 .. Len(q)
      /\ r \in Seq(S) /\ Len(r) = Len(q) + 1 /\ DOMAIN r = 1 .. Len(q) + 1
      /\ \A k \in 1 .. Len(q) : r[k] = q[k]
      /\ r[Len(q) + 1] = x
  OBVIOUS
<1> HIDE DEF r
<1>2. \A k \in 1 .. Len(q) : q[k] # x
  BY <1>1 DEF Range
<1>3. IsInjective(r)
  BY <1>1, <1>2 DEF IsInjective
<1>4. Range(r) = Range(q) \cup {x}
  <2>1. \A y \in Range(r) : y \in Range(q) \cup {x}
    BY <1>1 DEF Range
  <2>2. \A y \in Range(q) : y \in Range(r)
    BY <1>1 DEF Range
  <2>3. x \in Range(r)
    BY <1>1 DEF Range
  <2> QED
    BY <2>1, <2>2, <2>3
<1> QED
  BY <1>1, <1>3, <1>4 DEF r

LEMMA ConcatRange ==
  ASSUME NEW S, NEW q \in Seq(S), NEW r \in Seq(S), IsInjective(q), IsInjective(r),
         Range(q) \cap Range(r) = {}
  PROVE  /\ q \o r \in Seq(S) /\ IsInjective(q \o r)
         /\ Range(q \o r) = Range(q) \cup Range(r)
         /\ Len(q \o r) = Len(q) + Len(r)
<1> DEFINE c == q \o r
<1>1. /\ Len(q) \in Nat /\ DOMAIN q = 1 .. Len(q) /\ Len(r) \in Nat /\ DOMAIN r = 1 .. Len(r)
      /\ c \in Seq(S) /\ Len(c) = Len(q) + Len(r) /\ DOMAIN c = 1 .. Len(q) + Len(r)
      /\ \A k \in 1 .. Len(q) : c[k] = q[k]
      /\ \A k \in 1 .. Len(q) + Len(r) : k > Len(q) => c[k] = r[k - Len(q)]
  OBVIOUS
<1> HIDE DEF c
<1>2. \A j \in 1 .. Len(q), k \in 1 .. Len(r) : q[j] # r[k]
  <2> TAKE j \in 1 .. Len(q), k \in 1 .. Len(r)
  <2>1. q[j] \in Range(q) /\ r[k] \in Range(r)
    BY <1>1 DEF Range
  <2> QED
    BY <2>1
<1>3. \A k \in 1 .. Len(q) + Len(r) : k > Len(q) => k - Len(q) \in 1 .. Len(r)
  BY <1>1
<1>4. IsInjective(c)
  <2> SUFFICES ASSUME NEW j \in DOMAIN c, NEW k \in DOMAIN c, c[j] = c[k] PROVE j = k
    BY DEF IsInjective
  <2>1. CASE j <= Len(q) /\ k <= Len(q)
    BY <1>1, <2>1 DEF IsInjective
  <2>2. CASE j > Len(q) /\ k > Len(q)
    BY <1>1, <1>3, <2>2 DEF IsInjective
  <2>3. CASE j <= Len(q) /\ k > Len(q)
    BY <1>1, <1>2, <1>3, <2>3
  <2>4. CASE j > Len(q) /\ k <= Len(q)
    BY <1>1, <1>2, <1>3, <2>4
  <2> QED
    BY <1>1, <2>1, <2>2, <2>3, <2>4
<1>5. Range(c) = Range(q) \cup Range(r)
  <2>1. \A k \in DOMAIN c : c[k] \in Range(q) \cup Range(r)
    <3> TAKE k \in DOMAIN c
    <3>1. CASE k <= Len(q)
      BY <1>1, <3>1 DEF Range
    <3>2. CASE k > Len(q)
      BY <1>1, <1>3, <3>2 DEF Range
    <3> QED
      BY <1>1, <3>1, <3>2
  <2>2. \A k \in DOMAIN q : q[k] \in Range(c)
    BY <1>1 DEF Range
  <2>3. \A k \in DOMAIN r : r[k] \in Range(c)
    <3> TAKE k \in DOMAIN r
    <3>1. Len(q) + k \in DOMAIN c /\ c[Len(q) + k] = r[k]
      BY <1>1
    <3> QED
      BY <3>1 DEF Range
  <2> QED
    BY <2>1, <2>2, <2>3 DEF Range
<1> QED
  BY <1>1, <1>4, <1>5 DEF c

LEMMA EmptyRange == <<>> \in Seq(Items) /\ IsInjective(<<>>) /\ Range(<<>>) = {} /\ Len(<<>>) = 0
  BY DEF IsInjective, Range

LEMMA FullRange ==
  LET q == [i \in Items |-> i] IN
    q \in Seq(Items) /\ IsInjective(q) /\ Range(q) = Items /\ Len(q) = NumItems
<1> DEFINE q == [i \in Items |-> i]
<1>1. q \in Seq(Items)
  BY DEF Items
<1>2. IsInjective(q) /\ Range(q) = Items
  BY DEF IsInjective, Range
<1>3. Len(q) = NumItems
  BY <1>1 DEF Items
<1> QED
  BY <1>1, <1>2, <1>3

-----------------------------------------------------------------------------
(* The operations of the pipe keep every block in one place.               *)

Owned == PipeTypeOK /\ BlockHasOneOwner

LEMMA SetupOwned ==
  ASSUME setupQueues, produced = None, consumed = None, UNCHANGED hands,
         buffer_pool_' \in BOOLEAN, last_consumer_tag_' \in Tags,
         in_port_user' \in BOOLEAN, out_port_user' \in BOOLEAN
  PROVE  Owned'
<1>1. /\ producer_queue_' \in Seq(Items) /\ consumer_queue_' \in Seq(Items) /\ recycler_queue_' \in Seq(Items)
      /\ IsInjective(producer_queue_') /\ IsInjective(consumer_queue_') /\ IsInjective(recycler_queue_')
      /\ Range(producer_queue_') = Items /\ Range(consumer_queue_') = {} /\ Range(recycler_queue_') = {}
  BY EmptyRange, FullRange DEF setupQueues
<1>2. tag' \in [Items -> Tags] /\ position_msec' \in [Items -> Nat]
  BY DEF setupQueues, Tags
<1>3. produced' = None /\ consumed' = None /\ Hand(None) = {}
  BY DEF hands, Hand
<1> QED
  BY <1>1, <1>2, <1>3 DEF Owned, PipeTypeOK, BlockHasOneOwner, Hand

\* a release, or anything else that leaves queues and hands alone
LEMMA SameBlocksOwned ==
  ASSUME Owned, UNCHANGED <<queues, info, hands>>,
         buffer_pool_' \in BOOLEAN, buffer_pool_' => buffer_pool_,
         (produced = None /\ consumed = None) \/ buffer_pool_',
         last_consumer_tag_' \in Tags, in_port_user' \in BOOLEAN, out_port_user' \in BOOLEAN
  PROVE  Owned'
  BY DEF Owned, PipeTypeOK, BlockHasOneOwner, queues, info, hands

LEMMA LockProduceOwned ==
  ASSUME Owned, buffer_pool_, producer_queue_ # <<>>, produced = None, lockProduce
  PROVE  Owned'
<1>1. IsInjective(producer_queue_) /\ producer_queue_ \in Seq(Items)
  BY DEF Owned, BlockHasOneOwner, PipeTypeOK
<1>2. /\ producer_queue_' \in Seq(Items) /\ IsInjective(producer_queue_')
      /\ Range(producer_queue_') = Range(producer_queue_) \ {produced'}
      /\ produced' \in Range(producer_queue_) /\ produced' \in Items
  BY <1>1, TailRange DEF lockProduce
<1>3. /\ consumer_queue_' = consumer_queue_ /\ recycler_queue_' = recycler_queue_ /\ consumed' = consumed
      /\ buffer_pool_' = buffer_pool_
      /\ UNCHANGED <<info, last_consumer_tag_, ports>>
  BY DEF lockProduce
<1>4. PipeTypeOK'
  BY <1>2, <1>3 DEF Owned, PipeTypeOK, info, ports
<1>5. BlockHasOneOwner'
  BY <1>2, <1>3 DEF Owned, BlockHasOneOwner, Hand
<1> QED
  BY <1>4, <1>5 DEF Owned

LEMMA UnlockProduceOwned ==
  ASSUME Owned, produced # None, NEW t \in Tags, NEW p \in Nat, unlockProduce(t, p)
  PROVE  Owned'
<1>1. buffer_pool_ /\ produced \in Items
  BY DEF Owned, BlockHasOneOwner, PipeTypeOK
<1>2. consumer_queue_ \in Seq(Items) /\ IsInjective(consumer_queue_) /\ produced \notin Range(consumer_queue_)
  BY <1>1 DEF Owned, BlockHasOneOwner, PipeTypeOK, Hand
<1>3. /\ consumer_queue_' \in Seq(Items) /\ IsInjective(consumer_queue_')
      /\ Range(consumer_queue_') = Range(consumer_queue_) \cup {produced}
  BY <1>1, <1>2, AppendRange DEF unlockProduce
<1>4. /\ producer_queue_' = producer_queue_ /\ recycler_queue_' = recycler_queue_ /\ consumed' = consumed
      /\ produced' = None /\ buffer_pool_' = buffer_pool_
      /\ UNCHANGED <<last_consumer_tag_, ports>>
  BY DEF unlockProduce
<1>5. tag' \in [Items -> Tags] /\ position_msec' \in [Items -> Nat]
  BY DEF unlockProduce, Owned, PipeTypeOK
<1>6. PipeTypeOK'
  BY <1>3, <1>4, <1>5 DEF Owned, PipeTypeOK, ports
<1>7. BlockHasOneOwner'
  BY <1>1, <1>3, <1>4 DEF Owned, BlockHasOneOwner, Hand
<1> QED
  BY <1>6, <1>7 DEF Owned

LEMMA LockConsumeOwned ==
  ASSUME Owned, consumed = None, lockConsume
  PROVE  Owned'
<1>1. buffer_pool_ /\ consumer_queue_ # <<>> /\ IsInjective(consumer_queue_) /\ consumer_queue_ \in Seq(Items)
  BY DEF Owned, BlockHasOneOwner, PipeTypeOK, lockConsume
<1>2. /\ consumer_queue_' \in Seq(Items) /\ IsInjective(consumer_queue_')
      /\ Range(consumer_queue_') = Range(consumer_queue_) \ {consumed'}
      /\ consumed' \in Range(consumer_queue_) /\ consumed' \in Items
  BY <1>1, TailRange DEF lockConsume
<1>3. /\ producer_queue_' = producer_queue_ /\ recycler_queue_' = recycler_queue_ /\ produced' = produced
      /\ buffer_pool_' = buffer_pool_
      /\ UNCHANGED <<info, last_consumer_tag_, ports>>
  BY DEF lockConsume
<1>4. PipeTypeOK'
  BY <1>2, <1>3 DEF Owned, PipeTypeOK, info, ports
<1>5. BlockHasOneOwner'
  BY <1>1, <1>2, <1>3 DEF Owned, BlockHasOneOwner, Hand
<1> QED
  BY <1>4, <1>5 DEF Owned

LEMMA UnlockConsumeOwned ==
  ASSUME Owned, consumed # None, NEW t \in Tags, unlockConsume(t)
  PROVE  Owned'
<1>1. buffer_pool_ /\ consumed \in Items
  BY DEF Owned, BlockHasOneOwner, PipeTypeOK
<1>2. recycler_queue_ \in Seq(Items) /\ IsInjective(recycler_queue_) /\ consumed \notin Range(recycler_queue_)
  BY <1>1 DEF Owned, BlockHasOneOwner, PipeTypeOK, Hand
<1>3. /\ recycler_queue_' \in Seq(Items) /\ IsInjective(recycler_queue_')
      /\ Range(recycler_queue_') = Range(recycler_queue_) \cup {consumed}
  BY <1>1, <1>2, AppendRange DEF unlockConsume
<1>4. /\ producer_queue_' = producer_queue_ /\ consumer_queue_' = consumer_queue_ /\ produced' = produced
      /\ consumed' = None /\ buffer_pool_' = buffer_pool_ /\ last_consumer_tag_' = t
      /\ UNCHANGED <<position_msec, ports>>
  BY DEF unlockConsume
<1>5. tag' \in [Items -> Tags]
  BY DEF unlockConsume, Owned, PipeTypeOK
<1>6. PipeTypeOK'
  BY <1>3, <1>4, <1>5 DEF Owned, PipeTypeOK, ports
<1>7. BlockHasOneOwner'
  BY <1>1, <1>3, <1>4 DEF Owned, BlockHasOneOwner, Hand
<1> QED
  BY <1>6, <1>7 DEF Owned

LEMMA RecycleOwned ==
  ASSUME Owned, buffer_pool_, recycleAll
  PROVE  Owned'
<1>1. /\ producer_queue_ \in Seq(Items) /\ recycler_queue_ \in Seq(Items)
      /\ IsInjective(producer_queue_) /\ IsInjective(recycler_queue_)
      /\ Range(producer_queue_) \cap Range(recycler_queue_) = {}
  BY DEF Owned, BlockHasOneOwner, PipeTypeOK
<1>2. /\ producer_queue_' \in Seq(Items) /\ IsInjective(producer_queue_')
      /\ Range(producer_queue_') = Range(producer_queue_) \cup Range(recycler_queue_)
  BY <1>1, ConcatRange DEF recycleAll
<1>3. recycler_queue_' \in Seq(Items) /\ IsInjective(recycler_queue_') /\ Range(recycler_queue_') = {}
  BY EmptyRange DEF recycleAll
<1>4. /\ consumer_queue_' = consumer_queue_ /\ produced' = produced /\ consumed' = consumed
      /\ buffer_pool_' = buffer_pool_
      /\ UNCHANGED <<last_consumer_tag_, ports>>
  BY DEF recycleAll, hands
<1>5. tag' \in [Items -> Tags] /\ position_msec' \in [Items -> Nat]
  BY DEF recycleAll, Owned, PipeTypeOK, Tags
<1>6. PipeTypeOK'
  BY <1>2, <1>3, <1>4, <1>5 DEF Owned, PipeTypeOK, ports
<1>7. BlockHasOneOwner'
  BY <1>2, <1>3, <1>4 DEF Owned, BlockHasOneOwner, Hand
<1> QED
  BY <1>6, <1>7 DEF Owned

-----------------------------------------------------------------------------
(* Who may do what when.  A callback runs only for a decoder whose source  *)
(* holds the in port and has come to prefetch its queue; the mixer holds a *)
(* block only while attached, and is attached only from the out port on.   *)

CallbackControl ==
  /\ decoder => in_port_user
  /\ ~decoder => sl_play_state = "stopped"
  /\ handler # "idle" => decoder /\ sl_play_state = "stopped"
  /\ sl_play_state = "playing" => phase \in {"wait_queue_prefetch", "completed"}
  /\ callback # "none" => decoder /\ phase \in {"wait_queue_prefetch", "completed"}
  /\ waiting # "no" => callback # "none"
  /\ waiting = "untimed" => decoder_play_state_ = "paused"
  /\ produced # None => callback # "none" /\ waiting = "no"
  /\ callback \in {"audio", "flush"} => ~decoder_end_of_data_detected_
  /\ callback = "event" => decoder_end_of_data_detected_

PortControl ==
  /\ buffer_pool_ = (in_port_user \/ out_port_user)
  /\ out_port_user = (mixer # "detached")
  /\ consumed # None => mixer = "attached"
  /\ in_port_user /\ phase # "completed" => mixer = "detached" /\ recycler_queue_ = <<>>

Control == PipeTypeOK /\ pushed_block_count_ \in Nat /\ CallbackControl /\ PortControl

LEMMA ControlInit == Init => Control /\ BlockHasOneOwner
<1> SUFFICES ASSUME Init PROVE Control /\ BlockHasOneOwner
  OBVIOUS
<1>1. producer_queue_ \in Seq(Items) /\ consumer_queue_ \in Seq(Items) /\ recycler_queue_ \in Seq(Items)
  BY EmptyRange, Zenon DEF Init, PipeInit
<1>2. tag \in [Items -> Tags] /\ position_msec \in [Items -> Nat]
  BY DEF Init, PipeInit, Tags
<1>3. PipeTypeOK
  BY <1>1, <1>2 DEF Init, PipeInit, PipeTypeOK, Tags
<1>4. BlockHasOneOwner
  BY DEF Init, PipeInit, BlockHasOneOwner
<1> QED
  BY <1>3, <1>4 DEF Init, PipeInit, Control, CallbackControl, PortControl

LEMMA CallbackStep ==
  ASSUME Control, Next
  PROVE  CallbackControl'
<1> USE DEF Control, CallbackControl, PortControl, source, thread, vars, pipe, hands, ports
<1>1. CASE initialize
  BY <1>1 DEF initialize, setInPortUser
<1>2. CASE startPreparing
  BY <1>2 DEF startPreparing
<1>3. CASE pollQuietPhase
  BY <1>3 DEF pollQuietPhase, prepareInternalCleanup, prepareInternalSetupCallbacks,
     prepareInternalExtractMetadata, prepareInternalCreateAudioDataAdapter,
     prepareInternalSeekToInitialPosition, prepareInternalSetupDecoderQueue, Quiet, Polling, Proceed, Fail, NextPhase, NeedsDecoder
<1>4. CASE prepareInternalMakeDecoder
  BY <1>4 DEF prepareInternalMakeDecoder, Polling, Proceed, Fail, NextPhase, NeedsDecoder
<1>5. CASE prepareInternalStartDecoderPrefetch
  BY <1>5 DEF prepareInternalStartDecoderPrefetch, Polling, Proceed, Fail, NextPhase, NeedsDecoder
<1>6. CASE prefetchEventCallback
  BY <1>6 DEF prefetchEventCallback
<1>7. CASE prepareInternalPollDecoderPrefetch
  BY <1>7 DEF prepareInternalPollDecoderPrefetch, Polling, Proceed, Fail, NextPhase, NeedsDecoder
<1>8. CASE prepareInternalStartQueuePrefetch
  BY <1>8 DEF prepareInternalStartQueuePrefetch, Polling, Proceed, Fail, NextPhase, NeedsDecoder
<1>9. CASE prepareInternalPollQueuePrefetch
  BY <1>9 DEF prepareInternalPollQueuePrefetch, Polling, Proceed, NextPhase, NeedsDecoder, notify_all
<1>10. CASE start
  BY <1>10 DEF start, Controllable, notify_all
<1>11. CASE pause
  BY <1>11 DEF pause, Controllable, notify_all
<1>12. CASE stopDecoder
  BY <1>12 DEF stopDecoder, notify_all, MutexFree
<1>13. CASE releaseDecoderResources
  BY <1>13 DEF releaseDecoderResources, clearInPortUser
<1>14. CASE destroy
  BY <1>14 DEF destroy, clearInPortUser
<1>15. CASE poll
  BY <1>15 DEF poll, recycleAll
<1>16. CASE attachSource
  BY <1>16 DEF attachSource, setOutPortUser
<1>17. CASE detached
  BY <1>17 DEF detached, clearOutPortUser
<1>18. CASE mixLock
  BY <1>18 DEF mixLock, lockConsume
<1>19. CASE mixUnlock
  BY <1>19 DEF mixUnlock, unlockConsume
<1>20. CASE mixDetach
  BY <1>20 DEF mixDetach
<1>21. CASE decodeBufferQueueCallback
  BY <1>21 DEF decodeBufferQueueCallback, DecoderRuns
<1>22. CASE decoderPlayCallback
  BY <1>22 DEF decoderPlayCallback, DecoderRuns
<1>23. CASE waitForProducerQueueAudioDataItem
  BY <1>23 DEF waitForProducerQueueAudioDataItem, Pushing, lockProduce
<1>24. CASE waitForRoom
  BY <1>24 DEF waitForRoom, Pushing
<1>25. CASE waitTimeout
  BY <1>25 DEF waitTimeout
<1>26. CASE pushConvertedDataIntoProducerQueue
  BY <1>26 DEF pushConvertedDataIntoProducerQueue, unlockProduce
<1>27. CASE pushReturns
  BY <1>27 DEF pushReturns, Pushing
<1>28. CASE waitForProducerQueueEventItem
  BY <1>28 DEF waitForProducerQueueEventItem, AtEvent, lockProduce
<1>29. CASE pushEvent
  BY <1>29 DEF pushEvent, unlockProduce
<1> QED
  BY <1>1, <1>2, <1>3, <1>4, <1>5, <1>6, <1>7, <1>8, <1>9, <1>10, <1>11, <1>12, <1>13, <1>14,
     <1>15, <1>16, <1>17, <1>18, <1>19, <1>20, <1>21, <1>22, <1>23, <1>24, <1>25, <1>26, <1>27,
     <1>28, <1>29 DEF Next, HandlerNext, MixerNext, DecoderNext, CallbackNext

LEMMA PortStep ==
  ASSUME Control, Next
  PROVE  PortControl'
<1> USE DEF Control, CallbackControl, PortControl, source, thread, vars, pipe, hands, ports, queues
<1>1. CASE initialize
  BY <1>1 DEF initialize, setInPortUser, allocateBuffer, setupQueues
<1>2. CASE startPreparing
  BY <1>2 DEF startPreparing
<1>3. CASE pollQuietPhase
  BY <1>3 DEF pollQuietPhase, prepareInternalCleanup, prepareInternalSetupCallbacks,
     prepareInternalExtractMetadata, prepareInternalCreateAudioDataAdapter,
     prepareInternalSeekToInitialPosition, prepareInternalSetupDecoderQueue, Quiet, Polling, Proceed, Fail, NextPhase
<1>4. CASE prepareInternalMakeDecoder
  BY <1>4 DEF prepareInternalMakeDecoder, Polling, Proceed, Fail, NextPhase
<1>5. CASE prepareInternalStartDecoderPrefetch
  BY <1>5 DEF prepareInternalStartDecoderPrefetch, Polling, Proceed, Fail, NextPhase
<1>6. CASE prefetchEventCallback
  BY <1>6 DEF prefetchEventCallback
<1>7. CASE prepareInternalPollDecoderPrefetch
  BY <1>7 DEF prepareInternalPollDecoderPrefetch, Polling, Proceed, Fail, NextPhase
<1>8. CASE prepareInternalStartQueuePrefetch
  BY <1>8 DEF prepareInternalStartQueuePrefetch, Polling, Proceed, Fail, NextPhase
<1>9. CASE prepareInternalPollQueuePrefetch
  BY <1>9 DEF prepareInternalPollQueuePrefetch, Polling, Proceed, NextPhase
<1>10. CASE start
  BY <1>10 DEF start
<1>11. CASE pause
  BY <1>11 DEF pause
<1>12. CASE stopDecoder
  BY <1>12 DEF stopDecoder
<1>13. CASE releaseDecoderResources
  BY <1>13 DEF releaseDecoderResources, clearInPortUser, clearPort, releaseBuffer
<1>14. CASE destroy
  BY <1>14 DEF destroy, clearInPortUser, clearPort, releaseBuffer
<1>15. CASE poll
  BY <1>15 DEF poll, recycleAll
<1>16. CASE attachSource
  BY <1>16 DEF attachSource, setOutPortUser, allocateBuffer
<1>17. CASE detached
  BY <1>17 DEF detached, clearOutPortUser, clearPort, releaseBuffer
<1>18. CASE mixLock
  BY <1>18 DEF mixLock, lockConsume
<1>19. CASE mixUnlock
  BY <1>19 DEF mixUnlock, unlockConsume
<1>20. CASE mixDetach
  BY <1>20 DEF mixDetach
<1>21. CASE decodeBufferQueueCallback
  BY <1>21 DEF decodeBufferQueueCallback
<1>22. CASE decoderPlayCallback
  BY <1>22 DEF decoderPlayCallback
<1>23. CASE waitForProducerQueueAudioDataItem
  BY <1>23 DEF waitForProducerQueueAudioDataItem, lockProduce
<1>24. CASE waitForRoom
  BY <1>24 DEF waitForRoom
<1>25. CASE waitTimeout
  BY <1>25 DEF waitTimeout
<1>26. CASE pushConvertedDataIntoProducerQueue
  BY <1>26 DEF pushConvertedDataIntoProducerQueue, unlockProduce
<1>27. CASE pushReturns
  BY <1>27 DEF pushReturns
<1>28. CASE waitForProducerQueueEventItem
  BY <1>28 DEF waitForProducerQueueEventItem, lockProduce
<1>29. CASE pushEvent
  BY <1>29 DEF pushEvent, unlockProduce
<1> QED
  BY <1>1, <1>2, <1>3, <1>4, <1>5, <1>6, <1>7, <1>8, <1>9, <1>10, <1>11, <1>12, <1>13, <1>14,
     <1>15, <1>16, <1>17, <1>18, <1>19, <1>20, <1>21, <1>22, <1>23, <1>24, <1>25, <1>26, <1>27,
     <1>28, <1>29 DEF Next, HandlerNext, MixerNext, DecoderNext, CallbackNext

\* every step does at most one operation of the pipe
LEMMA OwnedStep ==
  ASSUME Control, BlockHasOneOwner, Next
  PROVE  Owned'
<1>1. Owned
  BY DEF Owned, Control
<1>2. ASSUME UNCHANGED pipe PROVE Owned'
  BY <1>1, <1>2 DEF pipe, queues, info, hands, ports, Owned, PipeTypeOK, BlockHasOneOwner
<1>3. CASE initialize
  <2>1. ~buffer_pool_ /\ produced = None /\ consumed = None
    BY <1>3, <1>1 DEF initialize, Control, PortControl, Owned, BlockHasOneOwner
  <2>2. setupQueues /\ buffer_pool_' = TRUE /\ in_port_user' = TRUE
        /\ UNCHANGED <<last_consumer_tag_, hands, out_port_user>>
    BY <1>3, <2>1 DEF initialize, setInPortUser, allocateBuffer
  <2> QED
    BY <1>1, <2>1, <2>2, SetupOwned DEF Owned, PipeTypeOK
<1>4. ASSUME clearInPortUser, callback = "none" PROVE Owned'
  <2>1. /\ out_port_user \in BOOLEAN /\ in_port_user' = FALSE /\ clearPort(out_port_user)
        /\ UNCHANGED <<hands, out_port_user>> /\ produced = None
        /\ ~out_port_user => consumed = None
    BY <1>4 DEF clearInPortUser, Control, PortControl, CallbackControl, PipeTypeOK
  <2>2. CASE out_port_user
    BY <1>1, <2>1, <2>2, SameBlocksOwned DEF clearPort, Control, PortControl, Owned, PipeTypeOK
  <2>3. CASE ~out_port_user
    BY <1>1, <2>1, <2>3, SameBlocksOwned DEF clearPort, releaseBuffer, Tags, Owned, PipeTypeOK
  <2> QED
    BY <2>1, <2>2, <2>3
<1>5. CASE releaseDecoderResources
  BY <1>2, <1>4, <1>5 DEF releaseDecoderResources
<1>6. CASE destroy
  BY <1>4, <1>6 DEF destroy, Control, CallbackControl
<1>7. CASE poll
  BY <1>1, <1>7, RecycleOwned DEF poll
<1>8. CASE attachSource
  BY <1>1, <1>8, SameBlocksOwned DEF attachSource, setOutPortUser, allocateBuffer, Control, PortControl, Owned, PipeTypeOK
<1>9. CASE detached
  <2>1. /\ in_port_user \in BOOLEAN /\ out_port_user' = FALSE /\ clearPort(in_port_user)
        /\ UNCHANGED <<hands, in_port_user>> /\ consumed = None
        /\ ~in_port_user => produced = None
    BY <1>9 DEF detached, clearOutPortUser, Control, PortControl, CallbackControl, PipeTypeOK
  <2>2. CASE in_port_user
    BY <1>1, <2>1, <2>2, SameBlocksOwned DEF clearPort, Control, PortControl, Owned, PipeTypeOK
  <2>3. CASE ~in_port_user
    BY <1>1, <2>1, <2>3, SameBlocksOwned DEF clearPort, releaseBuffer, Tags, Owned, PipeTypeOK
  <2> QED
    BY <2>1, <2>2, <2>3
<1>10. CASE mixLock
  BY <1>1, <1>10, LockConsumeOwned DEF mixLock
<1>11. CASE mixUnlock
  <2>1. consumed # None /\ consumed \in Items /\ tag[consumed] \in Tags /\ "end_with_loop_point" \in Tags
    BY <1>11 DEF mixUnlock, Control, PipeTypeOK, Tags
  <2>2. PICK t \in Tags : unlockConsume(t)
    BY <1>11, <2>1 DEF mixUnlock
  <2> QED
    BY <1>1, <2>1, <2>2, UnlockConsumeOwned
<1>12. ASSUME NEW min_remains \in Nat, CanProduce(min_remains), produced = None, lockProduce PROVE Owned'
  <2>1. buffer_pool_ /\ producer_queue_ # <<>>
    BY <1>12 DEF CanProduce
  <2> QED
    BY <1>1, <1>12, <2>1, LockProduceOwned
<1>13. CASE waitForProducerQueueAudioDataItem
  BY <1>12, <1>13 DEF waitForProducerQueueAudioDataItem, Pushing, Room
<1>14. CASE pushConvertedDataIntoProducerQueue
  <2>1. "audio" \in Tags /\ pushed_block_count_ \in Nat
    BY DEF Tags, Control
  <2> QED
    BY <1>1, <1>14, <2>1, UnlockProduceOwned DEF pushConvertedDataIntoProducerQueue
<1>15. CASE waitForProducerQueueEventItem
  BY <1>2, <1>12, <1>15 DEF waitForProducerQueueEventItem, AtEvent
<1>16. CASE pushEvent
  <2>1. "end" \in Tags /\ pushed_block_count_ \in Nat
    BY DEF Tags, Control
  <2> QED
    BY <1>1, <1>16, <2>1, UnlockProduceOwned DEF pushEvent
<1>17. CASE startPreparing \/ pollQuietPhase \/ prepareInternalMakeDecoder \/ prepareInternalStartDecoderPrefetch
            \/ prepareInternalPollDecoderPrefetch \/ prepareInternalStartQueuePrefetch
            \/ prepareInternalPollQueuePrefetch \/ prefetchEventCallback
  BY <1>2, <1>17 DEF startPreparing, pollQuietPhase, prepareInternalCleanup,
     prepareInternalSetupCallbacks, prepareInternalExtractMetadata, prepareInternalCreateAudioDataAdapter,
     prepareInternalSeekToInitialPosition, prepareInternalSetupDecoderQueue, Quiet, prepareInternalMakeDecoder,
     prepareInternalStartDecoderPrefetch, prepareInternalPollDecoderPrefetch,
     prepareInternalStartQueuePrefetch, prepareInternalPollQueuePrefetch, prefetchEventCallback
<1>18. CASE start \/ pause \/ stopDecoder \/ mixDetach
  BY <1>2, <1>18 DEF start, pause, stopDecoder, mixDetach
<1>19. CASE decodeBufferQueueCallback \/ decoderPlayCallback \/ waitForRoom \/ waitTimeout \/ pushReturns
  BY <1>2, <1>19 DEF decodeBufferQueueCallback, decoderPlayCallback, waitForRoom, waitTimeout, pushReturns
<1> QED
  BY <1>3, <1>5, <1>6, <1>7, <1>8, <1>9, <1>10, <1>11, <1>13, <1>14, <1>15, <1>16, <1>17, <1>18, <1>19
  DEF Next, HandlerNext, MixerNext, DecoderNext, CallbackNext

-----------------------------------------------------------------------------
(* The room.  Until the end of data has taken its block there is one to    *)
(* take, because audio data leaves Room blocks and only the decoder takes; *)
(* and until the preparation completes the mixer is not attached, so what  *)
(* is missing from the producer queue is exactly what was pushed.          *)

RoomInv ==
  /\ in_port_user /\ (~decoder_end_of_data_detected_ \/ (callback = "event" /\ produced = None))
       => Len(producer_queue_) >= 1
  /\ in_port_user /\ phase # "completed" /\ ~decoder_end_of_data_detected_
       => Len(producer_queue_) + pushed_block_count_ + (IF produced = None THEN 0 ELSE 1) = NumItems
  /\ phase = "wait_queue_prefetch" /\ waiting # "no" => Prefetched

LEMMA RoomFacts ==
  /\ Room \in Nat /\ Room >= 1 /\ NumItems >= Room + PrefetchCount
  /\ PrefetchCount \in Nat /\ NumItems \in Nat /\ NumItems >= 2
  BY DEF Room

LEMMA RoomStep ==
  ASSUME Control, RoomInv, Next
  PROVE  RoomInv'
<1> USE DEF Control, CallbackControl, PortControl, RoomInv, Prefetched, source, thread, vars, pipe, hands, ports, queues
<1>1. CASE initialize
  <2>1. ~buffer_pool_ /\ produced = None
    BY <1>1 DEF initialize
  <2>2. producer_queue_' = [i \in Items |-> i] /\ in_port_user' /\ produced' = None
        /\ pushed_block_count_' = 0 /\ waiting' = waiting /\ waiting = "no"
    BY <1>1, <2>1 DEF initialize, setInPortUser, allocateBuffer, setupQueues
  <2>3. Len(producer_queue_') = NumItems
    BY <2>2, FullRange
  <2> QED
    BY <2>2, <2>3, RoomFacts
<1>2. CASE startPreparing
  BY <1>2 DEF startPreparing
<1>3. CASE pollQuietPhase
  BY <1>3 DEF pollQuietPhase, prepareInternalCleanup, prepareInternalSetupCallbacks,
     prepareInternalExtractMetadata, prepareInternalCreateAudioDataAdapter,
     prepareInternalSeekToInitialPosition, prepareInternalSetupDecoderQueue, Quiet, Polling, Proceed, Fail, NextPhase
<1>4. CASE prepareInternalMakeDecoder
  BY <1>4 DEF prepareInternalMakeDecoder, Polling, Proceed, Fail, NextPhase
<1>5. CASE prepareInternalStartDecoderPrefetch
  BY <1>5 DEF prepareInternalStartDecoderPrefetch, Polling, Proceed, Fail, NextPhase
<1>6. CASE prefetchEventCallback
  BY <1>6 DEF prefetchEventCallback
<1>7. CASE prepareInternalPollDecoderPrefetch
  BY <1>7 DEF prepareInternalPollDecoderPrefetch, Polling, Proceed, Fail, NextPhase
<1>8. CASE prepareInternalStartQueuePrefetch
  BY <1>8 DEF prepareInternalStartQueuePrefetch, Polling, Proceed, Fail, NextPhase
<1>9. CASE prepareInternalPollQueuePrefetch
  BY <1>9 DEF prepareInternalPollQueuePrefetch, Polling, Proceed, NextPhase
<1>10. CASE start
  BY <1>10 DEF start, Controllable
<1>11. CASE pause
  BY <1>11 DEF pause, Controllable
<1>12. CASE stopDecoder
  BY <1>12 DEF stopDecoder, notify_all
<1>13. CASE releaseDecoderResources
  BY <1>13 DEF releaseDecoderResources, clearInPortUser
<1>14. CASE destroy
  BY <1>14 DEF destroy, clearInPortUser
<1>15. CASE poll
  <2>1. producer_queue_ \in Seq(Items) /\ recycler_queue_ \in Seq(Items)
    BY DEF PipeTypeOK
  <2>2. Len(producer_queue_') = Len(producer_queue_) + Len(recycler_queue_)
    BY <1>15, <2>1 DEF poll, recycleAll
  <2>3. recycler_queue_ # <<>> /\ (in_port_user => phase = "completed")
    BY <1>15 DEF poll
  <2>4. Len(producer_queue_) \in Nat /\ Len(recycler_queue_) \in Nat
    BY <2>1
  <2> QED
    BY <1>15, <2>2, <2>3, <2>4 DEF poll, recycleAll
<1>16. CASE attachSource
  BY <1>16 DEF attachSource, setOutPortUser, allocateBuffer
<1>17. CASE detached
  BY <1>17 DEF detached, clearOutPortUser, clearPort, releaseBuffer
<1>18. CASE mixLock
  BY <1>18 DEF mixLock, lockConsume
<1>19. CASE mixUnlock
  BY <1>19 DEF mixUnlock, unlockConsume
<1>20. CASE mixDetach
  BY <1>20 DEF mixDetach
<1>21. CASE decodeBufferQueueCallback
  BY <1>21 DEF decodeBufferQueueCallback, DecoderRuns
<1>22. CASE decoderPlayCallback
  BY <1>22 DEF decoderPlayCallback, DecoderRuns
<1>23. ASSUME NEW min_remains \in Nat, CanProduce(min_remains), produced = None, lockProduce
       PROVE  /\ Len(producer_queue_') = Len(producer_queue_) - 1 /\ Len(producer_queue_) \in Nat
              /\ Len(producer_queue_') >= min_remains /\ produced' # None
  <2>1. producer_queue_ \in Seq(Items) /\ producer_queue_ # <<>> /\ Len(producer_queue_) > min_remains
    BY <1>23 DEF PipeTypeOK, CanProduce
  <2>2. Head(producer_queue_) \in Items
    BY <2>1
  <2> QED
    BY <1>23, <2>1, <2>2 DEF lockProduce
<1>24. CASE waitForProducerQueueAudioDataItem
  <2>1. /\ Len(producer_queue_') = Len(producer_queue_) - 1 /\ Len(producer_queue_) \in Nat
        /\ Len(producer_queue_') >= Room /\ produced' # None /\ produced = None
    BY <1>23, <1>24, RoomFacts DEF waitForProducerQueueAudioDataItem, Pushing
  <2> QED
    BY <1>24, <2>1, RoomFacts DEF waitForProducerQueueAudioDataItem, lockProduce
<1>25. CASE waitForRoom
  <2>1. Len(producer_queue_) \in Nat /\ Len(producer_queue_) <= Room /\ produced = None
        /\ ~decoder_end_of_data_detected_ /\ in_port_user
    BY <1>25, RoomFacts DEF waitForRoom, Pushing, CanProduce, PipeTypeOK
  <2>2. CASE phase # "completed"
    BY <1>25, <2>1, <2>2, RoomFacts DEF waitForRoom
  <2>3. CASE phase = "completed"
    BY <1>25, <2>3 DEF waitForRoom
  <2> QED
    BY <2>2, <2>3
<1>26. CASE waitTimeout
  BY <1>26 DEF waitTimeout
<1>27. CASE pushConvertedDataIntoProducerQueue
  <2>1. Len(producer_queue_) \in Nat
    BY DEF PipeTypeOK
  <2> QED
    BY <1>27, <2>1, RoomFacts DEF pushConvertedDataIntoProducerQueue, unlockProduce
<1>28. CASE pushReturns
  BY <1>28 DEF pushReturns, Pushing
<1>29. CASE waitForProducerQueueEventItem
  <2>1. decoder_end_of_data_detected_ /\ callback = "event" /\ produced = None
    BY <1>29 DEF waitForProducerQueueEventItem, AtEvent
  <2>2. CASE ActiveState /\ CanProduce(0)
    BY <1>23, <1>29, <2>1, <2>2 DEF waitForProducerQueueEventItem, lockProduce
  <2>3. CASE ~(ActiveState /\ CanProduce(0))
    BY <1>29, <2>1, <2>3 DEF waitForProducerQueueEventItem
  <2> QED
    BY <2>2, <2>3
<1>30. CASE pushEvent
  BY <1>30 DEF pushEvent, unlockProduce
<1> QED
  BY <1>1, <1>2, <1>3, <1>4, <1>5, <1>6, <1>7, <1>8, <1>9, <1>10, <1>11, <1>12, <1>13, <1>14,
     <1>15, <1>16, <1>17, <1>18, <1>19, <1>20, <1>21, <1>22, <1>24, <1>25, <1>26, <1>27,
     <1>28, <1>29, <1>30 DEF Next, HandlerNext, MixerNext, DecoderNext, CallbackNext

-----------------------------------------------------------------------------
(* The theorems.                                                           *)

Inductive == Control /\ BlockHasOneOwner /\ RoomInv

LEMMA InductiveHolds == Spec => []Inductive
<1>1. Init => Inductive
  BY ControlInit DEF Init, PipeInit, RoomInv, Inductive
<1>2. Inductive /\ [Next]_vars => Inductive'
  <2> SUFFICES ASSUME Inductive, [Next]_vars PROVE Inductive'
    OBVIOUS
  <2>1. CASE Next
    <3>1. Owned' /\ CallbackControl' /\ PortControl' /\ RoomInv'
      BY <2>1, OwnedStep, CallbackStep, PortStep, RoomStep DEF Inductive
    <3>2. pushed_block_count_' \in Nat
      BY <2>1 DEF Inductive, Control, Next, HandlerNext, MixerNext, DecoderNext, CallbackNext,
         initialize, startPreparing, pollQuietPhase, prepareInternalCleanup,
         prepareInternalSetupCallbacks, prepareInternalExtractMetadata, prepareInternalCreateAudioDataAdapter,
         prepareInternalSeekToInitialPosition, prepareInternalSetupDecoderQueue, Quiet, prepareInternalMakeDecoder,
         prepareInternalStartDecoderPrefetch, prepareInternalPollDecoderPrefetch,
         prepareInternalStartQueuePrefetch, prepareInternalPollQueuePrefetch, prefetchEventCallback,
         start, pause, stopDecoder, releaseDecoderResources, destroy, poll, attachSource, detached,
         mixLock, mixUnlock, mixDetach, decodeBufferQueueCallback, decoderPlayCallback,
         waitForProducerQueueAudioDataItem, waitForRoom, waitTimeout,
         pushConvertedDataIntoProducerQueue, pushReturns, waitForProducerQueueEventItem, pushEvent, source
    <3> QED
      BY <3>1, <3>2 DEF Inductive, Control, Owned
  <2>2. CASE UNCHANGED vars
    BY <2>2 DEF Inductive, Control, CallbackControl, PortControl, BlockHasOneOwner, PipeTypeOK, RoomInv,
       Prefetched, vars, pipe, queues, info, hands, ports, source, thread
  <2> QED
    BY <2>1, <2>2
<1> QED
  BY <1>1, <1>2, PTL DEF Spec

\* Every block stays in exactly one place - a queue, the decoder's hands or
\* the mixer's - through every interleaving of decoder, mixer and handler
\* thread, and the memory is never released under a block somebody holds.
THEOREM BlocksConserved == Spec => []BlockHasOneOwner
<1>1. Inductive => BlockHasOneOwner
  BY DEF Inductive
<1> QED
  BY <1>1, InductiveHolds, PTL

\* For every capacity that passes the check of initialize() the end of data
\* finds a block and the prefetch completes without a wait for room.
THEOREM RoomSuffices == Spec => []RoomIsKept
<1>1. Inductive => RoomIsKept
  <2> SUFFICES ASSUME Inductive PROVE RoomIsKept
    OBVIOUS
  <2>1. ASSUME AtEvent PROVE CanProduce(0)
    <3>1. callback = "event" /\ produced = None /\ in_port_user
      BY <2>1 DEF Inductive, Control, CallbackControl, AtEvent
    <3>2. Len(producer_queue_) >= 1
      BY <3>1 DEF Inductive, RoomInv
    <3>3. buffer_pool_ /\ producer_queue_ \in Seq(Items)
      BY <3>1 DEF Inductive, Control, PortControl, PipeTypeOK
    <3> QED
      BY <3>2, <3>3 DEF CanProduce
  <2> QED
    BY <2>1 DEF RoomIsKept, Inductive, RoomInv
<1> QED
  BY <1>1, InductiveHolds, PTL

\* The decoder's thread sleeps without a timeout only while its source is
\* paused.
THEOREM SleepersArePaused == Spec => []NoLostWakeup
<1>1. Inductive => NoLostWakeup
  BY DEF Inductive, Control, CallbackControl, NoLostWakeup
<1> QED
  BY <1>1, InductiveHolds, PTL

-----------------------------------------------------------------------------
(* The order.  A sequence of blocks q with tags tg and positions pos is in *)
(* order when its last block alone may be the end, and the a blocks of     *)
(* audio data have the positions that follow the p - a that have come back *)
(* before.                                                                 *)

EndTags == {"end", "end_with_loop_point"}
AudioOf(q, tg) == IF Len(q) > 0 /\ tg[q[Len(q)]] \in EndTags THEN Len(q) - 1 ELSE Len(q)
Ordered(q, tg, pos, a, p) ==
  \A k \in DOMAIN q : (tg[q[k]] \in EndTags <=> k > a) /\ pos[q[k]] = p - a + k - 1

LEMMA AppendOrdered ==
  ASSUME NEW q \in Seq(Items), NEW x \in Items, x \notin Range(q),
         NEW tg \in [Items -> Tags], NEW pos \in [Items -> Nat], NEW p \in Nat, NEW t,
         AudioOf(q, tg) = Len(q), Ordered(q, tg, pos, Len(q), p),
         NEW r, r = Append(q, x), NEW tg2, tg2 = [tg EXCEPT ![x] = t], NEW pos2, pos2 = [pos EXCEPT ![x] = p]
  PROVE  /\ Len(q) \in Nat /\ Len(r) = Len(q) + 1
         /\ t \notin EndTags => AudioOf(r, tg2) = Len(q) + 1 /\ Ordered(r, tg2, pos2, Len(q) + 1, p + 1)
         /\ t \in EndTags => AudioOf(r, tg2) = Len(q) /\ Ordered(r, tg2, pos2, Len(q), p)
<1>1. /\ Len(q) \in Nat /\ DOMAIN q = 1 .. Len(q) /\ Len(r) = Len(q) + 1 /\ DOMAIN r = 1 .. Len(q) + 1
      /\ \A k \in 1 .. Len(q) : r[k] = q[k] /\ q[k] \in Items
      /\ r[Len(q) + 1] = x
  OBVIOUS
<1>2. \A k \in 1 .. Len(q) : q[k] # x
  BY <1>1 DEF Range
<1>3. /\ \A k \in 1 .. Len(q) : tg2[r[k]] = tg[q[k]] /\ pos2[r[k]] = pos[q[k]]
      /\ tg2[r[Len(q) + 1]] = t /\ pos2[r[Len(q) + 1]] = p
  BY <1>1, <1>2
<1>4. \A k \in 1 .. Len(q) : tg2[r[k]] \notin EndTags /\ pos2[r[k]] = p - Len(q) + k - 1
  <2> TAKE k \in 1 .. Len(q)
  <2>1. (tg[q[k]] \in EndTags <=> k > Len(q)) /\ pos[q[k]] = p - Len(q) + k - 1
    BY <1>1 DEF Ordered
  <2>2. ~(k > Len(q))
    BY <1>1
  <2> QED
    BY <1>3, <2>1, <2>2
<1>5. AudioOf(r, tg2) = IF t \in EndTags THEN Len(q) ELSE Len(q) + 1
  <2>1. Len(r) > 0 /\ tg2[r[Len(r)]] = t /\ Len(r) - 1 = Len(q)
    BY <1>1, <1>3
  <2> QED
    BY <1>1, <2>1 DEF AudioOf
<1>6. ASSUME t \notin EndTags PROVE Ordered(r, tg2, pos2, Len(q) + 1, p + 1)
  <2> SUFFICES ASSUME NEW k \in 1 .. Len(q) + 1
               PROVE  tg2[r[k]] \notin EndTags /\ pos2[r[k]] = p + 1 - (Len(q) + 1) + k - 1
    BY <1>1 DEF Ordered
  <2>1. CASE k = Len(q) + 1
    BY <1>1, <1>3, <1>6, <2>1
  <2>2. CASE k # Len(q) + 1
    BY <1>1, <1>4, <2>2
  <2> QED
    BY <2>1, <2>2
<1>7. ASSUME t \in EndTags PROVE Ordered(r, tg2, pos2, Len(q), p)
  <2> SUFFICES ASSUME NEW k \in 1 .. Len(q) + 1
               PROVE  (tg2[r[k]] \in EndTags <=> k > Len(q)) /\ pos2[r[k]] = p - Len(q) + k - 1
    BY <1>1 DEF Ordered
  <2>1. CASE k = Len(q) + 1
    BY <1>1, <1>3, <1>7, <2>1
  <2>2. CASE k # Len(q) + 1
    BY <1>1, <1>4, <2>2
  <2> QED
    BY <2>1, <2>2
<1> QED
  BY <1>1, <1>5, <1>6, <1>7

\* r is q without its first m blocks; two functions agree on the blocks of r
Rest(q, m, r) == Len(q) = m + Len(r) /\ \A k \in 1 .. Len(r) : r[k] = q[m + k]
Agree(r, f, g) == \A k \in 1 .. Len(r) : g[r[k]] = f[r[k]]

LEMMA DropOrdered ==
  ASSUME NEW q \in Seq(Items), NEW r \in Seq(Items), NEW m \in 1 .. Len(q), Rest(q, m, r),
         NEW tg, NEW tg2, NEW pos, NEW pos2, Agree(r, tg, tg2), Agree(r, pos, pos2),
         NEW a \in Nat, a = AudioOf(q, tg), NEW p \in Nat, Ordered(q, tg, pos, a, p)
  PROVE  /\ m <= a => AudioOf(r, tg2) = a - m /\ Ordered(r, tg2, pos2, a - m, p)
         /\ m > a => r = <<>> /\ AudioOf(r, tg2) = 0 /\ m = a + 1
<1>1. /\ Len(q) \in Nat /\ DOMAIN q = 1 .. Len(q) /\ Len(r) \in Nat /\ DOMAIN r = 1 .. Len(r) /\ m \in Nat
      /\ r = <<>> <=> Len(r) = 0
      /\ Len(q) = m + Len(r) /\ \A k \in 1 .. Len(r) : r[k] = q[m + k]
  BY DEF Rest
<1>2. a <= Len(q) /\ a >= Len(q) - 1
  BY <1>1 DEF AudioOf
<1>3. \A k \in 1 .. Len(r) : (tg2[r[k]] \in EndTags <=> m + k > a) /\ pos2[r[k]] = p - a + (m + k) - 1
  <2> TAKE k \in 1 .. Len(r)
  <2>1. m + k \in 1 .. Len(q) /\ r[k] = q[m + k]
    BY <1>1
  <2>2. (tg[q[m + k]] \in EndTags <=> m + k > a) /\ pos[q[m + k]] = p - a + (m + k) - 1
    BY <1>1, <2>1 DEF Ordered
  <2>3. tg2[r[k]] = tg[r[k]] /\ pos2[r[k]] = pos[r[k]]
    BY DEF Agree
  <2> QED
    BY <2>1, <2>2, <2>3
<1>4. ASSUME m <= a PROVE AudioOf(r, tg2) = a - m /\ Ordered(r, tg2, pos2, a - m, p)
  <2>1. Ordered(r, tg2, pos2, a - m, p)
    BY <1>1, <1>3, <1>4 DEF Ordered
  <2>2. CASE Len(r) = 0
    BY <1>1, <1>2, <1>4, <2>1, <2>2 DEF AudioOf
  <2>3. CASE Len(r) > 0
    <3>1. tg2[r[Len(r)]] \in EndTags <=> Len(q) > a
      BY <1>1, <1>3, <2>3
    <3> QED
      BY <1>1, <1>2, <1>4, <2>1, <2>3, <3>1 DEF AudioOf
  <2> QED
    BY <1>1, <2>1, <2>2, <2>3
<1>5. ASSUME m > a PROVE r = <<>> /\ AudioOf(r, tg2) = 0 /\ m = a + 1
  <2>1. Len(r) = 0 /\ m = a + 1
    BY <1>1, <1>2, <1>5
  <2> QED
    BY <1>1, <2>1 DEF AudioOf
<1> QED
  BY <1>4, <1>5

-----------------------------------------------------------------------------
(* The blocks on their way, under the operations of the pipe.              *)

Held == IF consumed = None THEN <<>> ELSE <<consumed>>

LEMMA InFlightSeq ==
  ASSUME Owned, buffer_pool_
  PROVE  /\ InFlight \in Seq(Items) /\ InFlight = (recycler_queue_ \o Held) \o consumer_queue_
         /\ Range(InFlight) = (Range(recycler_queue_) \cup Hand(consumed)) \cup Range(consumer_queue_)
         /\ Held \in Seq(Items)
<1>1. InFlight = (recycler_queue_ \o Held) \o consumer_queue_
  BY DEF InFlight, Held
<1>2. /\ recycler_queue_ \in Seq(Items) /\ IsInjective(recycler_queue_)
      /\ consumer_queue_ \in Seq(Items) /\ IsInjective(consumer_queue_)
  BY DEF Owned, PipeTypeOK, BlockHasOneOwner
<1>3. Held \in Seq(Items) /\ IsInjective(Held) /\ Range(Held) = Hand(consumed)
  <2>1. CASE consumed = None
    BY <2>1, EmptyRange DEF Held, Hand
  <2>2. CASE consumed # None
    <3>1. consumed \in Items /\ Held = <<consumed>>
      BY <2>2 DEF Held, Owned, PipeTypeOK
    <3>2. Held \in Seq(Items) /\ Len(Held) = 1 /\ DOMAIN Held = 1 .. 1 /\ Held[1] = consumed
      BY <3>1
    <3> HIDE DEF Held
    <3>3. IsInjective(Held) /\ Range(Held) = {consumed}
      BY <3>2 DEF IsInjective, Range
    <3> QED
      BY <2>2, <3>2, <3>3 DEF Hand
  <2> QED
    BY <2>1, <2>2
<1>4. Range(recycler_queue_) \cap Range(Held) = {}
  BY <1>3 DEF Owned, BlockHasOneOwner
<1> DEFINE front == recycler_queue_ \o Held
<1>5. front \in Seq(Items) /\ IsInjective(front) /\ Range(front) = Range(recycler_queue_) \cup Hand(consumed)
  BY <1>2, <1>3, <1>4, ConcatRange
<1>6. Range(front) \cap Range(consumer_queue_) = {}
  BY <1>5 DEF Owned, BlockHasOneOwner
<1> HIDE DEF front
<1>7. front \o consumer_queue_ \in Seq(Items) /\ Range(front \o consumer_queue_) = Range(front) \cup Range(consumer_queue_)
  BY <1>2, <1>5, <1>6, ConcatRange
<1> QED
  BY <1>1, <1>3, <1>5, <1>7 DEF front

LEMMA LockConsumeKeepsFlight ==
  ASSUME Owned, consumed = None, lockConsume
  PROVE  InFlight' = InFlight
<1>1. buffer_pool_ /\ consumer_queue_ # <<>> /\ consumer_queue_ \in Seq(Items) /\ recycler_queue_ \in Seq(Items)
  BY DEF Owned, PipeTypeOK, lockConsume
<1>2. /\ recycler_queue_' = recycler_queue_ /\ consumed' = Head(consumer_queue_) /\ consumer_queue_' = Tail(consumer_queue_)
      /\ Head(consumer_queue_) \in Items
  BY <1>1 DEF lockConsume
<1>3. consumed' # None
  BY <1>2
<1>4. Held = <<>> /\ Held' = <<consumed'>>
  BY <1>3 DEF Held
<1>5. ASSUME NEW r \in Seq(Items), NEW c \in Seq(Items), c # <<>>
      PROVE  (r \o <<>>) \o c = (r \o <<Head(c)>>) \o Tail(c)
  <2>1. Head(c) \in Items /\ Tail(c) \in Seq(Items) /\ <<Head(c)>> \in Seq(Items)
    BY <1>5
  <2>2. r \o <<>> = r
    BY <1>5
  <2> DEFINE u == <<Head(c)>>
             v == Tail(c)
  <2>3. (r \o u) \o v = r \o (u \o v)
    <3>1. u \in Seq(Items) /\ v \in Seq(Items)
      BY <2>1
    <3> HIDE DEF u, v
    <3> QED
      BY <1>5, <3>1, ConcatAssociative
  <2>4. u \o v = c
    BY <1>5, <2>1
  <2> QED
    BY <2>2, <2>3, <2>4
<1>6. (recycler_queue_ \o <<>>) \o consumer_queue_ = (recycler_queue_ \o <<Head(consumer_queue_)>>) \o Tail(consumer_queue_)
  BY <1>1, <1>5
<1> QED
  BY <1>2, <1>3, <1>6 DEF InFlight

LEMMA UnlockConsumeKeepsFlight ==
  ASSUME Owned, consumed # None, NEW t, unlockConsume(t)
  PROVE  InFlight' = InFlight
<1>1. consumed \in Items /\ consumer_queue_ \in Seq(Items) /\ recycler_queue_ \in Seq(Items)
  BY DEF Owned, PipeTypeOK
<1>2. recycler_queue_' = Append(recycler_queue_, consumed) /\ consumed' = None /\ consumer_queue_' = consumer_queue_
  BY DEF unlockConsume
<1>3. (recycler_queue_ \o <<consumed>>) = Append(recycler_queue_, consumed) \o <<>>
  BY <1>1
<1> QED
  BY <1>2, <1>3 DEF InFlight

LEMMA UnlockProduceAppends ==
  ASSUME Owned, produced # None, NEW t, NEW p, unlockProduce(t, p)
  PROVE  /\ InFlight' = Append(InFlight, produced) /\ produced \notin Range(InFlight) /\ produced \in Items
         /\ buffer_pool_
<1>1. buffer_pool_ /\ produced \in Items
  BY DEF Owned, PipeTypeOK, BlockHasOneOwner
<1>2. /\ recycler_queue_' = recycler_queue_ /\ consumed' = consumed
      /\ consumer_queue_' = Append(consumer_queue_, produced)
  BY DEF unlockProduce
<1>3. Held' = Held
  BY <1>2 DEF Held
<1>4. produced \notin Range(InFlight)
  BY <1>1, InFlightSeq DEF Owned, BlockHasOneOwner, Hand
<1>5. recycler_queue_ \o Held \in Seq(Items) /\ consumer_queue_ \in Seq(Items)
  <2>1. recycler_queue_ \in Seq(Items) /\ Held \in Seq(Items) /\ consumer_queue_ \in Seq(Items)
    BY <1>1, InFlightSeq DEF Owned, PipeTypeOK
  <2> QED
    BY <2>1
<1>6. ASSUME NEW u \in Seq(Items), NEW v \in Seq(Items), NEW x \in Items
      PROVE  u \o Append(v, x) = Append(u \o v, x)
  BY <1>6
<1>7. InFlight' = (recycler_queue_' \o Held') \o consumer_queue_'
  BY DEF InFlight, Held
<1>8. InFlight = (recycler_queue_ \o Held) \o consumer_queue_
  BY DEF InFlight, Held
<1> QED
  BY <1>1, <1>2, <1>3, <1>4, <1>5, <1>6, <1>7, <1>8, Zenon

-----------------------------------------------------------------------------
(* What is on its way belongs to what was pushed and what has come back;   *)
(* once the end is on its way, has been mixed or has come back, the        *)
(* decoder calls back no more.                                             *)

Flow(q, tg, pos, pushed, current, completed) ==
  /\ Ordered(q, tg, pos, AudioOf(q, tg), pushed)
  /\ pushed >= AudioOf(q, tg)
  /\ completed => q = <<>> /\ current = pushed
  /\ ~completed => current = IF pushed = AudioOf(q, tg) THEN 0 ELSE pushed - AudioOf(q, tg) - 1

NoMore == decoder_end_of_data_detected_ /\ callback = "none"

OrderInv ==
  /\ ~in_port_user /\ ~out_port_user => last_consumer_tag_ = "none"
  /\ in_port_user =>
       /\ Flow(InFlight, tag, position_msec, pushed_block_count_, current_position_msec_, playback_completed_)
       /\ AudioOf(InFlight, tag) # Len(InFlight) \/ playback_completed_ => NoMore
       /\ last_consumer_tag_ \in EndTags => NoMore /\ consumer_queue_ = <<>>

LEMMA OrderImpliesHeard == OrderInv => HeardInOrder
<1>1. AudioInFlight = AudioOf(InFlight, tag)
  BY DEF AudioInFlight, AudioOf, IsEnd, EndTags
<1>2. \A a : Ordered(InFlight, tag, position_msec, a, pushed_block_count_) <=>
             \A k \in DOMAIN InFlight : (IsEnd(InFlight[k]) <=> k > a)
                                        /\ position_msec[InFlight[k]] = pushed_block_count_ - a + k - 1
  BY DEF Ordered, IsEnd, EndTags
<1> HIDE DEF InFlight
<1> QED
  BY <1>1, <1>2 DEF OrderInv, Flow, HeardInOrder, NoMore, EndTags

LEMMA OrderInit == Init => OrderInv
  BY DEF Init, PipeInit, OrderInv

\* whatever leaves the blocks on their way, the ports and the positions alone
LEMMA OrderUntouched ==
  ASSUME OrderInv,
         UNCHANGED <<consumer_queue_, recycler_queue_, info, consumed, last_consumer_tag_, ports, pushed_block_count_,
                     current_position_msec_, playback_completed_>>,
         NoMore => NoMore'
  PROVE  OrderInv'
<1>1. InFlight' = InFlight /\ AudioOf(InFlight, tag)' = AudioOf(InFlight, tag)
  BY DEF info, InFlight, AudioOf
<1>2. UNCHANGED <<tag, position_msec, consumer_queue_, in_port_user, out_port_user>>
  BY DEF info, ports
<1> HIDE DEF InFlight, AudioOf
<1> QED
  BY <1>1, <1>2 DEF OrderInv, Flow, Ordered

\* a new source finds the pipe empty, and no tag of the one before
LEMMA OrderInitialize ==
  ASSUME Control, OrderInv, initialize
  PROVE  OrderInv'
<1>1. ~buffer_pool_ /\ consumed = None /\ last_consumer_tag_ = "none"
  BY DEF initialize, Control, PortControl, OrderInv
<1>2. /\ consumer_queue_' = <<>> /\ recycler_queue_' = <<>> /\ consumed' = None
      /\ in_port_user' /\ last_consumer_tag_' = "none"
      /\ pushed_block_count_' = 0 /\ current_position_msec_' = 0 /\ playback_completed_' = FALSE
  BY <1>1 DEF initialize, setInPortUser, allocateBuffer, setupQueues, hands
<1>3. InFlight' = <<>>
  <2>1. <<>> \o <<>> \o <<>> = <<>>
    OBVIOUS
  <2> QED
    BY <1>2, <2>1 DEF InFlight
<1>4. \A tg, pos : AudioOf(<<>>, tg) = 0 /\ Len(<<>>) = 0 /\ Flow(<<>>, tg, pos, 0, 0, FALSE)
  <2>1. DOMAIN <<>> = {} /\ Len(<<>>) = 0
    OBVIOUS
  <2> QED
    BY <2>1 DEF AudioOf, Flow, Ordered
<1>5. /\ Flow(InFlight', tag', position_msec', pushed_block_count_', current_position_msec_', playback_completed_')
      /\ AudioOf(InFlight', tag') = Len(InFlight')
  BY <1>2, <1>3, <1>4
<1> QED
  BY <1>2, <1>5 DEF OrderInv, EndTags

\* the ports
LEMMA OrderClearInPort ==
  ASSUME OrderInv, clearInPortUser
  PROVE  OrderInv'
  BY DEF OrderInv, clearInPortUser, clearPort

LEMMA OrderOutPort ==
  ASSUME Control, OrderInv, UNCHANGED source, UNCHANGED callback,
         (in_port_user /\ setOutPortUser) \/ clearOutPortUser
  PROVE  OrderInv'
<1>1. in_port_user => buffer_pool_
  BY DEF Control, PortControl
<1>2. CASE in_port_user
  <2>1. UNCHANGED <<queues, info, consumed, last_consumer_tag_, in_port_user>>
    BY <1>1, <1>2 DEF setOutPortUser, clearOutPortUser, allocateBuffer, clearPort, hands
  <2>2. InFlight' = InFlight /\ AudioOf(InFlight, tag)' = AudioOf(InFlight, tag)
    BY <2>1 DEF queues, info, InFlight, AudioOf
  <2>3. UNCHANGED <<tag, position_msec, consumer_queue_>>
    BY <2>1 DEF queues, info
  <2> HIDE DEF InFlight, AudioOf
  <2> QED
    BY <1>2, <2>1, <2>2, <2>3 DEF OrderInv, Flow, Ordered, NoMore, source
<1>3. CASE ~in_port_user
  BY <1>3 DEF OrderInv, clearOutPortUser, clearPort
<1> QED
  BY <1>2, <1>3

\* the mixer takes the oldest block: what is on its way stays the same
LEMMA OrderMixLock ==
  ASSUME Owned, OrderInv, mixLock
  PROVE  OrderInv'
<1>1. InFlight' = InFlight
  BY LockConsumeKeepsFlight DEF mixLock
<1>2. consumer_queue_ # <<>>
  BY DEF mixLock, lockConsume
<1>3. UNCHANGED <<tag, position_msec, last_consumer_tag_, in_port_user, out_port_user, source, callback>>
  BY DEF mixLock, lockConsume, info, ports, thread
<1>4. AudioOf(InFlight, tag)' = AudioOf(InFlight, tag)
  BY <1>1, <1>3 DEF AudioOf
<1> HIDE DEF InFlight, AudioOf
<1> QED
  BY <1>1, <1>2, <1>3, <1>4 DEF OrderInv, Flow, Ordered, NoMore, source

\* it gives the block back: the end stays an end, and was the last block
LEMMA OrderMixUnlock ==
  ASSUME Control, Owned, OrderInv, mixUnlock
  PROVE  OrderInv'
<1> DEFINE x == consumed
<1>1. PICK t \in {tag[x]} \cup (IF tag[x] = "end" THEN {"end_with_loop_point"} ELSE {}) : unlockConsume(t)
  BY DEF mixUnlock
<1>2. x # None /\ x \in Items /\ buffer_pool_ /\ tag \in [Items -> Tags]
  BY DEF mixUnlock, Owned, PipeTypeOK, BlockHasOneOwner
<1>3. InFlight' = InFlight
  BY <1>1, <1>2, UnlockConsumeKeepsFlight
<1>4. /\ tag' = [tag EXCEPT ![x] = t] /\ last_consumer_tag_' = t
      /\ UNCHANGED <<consumer_queue_, position_msec, in_port_user, out_port_user, source, callback>>
  BY <1>1 DEF mixUnlock, unlockConsume, ports, thread
<1>5. t \in EndTags <=> tag[x] \in EndTags
  BY <1>1 DEF EndTags
<1>6. InFlight \in Seq(Items) /\ InFlight = (recycler_queue_ \o Held) \o consumer_queue_
  BY <1>2, InFlightSeq
<1>7. \A i \in Items : tag'[i] \in EndTags <=> tag[i] \in EndTags
  BY <1>2, <1>4, <1>5
<1>8. /\ Len(InFlight) \in Nat /\ DOMAIN InFlight = 1 .. Len(InFlight)
      /\ \A k \in 1 .. Len(InFlight) : InFlight[k] \in Items
  BY <1>6
<1>9. AudioOf(InFlight', tag') = AudioOf(InFlight, tag)
  <2> HIDE DEF InFlight, x
  <2>1. CASE Len(InFlight) > 0
    <3>1. InFlight[Len(InFlight)] \in Items
      BY <1>8, <2>1
    <3> QED
      BY <1>3, <1>7, <3>1 DEF AudioOf
  <2>2. CASE ~(Len(InFlight) > 0)
    BY <1>3, <2>2 DEF AudioOf
  <2> QED
    BY <2>1, <2>2
<1>10. \A pos, a, p : Ordered(InFlight, tag, pos, a, p) <=> Ordered(InFlight', tag', pos, a, p)
  <2> HIDE DEF InFlight, x
  <2> QED
    BY <1>3, <1>7, <1>8 DEF Ordered
<1>11. out_port_user
  BY <1>2 DEF Control, PortControl
<1>12. ASSUME in_port_user, t \in EndTags PROVE NoMore /\ consumer_queue_ = <<>>
  <2>1. consumer_queue_ \in Seq(Items) /\ recycler_queue_ \in Seq(Items)
    BY DEF Owned, PipeTypeOK
  <2>2. Held = <<x>>
    BY <1>2 DEF Held
  <2> DEFINE m == Len(recycler_queue_) + 1
  <2>3. m \in 1 .. Len(InFlight) /\ InFlight[m] = x /\ Len(InFlight) = m + Len(consumer_queue_) /\ m \in Nat
    <3> HIDE DEF x, InFlight
    <3>1. recycler_queue_ \o <<x>> = Append(recycler_queue_, x)
      BY <1>2, <2>1
    <3>2. /\ Append(recycler_queue_, x) \in Seq(Items) /\ Len(Append(recycler_queue_, x)) = m /\ m \in Nat
          /\ Append(recycler_queue_, x)[m] = x
      BY <1>2, <2>1
    <3> DEFINE front == Append(recycler_queue_, x)
    <3>3. InFlight = front \o consumer_queue_
      BY <1>6, <2>2, <3>1
    <3> HIDE DEF front
    <3>4. front \in Seq(Items) /\ Len(front) = m /\ front[m] = x /\ m > 0
      BY <2>1, <3>2 DEF front
    <3>5. /\ Len(front \o consumer_queue_) = Len(front) + Len(consumer_queue_)
          /\ \A i \in 1 .. Len(front) + Len(consumer_queue_) : i <= Len(front) => (front \o consumer_queue_)[i] = front[i]
          /\ Len(consumer_queue_) \in Nat
      <4>1. ASSUME NEW u \in Seq(Items), NEW v \in Seq(Items)
            PROVE  /\ Len(u \o v) = Len(u) + Len(v) /\ Len(v) \in Nat
                   /\ \A i \in 1 .. Len(u) + Len(v) : i <= Len(u) => (u \o v)[i] = u[i]
        BY <4>1
      <4> QED
        BY <2>1, <3>4, <4>1
    <3> HIDE DEF m
    <3> QED
      BY <3>2, <3>3, <3>4, <3>5
  <2>4. tag[InFlight[m]] \in EndTags
    BY <1>5, <1>12, <2>3
  <2>5. Ordered(InFlight, tag, position_msec, AudioOf(InFlight, tag), pushed_block_count_)
    BY <1>12 DEF OrderInv, Flow
  <2>6. m > AudioOf(InFlight, tag)
    <3> HIDE DEF InFlight, AudioOf, m
    <3> QED
      BY <1>8, <2>3, <2>4, <2>5 DEF Ordered
  <2>7. AudioOf(InFlight, tag) \in {Len(InFlight), Len(InFlight) - 1}
    BY DEF AudioOf
  <2> HIDE DEF InFlight, AudioOf, m
  <2>8. AudioOf(InFlight, tag) # Len(InFlight) /\ Len(consumer_queue_) = 0
    BY <1>8, <2>1, <2>3, <2>6, <2>7
  <2> QED
    BY <1>12, <2>1, <2>8 DEF OrderInv
<1> HIDE DEF InFlight, AudioOf
<1> QED
  BY <1>3, <1>4, <1>9, <1>10, <1>11, <1>12 DEF OrderInv, Flow, NoMore, source

LEMMA AppendKeepsOrder ==
  ASSUME NEW q \in Seq(Items), NEW x \in Items, x \notin Range(q),
         NEW tg \in [Items -> Tags], NEW pos \in [Items -> Nat], NEW p \in Nat, NEW t \in Tags,
         AudioOf(q, tg) = Len(q), Ordered(q, tg, pos, Len(q), p)
  PROVE  LET r == Append(q, x)
             tg2 == [tg EXCEPT ![x] = t]
             pos2 == [pos EXCEPT ![x] = p]
         IN /\ Len(q) \in Nat /\ Len(r) = Len(q) + 1
            /\ t \notin EndTags => AudioOf(r, tg2) = Len(q) + 1 /\ Ordered(r, tg2, pos2, Len(q) + 1, p + 1)
            /\ t \in EndTags => AudioOf(r, tg2) = Len(q) /\ Ordered(r, tg2, pos2, Len(q), p)
  BY AppendOrdered

\* the decoder's thread adds a block of audio data
LEMMA OrderPushAudio ==
  ASSUME Control, BlockHasOneOwner, OrderInv, pushConvertedDataIntoProducerQueue
  PROVE  OrderInv'
<1> DEFINE q == InFlight
           x == produced
           p == pushed_block_count_
<1>0. Owned /\ in_port_user /\ ~NoMore /\ produced # None /\ unlockProduce("audio", p)
  BY DEF Owned, Control, CallbackControl, pushConvertedDataIntoProducerQueue, NoMore
<1>1. InFlight' = Append(q, x) /\ x \notin Range(q) /\ x \in Items /\ buffer_pool_
  BY <1>0, UnlockProduceAppends
<1>2. q \in Seq(Items)
  BY <1>0, <1>1, InFlightSeq
<1>3. tag \in [Items -> Tags] /\ position_msec \in [Items -> Nat] /\ p \in Nat
  BY DEF Control, PipeTypeOK
<1>4. /\ tag' = [tag EXCEPT ![x] = "audio"] /\ position_msec' = [position_msec EXCEPT ![x] = p]
      /\ UNCHANGED <<last_consumer_tag_, in_port_user, current_position_msec_, playback_completed_>>
      /\ pushed_block_count_' = p + 1
  BY <1>0 DEF unlockProduce, ports, pushConvertedDataIntoProducerQueue
<1>5. /\ AudioOf(q, tag) = Len(q) /\ ~playback_completed_ /\ last_consumer_tag_ \notin EndTags
      /\ Flow(q, tag, position_msec, p, current_position_msec_, playback_completed_)
  BY <1>0 DEF OrderInv
<1>6. Ordered(q, tag, position_msec, Len(q), p) /\ p >= Len(q) /\ current_position_msec_ = IF p = Len(q) THEN 0 ELSE p - Len(q) - 1
  BY <1>5 DEF Flow
<1>7. "audio" \notin EndTags /\ "audio" \in Tags
  BY DEF EndTags, Tags
<1> HIDE DEF q, x, p
<1>71. /\ q \in Seq(Items) /\ x \in Items /\ x \notin Range(q) /\ tag \in [Items -> Tags] /\ position_msec \in [Items -> Nat]
       /\ p \in Nat /\ "audio" \in Tags /\ AudioOf(q, tag) = Len(q) /\ Ordered(q, tag, position_msec, Len(q), p)
  BY <1>1, <1>2, <1>3, <1>5, <1>6, <1>7
<1>72. /\ Len(q) \in Nat /\ Len(Append(q, x)) = Len(q) + 1
       /\ "audio" \notin EndTags =>
            /\ AudioOf(Append(q, x), [tag EXCEPT ![x] = "audio"]) = Len(q) + 1
            /\ Ordered(Append(q, x), [tag EXCEPT ![x] = "audio"], [position_msec EXCEPT ![x] = p], Len(q) + 1, p + 1)
  BY <1>71, AppendKeepsOrder
<1>8. /\ Len(q) \in Nat /\ Len(InFlight') = Len(q) + 1
      /\ AudioOf(InFlight', tag') = Len(q) + 1 /\ Ordered(InFlight', tag', position_msec', Len(q) + 1, p + 1)
  BY <1>1, <1>4, <1>7, <1>72
<1>9. Flow(InFlight', tag', position_msec', pushed_block_count_', current_position_msec_', playback_completed_')
  BY <1>3, <1>4, <1>5, <1>6, <1>8 DEF Flow
<1> HIDE DEF InFlight
<1> QED
  BY <1>0, <1>4, <1>5, <1>8, <1>9 DEF OrderInv

\* and then, once, the end
LEMMA OrderPushEvent ==
  ASSUME Control, BlockHasOneOwner, OrderInv, pushEvent
  PROVE  OrderInv'
<1> DEFINE q == InFlight
           x == produced
           p == pushed_block_count_
<1>0. Owned /\ in_port_user /\ ~NoMore /\ produced # None /\ unlockProduce("end", p) /\ NoMore'
  BY DEF Owned, Control, CallbackControl, pushEvent, NoMore, source
<1>1. InFlight' = Append(q, x) /\ x \notin Range(q) /\ x \in Items /\ buffer_pool_
  BY <1>0, UnlockProduceAppends
<1>2. q \in Seq(Items)
  BY <1>0, <1>1, InFlightSeq
<1>3. tag \in [Items -> Tags] /\ position_msec \in [Items -> Nat] /\ p \in Nat
  BY DEF Control, PipeTypeOK
<1>4. /\ tag' = [tag EXCEPT ![x] = "end"] /\ position_msec' = [position_msec EXCEPT ![x] = p]
      /\ UNCHANGED <<last_consumer_tag_, in_port_user, current_position_msec_, playback_completed_>>
      /\ pushed_block_count_' = p
  BY <1>0 DEF unlockProduce, ports, pushEvent, source
<1>5. /\ AudioOf(q, tag) = Len(q) /\ ~playback_completed_ /\ last_consumer_tag_ \notin EndTags
      /\ Flow(q, tag, position_msec, p, current_position_msec_, playback_completed_)
  BY <1>0 DEF OrderInv
<1>6. Ordered(q, tag, position_msec, Len(q), p) /\ p >= Len(q) /\ current_position_msec_ = IF p = Len(q) THEN 0 ELSE p - Len(q) - 1
  BY <1>5 DEF Flow
<1>7. "end" \in EndTags /\ "end" \in Tags
  BY DEF EndTags, Tags
<1> HIDE DEF q, x, p
<1>71. /\ q \in Seq(Items) /\ x \in Items /\ x \notin Range(q) /\ tag \in [Items -> Tags] /\ position_msec \in [Items -> Nat]
       /\ p \in Nat /\ "end" \in Tags /\ AudioOf(q, tag) = Len(q) /\ Ordered(q, tag, position_msec, Len(q), p)
  BY <1>1, <1>2, <1>3, <1>5, <1>6, <1>7
<1>72. /\ AudioOf(Append(q, x), [tag EXCEPT ![x] = "end"]) = Len(q)
       /\ Ordered(Append(q, x), [tag EXCEPT ![x] = "end"], [position_msec EXCEPT ![x] = p], Len(q), p)
  BY <1>7, <1>71, AppendKeepsOrder
<1>8. AudioOf(InFlight', tag') = Len(q) /\ Ordered(InFlight', tag', position_msec', Len(q), p)
  BY <1>1, <1>4, <1>72
<1>9. Flow(InFlight', tag', position_msec', pushed_block_count_', current_position_msec_', playback_completed_')
  BY <1>3, <1>4, <1>5, <1>6, <1>8 DEF Flow
<1> HIDE DEF InFlight
<1> QED
  BY <1>0, <1>4, <1>5, <1>9 DEF OrderInv

\* the handler thread takes what has been mixed
LEMMA RecycleDrops ==
  ASSUME Owned, buffer_pool_, recycleAll, recycler_queue_ # <<>>
  PROVE  LET m == Len(recycler_queue_) IN
         /\ InFlight \in Seq(Items) /\ InFlight' \in Seq(Items) /\ m \in 1 .. Len(InFlight)
         /\ Len(InFlight) = m + Len(InFlight')
         /\ \A k \in 1 .. m : recycler_queue_[k] = InFlight[k]
         /\ \A k \in 1 .. Len(InFlight') :
              /\ InFlight'[k] = InFlight[m + k]
              /\ tag'[InFlight'[k]] = tag[InFlight'[k]] /\ position_msec'[InFlight'[k]] = position_msec[InFlight'[k]]
<1> DEFINE q == InFlight
           rest == Held \o consumer_queue_
           m == Len(recycler_queue_)
<1>1. /\ recycler_queue_ \in Seq(Items) /\ consumer_queue_ \in Seq(Items) /\ Held \in Seq(Items)
      /\ q \in Seq(Items) /\ q = (recycler_queue_ \o Held) \o consumer_queue_
  BY InFlightSeq DEF Owned, PipeTypeOK
<1>2. q = recycler_queue_ \o rest /\ rest \in Seq(Items)
  <2> HIDE DEF q
  <2> QED
    BY <1>1, ConcatAssociative
<1>3. recycler_queue_' = <<>> /\ consumed' = consumed /\ consumer_queue_' = consumer_queue_
  BY DEF recycleAll, hands
<1>4. InFlight' = rest
  <2>1. InFlight' = (recycler_queue_' \o Held') \o consumer_queue_' /\ Held' = Held
    BY <1>3 DEF InFlight, Held
  <2>2. <<>> \o Held = Held
    BY <1>1
  <2> QED
    BY <1>3, <2>1, <2>2
<1>5. m \in Nat /\ m > 0 /\ DOMAIN recycler_queue_ = 1 .. m
  BY <1>1
<1>6. Range(rest) \cap Range(recycler_queue_) = {}
  <2>1. Range(rest) \subseteq Range(Held) \cup Range(consumer_queue_)
    <3>1. ASSUME NEW u \in Seq(Items), NEW v \in Seq(Items), NEW k \in DOMAIN (u \o v)
          PROVE  (u \o v)[k] \in Range(u) \cup Range(v)
      <4>1. /\ k \in 1 .. Len(u) + Len(v) /\ DOMAIN u = 1 .. Len(u) /\ DOMAIN v = 1 .. Len(v) /\ Len(u) \in Nat /\ Len(v) \in Nat
            /\ (u \o v)[k] = IF k <= Len(u) THEN u[k] ELSE v[k - Len(u)]
        BY <3>1
      <4>2. CASE k <= Len(u)
        BY <4>1, <4>2 DEF Range
      <4>3. CASE k > Len(u)
        <5>1. k - Len(u) \in DOMAIN v /\ (u \o v)[k] = v[k - Len(u)]
          BY <4>1, <4>3
        <5> QED
          BY <5>1 DEF Range
      <4> QED
        BY <4>1, <4>2, <4>3
    <3> QED
      BY <1>1, <3>1 DEF Range
  <2>2. Range(Held) \subseteq Hand(consumed)
    BY DEF Held, Range, Hand
  <2> HIDE DEF rest
  <2> QED
    BY <2>1, <2>2 DEF Owned, BlockHasOneOwner
<1>7. /\ tag' = [i \in Items |-> IF i \in Range(recycler_queue_) THEN "none" ELSE tag[i]]
      /\ position_msec' = [i \in Items |-> IF i \in Range(recycler_queue_) THEN 0 ELSE position_msec[i]]
  BY DEF recycleAll
<1> HIDE DEF q, rest, m
<1>8. /\ Len(rest) \in Nat /\ Len(q) = m + Len(rest)
      /\ \A k \in 1 .. m : q[k] = recycler_queue_[k]
      /\ \A k \in 1 .. Len(rest) : q[m + k] = rest[k] /\ rest[k] \in Items /\ rest[k] \in Range(rest)
  <2>1. ASSUME NEW u \in Seq(Items), NEW v \in Seq(Items)
        PROVE  /\ Len(u \o v) = Len(u) + Len(v) /\ Len(v) \in Nat
               /\ \A k \in 1 .. Len(u) : (u \o v)[k] = u[k]
               /\ \A k \in 1 .. Len(v) : (u \o v)[Len(u) + k] = v[k] /\ v[k] \in Items /\ v[k] \in Range(v)
    BY <2>1 DEF Range
  <2> QED
    BY <1>1, <1>2, <2>1 DEF m
<1>9. \A k \in 1 .. Len(rest) : tag'[rest[k]] = tag[rest[k]] /\ position_msec'[rest[k]] = position_msec[rest[k]]
  BY <1>6, <1>7, <1>8
<1>10. m \in 1 .. Len(q)
  BY <1>5, <1>8
<1> QED
  BY <1>1, <1>2, <1>4, <1>8, <1>9, <1>10 DEF q, m

\* the handler thread takes back what was mixed, and reads the position off it
LEMMA OrderPoll ==
  ASSUME Control, BlockHasOneOwner, OrderInv, poll
  PROVE  OrderInv'
<1> DEFINE q == InFlight
           m == Len(recycler_queue_)
           p == pushed_block_count_
           a == AudioOf(q, tag)
<1>0. /\ Owned /\ buffer_pool_ /\ recycleAll /\ recycler_queue_ # <<>> /\ recycler_queue_ \in Seq(Items)
      /\ UNCHANGED <<last_consumer_tag_, in_port_user, out_port_user, consumer_queue_, pushed_block_count_>>
      /\ p \in Nat /\ (NoMore <=> NoMore')
  BY DEF Owned, Control, PipeTypeOK, poll, recycleAll, ports, thread, NoMore
<1>1. CASE ~in_port_user
  BY <1>0, <1>1 DEF OrderInv
<1>2. CASE in_port_user
  <2>1. /\ q \in Seq(Items) /\ InFlight' \in Seq(Items) /\ m \in 1 .. Len(q)
        /\ Len(q) = m + Len(InFlight')
        /\ \A k \in 1 .. m : recycler_queue_[k] = q[k]
        /\ \A k \in 1 .. Len(InFlight') :
             /\ InFlight'[k] = q[m + k]
             /\ tag'[InFlight'[k]] = tag[InFlight'[k]] /\ position_msec'[InFlight'[k]] = position_msec[InFlight'[k]]
    BY <1>0, RecycleDrops
  <2>2. /\ Flow(q, tag, position_msec, p, current_position_msec_, playback_completed_)
        /\ a # Len(q) \/ playback_completed_ => NoMore
        /\ last_consumer_tag_ \in EndTags => NoMore /\ consumer_queue_ = <<>>
    BY <1>2 DEF OrderInv
  <2>3. /\ current_position_msec_' = position_msec[recycler_queue_[m]]
        /\ playback_completed_' = (playback_completed_ \/ Recycled(EndTags))
    BY <1>2 DEF poll, onRecycleItem, EndTags
  <2>4. DOMAIN recycler_queue_ = 1 .. m
    BY <1>0
  <2> HIDE DEF q, m, p
  <2>5. a \in Nat /\ a <= Len(q) /\ Len(q) - 1 <= a /\ Len(q) \in Nat /\ DOMAIN q = 1 .. Len(q) /\ m \in Nat /\ m > 0 /\ m <= Len(q)
    BY <2>1 DEF AudioOf
  <2> HIDE DEF a
  <2>6. /\ ~playback_completed_ /\ p >= a /\ Ordered(q, tag, position_msec, a, p)
    <3>1. q # <<>>
      BY <2>5
    <3> QED
      BY <2>2, <3>1 DEF Flow, a
  <2>7. \A k \in 1 .. m : (tag[recycler_queue_[k]] \in EndTags <=> k > a) /\ position_msec[recycler_queue_[k]] = p - a + k - 1
    <3> TAKE k \in 1 .. m
    <3>1. k \in 1 .. Len(q) /\ recycler_queue_[k] = q[k]
      BY <2>1, <2>5
    <3> QED
      BY <2>5, <2>6, <3>1 DEF Ordered
  <2>8. playback_completed_' <=> m > a
    <3>1. Recycled(EndTags) <=> \E k \in 1 .. m : k > a
      BY <2>4, <2>7 DEF Recycled
    <3>2. (\E k \in 1 .. m : k > a) <=> m > a
      BY <2>5
    <3> QED
      BY <2>3, <2>6, <3>1, <3>2
  <2>9. current_position_msec_' = p - a + m - 1
    BY <2>3, <2>5, <2>7
  <2>10. /\ m <= a => AudioOf(InFlight', tag') = a - m /\ Ordered(InFlight', tag', position_msec', a - m, p)
         /\ m > a => InFlight' = <<>> /\ AudioOf(InFlight', tag') = 0 /\ m = a + 1
    <3> DEFINE r == InFlight'
    <3>1. r \in Seq(Items) /\ Rest(q, m, r)
      BY <2>1 DEF Rest
    <3>2. Agree(r, tag, tag') /\ Agree(r, position_msec, position_msec')
      BY <2>1 DEF Agree
    <3>3. a = AudioOf(q, tag) /\ a \in Nat /\ p \in Nat /\ m \in 1 .. Len(q) /\ q \in Seq(Items)
      BY <1>0, <2>1, <2>5 DEF a
    <3> HIDE DEF r
    <3>4. Ordered(q, tag, position_msec, a, p)
      BY <2>6
    <3>5. /\ m <= a => AudioOf(r, tag') = a - m /\ Ordered(r, tag', position_msec', a - m, p)
          /\ m > a => r = <<>> /\ AudioOf(r, tag') = 0 /\ m = a + 1
      BY <3>1, <3>2, <3>3, <3>4, DropOrdered
    <3> QED
      BY <3>5 DEF r
  <2>11. Flow(InFlight', tag', position_msec', p, current_position_msec_', playback_completed_')
    <3> DEFINE r == InFlight'
    <3>1. CASE m <= a
      <4>1. AudioOf(r, tag') = a - m /\ Ordered(r, tag', position_msec', a - m, p) /\ ~playback_completed_'
        BY <2>5, <2>8, <2>10, <3>1
      <4>2. p >= a - m /\ p # a - m /\ current_position_msec_' = p - (a - m) - 1
        BY <1>0, <2>5, <2>6, <2>9, <3>1
      <4> HIDE DEF r
      <4>3. Flow(r, tag', position_msec', p, current_position_msec_', playback_completed_')
        BY <4>1, <4>2 DEF Flow
      <4> QED
        BY <4>3 DEF r
    <3>2. CASE m > a
      <4>1. r = <<>> /\ AudioOf(r, tag') = 0 /\ playback_completed_' /\ p >= 0 /\ current_position_msec_' = p
        BY <1>0, <2>5, <2>8, <2>9, <2>10, <3>2
      <4>2. DOMAIN r = {}
        BY <4>1
      <4> HIDE DEF r
      <4>3. Flow(r, tag', position_msec', p, current_position_msec_', playback_completed_')
        BY <4>1, <4>2 DEF Flow, Ordered
      <4> QED
        BY <4>3 DEF r
    <3> QED
      BY <2>5, <3>1, <3>2
  <2>12. AudioOf(InFlight', tag') # Len(InFlight') \/ playback_completed_' => NoMore
    <3>1. CASE m > a
      BY <2>2, <2>5, <3>1 DEF a
    <3>2. CASE m <= a
      <4>1. Len(InFlight') = Len(q) - m /\ AudioOf(InFlight', tag') = a - m /\ ~playback_completed_'
        BY <2>1, <2>5, <2>8, <2>10, <3>2
      <4> QED
        BY <2>2, <2>5, <4>1 DEF a
    <3> QED
      BY <2>5, <3>1, <3>2
  <2>13. pushed_block_count_' = p
    BY <1>0 DEF p
  <2> QED
    BY <1>0, <1>2, <2>2, <2>11, <2>12, <2>13 DEF OrderInv
<1> QED
  BY <1>1, <1>2

\* every step
LEMMA OrderStep ==
  ASSUME Control, BlockHasOneOwner, OrderInv, Next
  PROVE  OrderInv'
<1>0. Owned
  BY DEF Owned, Control
<1>1. ASSUME UNCHANGED <<pipe, pushed_block_count_, current_position_msec_, playback_completed_>>, NoMore => NoMore'
      PROVE  OrderInv'
  BY <1>1, OrderUntouched DEF pipe, queues, hands
<1>2. CASE initialize
  BY <1>2, OrderInitialize
<1>3. CASE releaseDecoderResources
  BY <1>1, <1>3, OrderClearInPort DEF releaseDecoderResources, source, thread, NoMore
<1>4. CASE destroy
  BY <1>4, OrderClearInPort DEF destroy
<1>5. CASE poll
  BY <1>5, OrderPoll
<1>6. CASE attachSource \/ detached
  BY <1>6, OrderOutPort DEF attachSource, detached, thread
<1>7. CASE mixLock
  BY <1>0, <1>7, OrderMixLock
<1>8. CASE mixUnlock
  BY <1>0, <1>8, OrderMixUnlock
<1>9. CASE pushConvertedDataIntoProducerQueue
  BY <1>9, OrderPushAudio
<1>10. CASE pushEvent
  BY <1>10, OrderPushEvent
<1>11. CASE waitForProducerQueueAudioDataItem
  BY <1>11, OrderUntouched DEF waitForProducerQueueAudioDataItem, lockProduce, source, thread, NoMore, queues, info, ports
<1>12. CASE waitForProducerQueueEventItem
  <2>1. /\ ~NoMore
        /\ UNCHANGED <<consumer_queue_, recycler_queue_, info, consumed, last_consumer_tag_, ports, pushed_block_count_,
                       current_position_msec_, playback_completed_>>
    BY <1>12 DEF waitForProducerQueueEventItem, AtEvent, lockProduce, source, NoMore, pipe, queues, hands
  <2> QED
    BY <2>1, OrderUntouched
<1>13. CASE startPreparing \/ pollQuietPhase \/ prepareInternalMakeDecoder \/ prepareInternalStartDecoderPrefetch
            \/ prepareInternalPollDecoderPrefetch \/ prepareInternalStartQueuePrefetch
            \/ prepareInternalPollQueuePrefetch \/ prefetchEventCallback
  BY <1>1, <1>13 DEF startPreparing, pollQuietPhase, prepareInternalCleanup,
     prepareInternalSetupCallbacks, prepareInternalExtractMetadata, prepareInternalCreateAudioDataAdapter,
     prepareInternalSeekToInitialPosition, prepareInternalSetupDecoderQueue, Quiet, prepareInternalMakeDecoder,
     prepareInternalStartDecoderPrefetch, prepareInternalPollDecoderPrefetch,
     prepareInternalStartQueuePrefetch, prepareInternalPollQueuePrefetch, prefetchEventCallback, thread, NoMore
<1>14. CASE start \/ pause \/ stopDecoder \/ mixDetach
  BY <1>1, <1>14 DEF start, pause, stopDecoder, mixDetach, source, thread, NoMore
<1>15. CASE decodeBufferQueueCallback \/ decoderPlayCallback \/ waitForRoom \/ waitTimeout \/ pushReturns
  BY <1>1, <1>15 DEF decodeBufferQueueCallback, decoderPlayCallback, waitForRoom, waitTimeout, pushReturns,
     Pushing, source, NoMore
<1> QED
  BY <1>2, <1>3, <1>4, <1>5, <1>6, <1>7, <1>8, <1>9, <1>10, <1>11, <1>12, <1>13, <1>14, <1>15
  DEF Next, HandlerNext, MixerNext, DecoderNext, CallbackNext

\* Whatever decoder, mixer and handler thread do in turn, a source's blocks come back complete and in
\* order, the end last and once; the position is that of the last block that came back, playback is
\* completed when all of them have, and no end of an earlier source is taken for this one's.
THEOREM HeardInOrderHolds == Spec => []HeardInOrder
<1>1. Init => OrderInv
  BY OrderInit
<1>2. Inductive /\ OrderInv /\ [Next]_vars => OrderInv'
  <2> SUFFICES ASSUME Inductive, OrderInv, [Next]_vars PROVE OrderInv'
    OBVIOUS
  <2>1. CASE Next
    BY <2>1, OrderStep DEF Inductive
  <2>2. CASE UNCHANGED vars
    BY <2>2, OrderUntouched DEF vars, pipe, queues, hands, source, thread, NoMore
  <2> QED
    BY <2>1, <2>2
<1> QED
  BY <1>1, <1>2, InductiveHolds, OrderImpliesHeard, PTL DEF Spec
=============================================================================
