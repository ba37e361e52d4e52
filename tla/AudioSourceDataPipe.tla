------------------------ MODULE AudioSourceDataPipe ------------------------
(***************************************************************************)
(* One source pipe (AudioSourceDataPipe.cpp) and the two ports the pipe    *)
(* manager hands out (AudioDataPipeManager.cpp): blocks go round from the  *)
(* producer queue, filled by the decoder, to the consumer queue, mixed by  *)
(* the mixer thread, to the recycler queue, emptied by the handler thread. *)
(* Each queue has one writer and one reader, in different threads; a lock  *)
(* that takes a block out of a queue, and an unlock that puts it in the    *)
(* next one, are one step each.  The buffers exist while a port is used.   *)
(***************************************************************************)
EXTENDS Naturals, Sequences, Functions

CONSTANTS NumItems,   \* num_buffer_items: 2 up to MAX_BUFFER_ITEM_COUNT
          None

ASSUME ItemsAssumption == NumItems \in Nat \ {0, 1}

Items == 1 .. NumItems

ASSUME NoneAssumption == None \notin Items

VARIABLES
  producer_queue_, consumer_queue_, recycler_queue_,   \* of items, oldest first
  tag,                 \* what each item carries
  position_msec,       \* ... and its position, as a number of blocks
  buffer_pool_,        \* the buffers are allocated
  last_consumer_tag_,  \* of the last block the mixer gave back
  produced,            \* the block locked by the decoder
  consumed,            \* the block locked by the mixer
  in_port_user,        \* a source holds the in port
  out_port_user        \* the mixer holds the out port

queues == <<producer_queue_, consumer_queue_, recycler_queue_>>
info   == <<tag, position_msec>>
hands  == <<produced, consumed>>
ports  == <<in_port_user, out_port_user>>
pipe   == <<queues, info, buffer_pool_, last_consumer_tag_, hands, ports>>

Tags == {"none", "audio", "end", "end_with_loop_point"}

setupQueues ==
  /\ producer_queue_' = [i \in Items |-> i]
  /\ consumer_queue_' = <<>>
  /\ recycler_queue_' = <<>>
  /\ tag' = [i \in Items |-> "none"]
  /\ position_msec' = [i \in Items |-> 0]

PipeInit ==
  /\ producer_queue_ = <<>> /\ consumer_queue_ = <<>> /\ recycler_queue_ = <<>>
  /\ tag = [i \in Items |-> "none"]
  /\ position_msec = [i \in Items |-> 0]
  /\ buffer_pool_ = FALSE
  /\ last_consumer_tag_ = "none"
  /\ produced = None /\ consumed = None
  /\ in_port_user = FALSE /\ out_port_user = FALSE

-----------------------------------------------------------------------------
(* The ports.  The pipe's memory follows their use: allocated with the     *)
(* first user, released with the last.                                     *)

allocateBuffer ==
  IF buffer_pool_ THEN UNCHANGED <<queues, info, buffer_pool_>>
                  ELSE setupQueues /\ buffer_pool_' = TRUE

\* the queues of a released pipe keep what they held
releaseBuffer == buffer_pool_' = FALSE /\ UNCHANGED <<queues, info>>

\* mutant: a port that is cleared does not look at the other one
clearPort_IgnoresOther(other_port) ==
  /\ releaseBuffer
  /\ last_consumer_tag_' = "none"
\* what is left to do when a port is cleared, by the use of the other port
clearPort(other_port) ==
  IF other_port THEN UNCHANGED <<queues, info, buffer_pool_, last_consumer_tag_>>
                ELSE releaseBuffer /\ last_consumer_tag_' = "none"

setInPortUser ==
  /\ ~in_port_user
  /\ allocateBuffer
  /\ in_port_user' = TRUE
  /\ UNCHANGED <<last_consumer_tag_, hands, out_port_user>>

clearInPortUser ==
  /\ in_port_user
  /\ clearPort(out_port_user)
  /\ in_port_user' = FALSE
  /\ UNCHANGED <<hands, out_port_user>>

setOutPortUser ==
  /\ ~out_port_user
  /\ allocateBuffer
  /\ out_port_user' = TRUE
  /\ UNCHANGED <<last_consumer_tag_, hands, in_port_user>>

clearOutPortUser ==
  /\ out_port_user
  /\ clearPort(in_port_user)
  /\ out_port_user' = FALSE
  /\ UNCHANGED <<hands, in_port_user>>

-----------------------------------------------------------------------------
(* The locks.                                                              *)

CanProduce(min_remains) == buffer_pool_ /\ Len(producer_queue_) > min_remains

lockProduce ==
  /\ produced' = Head(producer_queue_)
  /\ producer_queue_' = Tail(producer_queue_)
  /\ UNCHANGED <<consumer_queue_, recycler_queue_, info, buffer_pool_, last_consumer_tag_, consumed, ports>>

\* mutant: the newest block goes in front
unlockProduce_Front(t, p) ==
  /\ buffer_pool_
  /\ consumer_queue_' = <<produced>> \o consumer_queue_
  /\ tag' = [tag EXCEPT ![produced] = t]
  /\ position_msec' = [position_msec EXCEPT ![produced] = p]
  /\ produced' = None
  /\ UNCHANGED <<producer_queue_, recycler_queue_, buffer_pool_, last_consumer_tag_, consumed, ports>>
unlockProduce(t, p) ==
  /\ buffer_pool_
  /\ consumer_queue_' = Append(consumer_queue_, produced)
  /\ tag' = [tag EXCEPT ![produced] = t]
  /\ position_msec' = [position_msec EXCEPT ![produced] = p]
  /\ produced' = None
  /\ UNCHANGED <<producer_queue_, recycler_queue_, buffer_pool_, last_consumer_tag_, consumed, ports>>

\* the mixer asks for audio data and for events in turn, and takes either
lockConsume ==
  /\ buffer_pool_ /\ consumer_queue_ # <<>>
  /\ consumed' = Head(consumer_queue_)
  /\ consumer_queue_' = Tail(consumer_queue_)
  /\ UNCHANGED <<producer_queue_, recycler_queue_, info, buffer_pool_, last_consumer_tag_, produced, ports>>

unlockConsume(t) ==
  /\ buffer_pool_
  /\ recycler_queue_' = Append(recycler_queue_, consumed)
  /\ tag' = [tag EXCEPT ![consumed] = t]
  /\ last_consumer_tag_' = t
  /\ consumed' = None
  /\ UNCHANGED <<producer_queue_, consumer_queue_, position_msec, buffer_pool_, produced, ports>>

\* every recycled block is locked, shown to the listener, cleared and unlocked
recycleAll ==
  /\ producer_queue_' = producer_queue_ \o recycler_queue_
  /\ recycler_queue_' = <<>>
  /\ tag' = [i \in Items |-> IF i \in Range(recycler_queue_) THEN "none" ELSE tag[i]]
  /\ position_msec' = [i \in Items |-> IF i \in Range(recycler_queue_) THEN 0 ELSE position_msec[i]]
  /\ UNCHANGED <<consumer_queue_, buffer_pool_, last_consumer_tag_, hands, ports>>

-----------------------------------------------------------------------------
PipeTypeOK ==
  /\ producer_queue_ \in Seq(Items) /\ consumer_queue_ \in Seq(Items) /\ recycler_queue_ \in Seq(Items)
  /\ tag \in [Items -> Tags] /\ position_msec \in [Items -> Nat]
  /\ buffer_pool_ \in BOOLEAN /\ last_consumer_tag_ \in Tags
  /\ produced \in Items \cup {None} /\ consumed \in Items \cup {None}
  /\ in_port_user \in BOOLEAN /\ out_port_user \in BOOLEAN

Hand(h) == {h} \ {None}

\* While the buffers exist every block is in exactly one place - one of the
\* three queues, the decoder's hands or the mixer's - and nobody holds a
\* block of buffers that have been released.
BlockHasOneOwner ==
  /\ buffer_pool_ =>
       /\ IsInjective(producer_queue_) /\ IsInjective(consumer_queue_) /\ IsInjective(recycler_queue_)
       /\ Range(producer_queue_) \cap Range(consumer_queue_) = {}
       /\ Range(producer_queue_) \cap Range(recycler_queue_) = {}
       /\ Range(consumer_queue_) \cap Range(recycler_queue_) = {}
       /\ LET queued == Range(producer_queue_) \cup Range(consumer_queue_) \cup Range(recycler_queue_)
          IN  /\ Hand(produced) \cap queued = {} /\ Hand(consumed) \cap queued = {}
              /\ Hand(produced) \cap Hand(consumed) = {}
              /\ queued \cup Hand(produced) \cup Hand(consumed) = Items
  /\ produced # None \/ consumed # None => buffer_pool_
=============================================================================
