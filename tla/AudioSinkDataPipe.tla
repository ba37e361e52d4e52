------------------------- MODULE AudioSinkDataPipe -------------------------
(***************************************************************************)
(* The pipe from the mixer to the sink (AudioSinkDataPipe.cpp): blocks go  *)
(* round from the producer queue, filled by the mixer thread, to the       *)
(* consumer queue, read by the sink.  A pipe is a record of both queues; a *)
(* lock takes a block out of one, the unlock puts it in the other.  The    *)
(* memory is there as long as a port of the pipe is used, as it is while   *)
(* an audio system lives.                                                  *)
(***************************************************************************)
EXTENDS Naturals, Sequences

setupQueues(num_blocks) == [producer |-> [i \in 1..num_blocks |-> i], consumer |-> <<>>]

\* min_remains blocks have to stay in the queue
CanLockWrite(pipe, min_remains) == Len(pipe.producer) > min_remains
lockWrite(pipe) == [pipe EXCEPT !.producer = Tail(@)]

unlockWrite(pipe, block) == [pipe EXCEPT !.consumer = Append(@, block)]

CanLockRead(pipe, min_remains) == Len(pipe.consumer) > min_remains
lockRead(pipe) == [pipe EXCEPT !.consumer = Tail(@)]
unlockRead(pipe, block) == [pipe EXCEPT !.producer = Append(@, block)]
=============================================================================
