--------------------- MODULE AudioPipeBufferQueueBinder ---------------------
(***************************************************************************)
(* What ties the buffer queue of the OpenSL player to the sink pipe        *)
(* (AudioPipeBufferQueueBinder.cpp): the blocks the player has got and     *)
(* those it had not played when it was stopped, both kept in rings         *)
(* (AudioSinkDataPipeReadBlockQueue.cpp).  The player's queue holds what   *)
(* wait_completion_blocks_ holds.  One block is never given back: it is    *)
(* silent, and is played when the pipe has nothing.                        *)
(***************************************************************************)
EXTENDS AudioSinkDataPipe

\* a ring of the given capacity
enqueue(ring, block, capacity) == IF Len(ring) >= capacity THEN ring ELSE Append(ring, block)
\* all but one block of a ring, in their order; a recursive function, which the proofs can unfold
Without(ring, block) ==
  LET kept[n \in 0..Len(ring)] ==
        IF n = 0 THEN <<>>
        ELSE IF ring[n] = block THEN kept[n - 1] ELSE Append(kept[n - 1], ring[n])
  IN kept[Len(ring)]

\* initialize(): the silent block is the first of the pipe, written and read at once
getSilentReadBlock(pipe) == Head(pipe.producer)
bound(pipe) == lockRead(unlockWrite(lockWrite(pipe), getSilentReadBlock(pipe)))
initializeBinder(pipe, num_blocks) ==
  [wait_completion |-> <<>>, pooled |-> <<>>, wait_buffering |-> 0,
   silent |-> getSilentReadBlock(pipe), num_blocks |-> num_blocks]

\* mutant: nothing is queued, the first callback is waited for in vain
beforeStart_Empty(binder) ==
  [binder EXCEPT !.wait_completion = <<>>,
                 !.wait_buffering = IF binder.pooled = <<>> THEN 1 ELSE 0]
beforeStart(binder) ==
  [binder EXCEPT !.wait_completion = [i \in 1..(binder.num_blocks \div 2) |-> binder.silent],
                 !.wait_buffering = IF binder.pooled = <<>> THEN 1 ELSE 0]

\* mutant: the blocks that were queued are forgotten
afterStop_Drops(binder) == [binder EXCEPT !.pooled = <<>>, !.wait_completion = <<>>]
afterStop(binder) ==
  [binder EXCEPT !.pooled = Without(binder.wait_completion, binder.silent),
                 !.wait_completion = <<>>]

\* handleCallback(): the first half gives the played block back ...
Completed(binder) == Head(binder.wait_completion)
returned(binder, pipe) ==
  IF Completed(binder) = binder.silent THEN pipe ELSE unlockRead(pipe, Completed(binder))

\* ... the second finds the next one: pooled, from the pipe, or silence
NextBlock(binder, pipe) ==
  IF binder.pooled # <<>> THEN [from |-> "pool", block |-> Head(binder.pooled)]
  ELSE IF CanLockRead(pipe, binder.wait_buffering) THEN [from |-> "pipe", block |-> Head(pipe.consumer)]
  ELSE [from |-> "nowhere", block |-> binder.silent]

handleCallback(binder, pipe) ==
  LET left == returned(binder, pipe)
      next == NextBlock(binder, left)
  IN [pipe   |-> IF next.from = "pipe" THEN lockRead(left) ELSE left,
      taken  |-> next.from # "nowhere",
      binder |-> [binder EXCEPT
                    !.wait_completion = enqueue(Tail(@), next.block, binder.num_blocks),
                    !.pooled = IF next.from = "pool" THEN Tail(@) ELSE @,
                    !.wait_buffering = IF next.from = "nowhere" THEN 1 ELSE 0]]
=============================================================================
