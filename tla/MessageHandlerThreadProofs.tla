--------------------- MODULE MessageHandlerThreadProofs ---------------------
(***************************************************************************)
(* TLAPS proofs about MessageHandlerThread, for every value of its         *)
(* constants.                                                              *)
(***************************************************************************)
EXTENDS MessageHandlerThread, TLAPS

USE MaxContinuousAssumption, HandlerResultsAssumption, MaxPostsAssumption

\* Every reachable state is well typed: in particular the count of messages
\* taken in a row never exceeds kMaxContinuousMessageReceive.
THEOREM TypeCorrect == Spec => []TypeOK
<1>1. Init => TypeOK
  <2> SUFFICES ASSUME Init PROVE TypeOK
    OBVIOUS
  <2>1. <<>> \in Seq(Nat)
    OBVIOUS
  <2>2. msg_queue_ \in Seq(Nat)
    BY <2>1, Zenon DEF Init
  <2>3. /\ continuous_received_count \in 0..MaxContinuous
        /\ posted \in 0..MaxPosts
        /\ received \in Nat
        /\ overdue \in Nat
    BY DEF Init
  <2>4. QED
    BY <2>2, <2>3, Zenon DEF Init, TypeOK, Pcs
<1>2. TypeOK /\ [Next]_vars => TypeOK'
  <2> SUFFICES ASSUME TypeOK, [Next]_vars PROVE TypeOK'
    OBVIOUS
  <2>1. CASE start
    BY <2>1 DEF TypeOK, Due, Pcs, start
  <2>2. CASE post
    BY <2>2 DEF TypeOK, Due, Pcs, post, Notify
  <2>3. CASE join
    BY <2>3 DEF TypeOK, Due, Pcs, join, Notify
  <2>4. CASE joinReturn
    BY <2>4 DEF TypeOK, Due, Pcs, joinReturn
  <2>5. CASE enterThread
    BY <2>5 DEF TypeOK, Due, Pcs, enterThread
  <2>6. CASE checkStop
    BY <2>6 DEF TypeOK, Due, Pcs, checkStop
  <2>7. CASE receiveStop
    BY <2>7 DEF TypeOK, Due, Pcs, receiveStop
  <2>8. CASE receiveEnough
    BY <2>8 DEF TypeOK, Due, Pcs, receiveEnough
  <2>9. CASE receiveMessage
    BY <2>9 DEF TypeOK, Due, Pcs, receiveMessage, TakeFront
  <2>10. CASE receiveNothing
    BY <2>10 DEF TypeOK, Due, Pcs, receiveNothing
  <2>11. CASE waitTimeout
    BY <2>11 DEF TypeOK, Due, Pcs, waitTimeout
  <2>12. CASE spuriousWakeup
    BY <2>12 DEF TypeOK, Due, Pcs, spuriousWakeup
  <2>13. CASE handleMessage
    BY <2>13 DEF TypeOK, Due, Pcs, handleMessage
  <2>14. CASE pollHandler
    BY <2>14 DEF TypeOK, Due, Pcs, pollHandler
  <2>15. CASE leaveThread
    BY <2>15 DEF TypeOK, Due, Pcs, leaveThread
  <2>16. CASE timePasses
    BY <2>16 DEF TypeOK, Due, Pcs, timePasses
  <2>17. CASE terminated
    BY <2>17 DEF TypeOK, Due, Pcs, terminated, vars
  <2>18. CASE UNCHANGED vars
    BY <2>18 DEF TypeOK, Due, Pcs, vars
  <2> QED
    BY <2>1, <2>2, <2>3, <2>4, <2>5, <2>6, <2>7, <2>8, <2>9, <2>10, <2>11, <2>12, <2>13, <2>14, <2>15, <2>16, <2>17, <2>18 DEF Next, Worker, Receive
<1>3. QED
  BY <1>1, <1>2, PTL DEF Spec

\* FIFO, exactly once: the queue always holds the consecutive ordinals that
\* were posted and not yet taken.
THEOREM FifoHolds == Spec => []Fifo
<1>1. Init => Fifo
  BY DEF Init, Fifo
<1>2. TypeOK /\ Fifo /\ [Next]_vars => Fifo'
  <2> SUFFICES ASSUME TypeOK, Fifo, [Next]_vars PROVE Fifo'
    OBVIOUS
  <2>1. CASE start
    BY <2>1 DEF TypeOK, Fifo, start
  <2>2. CASE post
    <3>1. /\ posted' = posted + 1
          /\ received' = received
          /\ msg_queue_' = Append(msg_queue_, posted + 1)
      BY <2>2 DEF post
    <3>2. /\ msg_queue_ \in Seq(Nat)
          /\ received \in Nat
          /\ posted \in Nat
      BY DEF TypeOK
    <3>3. Len(msg_queue_') = Len(msg_queue_) + 1
      BY <3>1, <3>2
    <3>4. ASSUME NEW i \in 1..Len(msg_queue_') PROVE msg_queue_'[i] = received + i
      <4>1. CASE i \in 1..Len(msg_queue_)
        BY <4>1, <3>1, <3>2 DEF Fifo
      <4>2. CASE i = Len(msg_queue_) + 1
        BY <4>2, <3>1, <3>2 DEF Fifo
      <4> QED
        BY <4>1, <4>2, <3>2, <3>3
    <3> QED
      BY <3>1, <3>2, <3>3, <3>4 DEF Fifo
  <2>3. CASE join
    BY <2>3 DEF TypeOK, Fifo, join, Notify
  <2>4. CASE joinReturn
    BY <2>4 DEF TypeOK, Fifo, joinReturn
  <2>5. CASE enterThread
    BY <2>5 DEF TypeOK, Fifo, enterThread
  <2>6. CASE checkStop
    BY <2>6 DEF TypeOK, Fifo, checkStop
  <2>7. CASE receiveStop
    BY <2>7 DEF TypeOK, Fifo, receiveStop
  <2>8. CASE receiveEnough
    BY <2>8 DEF TypeOK, Fifo, receiveEnough
  <2>9. CASE receiveMessage
    BY <2>9 DEF TypeOK, Fifo, receiveMessage, TakeFront
  <2>10. CASE receiveNothing
    BY <2>10 DEF TypeOK, Fifo, receiveNothing
  <2>11. CASE waitTimeout
    BY <2>11 DEF TypeOK, Fifo, waitTimeout
  <2>12. CASE spuriousWakeup
    BY <2>12 DEF TypeOK, Fifo, spuriousWakeup
  <2>13. CASE handleMessage
    BY <2>13 DEF TypeOK, Fifo, handleMessage
  <2>14. CASE pollHandler
    BY <2>14 DEF TypeOK, Fifo, pollHandler
  <2>15. CASE leaveThread
    BY <2>15 DEF TypeOK, Fifo, leaveThread
  <2>16. CASE timePasses
    BY <2>16 DEF TypeOK, Fifo, timePasses
  <2>17. CASE terminated
    BY <2>17 DEF TypeOK, Fifo, terminated, vars
  <2>18. CASE UNCHANGED vars
    BY <2>18 DEF TypeOK, Fifo, vars
  <2> QED
    BY <2>1, <2>2, <2>3, <2>4, <2>5, <2>6, <2>7, <2>8, <2>9, <2>10, <2>11, <2>12, <2>13, <2>14, <2>15, <2>16, <2>17, <2>18 DEF Next, Worker, Receive
<1>3. QED
  BY <1>1, <1>2, TypeCorrect, PTL DEF Spec

\* No lost wakeup: whoever posts or asks for the stop also wakes the worker.
THEOREM NoLostWakeup == Spec => []NoSleepWithWork
<1>1. Init => NoSleepWithWork
  BY DEF Init, NoSleepWithWork
<1>2. TypeOK /\ NoSleepWithWork /\ [Next]_vars => NoSleepWithWork'
  <2> SUFFICES ASSUME TypeOK, NoSleepWithWork, [Next]_vars PROVE NoSleepWithWork'
    OBVIOUS
  <2>1. CASE start
    BY <2>1 DEF TypeOK, Pcs, Due, NoSleepWithWork, start
  <2>2. CASE post
    BY <2>2 DEF TypeOK, Pcs, Due, NoSleepWithWork, post, Notify
  <2>3. CASE join
    BY <2>3 DEF TypeOK, Pcs, Due, NoSleepWithWork, join, Notify
  <2>4. CASE joinReturn
    BY <2>4 DEF TypeOK, Pcs, Due, NoSleepWithWork, joinReturn
  <2>5. CASE enterThread
    BY <2>5 DEF TypeOK, Pcs, Due, NoSleepWithWork, enterThread
  <2>6. CASE checkStop
    BY <2>6 DEF TypeOK, Pcs, Due, NoSleepWithWork, checkStop
  <2>7. CASE receiveStop
    BY <2>7 DEF TypeOK, Pcs, Due, NoSleepWithWork, receiveStop
  <2>8. CASE receiveEnough
    BY <2>8 DEF TypeOK, Pcs, Due, NoSleepWithWork, receiveEnough
  <2>9. CASE receiveMessage
    BY <2>9 DEF TypeOK, Pcs, Due, NoSleepWithWork, receiveMessage, TakeFront
  <2>10. CASE receiveNothing
    BY <2>10 DEF TypeOK, Pcs, Due, NoSleepWithWork, receiveNothing
  <2>11. CASE waitTimeout
    BY <2>11 DEF TypeOK, Pcs, Due, NoSleepWithWork, waitTimeout
  <2>12. CASE spuriousWakeup
    BY <2>12 DEF TypeOK, Pcs, Due, NoSleepWithWork, spuriousWakeup
  <2>13. CASE handleMessage
    BY <2>13 DEF TypeOK, Pcs, Due, NoSleepWithWork, handleMessage
  <2>14. CASE pollHandler
    BY <2>14 DEF TypeOK, Pcs, Due, NoSleepWithWork, pollHandler
  <2>15. CASE leaveThread
    BY <2>15 DEF TypeOK, Pcs, Due, NoSleepWithWork, leaveThread
  <2>16. CASE timePasses
    BY <2>16 DEF TypeOK, Pcs, Due, NoSleepWithWork, timePasses
  <2>17. CASE terminated
    BY <2>17 DEF TypeOK, Pcs, Due, NoSleepWithWork, terminated, vars
  <2>18. CASE UNCHANGED vars
    BY <2>18 DEF TypeOK, Pcs, Due, NoSleepWithWork, vars
  <2> QED
    BY <2>1, <2>2, <2>3, <2>4, <2>5, <2>6, <2>7, <2>8, <2>9, <2>10, <2>11, <2>12, <2>13, <2>14, <2>15, <2>16, <2>17, <2>18 DEF Next, Worker, Receive
<1>3. QED
  BY <1>1, <1>2, TypeCorrect, PTL DEF Spec

\* The worker has a place in its loop exactly when its thread exists.
LEMMA PlaceOfWorker == Spec => []PcInv
<1>1. Init => PcInv
  BY DEF Init, PcInv
<1>2. TypeOK /\ PcInv /\ [Next]_vars => PcInv'
  BY DEF TypeOK, Pcs, Due, PcInv, vars, Notify, TakeFront, Next, Worker, Receive,
     start, post, join, joinReturn, enterThread, checkStop, receiveStop, receiveEnough, receiveMessage,
     receiveNothing, waitTimeout, spuriousWakeup, handleMessage, pollHandler, leaveThread, timePasses, terminated
<1>3. QED
  BY <1>1, <1>2, TypeCorrect, PTL DEF Spec

\* The worker has a message in hand exactly while it handles it, and it is the
\* one whose turn it is.
LEMMA MessageInHand == Spec => []MsgInv
<1>1. Init => MsgInv
  BY DEF Init, MsgInv
<1>2. TypeOK /\ Fifo /\ PcInv /\ MsgInv /\ [Next]_vars => MsgInv'
  <2> SUFFICES ASSUME TypeOK, Fifo, PcInv, MsgInv, [Next]_vars PROVE MsgInv'
    OBVIOUS
  <2> USE DEF TypeOK, PcInv, MsgInv
  <2>1. CASE start
    BY <2>1 DEF start
  <2>2. CASE post
    BY <2>2 DEF post, Notify
  <2>3. CASE join
    BY <2>3 DEF join, Notify
  <2>4. CASE joinReturn
    BY <2>4 DEF joinReturn
  <2>5. CASE enterThread
    BY <2>5 DEF enterThread
  <2>6. CASE checkStop
    BY <2>6 DEF checkStop
  <2>7. CASE receiveStop
    BY <2>7 DEF receiveStop
  <2>8. CASE receiveEnough
    BY <2>8 DEF receiveEnough
  <2>9. CASE receiveMessage
    BY <2>9 DEF receiveMessage, TakeFront, Fifo
  <2>10. CASE receiveNothing
    BY <2>10 DEF receiveNothing
  <2>11. CASE waitTimeout
    BY <2>11 DEF waitTimeout
  <2>12. CASE spuriousWakeup
    BY <2>12 DEF spuriousWakeup
  <2>13. CASE handleMessage
    BY <2>13 DEF handleMessage
  <2>14. CASE pollHandler
    BY <2>14 DEF pollHandler
  <2>15. CASE leaveThread
    BY <2>15 DEF leaveThread
  <2>16. CASE timePasses
    BY <2>16 DEF timePasses
  <2>17. CASE terminated
    BY <2>17 DEF terminated, vars
  <2>18. CASE UNCHANGED vars
    BY <2>18 DEF vars
  <2> QED
    BY <2>1, <2>2, <2>3, <2>4, <2>5, <2>6, <2>7, <2>8, <2>9, <2>10, <2>11, <2>12, <2>13, <2>14, <2>15, <2>16, <2>17, <2>18 DEF Next, Worker, Receive
<1>3. QED
  BY <1>1, <1>2, TypeCorrect, FifoHolds, PlaceOfWorker, PTL DEF Spec

\* The debt of messages taken while a poll is due is covered by the counter
\* that forces the poll.
THEOREM PollBound == Spec => []PollNotStarved
<1>1. Init => DebtInv
  BY DEF Init, DebtInv
<1>2. TypeOK /\ PcInv /\ DebtInv /\ [Next]_vars => DebtInv'
  <2> SUFFICES ASSUME TypeOK, PcInv, DebtInv, [Next]_vars PROVE DebtInv'
    OBVIOUS
  <2>1. CASE start
    BY <2>1 DEF TypeOK, Pcs, Due, PcInv, DebtInv, start
  <2>2. CASE post
    BY <2>2 DEF TypeOK, Pcs, Due, DebtInv, post, Notify
  <2>3. CASE join
    BY <2>3 DEF TypeOK, Pcs, Due, DebtInv, join, Notify
  <2>4. CASE joinReturn
    BY <2>4 DEF TypeOK, Pcs, Due, DebtInv, joinReturn
  <2>5. CASE enterThread
    BY <2>5 DEF TypeOK, Pcs, Due, DebtInv, enterThread
  <2>6. CASE checkStop
    BY <2>6 DEF TypeOK, Pcs, Due, DebtInv, checkStop
  <2>7. CASE receiveStop
    BY <2>7 DEF TypeOK, Pcs, Due, DebtInv, receiveStop
  <2>8. CASE receiveEnough
    BY <2>8 DEF TypeOK, Pcs, Due, DebtInv, receiveEnough
  <2>9. CASE receiveMessage
    BY <2>9 DEF TypeOK, Pcs, Due, DebtInv, receiveMessage, TakeFront
  <2>10. CASE receiveNothing
    BY <2>10 DEF TypeOK, Pcs, Due, DebtInv, receiveNothing
  <2>11. CASE waitTimeout
    BY <2>11 DEF TypeOK, Pcs, Due, DebtInv, waitTimeout
  <2>12. CASE spuriousWakeup
    BY <2>12 DEF TypeOK, Pcs, Due, DebtInv, spuriousWakeup
  <2>13. CASE handleMessage
    BY <2>13 DEF TypeOK, Pcs, Due, DebtInv, handleMessage
  <2>14. CASE pollHandler
    BY <2>14 DEF TypeOK, Pcs, Due, DebtInv, pollHandler
  <2>15. CASE leaveThread
    BY <2>15 DEF TypeOK, Pcs, Due, DebtInv, leaveThread
  <2>16. CASE timePasses
    BY <2>16 DEF TypeOK, Pcs, Due, DebtInv, timePasses
  <2>17. CASE terminated
    BY <2>17 DEF TypeOK, Pcs, Due, DebtInv, terminated, vars
  <2>18. CASE UNCHANGED vars
    BY <2>18 DEF TypeOK, Pcs, Due, DebtInv, vars
  <2> QED
    BY <2>1, <2>2, <2>3, <2>4, <2>5, <2>6, <2>7, <2>8, <2>9, <2>10, <2>11, <2>12, <2>13, <2>14, <2>15, <2>16, <2>17, <2>18 DEF Next, Worker, Receive
<1>3. DebtInv => PollNotStarved
  BY DEF DebtInv, PollNotStarved
<1>4. QED
  BY <1>1, <1>2, <1>3, TypeCorrect, PlaceOfWorker, PTL DEF Spec

\* Every step of the thread is a step of the FIFO channel or leaves it alone:
\* the message the worker takes from the head of msg_queue_ is the oldest one
\* that was posted and not yet handed over, and the handler has it alone.
THEOREM ImplementsChannel == Spec => ChannelSpec
<1>1. Init => Channel!Init
  BY DEF Init, Channel!Init
<1>2. TypeOK /\ PcInv /\ MsgInv /\ Fifo /\ [Next]_vars => [Channel!Next]_Channel!vars
  <2> SUFFICES ASSUME TypeOK, PcInv, MsgInv, Fifo, [Next]_vars PROVE [Channel!Next]_Channel!vars
    OBVIOUS
  <2> USE DEF TypeOK, Pcs, PcInv, MsgInv, Channel!vars, Channel!Next
  <2>1. CASE start
    BY <2>1 DEF start, Channel!Start
  <2>2. CASE post
    BY <2>2 DEF post, Notify, Channel!Accept
  <2>3. CASE join
    BY <2>3 DEF join, Notify
  <2>4. CASE joinReturn
    BY <2>4 DEF joinReturn
  <2>5. CASE enterThread
    BY <2>5 DEF enterThread
  <2>6. CASE checkStop
    BY <2>6 DEF checkStop, Channel!Stop
  <2>7. CASE receiveStop
    BY <2>7 DEF receiveStop, Channel!Stop
  <2>8. CASE receiveEnough
    BY <2>8 DEF receiveEnough
  <2>9. CASE receiveMessage
    BY <2>9 DEF receiveMessage, TakeFront, Fifo, Channel!Deliver
  <2>10. CASE receiveNothing
    BY <2>10 DEF receiveNothing
  <2>11. CASE waitTimeout
    BY <2>11 DEF waitTimeout
  <2>12. CASE spuriousWakeup
    BY <2>12 DEF spuriousWakeup
  <2>13. CASE handleMessage
    BY <2>13 DEF handleMessage, Channel!Finish
  <2>14. CASE pollHandler
    BY <2>14 DEF pollHandler, Channel!Stop
  <2>15. CASE leaveThread
    BY <2>15 DEF leaveThread
  <2>16. CASE timePasses
    BY <2>16 DEF timePasses
  <2>17. CASE terminated
    BY <2>17 DEF terminated, vars
  <2>18. CASE UNCHANGED vars
    BY <2>18 DEF vars
  <2> QED
    BY <2>1, <2>2, <2>3, <2>4, <2>5, <2>6, <2>7, <2>8, <2>9, <2>10, <2>11, <2>12, <2>13, <2>14, <2>15, <2>16, <2>17, <2>18 DEF Next, Worker, Receive
<1>3. QED
  BY <1>1, <1>2, TypeCorrect, PlaceOfWorker, MessageInHand, FifoHolds, PTL DEF Spec, ChannelSpec, Channel!Spec

=============================================================================
