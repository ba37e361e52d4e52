------------------------ MODULE MessageHandlerThread ------------------------
(***************************************************************************)
(* The message handler thread (MessageHandlerThread.cpp): a queue guarded  *)
(* by a mutex, a condition variable, and one worker that either handles    *)
(* the next message or, when none came in time, polls the audio system.    *)
(*                                                                         *)
(* A critical section of mutex_ is one action.  A message is its ordinal   *)
(* in the order of post().  `due' abstracts what the handler's             *)
(* onDetermineWaitTimeout() will answer (AudioSystem.cpp:745): "now" is 0, *)
(* "later" is a positive timeout, "idle" is -1 (wait for ever).            *)
(***************************************************************************)
EXTENDS Naturals, Sequences

CONSTANTS MaxContinuous,    \* kMaxContinuousMessageReceive (4 in the code)
          HandlerResults,   \* what onHandleMessage/onReceiveMessageTimeout may return
          MaxPosts          \* bound: number of accepted posts

ASSUME MaxContinuousAssumption == MaxContinuous \in Nat \ {0}
ASSUME HandlerResultsAssumption == HandlerResults \subseteq BOOLEAN
ASSUME MaxPostsAssumption == MaxPosts \in Nat

VARIABLES pthread_,         \* the thread has been created
          msg_queue_,
          stop_req_,
          continuous_received_count,
          msg,              \* the message the worker has taken, 0 for none
          pc,               \* where the worker is
          timed,            \* the wait it is in has a timeout
          due,              \* what onDetermineWaitTimeout() answers
          joiner,           \* "no", "joining" or "joined"
          posted,           \* history: accepted posts
          received,         \* history: messages taken from the queue
          overdue           \* history: messages taken since a poll is due

vars == <<pthread_, msg_queue_, stop_req_, continuous_received_count, msg, pc,
          timed, due, joiner, posted, received, overdue>>

Due == {"idle", "later", "now"}
Pcs == {"off", "enter", "check", "receive", "wait", "handle", "poll", "leave", "done"}

Init ==
  /\ pthread_ = FALSE
  /\ msg_queue_ = <<>>
  /\ stop_req_ = FALSE
  /\ continuous_received_count = 0
  /\ msg = 0
  /\ pc = "off"
  /\ timed = FALSE
  /\ due \in Due
  /\ joiner = "no"
  /\ posted = 0
  /\ received = 0
  /\ overdue = 0

(***************************************************************************)
(* The callers' side.                                                      *)
(***************************************************************************)
\* cond_.notify_one(): the worker is the only thread that ever waits on cond_.
Notify == pc' = IF pc = "wait" THEN "receive" ELSE pc

start ==
  /\ ~pthread_
  /\ joiner = "no"
  /\ pthread_' = TRUE
  /\ pc' = "enter"
  /\ UNCHANGED <<msg, msg_queue_, stop_req_, continuous_received_count, timed, due,
                 joiner, posted, received, overdue>>

post_NoNotify ==
  /\ pthread_
  /\ posted < MaxPosts
  /\ posted' = posted + 1
  /\ msg_queue_' = Append(msg_queue_, posted + 1)
  /\ UNCHANGED <<msg, pthread_, stop_req_, continuous_received_count, pc, timed, due,
                 joiner, received, overdue>>

\* A post is refused, changing nothing, until the thread exists.
post ==
  /\ pthread_
  /\ posted < MaxPosts
  /\ posted' = posted + 1
  /\ msg_queue_' = Append(msg_queue_, posted + 1)
  /\ Notify
  /\ UNCHANGED <<msg, pthread_, stop_req_, continuous_received_count, timed, due,
                 joiner, received, overdue>>

join ==
  /\ joiner = "no"
  /\ stop_req_' = TRUE
  /\ Notify
  /\ joiner' = IF pthread_ THEN "joining" ELSE "joined"
  /\ UNCHANGED <<msg, pthread_, msg_queue_, continuous_received_count, timed, due,
                 posted, received, overdue>>

\* pthread_join() returns once the worker's function has returned.
joinReturn ==
  /\ joiner = "joining"
  /\ pc = "done"
  /\ joiner' = "joined"
  /\ UNCHANGED <<msg, pthread_, msg_queue_, stop_req_, continuous_received_count, pc,
                 timed, due, posted, received, overdue>>

(***************************************************************************)
(* The worker: threadMainLoop().                                           *)
(***************************************************************************)
enterThread ==
  /\ pc = "enter"
  /\ pc' = "check"
  /\ UNCHANGED <<msg, pthread_, msg_queue_, stop_req_, continuous_received_count,
                 timed, due, joiner, posted, received, overdue>>

checkStop ==
  /\ pc = "check"
  /\ pc' = IF stop_req_ THEN "leave" ELSE "receive"
  /\ UNCHANGED <<msg, pthread_, msg_queue_, stop_req_, continuous_received_count,
                 timed, due, joiner, posted, received, overdue>>

receiveStop ==
  /\ pc = "receive"
  /\ stop_req_
  /\ pc' = "leave"
  /\ UNCHANGED <<msg, pthread_, msg_queue_, stop_req_, continuous_received_count,
                 timed, due, joiner, posted, received, overdue>>

\* After MaxContinuous messages in a row the loop polls before the next one.
receiveEnough ==
  /\ pc = "receive"
  /\ ~stop_req_
  /\ continuous_received_count >= MaxContinuous
  /\ continuous_received_count' = 0
  /\ pc' = "poll"
  /\ UNCHANGED <<msg, pthread_, msg_queue_, stop_req_, timed, due, joiner, posted,
                 received, overdue>>

TakeFront_Back ==
  /\ msg_queue_ # <<>>
  /\ msg' = msg_queue_[Len(msg_queue_)]
  /\ msg_queue_' = SubSeq(msg_queue_, 1, Len(msg_queue_) - 1)
  /\ received' = received + 1
  /\ overdue' = IF due = "now" THEN overdue + 1 ELSE overdue
  /\ pc' = "handle"

TakeFront ==
  /\ msg_queue_ # <<>>
  /\ msg' = Head(msg_queue_)
  /\ msg_queue_' = Tail(msg_queue_)
  /\ received' = received + 1
  /\ overdue' = IF due = "now" THEN overdue + 1 ELSE overdue
  /\ pc' = "handle"

receiveMessage_NoLimit ==
  /\ pc = "receive"
  /\ ~stop_req_
  /\ TakeFront
  /\ continuous_received_count' = 0
  /\ UNCHANGED <<pthread_, stop_req_, timed, due, joiner, posted>>

receiveMessage ==
  /\ pc = "receive"
  /\ ~stop_req_
  /\ continuous_received_count < MaxContinuous
  /\ TakeFront
  /\ continuous_received_count' = continuous_received_count + 1
  /\ UNCHANGED <<pthread_, stop_req_, timed, due, joiner, posted>>

receiveNothing_AlwaysWait ==
  /\ pc = "receive"
  /\ ~stop_req_
  /\ continuous_received_count < MaxContinuous
  /\ msg_queue_ = <<>>
  /\ continuous_received_count' = 0
  /\ pc' = "wait"
  /\ timed' = FALSE
  /\ UNCHANGED <<msg, pthread_, msg_queue_, stop_req_, due, joiner, posted, received, overdue>>

\* The queue is empty: poll at once, or sleep until notified or timed out.
receiveNothing ==
  /\ pc = "receive"
  /\ ~stop_req_
  /\ continuous_received_count < MaxContinuous
  /\ msg_queue_ = <<>>
  /\ continuous_received_count' = 0
  /\ pc' = IF due = "now" THEN "poll" ELSE "wait"
  /\ timed' = (due = "later")
  /\ UNCHANGED <<msg, pthread_, msg_queue_, stop_req_, due, joiner, posted, received, overdue>>

\* wait_relative_ms() returned non-zero.
waitTimeout ==
  /\ pc = "wait"
  /\ timed
  /\ pc' = "poll"
  /\ UNCHANGED <<msg, pthread_, msg_queue_, stop_req_, continuous_received_count,
                 timed, due, joiner, posted, received, overdue>>

spuriousWakeup ==
  /\ pc = "wait"
  /\ pc' = "receive"
  /\ UNCHANGED <<msg, pthread_, msg_queue_, stop_req_, continuous_received_count,
                 timed, due, joiner, posted, received, overdue>>

\* A handler that returns false ends the loop; handling may start or stop
\* players and so change when the next poll is due.
handleMessage ==
  /\ pc = "handle"
  /\ \E r \in HandlerResults : pc' = IF r THEN "check" ELSE "leave"
  /\ msg' = 0
  /\ due' \in Due
  /\ overdue' = IF due' = "now" THEN overdue ELSE 0
  /\ UNCHANGED <<pthread_, msg_queue_, stop_req_, continuous_received_count,
                 timed, joiner, posted, received>>

\* poll() restarts the polling period, but the next one may be due at once: a
\* player that starts or stops during the poll sets audio_player_instance_updated_
\* (AudioSystem.cpp:1034), and a poll may take longer than its period (797).
pollHandler ==
  /\ pc = "poll"
  /\ \E r \in HandlerResults : pc' = IF r THEN "check" ELSE "leave"
  /\ due' \in Due
  /\ overdue' = 0
  /\ UNCHANGED <<msg, pthread_, msg_queue_, stop_req_, continuous_received_count,
                 timed, joiner, posted, received>>

leaveThread ==
  /\ pc = "leave"
  /\ pc' = "done"
  /\ UNCHANGED <<msg, pthread_, msg_queue_, stop_req_, continuous_received_count,
                 timed, due, joiner, posted, received, overdue>>

\* The polling period elapses.
timePasses ==
  /\ due = "later"
  /\ due' = "now"
  /\ UNCHANGED <<msg, pthread_, msg_queue_, stop_req_, continuous_received_count, pc,
                 timed, joiner, posted, received, overdue>>

Receive == receiveStop \/ receiveEnough \/ receiveMessage \/ receiveNothing

Worker == enterThread \/ checkStop \/ Receive \/ waitTimeout \/ handleMessage
          \/ pollHandler \/ leaveThread

\* The thread has ended or never existed: nothing is left to run.
terminated == (pc = "done" \/ joiner = "joined") /\ UNCHANGED vars

Next == start \/ post \/ join \/ joinReturn \/ Worker \/ spuriousWakeup \/ timePasses
        \/ terminated

Spec == Init /\ [][Next]_vars

\* The scheduler runs the worker and the joining thread, and time goes on.
Fairness == WF_vars(Worker) /\ WF_vars(joinReturn) /\ WF_vars(timePasses)

FairSpec == Spec /\ Fairness

(***************************************************************************)
(* Properties.                                                             *)
(***************************************************************************)
TypeOK ==
  /\ pthread_ \in BOOLEAN
  /\ msg_queue_ \in Seq(Nat)
  /\ stop_req_ \in BOOLEAN
  /\ continuous_received_count \in 0..MaxContinuous
  /\ msg \in Nat
  /\ pc \in Pcs
  /\ timed \in BOOLEAN
  /\ due \in Due
  /\ joiner \in {"no", "joining", "joined"}
  /\ posted \in 0..MaxPosts
  /\ received \in Nat
  /\ overdue \in Nat

\* Messages leave the queue in the order of post(), none lost, duplicated or
\* overtaken: the queue holds exactly the ordinals between received and posted.
Fifo ==
  /\ posted = received + Len(msg_queue_)
  /\ \A i \in 1..Len(msg_queue_) : msg_queue_[i] = received + i

\* No lost wakeup: the worker never sleeps on cond_ while a message or a stop
\* request is there for it.
NoSleepWithWork == pc = "wait" => msg_queue_ = <<>> /\ ~stop_req_

\* The worker's place and its thread go together.
PcInv == pc = "off" <=> ~pthread_

\* Strengthens PollNotStarved: outside poll() the messages taken since a poll is
\* due are among those counted by continuous_received_count.
DebtInv ==
  /\ due # "now" => overdue = 0
  /\ pc # "poll" => overdue <= continuous_received_count
  /\ overdue <= MaxContinuous

\* A flood of requests cannot hold off a poll that is due for more than
\* kMaxContinuousMessageReceive messages.
PollNotStarved == overdue <= MaxContinuous

\* The worker holds a message exactly while it handles it: the last one received.
MsgInv ==
  /\ msg = IF pc = "handle" THEN received ELSE 0
  /\ pc = "handle" => received > 0

\* Neither work starves the other: a poll that is due takes place however many
\* messages come, and an accepted message is received however long every poll
\* finds the next one due at once, unless the thread leaves its loop.
BothAreServed ==
  /\ (pthread_ /\ due = "now") ~> (pc \in {"poll", "done"} \/ due # "now")
  /\ \A i \in 1..MaxPosts : posted >= i ~> (received >= i \/ pc = "done")

\* The thread implements the FIFO channel its clients rely on: what it hands to
\* onHandleMessage() is the oldest message not yet handed over, in the order of
\* post(), one at a time and none once the loop has ended.  The message in hand
\* is the one the code took from msg_queue_: a queue that gives its messages in
\* another order, or one of them twice, does not implement the channel.
Channel == INSTANCE MessageChannel WITH
  accepted  <- posted,
  delivered <- received,
  message   <- msg,
  phase     <- IF ~pthread_ THEN "off" ELSE IF pc \in {"leave", "done"} THEN "stopped" ELSE "running"

ChannelSpec == Channel!Spec
=============================================================================
