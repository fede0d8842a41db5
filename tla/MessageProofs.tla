---------------------------- MODULE MessageProofs ----------------------------
(***************************************************************************)
(* The proofs about messages on their way.                                 *)
(*                                                                         *)
(* WorkerThreads, a controller and its worker, for any number of messages, *)
(* whichever of them have a zero byte: the controller outlives the         *)
(* worker's use of it, messages keep their order on both ways, and no      *)
(* wakeup is lost.                                                         *)
(*                                                                         *)
(* TcpReader, the stream from the server: each packet is handled once, in  *)
(* the order of the server, for packets and records of any size, up to     *)
(* where a record splits a packet.                                         *)
(*                                                                         *)
(* ChannelTree, what the packets say of channels: the script sees a tree   *)
(* at every moment, and the server's when all was handled.  The invariant  *)
(* is a chain of views, as it is for ServerState: the first is what the    *)
(* client has, the last what the server is, each what the one before it is *)
(* after the next message; and each of them is a tree.                     *)
(*                                                                         *)
(* Incoming, both: a message has a packet of its own, so that what was     *)
(* read to its end was handled to its end.                                 *)
(***************************************************************************)
EXTENDS WorkerThreads, Incoming, SequenceTheorems, ListAndModTheorems

-----------------------------------------------------------------------------
(* WorkerThreads.                                                          *)

Over == worker \in {"close", "ended"}

(* The worker's script keeps the controller through its reference to       *)
(* itself, which mumble_thread_worker_finish alone gives up.               *)
ReferenceKept ==
    /\ ~Over => self /\ life = "live" /\ handles
    /\ finishPending => Over /\ self
    /\ ctx = "finish" => Over /\ arg /\ ~finishPending

(* The event loop looks at handles, and pops messages, outside callbacks.  *)
LoopIsOutside == main \in {"walk", "drain"} => ctx = "script"

(* Nothing waits for a controller that is collected.                       *)
ClosedIsEmpty == life # "live" => message_queue = <<>>

Lifetime == ReferenceKept /\ LoopIsOutside /\ ClosedIsEmpty

(* What was queued has been counted.                                       *)
Counted ==
    LET wseen == wheard \o wqueue
    IN  \A k \in DOMAIN wseen : Number(wseen[k]) <= wsaid

(* The controller's callback sees what the worker sent.                    *)
Upward ==
    life = "live" =>
        /\ Len(heard \o message_queue) = said
        /\ \A k \in 1 .. said : Number((heard \o message_queue)[k]) = k

(* The worker's callback sees what was sent, in order.                     *)
Downward ==
    /\ Counted
    /\ \A j, k \in DOMAIN (wheard \o wqueue) :
        j < k => Number((wheard \o wqueue)[j]) < Number((wheard \o wqueue)[k])

(* The types, in three parts; a send() that has begun has a number left.   *)

Bools ==
    /\ started \in BOOLEAN /\ finish \in BOOLEAN /\ message \in BOOLEAN /\ self \in BOOLEAN
    /\ finishPending \in BOOLEAN /\ messagePending \in BOOLEAN /\ handles \in BOOLEAN
    /\ held \in BOOLEAN /\ arg \in BOOLEAN
    /\ wpending \in BOOLEAN /\ stop \in BOOLEAN /\ late \in BOOLEAN

Labels ==
    /\ workerPtr \in {"unset", "null", "worker"} /\ (started => workerPtr # "unset")
    /\ life \in {"live", "closing", "freed"}
    /\ thread \in {"joinable", "joined", "detached"}
    /\ main \in {"run", "sendWait", "push", "signal", "joinWait", "joining",
                 "walk", "drain", "fault"}
    /\ ctx \in {"script", "finish", "message"}
    /\ worker \in {"load", "failed", "run", "signal", "loop", "drain", "finish",
                   "close", "ended"}
    /\ wctx \in {"script", "callback"}
    /\ wmessage \in {"none", "garbage", "callback"}

Queues ==
    /\ message_queue \in Seq(Messages) /\ wqueue \in Seq(Messages)
    /\ said \in 0 .. MaxMessages /\ heard \in Seq(Messages)
    /\ wsaid \in 0 .. MaxMessages /\ wheard \in Seq(Messages)
    /\ main \in {"sendWait", "push"} => wsaid < MaxMessages

(* The inductive invariant.                                                *)
IInv ==
    /\ Bools /\ Labels /\ Queues
    /\ Lifetime /\ NoLostWakeup
    /\ Upward /\ Downward

-----------------------------------------------------------------------------
(* Together they are more than the module's type invariant.                *)
LEMMA WorkerTyped == Bools /\ Labels /\ Queues => TypeOK
BY DEF TypeOK, Bools, Labels, Queues

(* strndup (thread.c:376) yields one of the messages.                      *)
LEMMA CopyIsMessage ==
    ASSUME NEW n \in 0 .. (MaxMessages - 1)
    PROVE  strndup(n + 1) \in Messages /\ n + 1 \in 0 .. MaxMessages
BY MessagesAssumption DEF Messages

(* Every step keeps the types: the flags.                                  *)
LEMMA StepKeepsBools == Bools /\ [Next]_vars => Bools'
<1> SUFFICES ASSUME Bools, [Next]_vars PROVE Bools'
  OBVIOUS
<1> USE DEF Bools, controller, asyncs, mainThread, workerData, upward, downward
<1>1. CASE ControllerScript
  <2>1. CASE OnFinish
    BY <2>1 DEF OnFinish, Calls
  <2>2. CASE OnMessage
    BY <2>2 DEF OnMessage, Calls
  <2>3. CASE Send
    BY <2>3 DEF Send, Calls, Main, WorkerStill
  <2>4. CASE Join
    BY <2>4 DEF Join, Calls, Main, WorkerStill
  <2>5. CASE Forget
    BY <2>5 DEF Forget, WorkerStill
  <2> QED
    BY <1>1, <2>1, <2>2, <2>3, <2>4, <2>5 DEF ControllerScript
<1>2. CASE Blocking
  <2>1. CASE SendWait
    BY <2>1 DEF SendWait, Main, WorkerStill
  <2>2. CASE SendPush
    BY <2>2 DEF SendPush, Main, WorkerFreed
  <2>3. CASE SendSignal
    BY <2>3 DEF SendSignal, Main, WorkerFreed
  <2>4. CASE JoinWait
    BY <2>4 DEF JoinWait, Main, WorkerStill
  <2>5. CASE Joined
    BY <2>5 DEF Joined, Main, WorkerStill
  <2> QED
    BY <1>2, <2>1, <2>2, <2>3, <2>4, <2>5 DEF Blocking
<1>3. CASE Collect \/ Free \/ HandlesClosed
  <2>1. CASE Collect
    BY <2>1 DEF Collect, Main, Referenced
  <2>2. CASE Free
    BY <2>2 DEF Free, WorkerStill
  <2>3. CASE HandlesClosed
    BY <2>3 DEF HandlesClosed, Main, WorkerStill
  <2> QED
    BY <1>3, <2>1, <2>2, <2>3
<1>4. CASE EventLoop
  <2>1. CASE WalkFinish
    BY <2>1 DEF WalkFinish, LeaveFinish, WorkerStill
  <2>2. CASE FinishReturn
    BY <2>2 DEF FinishReturn, LeaveFinish, WorkerStill
  <2>3. CASE WalkMessage
    BY <2>3 DEF WalkMessage, Main, WorkerStill
  <2>4. CASE Drain
    BY <2>4 DEF Drain
  <2>5. CASE MessageReturn
    BY <2>5 DEF MessageReturn, WorkerStill
  <2> QED
    BY <1>4, <2>1, <2>2, <2>3, <2>4, <2>5 DEF EventLoop
<1>5. CASE WorkerScript
  <2>1. CASE WorkerSend
    BY <2>1 DEF WorkerSend, Worker, Controller
  <2>2. CASE WorkerOnMessage
    BY <2>2 DEF WorkerOnMessage, WorkerOnly, Worker, Controller
  <2>3. CASE WorkerStop
    BY <2>3 DEF WorkerStop, WorkerOnly, Worker, Controller
  <2>4. CASE Loop
    BY <2>4 DEF Loop, WorkerOnly, Worker, Controller, WorkerRest
  <2>5. CASE ScriptEnds
    BY <2>5 DEF ScriptEnds, WorkerOnly, Worker, Controller, WorkerRest
  <2> QED
    BY <1>5, <2>1, <2>2, <2>3, <2>4, <2>5 DEF WorkerScript
<1>6. CASE WorkerThread
  <2>1. CASE LoadFails
    BY <2>1 DEF LoadFails, Worker, Controller, WorkerRest
  <2>2. CASE FailFinish
    BY <2>2 DEF FailFinish, Worker, Controller, WorkerRest
  <2>3. CASE Publish
    BY <2>3 DEF Publish, Worker, Controller, WorkerRest
  <2>4. CASE WorkerSignal
    BY <2>4 DEF WorkerSignal, Worker, Controller, WorkerRest
  <2>5. CASE LoopReturn
    BY <2>5 DEF LoopReturn, WorkerOnly, Worker, Controller
  <2>6. CASE WorkerAsync
    BY <2>6 DEF WorkerAsync, WorkerOnly, Worker, Controller
  <2>7. CASE WorkerDrain
    BY <2>7 DEF WorkerDrain, Controller
  <2>8. CASE WorkerReturn
    BY <2>8 DEF WorkerReturn, WorkerOnly, Worker, Controller
  <2>9. CASE Finish
    BY <2>9 DEF Finish, Worker, Controller, WorkerRest
  <2>10. CASE Close
    BY <2>10 DEF Close, WorkerOnly, Worker, Controller
  <2> QED
    BY <1>6, <2>1, <2>2, <2>3, <2>4, <2>5, <2>6, <2>7, <2>8, <2>9, <2>10 DEF WorkerThread
<1>7. CASE UNCHANGED vars
  BY <1>7 DEF vars
<1> QED
  BY <1>1, <1>2, <1>3, <1>4, <1>5, <1>6, <1>7 DEF Next

(* ... where the two threads are, and what they point to.                  *)
LEMMA StepKeepsLabels == Labels /\ [Next]_vars => Labels'
<1> SUFFICES ASSUME Labels, [Next]_vars PROVE Labels'
  OBVIOUS
<1> USE DEF Labels, controller, asyncs, mainThread, workerData, upward, downward
<1>1. CASE ControllerScript
  BY <1>1 DEF ControllerScript, OnFinish, Calls, OnMessage, Send, Main, WorkerStill,
      Join, Forget
<1>2. CASE Blocking
  BY <1>2 DEF Blocking, SendWait, Main, WorkerStill, SendPush, WorkerFreed, SendSignal,
      JoinWait, Joined
<1>3. CASE Collect \/ Free \/ HandlesClosed
  BY <1>3 DEF Collect, Main, Referenced, Free, WorkerStill, HandlesClosed
<1>4. CASE EventLoop
  BY <1>4 DEF EventLoop, WalkFinish, LeaveFinish, WorkerStill, FinishReturn,
      WalkMessage, Main, Drain, MessageReturn
<1>5. CASE WorkerScript
  BY <1>5 DEF WorkerScript, WorkerSend, Worker, Controller, WorkerOnMessage, WorkerOnly,
      WorkerStop, Loop, WorkerRest, ScriptEnds
<1>6. CASE WorkerThread
  BY <1>6 DEF WorkerThread, LoadFails, Worker, Controller, WorkerRest, FailFinish,
      Publish, WorkerSignal, LoopReturn, WorkerOnly, WorkerAsync, WorkerDrain,
      WorkerReturn, Finish, Close
<1>7. CASE UNCHANGED vars
  BY <1>7 DEF vars
<1> QED
  BY <1>1, <1>2, <1>3, <1>4, <1>5, <1>6, <1>7 DEF Next

(* ... and the queues, with what was heard.                                *)
LEMMA StepKeepsQueues == Queues /\ [Next]_vars => Queues'
<1> SUFFICES ASSUME Queues, [Next]_vars PROVE Queues'
  OBVIOUS
<1> USE DEF Queues, controller, asyncs, mainThread, workerData, upward, downward
<1>1. CASE ControllerScript
  <2>1. CASE OnFinish
    BY <2>1 DEF OnFinish, Calls
  <2>2. CASE OnMessage
    BY <2>2 DEF OnMessage, Calls
  <2>3. CASE Send
    BY <2>3 DEF Send, Calls, Main, WorkerStill
  <2>4. CASE Join
    BY <2>4 DEF Join, Calls, Main, WorkerStill
  <2>5. CASE Forget
    BY <2>5 DEF Forget, WorkerStill
  <2> QED
    BY <1>1, <2>1, <2>2, <2>3, <2>4, <2>5 DEF ControllerScript
<1>2. CASE Blocking
  <2>1. CASE SendWait
    BY <2>1 DEF SendWait, Main, WorkerStill
  <2>2. CASE SendPush
    <3>1. CASE WorkerFreed
      BY <2>2, <3>1 DEF SendPush, Main
    <3>2. CASE ~WorkerFreed
      <4>1. wsaid \in 0 .. (MaxMessages - 1)
        BY <2>2, MessagesAssumption DEF SendPush, Main
      <4>2. strndup(wsaid + 1) \in Messages /\ wsaid + 1 \in 0 .. MaxMessages
        BY <4>1, CopyIsMessage
      <4>3. wqueue' = Append(wqueue, strndup(wsaid + 1)) /\ wsaid' = wsaid + 1
        BY <2>2, <3>2 DEF SendPush
      <4>4. main' = "signal" /\ UNCHANGED <<message_queue, heard, said, wheard>>
        BY <2>2, <3>2 DEF SendPush, Main
      <4> QED
        BY <4>2, <4>3, <4>4
    <3> QED
      BY <3>1, <3>2
  <2>3. CASE SendSignal
    BY <2>3 DEF SendSignal, Main, WorkerFreed
  <2>4. CASE JoinWait
    BY <2>4 DEF JoinWait, Main, WorkerStill
  <2>5. CASE Joined
    BY <2>5 DEF Joined, Main, WorkerStill
  <2> QED
    BY <1>2, <2>1, <2>2, <2>3, <2>4, <2>5 DEF Blocking
<1>3. CASE Collect \/ Free \/ HandlesClosed
  <2>1. CASE Collect
    BY <2>1 DEF Collect, Main, Referenced
  <2>2. CASE Free
    BY <2>2 DEF Free, WorkerStill
  <2>3. CASE HandlesClosed
    BY <2>3 DEF HandlesClosed, Main, WorkerStill
  <2> QED
    BY <1>3, <2>1, <2>2, <2>3
<1>4. CASE EventLoop
  <2>1. CASE WalkFinish
    BY <2>1 DEF WalkFinish, LeaveFinish, WorkerStill
  <2>2. CASE FinishReturn
    BY <2>2 DEF FinishReturn, LeaveFinish, WorkerStill
  <2>3. CASE WalkMessage
    BY <2>3 DEF WalkMessage, Main, WorkerStill
  <2>4. CASE Drain
    <3>1. CASE message_queue = <<>>
      BY <2>4, <3>1 DEF Drain
    <3>2. CASE message_queue # <<>>
      <4>1. Head(message_queue) \in Messages /\ Tail(message_queue) \in Seq(Messages)
        BY <3>2, HeadTailProperties
      <4>2. message_queue' = Tail(message_queue) /\ heard' = Append(heard, Head(message_queue))
        BY <2>4, <3>2 DEF Drain
      <4>3. UNCHANGED <<wqueue, wheard, said, wsaid>> /\ main' = "run"
        BY <2>4, <3>2 DEF Drain
      <4> QED
        BY <4>1, <4>2, <4>3
    <3> QED
      BY <3>1, <3>2
  <2>5. CASE MessageReturn
    BY <2>5 DEF MessageReturn, WorkerStill
  <2> QED
    BY <1>4, <2>1, <2>2, <2>3, <2>4, <2>5 DEF EventLoop
<1>5. CASE WorkerScript
  <2>1. CASE WorkerSend
    BY <2>1, CopyIsMessage, MessagesAssumption DEF WorkerSend, Worker, Controller
  <2>2. CASE WorkerOnMessage
    BY <2>2 DEF WorkerOnMessage, WorkerOnly, Worker, Controller
  <2>3. CASE WorkerStop
    BY <2>3 DEF WorkerStop, WorkerOnly, Worker, Controller
  <2>4. CASE Loop
    BY <2>4 DEF Loop, WorkerOnly, Worker, Controller, WorkerRest
  <2>5. CASE ScriptEnds
    BY <2>5 DEF ScriptEnds, WorkerOnly, Worker, Controller, WorkerRest
  <2> QED
    BY <1>5, <2>1, <2>2, <2>3, <2>4, <2>5 DEF WorkerScript
<1>6. CASE WorkerThread
  <2>1. CASE LoadFails
    BY <2>1 DEF LoadFails, Worker, Controller, WorkerRest
  <2>2. CASE FailFinish
    BY <2>2 DEF FailFinish, Worker, Controller, WorkerRest
  <2>3. CASE Publish
    BY <2>3 DEF Publish, Worker, Controller, WorkerRest
  <2>4. CASE WorkerSignal
    BY <2>4 DEF WorkerSignal, Worker, Controller, WorkerRest
  <2>5. CASE LoopReturn
    BY <2>5 DEF LoopReturn, WorkerOnly, Worker, Controller
  <2>6. CASE WorkerAsync
    BY <2>6 DEF WorkerAsync, WorkerOnly, Worker, Controller
  <2>7. CASE WorkerDrain
    <3>1. CASE wqueue = <<>>
      BY <2>7, <3>1 DEF WorkerDrain, Controller
    <3>2. CASE wqueue # <<>>
      <4>1. Head(wqueue) \in Messages /\ Tail(wqueue) \in Seq(Messages)
        BY <3>2, HeadTailProperties
      <4>2. wheard' = wheard \/ wheard' = Append(wheard, Head(wqueue))
        BY <2>7, <3>2, Zenon DEF WorkerDrain
      <4>3. wqueue' = Tail(wqueue) /\ UNCHANGED <<message_queue, heard, said, wsaid, main>>
        BY <2>7, <3>2 DEF WorkerDrain, Controller
      <4>4. wheard' \in Seq(Messages)
        <5>1. Append(wheard, Head(wqueue)) \in Seq(Messages)
          BY <4>1
        <5> QED
          BY <4>2, <5>1, Zenon
      <4> QED
        BY <4>1, <4>3, <4>4
    <3> QED
      BY <3>1, <3>2
  <2>8. CASE WorkerReturn
    BY <2>8 DEF WorkerReturn, WorkerOnly, Worker, Controller
  <2>9. CASE Finish
    BY <2>9 DEF Finish, Worker, Controller, WorkerRest
  <2>10. CASE Close
    BY <2>10 DEF Close, WorkerOnly, Worker, Controller
  <2> QED
    BY <1>6, <2>1, <2>2, <2>3, <2>4, <2>5, <2>6, <2>7, <2>8, <2>9, <2>10 DEF WorkerThread
<1>7. CASE UNCHANGED vars
  BY <1>7 DEF vars
<1> QED
  BY <1>1, <1>2, <1>3, <1>4, <1>5, <1>6, <1>7 DEF Next

(* Only the event loop gives up the reference, after the worker's last     *)
(* wakeup (thread.c:158, 488), and only then can the controller go.        *)
LEMMA StepKeepsReference == Bools /\ Labels /\ Lifetime /\ [Next]_vars => Lifetime'
<1> SUFFICES ASSUME Bools, Labels, Lifetime, [Next]_vars PROVE Lifetime'
  OBVIOUS
<1> USE DEF Lifetime, ReferenceKept, LoopIsOutside, ClosedIsEmpty, Over, Bools, Labels,
            controller, asyncs, mainThread, workerData, upward, downward
<1>1. CASE ControllerScript
  <2>1. CASE OnFinish
    BY <2>1 DEF OnFinish, Calls
  <2>2. CASE OnMessage
    BY <2>2 DEF OnMessage, Calls
  <2>3. CASE Send
    BY <2>3 DEF Send, Calls, Main, WorkerStill
  <2>4. CASE Join
    BY <2>4 DEF Join, Calls, Main, WorkerStill
  <2>5. CASE Forget
    BY <2>5 DEF Forget, WorkerStill
  <2> QED
    BY <1>1, <2>1, <2>2, <2>3, <2>4, <2>5 DEF ControllerScript
<1>2. CASE Blocking
  <2>1. CASE SendWait
    BY <2>1 DEF SendWait, Main, WorkerStill
  <2>2. CASE SendPush
    BY <2>2 DEF SendPush, Main, WorkerFreed
  <2>3. CASE SendSignal
    BY <2>3 DEF SendSignal, Main, WorkerFreed
  <2>4. CASE JoinWait
    BY <2>4 DEF JoinWait, Main, WorkerStill
  <2>5. CASE Joined
    BY <2>5 DEF Joined, Main, WorkerStill
  <2> QED
    BY <1>2, <2>1, <2>2, <2>3, <2>4, <2>5 DEF Blocking
<1>3. CASE Collect \/ Free \/ HandlesClosed
  <2>1. CASE Collect
    BY <2>1 DEF Collect, Main, Referenced
  <2>2. CASE Free
    BY <2>2 DEF Free, WorkerStill
  <2>3. CASE HandlesClosed
    BY <2>3 DEF HandlesClosed, Main, WorkerStill
  <2> QED
    BY <1>3, <2>1, <2>2, <2>3
<1>4. CASE EventLoop
  <2>1. CASE WalkFinish
    BY <2>1 DEF WalkFinish, LeaveFinish, WorkerStill
  <2>2. CASE FinishReturn
    BY <2>2 DEF FinishReturn, LeaveFinish, WorkerStill
  <2>3. CASE WalkMessage
    BY <2>3 DEF WalkMessage, Main, WorkerStill
  <2>4. CASE Drain
    BY <2>4 DEF Drain
  <2>5. CASE MessageReturn
    BY <2>5 DEF MessageReturn, WorkerStill
  <2> QED
    BY <1>4, <2>1, <2>2, <2>3, <2>4, <2>5 DEF EventLoop
<1>5. CASE WorkerScript
  <2>1. CASE WorkerSend
    BY <2>1 DEF WorkerSend, Worker, Controller
  <2>2. CASE WorkerOnMessage
    BY <2>2 DEF WorkerOnMessage, WorkerOnly, Worker, Controller
  <2>3. CASE WorkerStop
    BY <2>3 DEF WorkerStop, WorkerOnly, Worker, Controller
  <2>4. CASE Loop
    BY <2>4 DEF Loop, WorkerOnly, Worker, Controller, WorkerRest
  <2>5. CASE ScriptEnds
    BY <2>5 DEF ScriptEnds, WorkerOnly, Worker, Controller, WorkerRest
  <2> QED
    BY <1>5, <2>1, <2>2, <2>3, <2>4, <2>5 DEF WorkerScript
<1>6. CASE WorkerThread
  <2>1. CASE LoadFails
    BY <2>1 DEF LoadFails, Worker, Controller, WorkerRest
  <2>2. CASE FailFinish
    BY <2>2 DEF FailFinish, Worker, Controller, WorkerRest
  <2>3. CASE Publish
    BY <2>3 DEF Publish, Worker, Controller, WorkerRest
  <2>4. CASE WorkerSignal
    BY <2>4 DEF WorkerSignal, Worker, Controller, WorkerRest
  <2>5. CASE LoopReturn
    BY <2>5 DEF LoopReturn, WorkerOnly, Worker, Controller
  <2>6. CASE WorkerAsync
    BY <2>6 DEF WorkerAsync, WorkerOnly, Worker, Controller
  <2>7. CASE WorkerDrain
    BY <2>7 DEF WorkerDrain, Controller
  <2>8. CASE WorkerReturn
    BY <2>8 DEF WorkerReturn, WorkerOnly, Worker, Controller
  <2>9. CASE Finish
    BY <2>9 DEF Finish, Worker, Controller, WorkerRest
  <2>10. CASE Close
    BY <2>10 DEF Close, WorkerOnly, Worker, Controller
  <2> QED
    BY <1>6, <2>1, <2>2, <2>3, <2>4, <2>5, <2>6, <2>7, <2>8, <2>9, <2>10 DEF WorkerThread
<1>7. CASE UNCHANGED vars
  BY <1>7 DEF vars
<1> QED
  BY <1>1, <1>2, <1>3, <1>4, <1>5, <1>6, <1>7 DEF Next

(* A message that is queued, a callback that is installed and a wakeup     *)
(* that is taken leave something that will look at the queue.              *)
LEMMA StepLosesNoWakeup ==
    Bools /\ Labels /\ Lifetime /\ NoLostWakeup /\ [Next]_vars => NoLostWakeup'
<1> SUFFICES ASSUME Bools, Labels, Lifetime, NoLostWakeup, [Next]_vars PROVE NoLostWakeup'
  OBVIOUS
<1> USE DEF NoLostWakeup, Lifetime, LoopIsOutside, ClosedIsEmpty, Bools, Labels,
            controller, asyncs, mainThread, workerData, upward, downward
<1>1. CASE ControllerScript
  <2>1. CASE OnFinish
    BY <2>1 DEF OnFinish, Calls
  <2>2. CASE OnMessage
    BY <2>2 DEF OnMessage, Calls
  <2>3. CASE Send
    BY <2>3 DEF Send, Calls, Main, WorkerStill
  <2>4. CASE Join
    BY <2>4 DEF Join, Calls, Main, WorkerStill
  <2>5. CASE Forget
    BY <2>5 DEF Forget, WorkerStill
  <2> QED
    BY <1>1, <2>1, <2>2, <2>3, <2>4, <2>5 DEF ControllerScript
<1>2. CASE Blocking
  <2>1. CASE SendWait
    BY <2>1 DEF SendWait, Main, WorkerStill
  <2>2. CASE SendPush
    BY <2>2 DEF SendPush, Main, WorkerFreed
  <2>3. CASE SendSignal
    BY <2>3 DEF SendSignal, Main, WorkerFreed
  <2>4. CASE JoinWait
    BY <2>4 DEF JoinWait, Main, WorkerStill
  <2>5. CASE Joined
    BY <2>5 DEF Joined, Main, WorkerStill
  <2> QED
    BY <1>2, <2>1, <2>2, <2>3, <2>4, <2>5 DEF Blocking
<1>3. CASE Collect \/ Free \/ HandlesClosed
  <2>1. CASE Collect
    BY <2>1 DEF Collect, Main, Referenced
  <2>2. CASE Free
    BY <2>2 DEF Free, WorkerStill
  <2>3. CASE HandlesClosed
    BY <2>3 DEF HandlesClosed, Main, WorkerStill
  <2> QED
    BY <1>3, <2>1, <2>2, <2>3
<1>4. CASE EventLoop
  <2>1. CASE WalkFinish
    BY <2>1 DEF WalkFinish, LeaveFinish, WorkerStill
  <2>2. CASE FinishReturn
    BY <2>2 DEF FinishReturn, LeaveFinish, WorkerStill
  <2>3. CASE WalkMessage
    BY <2>3 DEF WalkMessage, Main, WorkerStill
  <2>4. CASE Drain
    BY <2>4 DEF Drain
  <2>5. CASE MessageReturn
    BY <2>5 DEF MessageReturn, WorkerStill
  <2> QED
    BY <1>4, <2>1, <2>2, <2>3, <2>4, <2>5 DEF EventLoop
<1>5. CASE WorkerScript
  <2>1. CASE WorkerSend
    BY <2>1 DEF WorkerSend, Worker, Controller
  <2>2. CASE WorkerOnMessage
    BY <2>2 DEF WorkerOnMessage, WorkerOnly, Worker, Controller
  <2>3. CASE WorkerStop
    BY <2>3 DEF WorkerStop, WorkerOnly, Worker, Controller
  <2>4. CASE Loop
    BY <2>4 DEF Loop, WorkerOnly, Worker, Controller, WorkerRest
  <2>5. CASE ScriptEnds
    BY <2>5 DEF ScriptEnds, WorkerOnly, Worker, Controller, WorkerRest
  <2> QED
    BY <1>5, <2>1, <2>2, <2>3, <2>4, <2>5 DEF WorkerScript
<1>6. CASE WorkerThread
  <2>1. CASE LoadFails
    BY <2>1 DEF LoadFails, Worker, Controller, WorkerRest
  <2>2. CASE FailFinish
    BY <2>2 DEF FailFinish, Worker, Controller, WorkerRest
  <2>3. CASE Publish
    BY <2>3 DEF Publish, Worker, Controller, WorkerRest
  <2>4. CASE WorkerSignal
    BY <2>4 DEF WorkerSignal, Worker, Controller, WorkerRest
  <2>5. CASE LoopReturn
    BY <2>5 DEF LoopReturn, WorkerOnly, Worker, Controller
  <2>6. CASE WorkerAsync
    BY <2>6 DEF WorkerAsync, WorkerOnly, Worker, Controller
  <2>7. CASE WorkerDrain
    BY <2>7 DEF WorkerDrain, Controller
  <2>8. CASE WorkerReturn
    BY <2>8 DEF WorkerReturn, WorkerOnly, Worker, Controller
  <2>9. CASE Finish
    BY <2>9 DEF Finish, Worker, Controller, WorkerRest
  <2>10. CASE Close
    BY <2>10 DEF Close, WorkerOnly, Worker, Controller
  <2> QED
    BY <1>6, <2>1, <2>2, <2>3, <2>4, <2>5, <2>6, <2>7, <2>8, <2>9, <2>10 DEF WorkerThread
<1>7. CASE UNCHANGED vars
  BY <1>7 DEF vars
<1> QED
  BY <1>1, <1>2, <1>3, <1>4, <1>5, <1>6, <1>7 DEF Next

-----------------------------------------------------------------------------
(* The order of messages.  Few steps move any.                             *)

Quiet ==
    /\ UNCHANGED <<message_queue, said, heard, wqueue, wsaid, wheard>>
    /\ life' = "live" => life = "live"

(* The steps that move a message, or end the controller.                   *)
LEMMA StepMovesFew ==
    ASSUME [Next]_vars
    PROVE  Quiet \/ WorkerSend \/ Drain \/ Collect \/ SendPush \/ Close \/ WorkerDrain
<1> USE DEF Quiet, controller, asyncs, mainThread, workerData, upward, downward
<1>1. CASE ControllerScript
  <2>1. CASE OnFinish
    BY <2>1 DEF OnFinish, Calls
  <2>2. CASE OnMessage
    BY <2>2 DEF OnMessage, Calls
  <2>3. CASE Send
    BY <2>3 DEF Send, Calls, Main, WorkerStill
  <2>4. CASE Join
    BY <2>4 DEF Join, Calls, Main, WorkerStill
  <2>5. CASE Forget
    BY <2>5 DEF Forget, WorkerStill
  <2> QED
    BY <1>1, <2>1, <2>2, <2>3, <2>4, <2>5 DEF ControllerScript
<1>2. CASE Blocking
  <2>1. CASE SendWait
    BY <2>1 DEF SendWait, Main, WorkerStill
  <2>2. CASE SendPush
    BY <2>2
  <2>3. CASE SendSignal
    BY <2>3 DEF SendSignal, Main, WorkerFreed
  <2>4. CASE JoinWait
    BY <2>4 DEF JoinWait, Main, WorkerStill
  <2>5. CASE Joined
    BY <2>5 DEF Joined, Main, WorkerStill
  <2> QED
    BY <1>2, <2>1, <2>2, <2>3, <2>4, <2>5 DEF Blocking
<1>3. CASE Collect \/ Free \/ HandlesClosed
  <2>1. CASE Collect
    BY <2>1
  <2>2. CASE Free
    BY <2>2 DEF Free, WorkerStill
  <2>3. CASE HandlesClosed
    BY <2>3 DEF HandlesClosed, Main, WorkerStill
  <2> QED
    BY <1>3, <2>1, <2>2, <2>3
<1>4. CASE EventLoop
  <2>1. CASE WalkFinish
    BY <2>1 DEF WalkFinish, LeaveFinish, WorkerStill
  <2>2. CASE FinishReturn
    BY <2>2 DEF FinishReturn, LeaveFinish, WorkerStill
  <2>3. CASE WalkMessage
    BY <2>3 DEF WalkMessage, Main, WorkerStill
  <2>4. CASE Drain
    BY <2>4
  <2>5. CASE MessageReturn
    BY <2>5 DEF MessageReturn, WorkerStill
  <2> QED
    BY <1>4, <2>1, <2>2, <2>3, <2>4, <2>5 DEF EventLoop
<1>5. CASE WorkerScript
  <2>1. CASE WorkerSend
    BY <2>1
  <2>2. CASE WorkerOnMessage
    BY <2>2 DEF WorkerOnMessage, WorkerOnly, Worker, Controller
  <2>3. CASE WorkerStop
    BY <2>3 DEF WorkerStop, WorkerOnly, Worker, Controller
  <2>4. CASE Loop
    BY <2>4 DEF Loop, WorkerOnly, Worker, Controller, WorkerRest
  <2>5. CASE ScriptEnds
    BY <2>5 DEF ScriptEnds, WorkerOnly, Worker, Controller, WorkerRest
  <2> QED
    BY <1>5, <2>1, <2>2, <2>3, <2>4, <2>5 DEF WorkerScript
<1>6. CASE WorkerThread
  <2>1. CASE LoadFails
    BY <2>1 DEF LoadFails, Worker, Controller, WorkerRest
  <2>2. CASE FailFinish
    BY <2>2 DEF FailFinish, Worker, Controller, WorkerRest
  <2>3. CASE Publish
    BY <2>3 DEF Publish, Worker, Controller, WorkerRest
  <2>4. CASE WorkerSignal
    BY <2>4 DEF WorkerSignal, Worker, Controller, WorkerRest
  <2>5. CASE LoopReturn
    BY <2>5 DEF LoopReturn, WorkerOnly, Worker, Controller
  <2>6. CASE WorkerAsync
    BY <2>6 DEF WorkerAsync, WorkerOnly, Worker, Controller
  <2>7. CASE WorkerDrain
    BY <2>7
  <2>8. CASE WorkerReturn
    BY <2>8 DEF WorkerReturn, WorkerOnly, Worker, Controller
  <2>9. CASE Finish
    BY <2>9 DEF Finish, Worker, Controller, WorkerRest
  <2>10. CASE Close
    BY <2>10
  <2> QED
    BY <1>6, <2>1, <2>2, <2>3, <2>4, <2>5, <2>6, <2>7, <2>8, <2>9, <2>10 DEF WorkerThread
<1>7. CASE UNCHANGED vars
  BY <1>7 DEF vars
<1> QED
  BY <1>1, <1>2, <1>3, <1>4, <1>5, <1>6, <1>7 DEF Next

(* What is popped from a queue and kept leaves the whole as it was.        *)
LEMMA MovedOver ==
    ASSUME NEW S, NEW s \in Seq(S), NEW t \in Seq(S), t # <<>>
    PROVE  Append(s, Head(t)) \o Tail(t) = s \o t
<1>1. Head(t) \in S /\ Tail(t) \in Seq(S) /\ Len(Tail(t)) = Len(t) - 1
  BY HeadTailProperties
<1>2. \A i \in 1 .. Len(Tail(t)) : Tail(t)[i] = t[i + 1]
  BY HeadTailProperties
<1> DEFINE u == Append(s, Head(t)) \o Tail(t)
<1>3. u \in Seq(S) /\ s \o t \in Seq(S) /\ Len(u) = Len(s \o t)
  BY <1>1, ConcatProperties, AppendProperties
<1>4. \A i \in 1 .. Len(u) : u[i] = (s \o t)[i]
  BY <1>1, <1>2
<1> HIDE DEF u
<1> QED
  BY <1>3, <1>4, SeqEqual

(* A copy has the number of its message, whole or not.                     *)
LEMMA NumberOfCopy ==
    /\ \A n \in 1 .. MaxMessages : Number(strndup(n)) = n
    /\ \A m \in Messages : Number(m) \in Nat /\ (Number(m) \notin Binary => m > 0)
BY MessagesAssumption DEF Number, strndup, Messages

(* Both are what the run checks.                                           *)
LEMMA OrderParts == Queues /\ Upward /\ Downward => MessagesInOrder
<1> SUFFICES ASSUME Queues, Upward, Downward PROVE MessagesInOrder
  OBVIOUS
<1>1. heard \o message_queue \in Seq(Messages) /\ wheard \o wqueue \in Seq(Messages)
  BY DEF Queues
<1>2. (heard \o message_queue) \o (wheard \o wqueue) \in Seq(Messages)
  BY <1>1
<1>3. \A copy \in ToSet((heard \o message_queue) \o (wheard \o wqueue)) : copy \in Messages
  BY <1>2 DEF ToSet
<1> QED
  BY <1>3, NumberOfCopy DEF MessagesInOrder, Upward, Downward

(* The worker appends the next number (thread.c:192), and what the         *)
(* controller pops its callback sees (thread.c:129).                       *)
LEMMA StepKeepsUpward ==
    Queues /\ Labels /\ Lifetime /\ Upward /\ [Next]_vars => Upward'
<1> SUFFICES ASSUME Queues, Labels, Lifetime, Upward, [Next]_vars, life' = "live"
             PROVE  Upward'
  BY DEF Upward
<1> DEFINE seen == heard \o message_queue
<1>0. seen \in Seq(Messages) /\ said \in Nat
  BY MessagesAssumption DEF Queues
<1>1. CASE Quiet
  BY <1>1 DEF Quiet, Upward
<1>2. CASE WorkerSend
  <2>1. life = "live" /\ UNCHANGED heard /\ said' = said + 1 /\ said \in 0 .. (MaxMessages - 1)
    BY <1>2, MessagesAssumption DEF WorkerSend, Controller, Queues
  <2>2. message_queue' = Append(message_queue, strndup(said + 1))
    BY <1>2 DEF WorkerSend
  <2>3. strndup(said + 1) \in Messages /\ Number(strndup(said + 1)) = said + 1
    BY <2>1, CopyIsMessage, NumberOfCopy, MessagesAssumption
  <2>4. seen' = Append(seen, strndup(said + 1))
    BY <2>1, <2>2, <2>3 DEF Queues
  <2>5. Len(seen) = said /\ \A k \in 1 .. said : Number(seen[k]) = k
    BY <2>1 DEF Upward
  <2> HIDE DEF seen
  <2>6. Len(seen') = said' /\ \A k \in 1 .. said' : Number(seen'[k]) = k
    BY <1>0, <2>1, <2>3, <2>4, <2>5
  <2> QED
    BY <2>6 DEF Upward, seen
<1>3. CASE Drain
  <2>1. life = "live" /\ said' = said
    BY <1>3 DEF Drain, controller
  <2>2. seen' = seen
    <3>1. CASE message_queue = <<>>
      BY <1>3, <3>1 DEF Drain
    <3>2. CASE message_queue # <<>>
      BY <1>3, <3>2, MovedOver DEF Drain, Queues
    <3> QED
      BY <3>1, <3>2
  <2> QED
    BY <2>1, <2>2 DEF Upward
<1>4. CASE Collect
  BY <1>4 DEF Collect
<1>5. CASE SendPush \/ Close \/ WorkerDrain
  BY <1>5 DEF SendPush, Close, WorkerDrain, WorkerOnly, Controller, Upward, controller, upward
<1> QED
  BY <1>1, <1>2, <1>3, <1>4, <1>5, StepMovesFew

(* send() appends a larger number (thread.c:376); what the worker pops its *)
(* callback sees, or nobody, and lua_close drops the rest.                 *)
LEMMA StepKeepsDownward == Queues /\ Downward /\ [Next]_vars => Downward'
<1> SUFFICES ASSUME Queues, Downward, [Next]_vars PROVE Downward'
  OBVIOUS
<1> DEFINE wseen == wheard \o wqueue
<1>0. wseen \in Seq(Messages) /\ wsaid \in Nat
  BY MessagesAssumption DEF Queues
<1>1. \A k \in DOMAIN wseen : Number(wseen[k]) \in Nat /\ Number(wseen[k]) <= wsaid
  BY <1>0, NumberOfCopy DEF Downward, Counted
<1>2. \A j, k \in DOMAIN wseen : j < k => Number(wseen[j]) < Number(wseen[k])
  BY DEF Downward
<1>3. CASE wseen' = wseen /\ wsaid' = wsaid
  BY <1>3 DEF Downward, Counted
<1>4. CASE SendPush
  <2>1. CASE WorkerFreed
    BY <1>3, <1>4, <2>1 DEF SendPush
  <2>2. CASE ~WorkerFreed
    <3>1. wsaid \in 0 .. (MaxMessages - 1) /\ wsaid' = wsaid + 1 /\ UNCHANGED wheard
      BY <1>4, <2>2, MessagesAssumption DEF SendPush, Main, Queues
    <3>2. strndup(wsaid + 1) \in Messages /\ Number(strndup(wsaid + 1)) = wsaid + 1
      BY <3>1, CopyIsMessage, NumberOfCopy, MessagesAssumption
    <3>3. wseen' = Append(wseen, strndup(wsaid + 1))
      <4>1. wqueue' = Append(wqueue, strndup(wsaid + 1))
        BY <1>4, <2>2 DEF SendPush
      <4> QED
        BY <3>1, <3>2, <4>1 DEF Queues
    <3> HIDE DEF wseen
    <3>4. /\ \A k \in DOMAIN wseen' : Number(wseen'[k]) <= wsaid'
          /\ \A j, k \in DOMAIN wseen' : j < k => Number(wseen'[j]) < Number(wseen'[k])
      BY <1>0, <1>1, <1>2, <3>1, <3>2, <3>3
    <3> QED
      BY <3>4 DEF Downward, Counted, wseen
  <2> QED
    BY <2>1, <2>2
<1>5. CASE Close
  <2>1. wseen' = wheard /\ wsaid' = wsaid
    BY <1>5 DEF Close, Queues, downward
  <2>2. Len(wheard) <= Len(wseen) /\ \A k \in DOMAIN wheard : wheard[k] = wseen[k]
    BY DEF Queues
  <2>3. DOMAIN wheard = 1 .. Len(wheard) /\ Len(wheard) \in Nat
    BY DEF Queues
  <2> HIDE DEF wseen
  <2>4. \A k \in DOMAIN wheard : k \in DOMAIN wseen /\ wheard[k] = wseen[k]
    BY <1>0, <2>2, <2>3
  <2>5. \A k \in DOMAIN wheard : Number(wheard[k]) <= wsaid
    BY <1>1, <2>4
  <2>6. \A j, k \in DOMAIN wheard : j < k => Number(wheard[j]) < Number(wheard[k])
    BY <1>2, <2>4
  <2>7. /\ \A k \in DOMAIN wseen' : Number(wseen'[k]) <= wsaid'
        /\ \A j, k \in DOMAIN wseen' : j < k => Number(wseen'[j]) < Number(wseen'[k])
    BY <2>1, <2>5, <2>6
  <2> QED
    BY <2>7 DEF Downward, Counted, wseen
<1>6. CASE WorkerDrain
  <2>1. wsaid' = wsaid
    BY <1>6 DEF WorkerDrain
  <2>2. CASE wqueue = <<>>
    BY <1>3, <1>6, <2>1, <2>2 DEF WorkerDrain
  <2>3. CASE wqueue # <<>> /\ wmessage = "callback"
    BY <1>3, <1>6, <2>1, <2>3, MovedOver DEF WorkerDrain, Queues
  <2>4. CASE wqueue # <<>> /\ wmessage # "callback"
    <3>1. Tail(wqueue) \in Seq(Messages) /\ Len(Tail(wqueue)) = Len(wqueue) - 1
      BY <2>4, HeadTailProperties DEF Queues
    <3>2. \A i \in 1 .. Len(Tail(wqueue)) : Tail(wqueue)[i] = wqueue[i + 1]
      BY <2>4, HeadTailProperties DEF Queues
    <3>3. wseen' = wheard \o Tail(wqueue)
      BY <1>6, <2>4 DEF WorkerDrain
    <3> DEFINE moved(k) == IF k <= Len(wheard) THEN k ELSE k + 1
    <3>4. /\ DOMAIN wseen' = 1 .. (Len(wseen) - 1) /\ Len(wseen) \in Nat
          /\ \A k \in DOMAIN wseen' : moved(k) \in DOMAIN wseen /\ wseen'[k] = wseen[moved(k)]
      <4>1. Len(wseen') = Len(wseen) - 1 /\ Len(wseen) \in Nat /\ wseen' \in Seq(Messages)
        BY <3>1, <3>3 DEF Queues
      <4>2. DOMAIN wseen' = 1 .. (Len(wseen) - 1) /\ DOMAIN wseen = 1 .. Len(wseen)
        BY <1>0, <4>1
      <4>3. ASSUME NEW k \in DOMAIN wseen'
            PROVE  moved(k) \in DOMAIN wseen /\ wseen'[k] = wseen[moved(k)]
        <5>0. k \in Nat /\ Len(wheard) \in Nat
          BY <4>1, <4>2 DEF Queues
        <5>1. CASE k <= Len(wheard)
          BY <3>1, <3>3, <4>1, <4>2, <5>1 DEF Queues
        <5>2. CASE k > Len(wheard)
          <6> DEFINE i == k - Len(wheard)
          <6>1. i \in 1 .. Len(Tail(wqueue)) /\ k + 1 \in DOMAIN wseen
            BY <3>1, <3>3, <4>1, <4>2, <5>0, <5>2 DEF Queues
          <6>2. wseen'[k] = Tail(wqueue)[i]
            BY <3>1, <3>3, <4>2, <5>0, <5>2 DEF Queues
          <6>3. wseen[k + 1] = wqueue[i + 1]
            BY <3>1, <3>3, <4>1, <4>2, <5>0, <5>2, <6>1 DEF Queues
          <6> QED
            BY <3>2, <5>2, <5>0, <6>1, <6>2, <6>3
        <5> QED
          BY <5>0, <5>1, <5>2
      <4> QED
        BY <4>1, <4>2, <4>3
    <3>5. \A j, k \in DOMAIN wseen' : j < k => moved(j) < moved(k)
      BY <3>4 DEF Queues
    <3> HIDE DEF wseen, moved
    <3>6. /\ \A k \in DOMAIN wseen' : Number(wseen'[k]) <= wsaid'
          /\ \A j, k \in DOMAIN wseen' : j < k => Number(wseen'[j]) < Number(wseen'[k])
      BY <1>1, <1>2, <2>1, <3>4, <3>5
    <3> QED
      BY <3>6 DEF Downward, Counted, wseen
  <2> QED
    BY <2>2, <2>3, <2>4
<1>7. CASE Quiet \/ WorkerSend \/ Drain \/ Collect
  BY <1>3, <1>7 DEF Quiet, WorkerSend, Drain, Collect, Controller, downward, workerData
<1> QED
  BY <1>4, <1>5, <1>6, <1>7, StepMovesFew

-----------------------------------------------------------------------------
(* The controller and the worker begin with nothing said.                  *)
LEMMA InitIsGood == Init => IInv
<1> SUFFICES ASSUME Init PROVE IInv
  OBVIOUS
<1> USE DEF Init, New
<1>1. Bools /\ Labels
  BY DEF Bools, Labels
<1>2. Queues
  BY MessagesAssumption DEF Queues
<1>3. Lifetime /\ NoLostWakeup
  BY DEF Lifetime, ReferenceKept, LoopIsOutside, ClosedIsEmpty, Over, NoLostWakeup
<1>4. Upward
  BY DEF Upward
<1>5. Downward
  BY DEF Downward, Counted
<1> QED
  BY <1>1, <1>2, <1>3, <1>4, <1>5 DEF IInv

(* The invariant is inductive.                                             *)
LEMMA StepIsGood == IInv /\ [Next]_vars => IInv'
BY StepKeepsBools, StepKeepsLabels, StepKeepsQueues, StepKeepsReference,
   StepLosesNoWakeup, StepKeepsUpward, StepKeepsDownward DEF IInv

(* It holds whatever the two scripts call, and when.                       *)
THEOREM Invariance == Spec => []IInv
BY InitIsGood, StepIsGood, PTL DEF Spec

(* The worker uses the controller as long as its script runs, and the      *)
(* controller lives until then (thread.c:464-488, 84, 129, 158).           *)
THEOREM LivesLongEnough == Spec => []ControllerOutlivesWorker
<1>1. IInv => ControllerOutlivesWorker
  BY WorkerTyped DEF IInv, ControllerOutlivesWorker, Lifetime, ReferenceKept, Over
<1> QED
  BY <1>1, Invariance, PTL

(* Messages arrive in the order they were sent, those to a live controller *)
(* once and all of them, and are whole when there is no zero byte in them  *)
(* (thread.c:192, 376).                                                    *)
THEOREM OrderIsKept == Spec => []MessagesInOrder
<1>1. IInv => MessagesInOrder
  BY OrderParts DEF IInv
<1> QED
  BY <1>1, Invariance, PTL

(* No wakeup is lost between the two threads, though wakeups are merged    *)
(* (thread.c:192).                                                         *)
THEOREM WakeupsArrive == Spec => []NoLostWakeup
<1>1. IInv => NoLostWakeup
  BY DEF IInv
<1> QED
  BY <1>1, Invariance, PTL

-----------------------------------------------------------------------------
(* The reader of the stream: packets that records do not split are handed  *)
(* on whole, in any number and of any size, and one that is split may stop *)
(* the reader where a record ends.                                         *)

(* The packets fill the stream, one after the other.                       *)
Laid ==
    /\ \A k \in DOMAIN packets : /\ packets[k].known /\ End(packets[k]) <= size
                                 /\ Boundary(End(packets[k]))
    /\ \A j, k \in DOMAIN packets : j < k => End(packets[j]) <= packets[k].at

(* ... and the records do, behind `left` decrypted bytes that are read up  *)
(* to `at`.                                                                *)
Follow(at, left, ends) ==
    /\ at \in Nat /\ left \in 0 .. MaxRecord /\ ends \in Seq(Nat)
    /\ at + left <= carried /\ at + left \in cuts
    /\ \A k \in DOMAIN ends : /\ at + left < ends[k] /\ ends[k] <= carried /\ ends[k] \in cuts
    /\ \A j, k \in DOMAIN ends : j < k => ends[j] < ends[k]
    /\ \A k \in DOMAIN ends :
        LET from == IF k = 1 THEN at + left ELSE ends[k - 1]
        IN  ends[k] - from \in 1 .. MaxRecord
    /\ carried = IF ends = <<>> THEN at + left ELSE ends[Len(ends)]

Stands == Boundary(pos) \/ pos \in cuts

Whole == {k \in DOMAIN packets : packets[k].length > 0 /\ End(packets[k]) <= pos}

Handed ==
    /\ \A j, k \in DOMAIN handled : j < k => handled[j].at < handled[k].at
    /\ {handled[k] : k \in DOMAIN handled} = {packets[k] : k \in Whole}

ReaderInv == ReaderTypeOK /\ Laid /\ Follow(pos, pending, records) /\ Stands /\ Handed

(* The types of what a packet is made of.                                  *)
LEMMA PacketTypes ==
    ASSUME ReaderTypeOK
    PROVE  /\ Len(packets) \in Nat /\ DOMAIN packets = 1 .. Len(packets)
           /\ HeaderSize \in Nat /\ HeaderSize > 0 /\ size \in Nat /\ pos \in Nat
           /\ \A k \in DOMAIN packets :
                /\ packets[k] \in PacketRecord /\ packets[k].at \in Nat /\ packets[k].length \in Nat
                /\ End(packets[k]) \in Nat /\ packets[k].at < End(packets[k])
<1>1. Len(packets) \in Nat /\ DOMAIN packets = 1 .. Len(packets) /\ packets \in Seq(PacketRecord)
  BY LenProperties DEF ReaderTypeOK
<1>2. HeaderSize \in Nat /\ HeaderSize > 0 /\ Lengths \subseteq Nat
  BY ReaderAssumption
<1>3. ASSUME NEW k \in DOMAIN packets
      PROVE  /\ packets[k] \in PacketRecord /\ packets[k].at \in Nat /\ packets[k].length \in Nat
             /\ End(packets[k]) \in Nat /\ packets[k].at < End(packets[k])
  <2>1. packets[k] \in PacketRecord
    BY <1>1, <1>3
  <2>2. packets[k].at \in Nat /\ packets[k].length \in Nat
    BY <1>2, <2>1 DEF PacketRecord
  <2> QED
    BY <1>2, <2>1, <2>2 DEF End
<1> QED
  BY <1>1, <1>2, <1>3 DEF ReaderTypeOK

(* The packet at the reader's position, when more bytes were carried.      *)
LEMMA NextPacket ==
    ASSUME ReaderInv, Boundary(pos), pos < size
    PROVE  \E k \in DOMAIN packets : packets[k].at = pos /\ Packet = packets[k]
<1>1. PICK k \in DOMAIN packets : packets[k].at = pos
  BY PacketTypes DEF Boundary, ReaderInv
<1>2. \A j \in DOMAIN packets : packets[j].at = pos => j = k
  <2>1. ASSUME NEW i \in DOMAIN packets, NEW j \in DOMAIN packets, i < j
        PROVE  packets[i].at # packets[j].at
    <3>1. End(packets[i]) <= packets[j].at
      BY <2>1 DEF ReaderInv, Laid
    <3>2. /\ packets[i].at \in Nat /\ End(packets[i]) \in Nat /\ packets[j].at \in Nat
          /\ packets[i].at < End(packets[i])
      BY PacketTypes DEF ReaderInv
    <3> QED
      BY <3>1, <3>2
  <2>2. \A j \in DOMAIN packets : j \in Int
    BY PacketTypes DEF ReaderInv
  <2> QED
    BY <1>1, <2>1, <2>2
<1>3. Packet = packets[k]
  <2>1. \A p \in {packets[j] : j \in DOMAIN packets} : p.at = pos => p = packets[k]
    BY <1>2
  <2>2. packets[k] \in {packets[j] : j \in DOMAIN packets}
    BY <1>1
  <2> QED
    BY <1>1, <2>1, <2>2 DEF Packet
<1> QED
  BY <1>1, <1>3

(* SSL_read of n bytes: it stays within a record, and yields fewer than n  *)
(* only where that record ends (mumble.c:387, 428).                        *)
LEMMA OneRead ==
    ASSUME NEW ssl, Follow(ssl.pos, ssl.pending, ssl.records), carried \in Nat,
           NEW n \in Nat, n > 0
    PROVE  LET s == SSL_read(n, ssl)
           IN  /\ Follow(s.pos, s.pending, s.records)
               /\ s.ret \in 0 .. n /\ s.pos = ssl.pos + s.ret
               /\ s.ret < n => s.pos \in cuts
               /\ ssl.records # <<>> => s.ret > 0
<1> DEFINE fresh == ssl.pending = 0 /\ ssl.records # <<>>
           have  == IF fresh THEN Head(ssl.records) - ssl.pos ELSE ssl.pending
           rest  == IF fresh THEN Tail(ssl.records) ELSE ssl.records
           ret   == IF n < have THEN n ELSE have
           ends  == ssl.records
           at    == ssl.pos
           left  == ssl.pending
           s     == SSL_read(n, ssl)
<1>1. s = [ret |-> ret, pos |-> at + ret, pending |-> have - ret, records |-> rest]
  BY DEF SSL_read
<1>2. /\ at \in Nat /\ left \in Nat /\ left <= MaxRecord /\ MaxRecord \in Nat /\ ends \in Seq(Nat)
      /\ DOMAIN ends = 1 .. Len(ends) /\ Len(ends) \in Nat
      /\ ends # <<>> => 1 \in DOMAIN ends /\ Head(ends) = ends[1] /\ Len(ends) > 0
      /\ \A k \in DOMAIN ends : ends[k] \in Nat
  <2>1. at \in Nat /\ left \in 0 .. MaxRecord /\ ends \in Seq(Nat) /\ MaxRecord \in Nat
    BY ReaderAssumption DEF Follow
  <2> HIDE DEF at, left, ends
  <2> QED
    BY <2>1, EmptySeq, LenProperties
<1>3. /\ at + left <= carried /\ at + left \in cuts
      /\ \A k \in DOMAIN ends : /\ at + left < ends[k] /\ ends[k] <= carried /\ ends[k] \in cuts
      /\ \A j, k \in DOMAIN ends : j < k => ends[j] < ends[k]
      /\ \A k \in DOMAIN ends :
          LET from == IF k = 1 THEN at + left ELSE ends[k - 1]
          IN  ends[k] - from \in 1 .. MaxRecord
      /\ carried = IF ends = <<>> THEN at + left ELSE ends[Len(ends)]
  BY DEF Follow
<1>4. fresh => left = 0 /\ ends # <<>> /\ have = ends[1] - at /\ rest = Tail(ends)
  BY <1>2
<1>5. ~fresh => have = left /\ rest = ends
  OBVIOUS
<1>6. ends # <<>> /\ ~fresh => left > 0
  BY <1>2
<1> HIDE DEF fresh, have, rest, ends, at, left
<1>7. /\ have \in Nat /\ have <= MaxRecord /\ at + have \in cuts /\ at + have <= carried
      /\ ends # <<>> => have > 0
  <2>1. CASE fresh
    <3>1. ends[1] - (at + left) \in 1 .. MaxRecord /\ ends[1] \in Nat /\ ends[1] \in cuts /\ ends[1] <= carried
      BY <1>2, <1>3, <1>4, <2>1
    <3>2. at + have = ends[1]
      BY <1>2, <1>4, <2>1, <3>1
    <3>3. have \in 1 .. MaxRecord
      BY <1>2, <1>4, <2>1, <3>1
    <3> QED
      BY <1>2, <3>1, <3>2, <3>3
  <2>2. CASE ~fresh
    BY <1>2, <1>3, <1>5, <1>6, <2>2
  <2> QED
    BY <2>1, <2>2
<1>8. /\ rest \in Seq(Nat)
      /\ \A k \in DOMAIN rest : /\ at + have < rest[k] /\ rest[k] <= carried /\ rest[k] \in cuts
      /\ \A j, k \in DOMAIN rest : j < k => rest[j] < rest[k]
      /\ \A k \in DOMAIN rest :
          LET from == IF k = 1 THEN at + have ELSE rest[k - 1]
          IN  rest[k] - from \in 1 .. MaxRecord
      /\ carried = IF rest = <<>> THEN at + have ELSE rest[Len(rest)]
  <2>1. CASE fresh
    <3> DEFINE m == Len(ends) - 1
    <3>1. /\ rest \in Seq(Nat) /\ Len(rest) = m /\ DOMAIN rest = 1 .. m /\ m \in Nat
          /\ \A j \in 1 .. m : rest[j] = ends[j + 1] /\ j + 1 \in DOMAIN ends
          /\ 1 \in DOMAIN ends /\ at + have = ends[1] /\ left = 0
      <4>1. /\ ends \in Seq(Nat) /\ ends # <<>> /\ rest = Tail(ends) /\ have = ends[1] - at
            /\ at \in Nat /\ 1 \in DOMAIN ends /\ ends[1] \in Nat /\ left = 0
        BY <1>2, <1>4, <2>1
      <4>2. at + have = ends[1]
        BY <4>1
      <4> HIDE DEF m
      <4>3. /\ rest \in Seq(Nat) /\ Len(rest) = Len(ends) - 1 /\ DOMAIN rest = 1 .. Len(ends) - 1
            /\ Len(ends) - 1 \in Nat
            /\ \A j \in 1 .. Len(ends) - 1 : rest[j] = ends[j + 1] /\ j + 1 \in DOMAIN ends
        BY <4>1
      <4> QED
        BY <4>1, <4>2, <4>3 DEF m
    <3> HIDE DEF m
    <3>2. ASSUME NEW k \in DOMAIN rest
          PROVE  /\ at + have < rest[k] /\ rest[k] <= carried /\ rest[k] \in cuts
                 /\ LET from == IF k = 1 THEN at + have ELSE rest[k - 1]
                    IN  rest[k] - from \in 1 .. MaxRecord
      <4>1. PICK i \in DOMAIN ends : i = k + 1 /\ 1 < i /\ rest[k] = ends[i]
        BY <3>1
      <4>2. ends[1] < ends[i] /\ ends[i] <= carried /\ ends[i] \in cuts
        BY <1>3, <3>1, <4>1
      <4>3. ends[i] - ends[i - 1] \in 1 .. MaxRecord
        <5>1. (i = 1) = FALSE
          BY <1>2, <4>1
        <5>2. ends[i] - (IF i = 1 THEN at + left ELSE ends[i - 1]) \in 1 .. MaxRecord
          BY <1>3
        <5> QED
          BY <5>1, <5>2
      <4>4. (IF k = 1 THEN at + have ELSE rest[k - 1]) = ends[i - 1]
        BY <3>1, <4>1
      <4> QED
        BY <3>1, <4>1, <4>2, <4>3, <4>4
    <3>3. ASSUME NEW j \in DOMAIN rest, NEW k \in DOMAIN rest, j < k PROVE rest[j] < rest[k]
      <4>1. j + 1 < k + 1 /\ rest[j] = ends[j + 1] /\ rest[k] = ends[k + 1]
            /\ j + 1 \in DOMAIN ends /\ k + 1 \in DOMAIN ends
        BY <3>1, <3>3
      <4> QED
        BY <1>3, <4>1
    <3>4. carried = IF rest = <<>> THEN at + have ELSE rest[Len(rest)]
      <4>1. carried = ends[Len(ends)]
        BY <1>3, <1>4, <2>1
      <4>2. CASE m = 0
        BY <1>2, <3>1, <4>1, <4>2, EmptySeq DEF m
      <4>3. CASE m # 0
        <5>1. m \in 1 .. m /\ m + 1 = Len(ends) /\ Len(rest) = m
          BY <1>2, <3>1, <4>3 DEF m
        <5>2. rest[m] = ends[m + 1] /\ rest # <<>>
          BY <3>1, <4>3, <5>1
        <5>3. rest # <<>> /\ rest[Len(rest)] = ends[Len(ends)]
          BY <5>1, <5>2
        <5> QED
          BY <4>1, <5>3
      <4> QED
        BY <4>2, <4>3
    <3> QED
      BY <3>1, <3>2, <3>3, <3>4
  <2>2. CASE ~fresh
    BY <1>2, <1>3, <1>5, <2>2
  <2> QED
    BY <2>1, <2>2
<1>9. /\ ret \in 0 .. n /\ have - ret \in 0 .. MaxRecord /\ ret \in Nat
      /\ (at + ret) + (have - ret) = at + have /\ at + ret \in Nat
      /\ ret < n => at + ret = at + have
      /\ ends # <<>> => ret > 0
  BY <1>2, <1>7
<1> HIDE DEF ret
<1>10. Follow(at + ret, have - ret, rest)
  BY <1>7, <1>8, <1>9 DEF Follow
<1>11. Follow(s.pos, s.pending, s.records)
  BY <1>1, <1>10
<1> HIDE DEF s
<1>12. /\ s.ret = ret /\ s.pos = at + ret
       /\ ret < n => at + ret \in cuts
  BY <1>1, <1>7, <1>9
<1> QED
  BY <1>9, <1>11, <1>12 DEF s, at, ends


(* What an event does: it reads on from where a packet starts, not past    *)
(* its end, and hands the packet on when it has come there.                *)
LEMMA EventReads ==
    ASSUME ReaderInv, ReadEvent
    PROVE  \E k \in DOMAIN packets :
              /\ packets[k].at = pos /\ pos' \in Nat /\ pos < pos' /\ pos' <= End(packets[k])
              /\ Follow(pos', pending', records')
              /\ pos' = End(packets[k]) \/ pos' \in cuts
              /\ handled' = IF pos' = End(packets[k]) /\ packets[k].length > 0
                            THEN Append(handled, packets[k]) ELSE handled
<1> DEFINE start  == [pending |-> pending, records |-> records, pos |-> pos]
           header == SSL_read(HeaderSize, start)
<1>1. records # <<>> /\ Boundary(pos)
  BY DEF ReadEvent
<1>2. carried \in Nat /\ pos \in Nat /\ pos < size
  <2>1. /\ carried \in Nat /\ carried <= size /\ size \in Nat /\ pos \in Nat /\ pending \in Nat
        /\ records \in Seq(Nat)
    BY ReaderAssumption DEF ReaderInv, ReaderTypeOK
  <2>2. 1 \in DOMAIN records /\ records[1] \in Nat
    BY <1>1, <2>1, EmptySeq
  <2>3. pos + pending < records[1] /\ records[1] <= carried
    BY <2>2 DEF ReaderInv, Follow
  <2> QED
    BY <2>1, <2>2, <2>3
<1>3. PICK k \in DOMAIN packets : packets[k].at = pos /\ Packet = packets[k]
  BY <1>1, <1>2, NextPacket
<1> DEFINE length == packets[k].length
           body   == SSL_read(length, header)
<1>4. /\ HeaderSize \in Nat /\ HeaderSize > 0 /\ length \in Nat /\ packets[k].known
      /\ End(packets[k]) = pos + HeaderSize + length
  BY <1>3, PacketTypes DEF ReaderInv, Laid, End
<1>5. /\ Follow(header.pos, header.pending, header.records)
      /\ header.ret \in 0 .. HeaderSize /\ header.pos = pos + header.ret
      /\ header.ret < HeaderSize => header.pos \in cuts
      /\ header.ret > 0
  <2>1. start.pos = pos /\ start.pending = pending /\ start.records = records
    OBVIOUS
  <2>2. Follow(start.pos, start.pending, start.records)
    BY <2>1 DEF ReaderInv
  <2> HIDE DEF start
  <2> QED
    BY <1>1, <1>2, <1>4, <2>1, <2>2, OneRead
<1> HIDE DEF header, start
<1>6. length > 0 => /\ Follow(body.pos, body.pending, body.records)
                    /\ body.ret \in 0 .. length /\ body.pos = header.pos + body.ret
                    /\ body.ret < length => body.pos \in cuts
  BY <1>2, <1>4, <1>5, OneRead
<1>7. IF ~(header.ret = HeaderSize) \/ ~Packet.known \/ BodyLength(Packet) = 0
      THEN Took(header) /\ UNCHANGED handled
      ELSE /\ Took(SSL_read(BodyLength(Packet), header))
           /\ handled' = IF SSL_read(BodyLength(Packet), header).ret = Packet.length
                         THEN Append(handled, Packet) ELSE handled
  BY DEF ReadEvent, header, start
<1>8. IF header.ret # HeaderSize \/ length = 0 THEN Took(header) /\ UNCHANGED handled
      ELSE /\ Took(body)
           /\ handled' = IF body.ret = length THEN Append(handled, packets[k]) ELSE handled
  <2>1. BodyLength(Packet) = length /\ Packet.length = length /\ Packet.known
    BY <1>3, <1>4 DEF BodyLength
  <2> QED
    BY <1>3, <1>7, <2>1
<1> HIDE DEF body, length
<1>9. CASE header.ret # HeaderSize \/ length = 0
  <2>1. pos' = header.pos /\ pending' = header.pending /\ records' = header.records /\ handled' = handled
    BY <1>8, <1>9 DEF Took
  <2>2. pos' \in Nat /\ pos < pos' /\ pos' <= End(packets[k])
    BY <1>2, <1>4, <1>5, <2>1
  <2>3. pos' = End(packets[k]) \/ pos' \in cuts
    BY <1>2, <1>4, <1>5, <1>9, <2>1
  <2>4. ~(pos' = End(packets[k]) /\ length > 0)
    BY <1>2, <1>4, <1>5, <1>9, <2>1
  <2> QED
    BY <1>3, <1>5, <2>1, <2>2, <2>3, <2>4 DEF length
<1>10. CASE header.ret = HeaderSize /\ length # 0
  <2>1. /\ pos' = body.pos /\ pending' = body.pending /\ records' = body.records
        /\ handled' = IF body.ret = length THEN Append(handled, packets[k]) ELSE handled
        /\ length > 0
    BY <1>4, <1>8, <1>10 DEF Took
  <2>2. /\ pos' \in Nat /\ pos < pos' /\ pos' <= End(packets[k])
        /\ pos' = End(packets[k]) <=> body.ret = length
    BY <1>2, <1>4, <1>5, <1>6, <1>10, <2>1
  <2>3. pos' = End(packets[k]) \/ pos' \in cuts
    BY <1>4, <1>6, <2>1, <2>2
  <2> QED
    BY <1>3, <1>6, <2>1, <2>2, <2>3 DEF length
<1> QED
  BY <1>9, <1>10


(* The server sends a packet of a type that the client knows.              *)
Sends(length) ==
    /\ packets' = Append(packets, [at |-> size, length |-> length, known |-> TRUE])
    /\ size' = size + HeaderSize + length
    /\ UNCHANGED received

(* A boundary stays one when the server sends more.                        *)
LEMMA BoundaryStays ==
    ASSUME ReaderTypeOK, NEW length \in Lengths, Sends(length)
    PROVE  \A n : Boundary(n) => Boundary(n)'
<1>1. PICK p \in PacketRecord : packets' = Append(packets, p) /\ p.at = size
  <2> DEFINE p == [at |-> size, length |-> length, known |-> TRUE]
  <2>1. packets' = Append(packets, p)
    BY DEF Sends
  <2>2. p \in PacketRecord /\ p.at = size
    BY ReaderAssumption DEF PacketRecord, ReaderTypeOK
  <2> QED
    BY <2>1, <2>2
<1>2. /\ DOMAIN packets = 1 .. Len(packets) /\ DOMAIN packets' = 1 .. Len(packets) + 1
      /\ Len(packets) \in Nat /\ \A k \in DOMAIN packets : packets'[k] = packets[k]
      /\ packets'[Len(packets) + 1] = p
  <2>1. packets \in Seq(PacketRecord)
    BY DEF ReaderTypeOK
  <2> QED
    BY <1>1, <2>1
<1> QED
  BY <1>1, <1>2 DEF Boundary

LEMMA PacketIsGood ==
    ASSUME ReaderInv, NEW length \in Lengths, Sends(length)
    PROVE  ReaderInv'
<1> DEFINE n == Len(packets) + 1
<1>1. /\ packets' = Append(packets, [at |-> size, length |-> length, known |-> TRUE])
      /\ size' = size + HeaderSize + length
      /\ UNCHANGED <<carried, cuts, records, pending, pos, handled, cleared>>
  BY DEF Sends, received
<1> DEFINE p == [at |-> size, length |-> length, known |-> TRUE]
<1>2. /\ length \in Nat /\ size \in Nat /\ size' \in Nat /\ size < size' /\ p \in PacketRecord
      /\ n \in Nat /\ End(p) = size' /\ pos \in Nat /\ pos <= size /\ carried <= size'
  <2>1. /\ length \in Nat /\ size \in Nat /\ HeaderSize \in Nat /\ HeaderSize > 0 /\ n \in Nat
        /\ pos \in Nat /\ pending \in Nat /\ carried \in Nat /\ carried <= size
    BY PacketTypes, ReaderAssumption DEF ReaderInv, ReaderTypeOK
  <2>2. pos + pending <= carried
    BY DEF ReaderInv, Follow
  <2> QED
    BY <1>1, <2>1, <2>2 DEF PacketRecord, End
<1>3. /\ DOMAIN packets = 1 .. n - 1 /\ DOMAIN packets' = 1 .. n
      /\ packets' \in Seq(PacketRecord) /\ packets'[n] = p
      /\ \A k \in DOMAIN packets : packets'[k] = packets[k] /\ k \in DOMAIN packets'
      /\ \A k \in DOMAIN packets' : k \in DOMAIN packets \/ k = n
  <2>1. packets \in Seq(PacketRecord) /\ p \in PacketRecord /\ packets' = Append(packets, p)
    BY <1>1, <1>2 DEF ReaderInv, ReaderTypeOK
  <2> HIDE DEF p
  <2>2. /\ DOMAIN packets = 1 .. n - 1 /\ DOMAIN packets' = 1 .. n /\ n \in Nat
        /\ packets' \in Seq(PacketRecord) /\ packets'[n] = p
        /\ \A k \in 1 .. n - 1 : packets'[k] = packets[k]
    BY <2>1
  <2> QED
    BY <2>2
<1>4. \A b : Boundary(b) => Boundary(b)'
  BY BoundaryStays DEF ReaderInv
<1>5. \A k \in DOMAIN packets : /\ packets[k].known /\ End(packets[k]) <= size
                                /\ End(packets[k]) \in Nat /\ packets[k].at \in Nat
                                /\ Boundary(End(packets[k]))
  BY PacketTypes DEF ReaderInv, Laid
<1>6. p.at = size /\ p.known /\ p.length = length
  OBVIOUS
<1> HIDE DEF p, n
<1>7. Laid'
  <2>1. ASSUME NEW k \in DOMAIN packets'
        PROVE  packets'[k].known /\ End(packets'[k]) <= size' /\ Boundary(End(packets[k]))'
    <3>1. CASE k \in DOMAIN packets
      <4>1. packets'[k] = packets[k] /\ End(packets[k])' = End(packets[k])
        BY <1>3, <3>1 DEF End
      <4>2. End(packets[k]) <= size'
        BY <1>2, <1>5, <3>1, PacketTypes DEF ReaderInv
      <4> QED
        BY <1>4, <1>5, <3>1, <4>1, <4>2
    <3>2. CASE k = n
      <4>1. packets'[k] = p /\ End(packets[k])' = size'
        BY <1>2, <1>3, <3>2 DEF End
      <4>2. Boundary(size)'
        BY DEF Boundary
      <4> QED
        BY <1>2, <1>6, <4>1, <4>2
    <3> QED
      BY <1>3, <2>1, <3>1, <3>2
  <2>2. ASSUME NEW j \in DOMAIN packets', NEW k \in DOMAIN packets', j < k
        PROVE  End(packets'[j]) <= packets'[k].at
    <3>1. j \in DOMAIN packets
      BY <1>2, <1>3, <2>2
    <3>2. CASE k \in DOMAIN packets
      BY <1>3, <2>2, <3>1, <3>2 DEF ReaderInv, Laid
    <3>3. CASE k = n
      BY <1>3, <1>5, <1>6, <3>1, <3>3
    <3> QED
      BY <1>3, <2>2, <3>2, <3>3
  <2> QED
    BY <2>1, <2>2 DEF Laid, End
<1>8. Follow(pos, pending, records)'
  BY <1>1 DEF ReaderInv, Follow
<1>9. Stands'
  BY <1>1, <1>4 DEF ReaderInv, Stands
<1>10. Handed'
  <2>1. Whole' = Whole
    <3>1. ~(End(packets'[n]) <= pos)
      BY <1>2, <1>3
    <3>2. ASSUME NEW k \in DOMAIN packets
          PROVE  packets'[k] = packets[k] /\ End(packets'[k]) = End(packets[k])
      BY <1>3, <3>2
    <3>3. Whole' = {k \in DOMAIN packets' : packets'[k].length > 0 /\ End(packets'[k]) <= pos}
      BY <1>1 DEF Whole, End
    <3> QED
      BY <1>3, <3>1, <3>2, <3>3 DEF Whole
  <2>2. {packets'[k] : k \in Whole} = {packets[k] : k \in Whole}
    BY <1>3 DEF Whole
  <2>3. handled' = handled
    BY <1>1
  <2>4. /\ {handled[k] : k \in DOMAIN handled} = {packets[k] : k \in Whole}
        /\ \A j, k \in DOMAIN handled : j < k => handled[j].at < handled[k].at
    BY DEF ReaderInv, Handed
  <2> QED
    BY <2>1, <2>2, <2>3, <2>4 DEF Handed
<1>11. ReaderTypeOK'
  <2>1. carried' \in 0 .. size'
    <3>1. carried \in 0 .. size
      BY DEF ReaderInv, ReaderTypeOK
    <3> QED
      BY <1>1, <1>2, <3>1
  <2> QED
    BY <1>1, <1>2, <1>3, <2>1 DEF ReaderInv, ReaderTypeOK
<1> QED
  BY <1>7, <1>8, <1>9, <1>10, <1>11 DEF ReaderInv

LEMMA SendPacketIsGood ==
    ASSUME UnknownTypes = FALSE, ReaderInv, SendPacket
    PROVE  ReaderInv'
<1>1. PICK length \in Lengths : Sends(length)
  BY DEF SendPacket, Sends
<1> QED
  BY <1>1, PacketIsGood

(* TLS carries more, up to the end of a packet or to its limit.            *)
LEMMA RecordIsGood ==
    ASSUME ReaderInv, Record
    PROVE  ReaderInv'
<1> DEFINE m == Len(records) + 1
<1>1. PICK n \in 1 .. MaxRecord :
        /\ carried + n <= size /\ carried' = carried + n
        /\ records' = Append(records, carried + n) /\ cuts' = cuts \cup {carried + n}
        /\ UNCHANGED <<packets, size, pending, pos, handled, cleared>>
  BY DEF Record
<1>2. /\ MaxRecord \in Nat /\ carried \in Nat /\ n \in Nat /\ n > 0 /\ carried' \in 0 .. size
      /\ records \in Seq(Nat) /\ m \in Nat /\ m > 0 /\ pos \in Nat /\ pending \in Nat
      /\ carried < carried' /\ carried' \in Nat /\ DOMAIN records = 1 .. m - 1
  <2>1. /\ MaxRecord \in Nat /\ carried \in 0 .. size /\ size \in Nat /\ records \in Seq(Nat)
        /\ pos \in Nat /\ pending \in 0 .. MaxRecord
    BY ReaderAssumption DEF ReaderInv, ReaderTypeOK
  <2> QED
    BY <1>1, <2>1
<1>3. /\ records' \in Seq(Nat) /\ DOMAIN records' = 1 .. m /\ Len(records') = m
      /\ records'[m] = carried' /\ records' # <<>>
      /\ \A k \in DOMAIN records : records'[k] = records[k] /\ records[k] \in Nat
      /\ \A k \in DOMAIN records' : k \in DOMAIN records \/ k = m
  BY <1>1, <1>2
<1>4. /\ m = 1 => records = <<>> /\ carried = pos + pending
      /\ m # 1 => m - 1 \in DOMAIN records /\ carried = records[m - 1]
  <2>1. m = 1 <=> records = <<>>
    BY <1>2, EmptySeq
  <2> QED
    BY <1>2, <2>1 DEF ReaderInv, ReaderTypeOK
<1> HIDE DEF m
<1>5. \A b : Boundary(b)' = Boundary(b)
  BY <1>1 DEF Boundary
<1>6. Laid' /\ Handed' /\ Stands'
  <2>1. Laid'
    BY <1>1, <1>5 DEF ReaderInv, Laid, End
  <2>2. Handed'
    BY <1>1 DEF ReaderInv, Handed, Whole, End
  <2>3. Stands'
    BY <1>1, <1>5 DEF ReaderInv, Stands
  <2> QED
    BY <2>1, <2>2, <2>3
<1>7. ASSUME NEW k \in DOMAIN records'
      PROVE  LET from == IF k = 1 THEN pos + pending ELSE records'[k - 1]
             IN  records'[k] - from \in 1 .. MaxRecord
  <2>1. CASE k \in DOMAIN records
    <3>1. k # 1 => records'[k - 1] = records[k - 1]
      <4>1. k # 1 => k - 1 \in DOMAIN records
        BY <1>2, <2>1
      <4> QED
        BY <1>3, <4>1
    <3> QED
      BY <1>3, <2>1, <3>1 DEF ReaderInv, ReaderTypeOK
  <2>2. CASE k = m
    <3>1. (IF k = 1 THEN pos + pending ELSE records'[k - 1]) = carried
      BY <1>3, <1>4, <2>2
    <3> QED
      BY <1>1, <1>2, <1>3, <2>2, <3>1
  <2> QED
    BY <1>3, <1>7, <2>1, <2>2
<1>8. Follow(pos, pending, records)'
  <2>1. /\ pos + pending <= carried /\ pos + pending \in cuts
        /\ \A k \in DOMAIN records :
              pos + pending < records[k] /\ records[k] <= carried /\ records[k] \in cuts
    BY DEF ReaderInv, Follow
  <2>2. ASSUME NEW k \in DOMAIN records'
        PROVE  pos + pending < records'[k] /\ records'[k] <= carried' /\ records'[k] \in cuts'
    <3>1. CASE k \in DOMAIN records
      <4>1. /\ records'[k] = records[k] /\ records[k] \in Nat
            /\ pos + pending < records[k] /\ records[k] <= carried /\ records[k] \in cuts
        BY <1>3, <2>1, <3>1
      <4>2. records[k] \in cuts'
        BY <1>1, <4>1
      <4>3. records[k] <= carried'
        BY <1>2, <4>1
      <4> QED
        BY <4>1, <4>2, <4>3
    <3>2. CASE k = m
      <4>1. records'[k] = carried' /\ carried' \in cuts'
        BY <1>1, <1>3, <3>2
      <4> QED
        BY <1>2, <2>1, <4>1
    <3> QED
      BY <1>3, <2>2, <3>1, <3>2
  <2>3. ASSUME NEW j \in DOMAIN records', NEW k \in DOMAIN records', j < k
        PROVE  records'[j] < records'[k]
    <3>1. j \in DOMAIN records
      BY <1>2, <1>3, <2>3
    <3>2. CASE k \in DOMAIN records
      BY <1>3, <2>3, <3>1, <3>2 DEF ReaderInv, Follow
    <3>3. CASE k = m
      BY <1>2, <1>3, <2>1, <3>1, <3>3
    <3> QED
      BY <1>3, <2>3, <3>2, <3>3
  <2>4. pos' = pos /\ pending' = pending /\ pending \in 0 .. MaxRecord
    BY <1>1 DEF ReaderInv, ReaderTypeOK
  <2>5. pos + pending \in cuts' /\ pos + pending <= carried'
    BY <1>1, <1>2, <2>1
  <2>6. carried' = IF records' = <<>> THEN pos + pending ELSE records'[Len(records')]
    BY <1>3
  <2> QED
    BY <1>2, <1>3, <1>7, <2>2, <2>3, <2>4, <2>5, <2>6 DEF Follow
<1>9. ReaderTypeOK'
  <2>1. cuts' \subseteq Nat
    BY <1>1, <1>2 DEF ReaderInv, ReaderTypeOK
  <2> QED
    BY <1>1, <1>2, <1>3, <1>7, <2>1 DEF ReaderInv, ReaderTypeOK
<1> QED
  BY <1>6, <1>8, <1>9 DEF ReaderInv

(* A read event reads one packet on, to its end or to that of a record.    *)
LEMMA ReadEventIsGood ==
    ASSUME ReaderInv, ReadEvent
    PROVE  ReaderInv'
<1>1. UNCHANGED <<packets, size, carried, cuts, cleared>>
  BY DEF ReadEvent
<1>2. PICK k \in DOMAIN packets :
        /\ packets[k].at = pos /\ pos' \in Nat /\ pos < pos' /\ pos' <= End(packets[k])
        /\ Follow(pos', pending', records')
        /\ pos' = End(packets[k]) \/ pos' \in cuts
        /\ handled' = IF pos' = End(packets[k]) /\ packets[k].length > 0
                      THEN Append(handled, packets[k]) ELSE handled
  BY EventReads
<1>3. pos \in Nat /\ packets[k] \in PacketRecord /\ packets[k].length \in Nat
  BY PacketTypes DEF ReaderInv
<1>4. \A b : Boundary(b)' = Boundary(b)
  BY <1>1 DEF Boundary
<1>5. Laid'
  BY <1>1, <1>4 DEF ReaderInv, Laid, End
<1>6. Follow(pos, pending, records)'
  BY <1>1, <1>2 DEF Follow
<1>7. Stands'
  BY <1>1, <1>2, <1>4 DEF ReaderInv, Laid, Stands
<1>8. ReaderTypeOK'
  <2>1. handled' \in Seq(PacketRecord)
    BY <1>2, <1>3 DEF ReaderInv, ReaderTypeOK
  <2>2. /\ packets' \in Seq(PacketRecord) /\ size' \in Nat /\ carried' \in 0 .. size'
        /\ cuts' \subseteq Nat /\ cleared' \in BOOLEAN
    BY <1>1 DEF ReaderInv, ReaderTypeOK
  <2> QED
    BY <1>2, <1>6, <2>1, <2>2 DEF ReaderTypeOK, Follow
<1>9. Handed'
  <2> DEFINE T == {j \in DOMAIN packets : packets[j].length > 0 /\ End(packets[j]) <= pos'}
  <2>1. T = IF pos' = End(packets[k]) /\ packets[k].length > 0 THEN Whole \cup {k} ELSE Whole
    <3>1. ASSUME NEW j \in DOMAIN packets
          PROVE  End(packets[j]) <= pos' <=> End(packets[j]) <= pos \/ (j = k /\ pos' = End(packets[k]))
      <4>1. j < k => End(packets[j]) <= pos
        BY <1>2 DEF ReaderInv, Laid
      <4>2. k < j => pos' < End(packets[j])
        <5>1. k < j => End(packets[k]) <= packets[j].at
          BY DEF ReaderInv, Laid
        <5>2. /\ End(packets[k]) \in Nat /\ packets[j].at \in Nat /\ End(packets[j]) \in Nat
              /\ packets[j].at < End(packets[j])
          BY PacketTypes DEF ReaderInv
        <5> QED
          BY <1>2, <5>1, <5>2
      <4>3. /\ j \in Int /\ k \in Int /\ End(packets[j]) \in Nat /\ End(packets[k]) \in Nat
            /\ pos \in Nat /\ pos' \in Nat /\ pos < pos' /\ pos' <= End(packets[k])
        BY <1>2, <1>3, PacketTypes DEF ReaderInv
      <4> QED
        BY <4>1, <4>2, <4>3
    <3> QED
      BY <3>1 DEF Whole
  <2>2. /\ \A i, j \in DOMAIN handled : i < j => handled[i].at < handled[j].at
        /\ {handled[j] : j \in DOMAIN handled} = {packets[j] : j \in Whole}
    BY DEF ReaderInv, Handed
  <2>3. ASSUME NEW j \in DOMAIN handled PROVE handled[j].at < pos
    <3>1. PICK i \in Whole : handled[j] = packets[i]
      BY <2>2
    <3>2. i \in DOMAIN packets /\ End(packets[i]) <= pos
      BY DEF Whole
    <3>3. packets[i].at \in Nat /\ End(packets[i]) \in Nat /\ packets[i].at < End(packets[i])
      BY <3>2, PacketTypes DEF ReaderInv
    <3> QED
      BY <1>3, <3>1, <3>2, <3>3
  <2>4. Whole' = T
    BY <1>1 DEF Whole, End
  <2> HIDE DEF T
  <2>5. /\ \A i, j \in DOMAIN handled' : i < j => handled'[i].at < handled'[j].at
        /\ {handled'[j] : j \in DOMAIN handled'} = {packets[j] : j \in T}
    <3>1. CASE pos' = End(packets[k]) /\ packets[k].length > 0
      <4> DEFINE n == Len(handled) + 1
      <4>1. handled' = Append(handled, packets[k]) /\ handled \in Seq(PacketRecord)
        BY <1>2, <3>1 DEF ReaderInv, ReaderTypeOK
      <4>2. /\ DOMAIN handled = 1 .. n - 1 /\ DOMAIN handled' = 1 .. n /\ n \in Nat /\ n > 0
            /\ handled'[n] = packets[k] /\ \A j \in DOMAIN handled : handled'[j] = handled[j]
        BY <1>3, <4>1
      <4>3. \A j \in DOMAIN handled' : j \in DOMAIN handled \/ j = n
        BY <4>2
      <4> HIDE DEF n
      <4>4. ASSUME NEW i \in DOMAIN handled', NEW j \in DOMAIN handled', i < j
            PROVE  handled'[i].at < handled'[j].at
        <5>1. i \in DOMAIN handled
          BY <4>2, <4>4
        <5>2. CASE j \in DOMAIN handled
          BY <2>2, <4>2, <4>4, <5>1, <5>2
        <5>3. CASE j = n
          BY <1>2, <2>3, <4>2, <5>1, <5>3
        <5> QED
          BY <4>3, <4>4, <5>2, <5>3
      <4>5. {handled'[j] : j \in DOMAIN handled'}
            = {handled[j] : j \in DOMAIN handled} \cup {packets[k]}
        <5>1. DOMAIN handled' = DOMAIN handled \cup {n}
          BY <4>2
        <5> QED
          BY <4>2, <5>1
      <4>6. {packets[j] : j \in T} = {packets[j] : j \in Whole} \cup {packets[k]}
        BY <2>1, <3>1
      <4> QED
        BY <2>2, <4>4, <4>5, <4>6
    <3>2. CASE ~(pos' = End(packets[k]) /\ packets[k].length > 0)
      BY <1>2, <2>1, <2>2, <3>2
    <3> QED
      BY <3>1, <3>2
  <2> QED
    BY <1>1, <2>4, <2>5 DEF Handed
<1> QED
  BY <1>5, <1>6, <1>7, <1>8, <1>9 DEF ReaderInv


(* Before the server has sent anything.                                    *)
LEMMA ReaderInitIsGood == ReaderInit => ReaderInv
<1> SUFFICES ASSUME ReaderInit PROVE ReaderInv
  OBVIOUS
<1>1. /\ packets = <<>> /\ size = 0 /\ carried = 0 /\ cuts = {0} /\ records = <<>> /\ pending = 0
      /\ pos = 0 /\ handled = <<>> /\ cleared \in BOOLEAN
  BY DEF ReaderInit, Unread
<1>2. /\ DOMAIN packets = {} /\ DOMAIN records = {} /\ DOMAIN handled = {}
      /\ packets \in Seq(PacketRecord) /\ handled \in Seq(PacketRecord) /\ records \in Seq(Nat)
      /\ MaxRecord \in Nat
  BY <1>1, ReaderAssumption
<1>3. ReaderTypeOK
  BY <1>1, <1>2 DEF ReaderTypeOK
<1>4. Laid /\ Stands /\ Follow(pos, pending, records)
  BY <1>1, <1>2 DEF Laid, Stands, Follow, Boundary
<1>5. Handed
  BY <1>2 DEF Handed, Whole
<1> QED
  BY <1>3, <1>4, <1>5 DEF ReaderInv

(* What nothing changes stays good.                                        *)
LEMMA ReaderStutters ==
    ASSUME ReaderInv, UNCHANGED readerVars
    PROVE  ReaderInv'
<1>1. UNCHANGED <<packets, size, carried, cuts, records, pending, pos, handled, cleared>>
  BY DEF readerVars, received
<1>2. \A n : Boundary(n)' = Boundary(n)
  BY <1>1 DEF Boundary
<1>3. ReaderTypeOK' /\ Handed'
  BY <1>1 DEF ReaderInv, ReaderTypeOK, Handed, Whole, End
<1>4. Laid' /\ Stands' /\ Follow(pos, pending, records)'
  BY <1>1, <1>2 DEF ReaderInv, Laid, Stands, Follow, End
<1> QED
  BY <1>3, <1>4 DEF ReaderInv

(* The invariant says what the property does.                              *)
LEMMA ReaderInvImplies == ReaderInv => HandledInOrder
  BY DEF HandledInOrder, ReaderInv, Handed, Whole, Stands

(* The handlers are called with the packets of the server, in its order,   *)
(* with all that were read to their end but the empty ones, whatever       *)
(* records carry them or split them; and an event leaves the reader inside *)
(* of a packet only where a record has ended in it (mumble.c:372-440).     *)
(* What the reader does after that is not said.                            *)
THEOREM HandlersInOrder ==
    ASSUME UnknownTypes = FALSE
    PROVE  ReaderSpec => []HandledInOrder
<1>1. ReaderInv /\ [ReaderNext]_readerVars => ReaderInv'
  <2> SUFFICES ASSUME ReaderInv, [ReaderNext]_readerVars PROVE ReaderInv'
    OBVIOUS
  <2>1. CASE SendPacket
    BY <2>1, SendPacketIsGood
  <2>2. CASE Record
    BY <2>2, RecordIsGood
  <2>3. CASE ReadEvent
    BY <2>3, ReadEventIsGood
  <2>4. CASE UNCHANGED readerVars
    BY <2>4, ReaderStutters
  <2> QED
    BY <2>1, <2>2, <2>3, <2>4 DEF ReaderNext
<1> QED
  BY <1>1, ReaderInitIsGood, ReaderInvImplies, PTL DEF ReaderSpec

-----------------------------------------------------------------------------
(* The messages of ChannelTree, and what the server is after each.         *)
ChannelStates == [type : {"ChannelState"}, channel : Channels, parent : Channels \cup {None},
                  name : Names \cup {None}, links : Seq(Channels), links_add : Seq(Channels),
                  links_remove : Seq(Channels)]
ChannelRemoves == [type : {"ChannelRemove"}, channel : Channels]
Permissions    == [type : {"PermissionQuery"}, channel : Channels, permissions : {1, 2}]
TreeMessages       == ChannelStates \cup ChannelRemoves \cup Permissions \cup {Flush}

View == [above : [Channels -> Channels \cup {None}], named : [Channels -> Names \cup {None}],
         linked : [Channels -> SUBSET Channels], past : SUBSET Channels]

There(v) == {c \in Channels : v.above[c] # None}

(* A view's links are those that messages about the channel have named.    *)
ServerView == [above |-> above, named |-> named, linked |-> announced, past |-> past]

ElementsOf(s) == {s[k] : k \in DOMAIN s}

Described(v, m) ==
    LET c == m.channel
    IN  [above  |-> [v.above EXCEPT ![c] = IF m.parent # None THEN m.parent
                                           ELSE IF @ = None THEN Root ELSE @],
         named  |-> [v.named EXCEPT ![c] = Given(m.name, @)],
         linked |-> [v.linked EXCEPT ![c] =
                        IF m.links # <<>> THEN ElementsOf(m.links)
                        ELSE (@ \cup ElementsOf(m.links_add)) \ ElementsOf(m.links_remove)],
         past   |-> v.past \cup {c}]

WithoutChannel(v, c) ==
    [above  |-> [v.above EXCEPT ![c] = None], named |-> [v.named EXCEPT ![c] = None],
     linked |-> [d \in Channels |-> IF d = c THEN {} ELSE v.linked[d] \ {c}],
     past   |-> v.past]

(* The view after a message.                                               *)
Told(v, m) ==
    CASE m.type = "ChannelState"  -> Described(v, m)
      [] m.type = "ChannelRemove" -> WithoutChannel(v, m.channel)
      [] OTHER                    -> v

(* What the server says of links: one at most, and none of a new channel   *)
(* but all.  A link is added once and removed when it is there, unless the *)
(* other channel's messages speak of it, which are those in e.             *)
SaysLinks(v, m, e) ==
    LET c == m.channel
    IN  \/ m.links = <<>> /\ m.links_add = <<>> /\ m.links_remove = <<>>
        \/ /\ \E d \in There(v) : m.links = <<d>>
           /\ m.links_add = <<>> /\ m.links_remove = <<>>
        \/ /\ c \in There(v)
           /\ \E d \in There(v) : (d \in e[c] \/ d \notin v.linked[c]) /\ m.links_add = <<d>>
           /\ m.links = <<>> /\ m.links_remove = <<>>
        \/ /\ c \in There(v)
           /\ \E d \in There(v) : (d \in e[c] \/ d \in v.linked[c]) /\ m.links_remove = <<d>>
           /\ m.links = <<>> /\ m.links_add = <<>>

(* What a server may say when it is as in a view.  A number is new if it   *)
(* was never used.                                                         *)
Sent(v, m, e) ==
    /\ m.type = "ChannelState" =>
        /\ SaysLinks(v, m, e)
        /\ m.channel \notin There(v) => m.channel \notin v.past
    /\ m.type = "ChannelRemove" => m.channel \in There(v)
    /\ m.type = "PermissionQuery" /\ m.channel # None => m.channel \in There(v)

(* Every channel hangs on the root.                                        *)
Closed(v, part) ==
    /\ Root \in There(v) => Root \in part
    /\ \A c \in There(v) \ {Root} : v.above[c] \in part => c \in part

Hangs(v) ==
    /\ \A c \in There(v) \ {Root} : v.above[c] \in There(v) \ {c}
    /\ Root \in There(v) => v.above[Root] = Root
    /\ \A part \in SUBSET There(v) : Closed(v, part) => part = There(v)

Fine(v) ==
    /\ Hangs(v) /\ There(v) \subseteq v.past
    /\ \A c \in Channels : v.linked[c] \subseteq There(v)
    /\ \A c \in Channels \ There(v) : v.linked[c] = {} /\ v.named[c] = None

(* One view for each message, and one after the last.                      *)
Chain(v, q, e) ==
    /\ v \in Seq(View) /\ q \in Seq(TreeMessages) /\ Len(v) = Len(q) + 1
    /\ \A k \in DOMAIN q : v[k + 1] = Told(v[k], q[k]) /\ Sent(v[k], q[k], e)
    /\ \A k \in DOMAIN v : Fine(v[k])

(* What the client keeps, as it is in a view; its lists may name channels  *)
(* that are gone.                                                          *)
LinkNodes == [index : Channels, data : {None}]

Channel == [parent : Channels, name : Names \cup {None}, links : Seq(LinkNodes),
            permissions : {0, 1, 2}]

Indices(list) == {list[k].index : k \in DOMAIN list}

OnceIn(list, d) ==
    \A j, k \in DOMAIN list : list[j].index = d /\ list[k].index = d => j = k

(* The list has the links of c, but for those in e.                        *)
Lists(v, c, list, e) ==
    /\ Indices(list) \subseteq v.past
    /\ \A d \in Channels \ e :
        /\ OnceIn(list, d)
        /\ d \in There(v) => (d \in Indices(list) <=> d \in v.linked[c])

Kept_(v, c) ==
    /\ channels[c] \in Channel
    /\ channels[c].parent = v.above[c] /\ channels[c].name = v.named[c]
    /\ Lists(v, c, channels[c].links, elsewhere[c])

Mirrors(v) == DOMAIN channels = There(v) /\ \A c \in There(v) : Kept_(v, c)

(* The views lead from the client's to the server's, message by message.   *)
Leads(v) == Chain(v, net, elsewhere) /\ Mirrors(v[1]) /\ v[Len(v)] = ServerView

(* The last answer about a channel that is not flushed is true.            *)
RightsAreTrue ==
    /\ \A k \in DOMAIN net :
        /\ net[k] \in Permissions
        /\ \A j \in DOMAIN net : j > k => net[j] # Flush
        => net[k].permissions = allowed[net[k].channel]
    /\ (\A k \in DOMAIN net : net[k] # Flush) =>
            \A c \in DOMAIN channels : channels[c].permissions \in {0, allowed[c]}

(* Links are mutual and between channels that are there; what the messages *)
(* about one channel have named is true where they are all there were.     *)
LinksFine ==
    /\ \A c, d \in Channels : d \in linked[c] => d \in there /\ c \in linked[d]
    /\ \A c, d \in Channels : d \notin elsewhere[c] => (d \in linked[c] <=> d \in announced[c])

ServerFine ==
    /\ above \in [Channels -> Channels \cup {None}] /\ named \in [Channels -> Names \cup {None}]
    /\ linked \in [Channels -> SUBSET Channels] /\ announced \in [Channels -> SUBSET Channels]
    /\ elsewhere \in [Channels -> SUBSET Channels] /\ allowed \in [Channels -> {1, 2}]
    /\ LinksFine
    /\ past \subseteq Channels /\ changes \in 0 .. MaxChanges
    /\ \A c \in there \ {Root} : named[c] # None
    /\ \A c, d \in there \ {Root} : above[c] = above[d] /\ named[c] = named[d] => c = d
    /\ Root \in there

TreeInv == ServerFine /\ (\E v : Leads(v)) /\ RightsAreTrue

-----------------------------------------------------------------------------
(* list_remove for no id and for one (packet.c:514).                       *)
LEMMA RemovedNone == ASSUME NEW list PROVE Removed(list, <<>>) = list
<1> DEFINE Is(f) == f = [k \in 0 .. Len(<<>>) |-> IF k = 0 THEN list ELSE list_remove(f[k - 1], <<>>[k])]
           g == [k \in 0 .. 0 |-> list]
           left == CHOOSE f : Is(f)
<1>1. Is(g)
  OBVIOUS
<1>2. Is(left)
  <2> HIDE DEF Is, g
  <2> QED
    BY <1>1
<1>3. Removed(list, <<>>) = left[0]
  BY DEF Removed
<1> HIDE DEF left
<1> QED
  BY <1>2, <1>3

LEMMA RemovedOne == ASSUME NEW list, NEW d PROVE Removed(list, <<d>>) = list_remove(list, d)
<1> DEFINE Is(f) == f = [k \in 0 .. Len(<<d>>) |-> IF k = 0 THEN list ELSE list_remove(f[k - 1], <<d>>[k])]
           g == [k \in 0 .. 1 |-> IF k = 0 THEN list ELSE list_remove(list, d)]
           left == CHOOSE f : Is(f)
<1>1. Is(g)
  OBVIOUS
<1>2. Is(left)
  <2> HIDE DEF Is, g
  <2> QED
    BY <1>1
<1>3. Removed(list, <<d>>) = left[1]
  BY DEF Removed
<1> HIDE DEF left
<1>4. left[0] = list
  BY <1>2
<1>5. left[1] = list_remove(left[0], d)
  BY <1>2
<1> QED
  BY <1>3, <1>4, <1>5

(* list_add for no id and for one.                                         *)
LEMMA AddedNone == ASSUME NEW list \in Seq(LinkNodes) PROVE Added(list, <<>>) = list
<1>1. [k \in DOMAIN <<>> |-> Node(Reverse(<<>>)[k], None)] = <<>>
  OBVIOUS
<1> QED
  BY <1>1 DEF Added

LEMMA AddedOne == ASSUME NEW list, NEW d PROVE Added(list, <<d>>) = list_add(list, d, None)
<1>1. Reverse(<<d>>)[1] = d
  BY DEF Reverse
<1>2. [k \in DOMAIN <<d>> |-> Node(Reverse(<<d>>)[k], None)] = <<Node(d, None)>>
  <2> HIDE DEF Node, Reverse
  <2> QED
    BY <1>1
<1> QED
  BY <1>2 DEF Added, list_add

(* list_add yields a list that has the new index too.                      *)
LEMMA AddedIndex ==
    ASSUME NEW list \in Seq(LinkNodes), NEW i \in Channels
    PROVE  LET r == list_add(list, i, None)
           IN  /\ r \in Seq(LinkNodes) /\ Indices(r) = Indices(list) \cup {i}
               /\ \A d : OnceIn(list, d) /\ (d # i \/ i \notin Indices(list)) => OnceIn(r, d)
<1> DEFINE r == list_add(list, i, None)
<1>1. Node(i, None) \in LinkNodes /\ Node(i, None).index = i
  BY DEF Node, LinkNodes
<1>2. /\ r \in Seq(LinkNodes) /\ Len(r) = Len(list) + 1 /\ r[1].index = i
      /\ \A k \in 1 .. Len(list) : r[k + 1] = list[k]
  <2> HIDE DEF Node
  <2> QED
    BY <1>1 DEF list_add
<1>3. DOMAIN r = 1 .. (Len(list) + 1) /\ DOMAIN list = 1 .. Len(list) /\ Len(list) \in Nat
  BY <1>2
<1> HIDE DEF r
<1>4. \A k \in DOMAIN r : k # 1 => k - 1 \in DOMAIN list /\ r[k] = list[k - 1]
  <2> SUFFICES ASSUME NEW k \in DOMAIN r, k # 1
               PROVE  k - 1 \in DOMAIN list /\ r[k] = list[k - 1]
    OBVIOUS
  <2>1. k - 1 \in 1 .. Len(list) /\ (k - 1) + 1 = k
    BY <1>3
  <2> QED
    BY <1>2, <1>3, <2>1
<1>5. \A k \in DOMAIN list : k + 1 \in DOMAIN r /\ r[k + 1] = list[k]
  BY <1>2, <1>3
<1>6. Indices(r) = Indices(list) \cup {i}
  <2>1. Indices(r) \subseteq Indices(list) \cup {i}
    BY <1>2, <1>4 DEF Indices
  <2>2. Indices(list) \subseteq Indices(r) /\ i \in Indices(r)
    BY <1>2, <1>3, <1>5 DEF Indices
  <2> QED
    BY <2>1, <2>2
<1>7. ASSUME NEW d, OnceIn(list, d), d # i \/ i \notin Indices(list) PROVE OnceIn(r, d)
  <2> SUFFICES ASSUME NEW j \in DOMAIN r, NEW k \in DOMAIN r, r[j].index = d, r[k].index = d
               PROVE  j = k
    BY DEF OnceIn
  <2>1. CASE j = 1 \/ k = 1
    BY <1>2, <1>4, <1>7, <2>1 DEF Indices
  <2>2. CASE j # 1 /\ k # 1
    <3>1. j - 1 = k - 1
      BY <1>4, <1>7, <2>2 DEF OnceIn
    <3> QED
      BY <1>3, <3>1
  <2> QED
    BY <2>1, <2>2
<1> QED
  BY <1>2, <1>6, <1>7 DEF r

(* list_remove takes an index away that is there once, and no other.       *)
LEMMA RemovedIndex ==
    ASSUME NEW list \in Seq(LinkNodes), NEW i
    PROVE  LET r == list_remove(list, i)
           IN  /\ r \in Seq(LinkNodes) /\ Indices(r) \subseteq Indices(list)
               /\ Indices(list) \ {i} \subseteq Indices(r)
               /\ OnceIn(list, i) => i \notin Indices(r)
               /\ \A d : OnceIn(list, d) => OnceIn(r, d)
<1> DEFINE r == list_remove(list, i)
<1>1. r \in Seq(LinkNodes) /\ NodesOf(r) \subseteq NodesOf(list)
  BY RemoveSubset
<1>2. \A n \in NodesOf(list) : n.index # i => n \in NodesOf(r)
  BY RemoveKeeps
<1>3. DOMAIN list = 1 .. Len(list) /\ Len(list) \in Nat
  OBVIOUS
<1> HIDE DEF r
<1>4. Indices(r) \subseteq Indices(list) /\ Indices(list) \ {i} \subseteq Indices(r)
  <2>1. \A l : Indices(l) = {n.index : n \in NodesOf(l)}
    BY DEF Indices, NodesOf
  <2> QED
    BY <1>1, <1>2, <2>1
<1>5. CASE \A k \in DOMAIN list : list[k].index # i
  <2>1. r = list
    BY <1>5 DEF list_remove, r
  <2>2. i \notin Indices(list)
    BY <1>5 DEF Indices
  <2> QED
    BY <1>1, <1>4, <2>1, <2>2 DEF r
<1>6. CASE \E k \in DOMAIN list : list[k].index = i
  <2> DEFINE F == FirstAt(list, i)
  <2>1. F \in DOMAIN list /\ list[F].index = i
    <3> DEFINE S == {k \in DOMAIN list : list[k].index = i}
    <3>1. S \subseteq Nat /\ S # {}
      BY <1>3, <1>6
    <3>2. \E k \in S : \A j \in S : k <= j
      BY <3>1, SmallestOf, Zenon
    <3>3. \E k \in DOMAIN list :
             /\ list[k].index = i
             /\ \A j \in DOMAIN list : list[j].index = i => k <= j
      BY <3>2
    <3> QED
      BY <3>3 DEF FirstAt
  <2> DEFINE at(k) == IF k < F THEN k ELSE k + 1
  <2>2. r = [k \in 1 .. (Len(list) - 1) |-> IF k < F THEN list[k] ELSE list[k + 1]]
    BY <1>6 DEF list_remove, r
  <2> HIDE DEF F
  <2>3. /\ DOMAIN r = 1 .. (Len(list) - 1)
        /\ \A k \in DOMAIN r : at(k) \in DOMAIN list /\ at(k) # F /\ r[k] = list[at(k)]
        /\ \A j, k \in DOMAIN r : at(j) = at(k) => j = k
    <3>1. DOMAIN r = 1 .. (Len(list) - 1) /\ F \in 1 .. Len(list)
      BY <1>3, <2>1, <2>2
    <3>2. \A k \in DOMAIN r : r[k] = IF k < F THEN list[k] ELSE list[k + 1]
      BY <2>2, <3>1
    <3> QED
      BY <1>3, <3>1, <3>2
  <2>4. ASSUME NEW d, OnceIn(list, d) PROVE OnceIn(r, d)
    BY <2>3, <2>4 DEF OnceIn
  <2>5. ASSUME OnceIn(list, i) PROVE i \notin Indices(r)
    BY <2>1, <2>3, <2>5 DEF OnceIn, Indices
  <2> QED
    BY <1>1, <1>4, <2>4, <2>5 DEF r
<1> QED
  BY <1>5, <1>6 DEF r

(* What the links of a channel become (packet.c:503-536).                  *)
LEMMA LinksFollow ==
    ASSUME NEW v \in View, NEW m \in ChannelStates, NEW e \in [Channels -> SUBSET Channels],
           SaysLinks(v, m, e), There(v) \subseteq v.past,
           v.linked[m.channel] \subseteq There(v),
           NEW list \in Seq(LinkNodes), Lists(v, m.channel, list, e[m.channel])
    PROVE  LET r == LinksAfter(list, m)
               w == Told(v, m)
           IN  /\ r \in Seq(LinkNodes) /\ Indices(r) \subseteq v.past
               /\ \A d \in Channels \ e[m.channel] :
                    /\ OnceIn(r, d)
                    /\ d \in There(v) => (d \in Indices(r) <=> d \in w.linked[m.channel])
<1> DEFINE c == m.channel
           r == LinksAfter(list, m)
           now == Told(v, m).linked[c]
<1>1. c \in Channels /\ v.linked \in [Channels -> SUBSET Channels] /\ m.type = "ChannelState"
  BY DEF ChannelStates, View
<1>2. now = IF m.links # <<>> THEN ElementsOf(m.links)
            ELSE (v.linked[c] \cup ElementsOf(m.links_add)) \ ElementsOf(m.links_remove)
  BY <1>1 DEF Told, Described
<1>3. /\ ElementsOf(<<>>) = {} /\ \A d : <<d>> # <<>> /\ ElementsOf(<<d>>) = {d}
  BY DEF ElementsOf
<1>4. /\ Indices(list) \subseteq v.past
      /\ \A d \in Channels \ e[c] :
            /\ OnceIn(list, d)
            /\ d \in There(v) => (d \in Indices(list) <=> d \in v.linked[c])
  BY DEF Lists
<1>5. There(v) \subseteq Channels
  BY DEF There
<1> SUFFICES /\ r \in Seq(LinkNodes) /\ Indices(r) \subseteq v.past
             /\ \A d \in Channels \ e[c] :
                   OnceIn(r, d) /\ (d \in There(v) => (d \in Indices(r) <=> d \in now))
  OBVIOUS
<1> HIDE DEF now
<1>6. CASE m.links = <<>> /\ m.links_add = <<>> /\ m.links_remove = <<>>
  <2>1. r = list
    BY <1>6, AddedNone, RemovedNone, Zenon DEF LinksAfter
  <2>2. now = v.linked[c]
    BY <1>2, <1>3, <1>6
  <2> QED
    BY <1>4, <2>1, <2>2
<1>7. ASSUME NEW d \in There(v), m.links = <<d>>
      PROVE  /\ r \in Seq(LinkNodes) /\ Indices(r) \subseteq v.past
             /\ \A x \in Channels \ e[c] :
                   OnceIn(r, x) /\ (x \in There(v) => (x \in Indices(r) <=> x \in now))
  <2>1. r = list_add(<<>>, d, None)
    BY <1>3, <1>7, AddedOne, Zenon DEF LinksAfter
  <2>2. <<>> \in Seq(LinkNodes) /\ Indices(<<>>) = {} /\ \A x : OnceIn(<<>>, x)
    BY DEF Indices, OnceIn
  <2>3. r \in Seq(LinkNodes) /\ Indices(r) = {d} /\ \A x : OnceIn(r, x)
    <3>1. ASSUME NEW empty \in Seq(LinkNodes), Indices(empty) = {}, \A x : OnceIn(empty, x)
          PROVE  /\ list_add(empty, d, None) \in Seq(LinkNodes)
                 /\ Indices(list_add(empty, d, None)) = {d}
                 /\ \A x : OnceIn(list_add(empty, d, None), x)
      <4>1. d \in Channels
        BY <1>5
      <4>2. /\ list_add(empty, d, None) \in Seq(LinkNodes)
            /\ Indices(list_add(empty, d, None)) = Indices(empty) \cup {d}
            /\ \A x : OnceIn(empty, x) /\ (x # d \/ d \notin Indices(empty)) =>
                    OnceIn(list_add(empty, d, None), x)
        BY <4>1, AddedIndex, Zenon
      <4> QED
        BY <3>1, <4>2
    <3> QED
      BY <2>1, <2>2, <3>1
  <2>4. now = {d}
    BY <1>2, <1>3, <1>7
  <2> QED
    BY <2>3, <2>4
<1>8. ASSUME NEW d \in There(v), d \in e[c] \/ d \notin v.linked[c], m.links_add = <<d>>,
             m.links = <<>>, m.links_remove = <<>>
      PROVE  /\ r \in Seq(LinkNodes) /\ Indices(r) \subseteq v.past
             /\ \A x \in Channels \ e[c] :
                   OnceIn(r, x) /\ (x \in There(v) => (x \in Indices(r) <=> x \in now))
  <2>1. r = list_add(list, d, None)
    BY <1>8, AddedOne, RemovedNone, Zenon DEF LinksAfter
  <2>2. /\ r \in Seq(LinkNodes) /\ Indices(r) = Indices(list) \cup {d}
        /\ \A x : OnceIn(list, x) /\ (x # d \/ d \notin Indices(list)) => OnceIn(r, x)
    <3>1. d \in Channels
      BY <1>5
    <3>2. /\ list_add(list, d, None) \in Seq(LinkNodes)
          /\ Indices(list_add(list, d, None)) = Indices(list) \cup {d}
          /\ \A x : OnceIn(list, x) /\ (x # d \/ d \notin Indices(list)) =>
                  OnceIn(list_add(list, d, None), x)
      BY <3>1, AddedIndex, Zenon
    <3> QED
      BY <2>1, <3>2, Zenon
  <2>3. now = v.linked[c] \cup {d}
    BY <1>2, <1>3, <1>8
  <2> QED
    BY <1>4, <1>5, <1>8, <2>2, <2>3
<1>9. ASSUME NEW d \in There(v), d \in e[c] \/ d \in v.linked[c], m.links_remove = <<d>>,
             m.links = <<>>, m.links_add = <<>>
      PROVE  /\ r \in Seq(LinkNodes) /\ Indices(r) \subseteq v.past
             /\ \A x \in Channels \ e[c] :
                   OnceIn(r, x) /\ (x \in There(v) => (x \in Indices(r) <=> x \in now))
  <2>1. r = list_remove(list, d)
    BY <1>9, AddedNone, RemovedOne, Zenon DEF LinksAfter
  <2>2. /\ r \in Seq(LinkNodes) /\ Indices(r) \subseteq Indices(list)
        /\ Indices(list) \ {d} \subseteq Indices(r)
        /\ OnceIn(list, d) => d \notin Indices(r)
        /\ \A x : OnceIn(list, x) => OnceIn(r, x)
    BY <2>1, RemovedIndex
  <2>3. now = v.linked[c] \ {d}
    BY <1>2, <1>3, <1>9
  <2> QED
    BY <1>4, <1>5, <2>2, <2>3
<1> QED
  BY <1>6, <1>7, <1>8, <1>9 DEF SaysLinks

-----------------------------------------------------------------------------
(* What a message leaves of the view's types.                              *)
LEMMA ToldIsView ==
    ASSUME NEW v \in View, NEW m \in TreeMessages
    PROVE  /\ Told(v, m) \in View
           /\ m \in ChannelStates => There(Told(v, m)) = There(v) \cup {m.channel}
           /\ m \in ChannelRemoves => There(Told(v, m)) = There(v) \ {m.channel}
           /\ m \notin ChannelStates \cup ChannelRemoves => Told(v, m) = v
<1>1. CASE m \in ChannelStates
  <2>1. /\ m.type = "ChannelState" /\ m.channel \in Channels /\ m.parent \in Channels \cup {None}
        /\ m.name \in Names \cup {None} /\ m.links \in Seq(Channels) /\ m.links_add \in Seq(Channels)
    BY <1>1 DEF ChannelStates
  <2>2. Told(v, m) = Described(v, m)
    BY <2>1 DEF Told
  <2>3. \A s \in Seq(Channels) : ElementsOf(s) \subseteq Channels
    BY DEF ElementsOf
  <2>4. Described(v, m).above \in [Channels -> Channels \cup {None}]
    BY <2>1, TreeAssumption DEF Described, View
  <2>5. Described(v, m).named \in [Channels -> Names \cup {None}]
    BY <2>1 DEF Described, View, Given
  <2>6. Described(v, m).linked \in [Channels -> SUBSET Channels]
    BY <2>1, <2>3 DEF Described, View
  <2>7. Described(v, m).past \in SUBSET Channels
    BY <2>1 DEF Described, View
  <2>8. Described(v, m) \in View
    BY <2>4, <2>5, <2>6, <2>7 DEF Described, View
  <2>9. There(Described(v, m)) = There(v) \cup {m.channel}
    BY <2>1, TreeAssumption DEF Described, View, There
  <2>10. m \notin ChannelRemoves
    BY <2>1 DEF ChannelRemoves
  <2> QED
    BY <1>1, <2>2, <2>8, <2>9, <2>10
<1>2. CASE m \in ChannelRemoves
  <2>1. m.type = "ChannelRemove" /\ m.channel \in Channels /\ m \notin ChannelStates
    BY <1>2 DEF ChannelRemoves, ChannelStates
  <2>2. Told(v, m) = WithoutChannel(v, m.channel)
    BY <2>1 DEF Told
  <2>3. WithoutChannel(v, m.channel) \in View
    BY <2>1 DEF WithoutChannel, View
  <2>4. There(WithoutChannel(v, m.channel)) = There(v) \ {m.channel}
    BY <2>1 DEF WithoutChannel, View, There
  <2> QED
    BY <1>2, <2>1, <2>2, <2>3, <2>4
<1>3. CASE m \notin ChannelStates \cup ChannelRemoves
  <2>1. m.type = "PermissionQuery"
    BY <1>3 DEF TreeMessages, Permissions, Flush
  <2>2. Told(v, m) = v
    BY <2>1 DEF Told
  <2> QED
    BY <1>3, <2>2
<1> QED
  BY <1>1, <1>2, <1>3

-----------------------------------------------------------------------------
(* The channel a handler works on, found or made (mumble.c:1256).          *)
LEMMA FoundOrNew ==
    ASSUME NEW v \in View, Mirrors(v), Fine(v), NEW c \in Channels
    PROVE  LET channel == mumble_channel_get(c)
           IN  /\ channel \in Channel
               /\ channel.parent = IF c \in There(v) THEN v.above[c] ELSE Root
               /\ channel.name = v.named[c] /\ Lists(v, c, channel.links, elsewhere[c])
               /\ channel.permissions = IF c \in There(v) THEN channels[c].permissions ELSE 0
<1>1. CASE c \in There(v)
  <2>1. mumble_channel_get(c) = channels[c]
    BY <1>1 DEF mumble_channel_get, Mirrors
  <2> QED
    BY <1>1, <2>1 DEF Mirrors, Kept_
<1>2. CASE c \notin There(v)
  <2>1. mumble_channel_get(c) = NewChannel
    BY <1>2 DEF mumble_channel_get, Mirrors
  <2>2. NewChannel \in Channel
    BY TreeAssumption DEF NewChannel, Channel
  <2>3. /\ NewChannel.parent = Root /\ NewChannel.name = None /\ NewChannel.links = <<>>
        /\ NewChannel.permissions = 0
    BY DEF NewChannel
  <2>4. v.linked[c] = {} /\ v.named[c] = None
    BY <1>2 DEF Fine
  <2>5. Lists(v, c, <<>>, elsewhere[c])
    BY <2>4 DEF Lists, Indices, OnceIn
  <2> QED
    BY <1>2, <2>1, <2>2, <2>3, <2>4, <2>5
<1> QED
  BY <1>1, <1>2

(* packet_channel_state.                                                   *)
LEMMA StateIsKept ==
    ASSUME NEW v \in View, NEW m \in ChannelStates, Mirrors(v), Fine(v),
           elsewhere \in [Channels -> SUBSET Channels], elsewhere' = elsewhere,
           Sent(v, m, elsewhere), packet_channel_state(m)
    PROVE  /\ Mirrors(Told(v, m))'
           /\ \A d \in DOMAIN channels' :
                channels'[d].permissions = IF d \in DOMAIN channels THEN channels[d].permissions
                                           ELSE 0
<1> DEFINE c == m.channel
           w == Told(v, m)
           old == mumble_channel_get(c)
           new == [old EXCEPT !.parent = Given(m.parent, @), !.name = Given(m.name, @),
                              !.links = LinksAfter(@, m)]
<1>1. /\ m.type = "ChannelState" /\ c \in Channels /\ m.parent \in Channels \cup {None}
      /\ m.name \in Names \cup {None}
  BY DEF ChannelStates
<1>2. m \in TreeMessages
  BY DEF TreeMessages
<1>3. w \in View /\ There(w) = There(v) \cup {c}
  BY <1>2, ToldIsView
<1>4. /\ SaysLinks(v, m, elsewhere) /\ There(v) \subseteq v.past
      /\ c \notin There(v) => c \notin v.past
  BY <1>1 DEF Sent, Fine
<1>5. /\ old \in Channel
      /\ old.parent = IF c \in There(v) THEN v.above[c] ELSE Root
      /\ old.name = v.named[c] /\ Lists(v, c, old.links, elsewhere[c])
      /\ old.permissions = IF c \in There(v) THEN channels[c].permissions ELSE 0
  BY <1>1, FoundOrNew
<1>6. /\ channels' = Stored(c, new)
      /\ DOMAIN channels' = There(w) /\ channels'[c] = new
      /\ \A d \in There(w) \ {c} : channels'[d] = channels[d] /\ d \in There(v)
  <2>1. channels' = Stored(c, new)
    BY DEF packet_channel_state
  <2> HIDE DEF new
  <2> QED
    BY <1>3, <2>1 DEF Stored, Mirrors
<1> DEFINE list == LinksAfter(old.links, m)
<1>7. /\ new.parent = Given(m.parent, old.parent) /\ new.name = Given(m.name, old.name)
      /\ new.links = list /\ new.permissions = old.permissions
      /\ new = [parent |-> Given(m.parent, old.parent), name |-> Given(m.name, old.name),
                links |-> list, permissions |-> old.permissions]
  <2> HIDE DEF list
  <2>1. new = [old EXCEPT !.parent = Given(m.parent, @), !.name = Given(m.name, @), !.links = list]
    BY DEF list
  <2> HIDE DEF old, new
  <2> QED
    BY <1>5, <2>1 DEF Channel
<1>8. /\ list \in Seq(LinkNodes) /\ Indices(list) \subseteq v.past
      /\ \A d \in Channels \ elsewhere[c] :
            OnceIn(list, d) /\ (d \in There(v) => (d \in Indices(list) <=> d \in w.linked[c]))
  <2>1. old.links \in Seq(LinkNodes)
    BY <1>5 DEF Channel
  <2>2. v.linked[c] \subseteq There(v)
    BY <1>1 DEF Fine
  <2> HIDE DEF old
  <2> QED
    BY <1>4, <1>5, <2>1, <2>2, LinksFollow
<1>9. /\ w.above[c] = IF m.parent # None THEN m.parent ELSE IF v.above[c] = None THEN Root ELSE v.above[c]
      /\ w.named[c] = Given(m.name, v.named[c]) /\ w.past = v.past \cup {c}
      /\ \A d \in Channels \ {c} : /\ w.above[d] = v.above[d] /\ w.named[d] = v.named[d]
                                   /\ w.linked[d] = v.linked[d]
  BY <1>1 DEF Told, Described, View
<1>10. w.linked[c] \subseteq There(v)
  <2>1. /\ ElementsOf(<<>>) = {} /\ \A d : <<d>> # <<>> /\ ElementsOf(<<d>>) = {d}
    BY DEF ElementsOf
  <2>2. w.linked[c] = IF m.links # <<>> THEN ElementsOf(m.links)
                      ELSE (v.linked[c] \cup ElementsOf(m.links_add)) \ ElementsOf(m.links_remove)
    BY <1>1 DEF Told, Described, View
  <2>3. v.linked[c] \subseteq There(v)
    BY <1>1 DEF Fine
  <2>4. CASE m.links # <<>>
    <3>1. PICK d \in There(v) : m.links = <<d>>
      BY <1>4, <2>4, Zenon DEF SaysLinks
    <3> QED
      BY <2>1, <2>2, <2>4, <3>1
  <2>5. CASE m.links = <<>>
    <3>1. m.links_add = <<>> \/ \E d \in There(v) : m.links_add = <<d>>
      BY <1>4, <2>1, <2>5, Zenon DEF SaysLinks
    <3>2. ElementsOf(m.links_add) \subseteq There(v)
      BY <2>1, <3>1
    <3> QED
      BY <2>2, <2>3, <2>5, <3>2, Zenon
  <2> QED
    BY <2>4, <2>5
<1> HIDE DEF w, old, new, list
<1>11. Kept_(w, c)'
  <2>1. new \in Channel
    BY <1>1, <1>5, <1>7, <1>8 DEF Channel, Given
  <2>2. new.parent = w.above[c]
    <3>1. c \in There(v) => v.above[c] # None
      BY DEF There
    <3>2. c \notin There(v) => v.above[c] = None
      BY <1>1 DEF There
    <3> QED
      BY <1>5, <1>7, <1>9, <3>1, <3>2 DEF Given
  <2>3. new.name = w.named[c]
    BY <1>5, <1>7, <1>9
  <2>4. Lists(w, c, list, elsewhere[c])
    <3>1. c \notin There(v) => c \notin Indices(list) /\ c \notin w.linked[c]
      BY <1>4, <1>8, <1>10
    <3> QED
      BY <1>3, <1>8, <1>9, <3>1 DEF Lists
  <2> QED
    BY <1>6, <1>7, <2>1, <2>2, <2>3, <2>4 DEF Kept_
<1>12. ASSUME NEW d \in There(w) \ {c} PROVE Kept_(w, d)'
  <2>1. Kept_(v, d) /\ channels'[d] = channels[d] /\ d \in Channels \ {c} /\ d \in There(v)
    BY <1>6, <1>12 DEF Mirrors, There
  <2>2. c \notin There(v) => c \notin Indices(channels[d].links) /\ c \notin v.linked[d]
    BY <1>4, <2>1 DEF Kept_, Lists, Fine
  <2>3. Lists(w, d, channels[d].links, elsewhere[d])
    BY <1>3, <1>9, <2>1, <2>2 DEF Kept_, Lists
  <2> QED
    BY <1>9, <2>1, <2>3 DEF Kept_
<1>13. DOMAIN channels = There(v)
  BY DEF Mirrors
<1>14. Mirrors(w)'
  BY <1>6, <1>11, <1>12 DEF Mirrors
<1>15. \A d \in DOMAIN channels' :
          channels'[d].permissions = IF d \in DOMAIN channels THEN channels[d].permissions ELSE 0
  BY <1>3, <1>5, <1>6, <1>7, <1>13
<1> QED
  BY <1>14, <1>15 DEF w

(* packet_channel_remove.                                                  *)
LEMMA RemoveIsKept ==
    ASSUME NEW v \in View, NEW m \in ChannelRemoves, Mirrors(v), Fine(v),
           elsewhere' = elsewhere, packet_channel_remove(m)
    PROVE  Mirrors(Told(v, m))'
<1> DEFINE c == m.channel
           w == Told(v, m)
<1>1. m.type = "ChannelRemove" /\ c \in Channels /\ m \in TreeMessages
  BY DEF ChannelRemoves, TreeMessages
<1>2. w \in View /\ There(w) = There(v) \ {c}
  BY <1>1, ToldIsView
<1>3. /\ DOMAIN channels' = There(w)
      /\ \A d \in There(w) : channels'[d] = channels[d]
  BY <1>2 DEF packet_channel_remove, Mirrors
<1>4. /\ w.past = v.past
      /\ \A d \in Channels \ {c} : /\ w.above[d] = v.above[d] /\ w.named[d] = v.named[d]
                                   /\ w.linked[d] = v.linked[d] \ {c}
  BY <1>1 DEF Told, WithoutChannel, View
<1> HIDE DEF w
<1>5. ASSUME NEW d \in There(w) PROVE Kept_(w, d)'
  <2>1. Kept_(v, d) /\ channels'[d] = channels[d] /\ d \in Channels \ {c}
    BY <1>2, <1>3, <1>5 DEF Mirrors, There
  <2>2. Lists(w, d, channels[d].links, elsewhere[d])
    BY <1>2, <1>4, <2>1 DEF Kept_, Lists
  <2> QED
    BY <1>4, <2>1, <2>2 DEF Kept_
<1> QED
  BY <1>3, <1>5 DEF Mirrors, w

(* packet_permission_query.                                                *)
LEMMA RightsAreKept ==
    ASSUME NEW v \in View, NEW m \in Permissions \cup {Flush}, Mirrors(v), Fine(v),
           elsewhere' = elsewhere, Sent(v, m, elsewhere), packet_permission_query(m)
    PROVE  /\ Mirrors(v)'
           /\ m = Flush => \A c \in There(v) : channels'[c].permissions = 0
           /\ m # Flush => \A c \in There(v) :
                channels'[c].permissions = IF c = m.channel THEN m.permissions
                                           ELSE channels[c].permissions
<1>1. CASE m = Flush
  <2>1. m.channel = None
    BY <1>1 DEF Flush
  <2>2. channels' = [c \in DOMAIN channels |-> [channels[c] EXCEPT !.permissions = 0]]
    BY <2>1 DEF packet_permission_query
  <2>3. ASSUME NEW c \in There(v)
        PROVE  /\ channels'[c].permissions = 0
               /\ Kept_(v, c)'
    <3>1. channels'[c] = [channels[c] EXCEPT !.permissions = 0] /\ Kept_(v, c)
      BY <2>2, <2>3 DEF Mirrors
    <3>2. /\ channels'[c].permissions = 0 /\ channels'[c] \in Channel
          /\ channels'[c].parent = channels[c].parent /\ channels'[c].name = channels[c].name
          /\ channels'[c].links = channels[c].links
      BY <3>1 DEF Kept_, Channel
    <3> QED
      BY <3>1, <3>2 DEF Kept_
  <2> QED
    BY <1>1, <2>2, <2>3 DEF Mirrors
<1>2. CASE m # Flush
  <2> DEFINE c == m.channel
             old == mumble_channel_get(c)
  <2>1. m \in Permissions /\ c \in Channels /\ c # None /\ m.type = "PermissionQuery"
    BY <1>2, TreeAssumption DEF Permissions
  <2>2. c \in There(v)
    BY <2>1 DEF Sent
  <2>3. old = channels[c] /\ Kept_(v, c)
    BY <2>2 DEF mumble_channel_get, Mirrors
  <2>4. channels' = Stored(c, [old EXCEPT !.permissions = m.permissions])
    BY <2>1 DEF packet_permission_query
  <2>5. /\ DOMAIN channels' = There(v) /\ channels'[c] = [channels[c] EXCEPT !.permissions = m.permissions]
        /\ \A d \in There(v) \ {c} : channels'[d] = channels[d]
    BY <2>2, <2>3, <2>4 DEF Stored, Mirrors
  <2>6. /\ channels'[c].permissions = m.permissions /\ channels'[c] \in Channel
        /\ channels'[c].parent = channels[c].parent /\ channels'[c].name = channels[c].name
        /\ channels'[c].links = channels[c].links
    BY <2>1, <2>3, <2>5 DEF Kept_, Channel, Permissions
  <2>7. Kept_(v, c)'
    BY <2>3, <2>6 DEF Kept_
  <2>8. ASSUME NEW d \in There(v) \ {c} PROVE Kept_(v, d)'
    BY <2>5, <2>8 DEF Mirrors, Kept_
  <2> QED
    BY <1>2, <2>5, <2>6, <2>7, <2>8 DEF Mirrors
<1> QED
  BY <1>1, <1>2

-----------------------------------------------------------------------------
(* What a change on the server leaves of the tree.                         *)
LEMMA SameHangs ==
    ASSUME NEW v, NEW w, Hangs(v), w.above = v.above
    PROVE  Hangs(w)
<1>1. There(w) = There(v) /\ \A part : Closed(w, part) <=> Closed(v, part)
  BY DEF There, Closed
<1> QED
  BY <1>1 DEF Hangs

(* A channel is created below one that is there.                           *)
LEMMA CreatedHangs ==
    ASSUME NEW v \in View, NEW w \in View, Hangs(v), NEW c \in Channels \ There(v), c # Root,
           NEW p \in There(v), w.above = [v.above EXCEPT ![c] = p]
    PROVE  Hangs(w)
<1>1. /\ There(w) = There(v) \cup {c} /\ There(v) \subseteq Channels
      /\ w.above[c] = p /\ \A d \in There(v) : w.above[d] = v.above[d] /\ d # c
  BY TreeAssumption DEF There, View
<1>2. \A d \in There(w) \ {Root} : w.above[d] \in There(w) \ {d}
  BY <1>1 DEF Hangs
<1>3. Root \in There(w) => w.above[Root] = Root
  BY <1>1 DEF Hangs
<1>4. ASSUME NEW part \in SUBSET There(w), Closed(w, part)
      PROVE  part = There(w)
  <2>1. Closed(v, part \cap There(v))
    BY <1>1, <1>4 DEF Closed
  <2>2. part \cap There(v) = There(v)
    BY <2>1 DEF Hangs
  <2>3. c \in part
    BY <1>1, <1>4, <2>2 DEF Closed
  <2> QED
    BY <1>1, <2>2, <2>3
<1> QED
  BY <1>2, <1>3, <1>4 DEF Hangs

(* A channel with none below it is removed.                                *)
LEMMA RemovedHangs ==
    ASSUME NEW v \in View, NEW w \in View, Hangs(v), NEW c \in There(v) \ {Root},
           \A d \in There(v) : v.above[d] # c, w.above = [v.above EXCEPT ![c] = None]
    PROVE  Hangs(w)
<1>1. /\ There(w) = There(v) \ {c} /\ There(v) \subseteq Channels
      /\ \A d \in There(w) : w.above[d] = v.above[d] /\ d \in There(v) /\ d # c
  BY TreeAssumption DEF There, View
<1>2. \A d \in There(w) \ {Root} : w.above[d] \in There(w) \ {d}
  BY <1>1 DEF Hangs
<1>3. Root \in There(w) => w.above[Root] = Root
  BY <1>1 DEF Hangs
<1>4. ASSUME NEW part \in SUBSET There(w), Closed(w, part)
      PROVE  part = There(w)
  <2>1. Closed(v, part \cup {c})
    BY <1>1, <1>4 DEF Closed
  <2>2. part \cup {c} = There(v)
    BY <1>1, <2>1 DEF Hangs
  <2> QED
    BY <1>1, <2>2
<1> QED
  BY <1>2, <1>3, <1>4 DEF Hangs

(* A channel moves to one that is not in its own part of the tree.         *)
LEMMA MovedHangs ==
    ASSUME NEW v \in View, NEW w \in View, Hangs(v), NEW c \in There(v) \ {Root},
           NEW p \in There(v), w.above = [v.above EXCEPT ![c] = p], NEW own \in SUBSET There(v),
           c \in own, p \notin own, \A d \in There(v) : v.above[d] \in own => d \in own
    PROVE  Hangs(w)
<1>1. /\ There(w) = There(v) /\ There(v) \subseteq Channels
      /\ w.above[c] = p /\ \A d \in There(v) : d # c => w.above[d] = v.above[d]
  BY TreeAssumption DEF There, View
<1>2. \A d \in There(w) \ {Root} : w.above[d] \in There(w) \ {d}
  BY <1>1 DEF Hangs
<1>3. Root \in There(w) => w.above[Root] = Root
  BY <1>1 DEF Hangs
<1>4. ASSUME NEW part \in SUBSET There(w), Closed(w, part)
      PROVE  part = There(w)
  <2>1. Closed(v, part \cup own)
    BY <1>1, <1>4 DEF Closed
  <2>2. part \cup own = There(v)
    BY <1>1, <2>1 DEF Hangs
  <2>3. c \in part
    BY <1>1, <1>4, <2>2 DEF Closed
  <2>4. Closed(v, part)
    BY <1>1, <1>4, <2>3 DEF Closed
  <2> QED
    BY <1>1, <2>4 DEF Hangs
<1> QED
  BY <1>2, <1>3, <1>4 DEF Hangs

-----------------------------------------------------------------------------
(* What the server says of a change.                                       *)
Says(m) ==
    /\ m \in TreeMessages /\ net' = Append(net, m) /\ UNCHANGED channels
    /\ Sent(ServerView, m, elsewhere') /\ ServerView' = Told(ServerView, m)
    /\ \A c \in Channels : elsewhere[c] \subseteq elsewhere'[c]
    /\ ServerFine' /\ Fine(ServerView')
    /\ m # Flush => allowed' = allowed
    /\ m \in Permissions => m.permissions = allowed[m.channel]

ServerIsFine == ServerFine /\ Fine(ServerView)

LEMMA ServerViewIs ==
    ASSUME ServerFine
    PROVE  /\ ServerView \in View /\ There(ServerView) = there
           /\ ServerView.above = above /\ ServerView.named = named
           /\ ServerView.linked = announced /\ ServerView.past = past
           /\ there \subseteq Channels /\ Root \in there
BY DEF ServerFine, ServerView, View, There, there

(* A change that is not about links, with the channels there that were.    *)
LEMMA LinksStayFine ==
    ASSUME ServerFine, UNCHANGED <<linked, announced, elsewhere>>, there \subseteq there'
    PROVE  LinksFine'
BY DEF ServerFine, LinksFine

(* A message about a channel is one, with links or without.                *)
StateOf(m, c, p, n, l, a, r) ==
    /\ m \in ChannelStates /\ m \in TreeMessages /\ m # Flush /\ m \notin Permissions
    /\ m.type = "ChannelState" /\ m.channel = c /\ m.parent = p /\ m.name = n
    /\ m.links = l /\ m.links_add = a /\ m.links_remove = r

LEMMA StateIs ==
    ASSUME NEW c \in Channels, NEW p \in Channels \cup {None}, NEW n \in Names \cup {None},
           NEW l \in Seq(Channels), NEW a \in Seq(Channels), NEW r \in Seq(Channels)
    PROVE  StateOf(State(c, p, n, l, a, r), c, p, n, l, a, r)
<1> DEFINE m == State(c, p, n, l, a, r)
<1>1. /\ m \in ChannelStates
      /\ m.type = "ChannelState" /\ m.channel = c /\ m.parent = p /\ m.name = n
      /\ m.links = l /\ m.links_add = a /\ m.links_remove = r
  BY DEF State, ChannelStates
<1> HIDE DEF m
<1>2. m \in TreeMessages /\ m # Flush /\ m \notin Permissions
  BY <1>1 DEF TreeMessages, Flush, Permissions
<1>3. StateOf(m, c, p, n, l, a, r)
  BY <1>1, <1>2 DEF StateOf
<1> QED
  BY <1>3 DEF m

LEMMA StateWithout ==
    ASSUME NEW c \in Channels, NEW p \in Channels \cup {None}, NEW n \in Names \cup {None}
    PROVE  StateOf(State(c, p, n, <<>>, <<>>, <<>>), c, p, n, <<>>, <<>>, <<>>)
<1>1. \A l \in Seq(Channels) : StateOf(State(c, p, n, l, l, l), c, p, n, l, l, l)
  BY StateIs
<1>2. <<>> \in Seq(Channels)
  OBVIOUS
<1> QED
  BY <1>1, <1>2, Zenon

LEMMA StateWithOne ==
    ASSUME NEW c \in Channels, NEW d \in Channels
    PROVE  /\ StateOf(State(c, None, None, <<>>, <<d>>, <<>>), c, None, None, <<>>, <<d>>, <<>>)
           /\ StateOf(State(c, None, None, <<>>, <<>>, <<d>>), c, None, None, <<>>, <<>>, <<d>>)
<1>1. \A l, r \in Seq(Channels) :
         /\ StateOf(State(c, None, None, l, r, l), c, None, None, l, r, l)
         /\ StateOf(State(c, None, None, l, l, r), c, None, None, l, l, r)
  BY StateIs
<1>2. <<>> \in Seq(Channels) /\ <<d>> \in Seq(Channels)
  OBVIOUS
<1> QED
  BY <1>1, <1>2, Zenon

LEMMA CreatesSays ==
    ASSUME Reuse = FALSE, ServerIsFine, NEW c \in Channels, NEW p \in Channels, NEW n \in Names,
           Creates(c, p, n)
    PROVE  \E m : Says(m)
<1> DEFINE m == State(c, p, n, <<>>, <<>>, <<>>)
           v == ServerView
           w == ServerView'
<1>1. /\ c \notin there /\ c \notin past /\ p \in there /\ NameFree(p, n)
      /\ above' = [above EXCEPT ![c] = p] /\ named' = [named EXCEPT ![c] = n]
      /\ past' = past \cup {c}
      /\ UNCHANGED <<linked, announced, elsewhere, allowed, channels>>
      /\ net' = Append(net, m) /\ changes' = changes + 1 /\ changes < MaxChanges
  BY DEF Creates, Change, linking
<1>2. /\ m \in TreeMessages /\ m # Flush /\ m \notin Permissions
      /\ m.type = "ChannelState" /\ m.channel = c /\ m.parent = p /\ m.name = n
      /\ m.links = <<>> /\ m.links_add = <<>> /\ m.links_remove = <<>>
  BY StateWithout DEF StateOf
<1> HIDE DEF m
<1>3. ServerFine /\ Fine(v)
  BY DEF ServerIsFine
<1>4. /\ v \in View /\ There(v) = there /\ v.above = above /\ v.named = named
      /\ v.linked = announced /\ v.past = past /\ there \subseteq Channels /\ Root \in there
  BY <1>3, ServerViewIs
<1>5. Sent(v, m, elsewhere')
  BY <1>1, <1>2, <1>4 DEF Sent, SaysLinks
<1>6. there' = there \cup {c}
  BY <1>1, <1>3, TreeAssumption DEF ServerFine, there
<1>7. announced[c] = {}
  BY <1>1, <1>3, <1>4 DEF Fine
<1>8. w = Told(v, m)
  <2>1. p # None /\ n # None
    BY TreeAssumption
  <2>2. announced = [announced EXCEPT ![c] = (@ \cup ElementsOf(<<>>)) \ ElementsOf(<<>>)]
    BY <1>3, <1>7 DEF ServerFine, ElementsOf
  <2>3. Told(v, m) = Described(v, m)
    BY <1>2 DEF Told
  <2>4. /\ Described(v, m).above = above' /\ Described(v, m).named = named'
        /\ Described(v, m).linked = announced /\ Described(v, m).past = past'
    BY <1>1, <1>2, <1>4, <2>1, <2>2 DEF Described, Given
  <2> QED
    BY <1>1, <2>3, <2>4 DEF ServerView, Described
<1>9. ServerFine'
  <2>1. \A d, e \in there' \ {Root} : above'[d] = above'[e] /\ named'[d] = named'[e] => d = e
    BY <1>1, <1>3, <1>4, <1>6 DEF ServerFine, NameFree
  <2>2. \A d \in there' \ {Root} : named'[d] # None
    BY <1>1, <1>3, <1>4, <1>6, TreeAssumption DEF ServerFine
  <2>3. changes' \in 0 .. MaxChanges
    BY <1>1, <1>3, TreeAssumption DEF ServerFine
  <2>4. LinksFine'
    BY <1>1, <1>3, <1>6, LinksStayFine
  <2> QED
    BY <1>1, <1>3, <1>4, <1>6, <2>1, <2>2, <2>3, <2>4 DEF ServerFine
<1>10. Fine(w)
  <2>1. /\ w \in View /\ There(w) = there' /\ w.above = above' /\ w.named = named'
        /\ w.linked = announced' /\ w.past = past'
    BY <1>9 DEF ServerFine, ServerView, View, There, there
  <2> HIDE DEF v, w
  <2>2. Hangs(w)
    <3>1. Hangs(v) /\ c \in Channels \ There(v) /\ c # Root /\ p \in There(v)
          /\ w.above = [v.above EXCEPT ![c] = p]
      BY <1>1, <1>3, <1>4, <2>1 DEF Fine
    <3> QED
      BY <1>4, <2>1, <3>1, CreatedHangs, Zenon
  <2> QED
    BY <1>1, <1>3, <1>4, <1>6, <1>7, <2>1, <2>2 DEF Fine, ServerFine
<1> QED
  BY <1>1, <1>2, <1>5, <1>8, <1>9, <1>10 DEF Says

(* A message without links leaves the links.                               *)
LEMMA LinksStay ==
    ASSUME ServerFine, NEW c \in Channels
    PROVE  announced = [announced EXCEPT ![c] = (@ \cup ElementsOf(<<>>)) \ ElementsOf(<<>>)]
BY DEF ServerFine, ElementsOf

LEMMA MovesSays ==
    ASSUME ServerIsFine, NEW c \in Channels, NEW p \in Channels, Moves(c, p)
    PROVE  \E m : Says(m)
<1> DEFINE m == State(c, p, None, <<>>, <<>>, <<>>)
           v == ServerView
           w == ServerView'
<1>1. /\ c \in there \ {Root} /\ p \in there /\ ~Below(p, c) /\ NameFree(p, named[c])
      /\ above' = [above EXCEPT ![c] = p]
      /\ UNCHANGED <<named, linked, announced, elsewhere, allowed, past, channels>>
      /\ net' = Append(net, m) /\ changes' = changes + 1 /\ changes < MaxChanges
  BY DEF Moves, Change, linking
<1>2. /\ m \in TreeMessages /\ m # Flush /\ m \notin Permissions
      /\ m.type = "ChannelState" /\ m.channel = c /\ m.parent = p /\ m.name = None
      /\ m.links = <<>> /\ m.links_add = <<>> /\ m.links_remove = <<>>
  BY StateWithout DEF StateOf
<1> HIDE DEF m
<1>3. ServerFine /\ Fine(v)
  BY DEF ServerIsFine
<1>4. /\ v \in View /\ There(v) = there /\ v.above = above /\ v.named = named
      /\ v.linked = announced /\ v.past = past /\ there \subseteq Channels /\ Root \in there
  BY <1>3, ServerViewIs
<1>5. Sent(v, m, elsewhere')
  BY <1>1, <1>2, <1>4 DEF Sent, SaysLinks
<1>6. there' = there
  BY <1>1, <1>3, TreeAssumption DEF ServerFine, there
<1>7. w = Told(v, m)
  <2>1. p # None
    BY TreeAssumption
  <2>2. announced = [announced EXCEPT ![c] = (@ \cup ElementsOf(<<>>)) \ ElementsOf(<<>>)]
    BY <1>3, LinksStay
  <2>3. Told(v, m) = Described(v, m)
    BY <1>2 DEF Told
  <2>4. past = past \cup {c} /\ named = [named EXCEPT ![c] = named[c]]
    BY <1>1, <1>3, <1>4 DEF Fine, ServerFine
  <2>5. /\ Described(v, m).above = above' /\ Described(v, m).named = named'
        /\ Described(v, m).linked = announced /\ Described(v, m).past = past'
    BY <1>1, <1>2, <1>4, <2>1, <2>2, <2>4 DEF Described, Given
  <2> QED
    BY <1>1, <2>3, <2>5 DEF ServerView, Described
<1>8. ServerFine'
  <2>1. \A d, e \in there' \ {Root} : above'[d] = above'[e] /\ named'[d] = named'[e] => d = e
    BY <1>1, <1>3, <1>4, <1>6 DEF ServerFine, NameFree
  <2>2. changes' \in 0 .. MaxChanges
    BY <1>1, <1>3, TreeAssumption DEF ServerFine
  <2>3. LinksFine'
    BY <1>1, <1>3, <1>6, LinksStayFine
  <2> QED
    BY <1>1, <1>3, <1>4, <1>6, <2>1, <2>2, <2>3 DEF ServerFine
<1>9. Fine(w)
  <2>1. /\ w \in View /\ There(w) = there' /\ w.above = above' /\ w.named = named'
        /\ w.linked = announced' /\ w.past = past'
    BY <1>8 DEF ServerFine, ServerView, View, There, there
  <2> HIDE DEF v, w
  <2>2. PICK own \in SUBSET there :
           /\ c \in own /\ p \notin own /\ \A d \in there : above[d] \in own => d \in own
    BY <1>1 DEF Below
  <2>3. Hangs(w)
    <3>1. /\ Hangs(v) /\ c \in There(v) \ {Root} /\ p \in There(v)
          /\ w.above = [v.above EXCEPT ![c] = p] /\ own \in SUBSET There(v)
          /\ c \in own /\ p \notin own /\ \A d \in There(v) : v.above[d] \in own => d \in own
      BY <1>1, <1>3, <1>4, <2>1, <2>2 DEF Fine
    <3> QED
      BY <1>4, <2>1, <3>1, MovedHangs, Zenon
  <2> QED
    BY <1>1, <1>3, <1>4, <1>6, <2>1, <2>3 DEF Fine
<1> QED
  BY <1>1, <1>2, <1>5, <1>7, <1>8, <1>9 DEF Says

(* A change that moves no channel.                                         *)
LEMMA StaysFine ==
    ASSUME ServerIsFine, ServerFine', above' = above, past' = past,
           \A c \in Channels \ there : named'[c] = named[c],
           \A c \in Channels : announced'[c] \subseteq there,
           \A c \in Channels \ there : announced'[c] = {}
    PROVE  Fine(ServerView')
<1> DEFINE v == ServerView
           w == ServerView'
<1>1. /\ w \in View /\ There(w) = there' /\ w.above = above' /\ w.named = named'
      /\ w.linked = announced' /\ w.past = past'
  BY DEF ServerFine, ServerView, View, There, there
<1>2. Fine(v) /\ There(v) = there /\ v.above = above /\ v.past = past /\ v.named = named
  BY ServerViewIs DEF ServerIsFine
<1>3. there' = there
  BY DEF there
<1> HIDE DEF v, w
<1>4. Hangs(w)
  BY <1>1, <1>2, SameHangs DEF Fine
<1>5. Fine(w)
  BY <1>1, <1>2, <1>3, <1>4 DEF Fine
<1> QED
  BY <1>5 DEF w

LEMMA RenamesSays ==
    ASSUME ServerIsFine, NEW c \in Channels, NEW n \in Names, Renames(c, n)
    PROVE  \E m : Says(m)
<1> DEFINE m == State(c, None, n, <<>>, <<>>, <<>>)
           v == ServerView
           w == ServerView'
<1>1. /\ c \in there \ {Root} /\ NameFree(above[c], n)
      /\ named' = [named EXCEPT ![c] = n]
      /\ UNCHANGED <<above, linked, announced, elsewhere, allowed, past, channels>>
      /\ net' = Append(net, m) /\ changes' = changes + 1 /\ changes < MaxChanges
  BY DEF Renames, Change, linking
<1>2. /\ m \in TreeMessages /\ m # Flush /\ m \notin Permissions
      /\ m.type = "ChannelState" /\ m.channel = c /\ m.parent = None /\ m.name = n
      /\ m.links = <<>> /\ m.links_add = <<>> /\ m.links_remove = <<>>
  BY StateWithout DEF StateOf
<1> HIDE DEF m
<1>3. ServerFine /\ Fine(v)
  BY DEF ServerIsFine
<1>4. /\ v \in View /\ There(v) = there /\ v.above = above /\ v.named = named
      /\ v.linked = announced /\ v.past = past /\ there \subseteq Channels /\ Root \in there
  BY <1>3, ServerViewIs
<1>5. Sent(v, m, elsewhere')
  BY <1>1, <1>2, <1>4 DEF Sent, SaysLinks
<1>6. there' = there
  BY <1>1 DEF there
<1>7. w = Told(v, m)
  <2>1. n # None
    BY TreeAssumption
  <2>2. announced = [announced EXCEPT ![c] = (@ \cup ElementsOf(<<>>)) \ ElementsOf(<<>>)]
    BY <1>3, LinksStay
  <2>3. Told(v, m) = Described(v, m)
    BY <1>2 DEF Told
  <2>4. past = past \cup {c} /\ above[c] # None /\ above = [above EXCEPT ![c] = above[c]]
    BY <1>1, <1>3, <1>4 DEF Fine, ServerFine, there
  <2>5. /\ Described(v, m).above = above' /\ Described(v, m).named = named'
        /\ Described(v, m).linked = announced /\ Described(v, m).past = past'
    BY <1>1, <1>2, <1>4, <2>1, <2>2, <2>4 DEF Described, Given
  <2> QED
    BY <1>1, <2>3, <2>5 DEF ServerView, Described
<1>8. ServerFine'
  <2>1. \A d, e \in there' \ {Root} : above'[d] = above'[e] /\ named'[d] = named'[e] => d = e
    BY <1>1, <1>3, <1>4, <1>6 DEF ServerFine, NameFree
  <2>2. \A d \in there' \ {Root} : named'[d] # None
    BY <1>1, <1>3, <1>4, <1>6, TreeAssumption DEF ServerFine
  <2>3. changes' \in 0 .. MaxChanges
    BY <1>1, <1>3, TreeAssumption DEF ServerFine
  <2>4. LinksFine'
    BY <1>1, <1>3, <1>6, LinksStayFine
  <2> QED
    BY <1>1, <1>3, <1>4, <1>6, <2>1, <2>2, <2>3, <2>4 DEF ServerFine
<1>9. Fine(w)
  <2>1. \A d \in Channels \ there : named'[d] = named[d]
    BY <1>1, <1>3 DEF ServerFine
  <2>2. /\ \A d \in Channels : announced'[d] \subseteq there
        /\ \A d \in Channels \ there : announced'[d] = {}
    BY <1>1, <1>3, <1>4 DEF Fine
  <2> QED
    BY <1>1, <1>8, <2>1, <2>2, StaysFine
<1> QED
  BY <1>1, <1>2, <1>5, <1>7, <1>8, <1>9 DEF Says

LEMMA LinksSays ==
    ASSUME ServerIsFine, NEW c \in Channels, NEW d \in Channels, Links(c, d)
    PROVE  \E m : Says(m)
<1> DEFINE m == State(c, None, None, <<>>, <<d>>, <<>>)
           v == ServerView
           w == ServerView'
<1>1. /\ c \in there /\ d \in there \ (linked[c] \cup {c})
      /\ linked' = [linked EXCEPT ![c] = @ \cup {d}, ![d] = @ \cup {c}]
      /\ announced' = [announced EXCEPT ![c] = @ \cup {d}]
      /\ elsewhere' = [elsewhere EXCEPT ![d] = @ \cup {c}]
      /\ UNCHANGED <<above, named, allowed, past, channels>>
      /\ net' = Append(net, m) /\ changes' = changes + 1 /\ changes < MaxChanges
  BY DEF Links, Change, ByOne
<1>2. /\ m \in TreeMessages /\ m # Flush /\ m \notin Permissions
      /\ m.type = "ChannelState" /\ m.channel = c /\ m.parent = None /\ m.name = None
      /\ m.links = <<>> /\ m.links_add = <<d>> /\ m.links_remove = <<>>
  BY StateWithOne DEF StateOf
<1> HIDE DEF m
<1>3. ServerFine /\ Fine(v)
  BY DEF ServerIsFine
<1>4. /\ v \in View /\ There(v) = there /\ v.above = above /\ v.named = named
      /\ v.linked = announced /\ v.past = past /\ there \subseteq Channels /\ Root \in there
  BY <1>3, ServerViewIs
<1>5. Sent(v, m, elsewhere')
  <2>1. d \in elsewhere'[c] \/ (d \in linked[c] <=> d \in announced[c])
    BY <1>1, <1>3 DEF ServerFine, LinksFine
  <2>2. d \in there
    BY <1>1, <1>3 DEF ServerFine, LinksFine
  <2> QED
    BY <1>1, <1>2, <1>4, <2>1, <2>2 DEF Sent, SaysLinks
<1>6. w = Told(v, m)
  <2>1. ElementsOf(<<>>) = {} /\ ElementsOf(<<d>>) = {d} /\ <<d>> # <<>>
    BY DEF ElementsOf
  <2>2. Told(v, m) = Described(v, m)
    BY <1>2 DEF Told
  <2>3. /\ past = past \cup {c} /\ above[c] # None
        /\ above = [above EXCEPT ![c] = above[c]] /\ named = [named EXCEPT ![c] = named[c]]
    BY <1>1, <1>3, <1>4 DEF Fine, ServerFine, there
  <2>4. Described(v, m).linked = [announced EXCEPT ![c] = @ \cup {d}]
    <3>1. (announced[c] \cup {d}) \ {} = announced[c] \cup {d}
      OBVIOUS
    <3> QED
      BY <1>2, <1>3, <1>4, <2>1, <3>1 DEF Described, ServerFine
  <2>5. /\ Described(v, m).above = above' /\ Described(v, m).named = named'
        /\ Described(v, m).past = past'
    BY <1>1, <1>2, <1>4, <2>3 DEF Described, Given
  <2> QED
    BY <1>1, <2>2, <2>4, <2>5 DEF ServerView, Described
<1>7. ServerFine'
  <2>1. /\ linked' \in [Channels -> SUBSET Channels]
        /\ announced' \in [Channels -> SUBSET Channels]
        /\ elsewhere' \in [Channels -> SUBSET Channels]
    BY <1>1, <1>3 DEF ServerFine
  <2>2. changes' \in 0 .. MaxChanges
    BY <1>1, <1>3, TreeAssumption DEF ServerFine
  <2>3. there' = there
    BY <1>1 DEF there
  <2>4. LinksFine'
    BY <1>1, <1>3, <1>4, <2>3 DEF ServerFine, LinksFine
  <2> QED
    BY <1>1, <1>3, <2>1, <2>2, <2>3, <2>4 DEF ServerFine
<1>8. Fine(w)
  <2>1. /\ \A e \in Channels : announced'[e] \subseteq there
        /\ \A e \in Channels \ there : announced'[e] = {} /\ named'[e] = named[e]
    BY <1>1, <1>3, <1>4 DEF Fine, ServerFine
  <2> QED
    BY <1>1, <1>7, <2>1, StaysFine
<1>9. \A e \in Channels : elsewhere[e] \subseteq elsewhere'[e]
  BY <1>1, <1>3 DEF ServerFine
<1> QED
  BY <1>1, <1>2, <1>5, <1>6, <1>7, <1>8, <1>9 DEF Says

LEMMA UnlinksSays ==
    ASSUME ServerIsFine, NEW c \in Channels, NEW d \in Channels, Unlinks(c, d)
    PROVE  \E m : Says(m)
<1> DEFINE m == State(c, None, None, <<>>, <<>>, <<d>>)
           v == ServerView
           w == ServerView'
<1>1. /\ c \in there /\ d \in linked[c]
      /\ linked' = [linked EXCEPT ![c] = @ \ {d}, ![d] = @ \ {c}]
      /\ announced' = [announced EXCEPT ![c] = @ \ {d}]
      /\ elsewhere' = [elsewhere EXCEPT ![d] = @ \cup {c}]
      /\ UNCHANGED <<above, named, allowed, past, channels>>
      /\ net' = Append(net, m) /\ changes' = changes + 1 /\ changes < MaxChanges
  BY DEF Unlinks, Change, ByOne
<1>2. /\ m \in TreeMessages /\ m # Flush /\ m \notin Permissions
      /\ m.type = "ChannelState" /\ m.channel = c /\ m.parent = None /\ m.name = None
      /\ m.links = <<>> /\ m.links_add = <<>> /\ m.links_remove = <<d>>
  BY StateWithOne DEF StateOf
<1> HIDE DEF m
<1>3. ServerFine /\ Fine(v)
  BY DEF ServerIsFine
<1>4. /\ v \in View /\ There(v) = there /\ v.above = above /\ v.named = named
      /\ v.linked = announced /\ v.past = past /\ there \subseteq Channels /\ Root \in there
  BY <1>3, ServerViewIs
<1>5. Sent(v, m, elsewhere')
  <2>1. d \in elsewhere'[c] \/ (d \in linked[c] <=> d \in announced[c])
    BY <1>1, <1>3 DEF ServerFine, LinksFine
  <2>2. d \in there
    BY <1>1, <1>3 DEF ServerFine, LinksFine
  <2> QED
    BY <1>1, <1>2, <1>4, <2>1, <2>2 DEF Sent, SaysLinks
<1>6. w = Told(v, m)
  <2>1. ElementsOf(<<>>) = {} /\ ElementsOf(<<d>>) = {d} /\ <<d>> # <<>>
    BY DEF ElementsOf
  <2>2. Told(v, m) = Described(v, m)
    BY <1>2 DEF Told
  <2>3. /\ past = past \cup {c} /\ above[c] # None
        /\ above = [above EXCEPT ![c] = above[c]] /\ named = [named EXCEPT ![c] = named[c]]
    BY <1>1, <1>3, <1>4 DEF Fine, ServerFine, there
  <2>4. Described(v, m).linked = [announced EXCEPT ![c] = @ \ {d}]
    <3>1. (announced[c] \cup {}) \ {d} = announced[c] \ {d}
      OBVIOUS
    <3> QED
      BY <1>2, <1>3, <1>4, <2>1, <3>1 DEF Described, ServerFine
  <2>5. /\ Described(v, m).above = above' /\ Described(v, m).named = named'
        /\ Described(v, m).past = past'
    BY <1>1, <1>2, <1>4, <2>3 DEF Described, Given
  <2> QED
    BY <1>1, <2>2, <2>4, <2>5 DEF ServerView, Described
<1>7. ServerFine'
  <2>1. /\ linked' \in [Channels -> SUBSET Channels]
        /\ announced' \in [Channels -> SUBSET Channels]
        /\ elsewhere' \in [Channels -> SUBSET Channels]
    BY <1>1, <1>3 DEF ServerFine
  <2>2. changes' \in 0 .. MaxChanges
    BY <1>1, <1>3, TreeAssumption DEF ServerFine
  <2>3. there' = there
    BY <1>1 DEF there
  <2>4. LinksFine'
    BY <1>1, <1>3, <1>4, <2>3 DEF ServerFine, LinksFine
  <2> QED
    BY <1>1, <1>3, <2>1, <2>2, <2>3, <2>4 DEF ServerFine
<1>8. Fine(w)
  <2>1. /\ \A e \in Channels : announced'[e] \subseteq there
        /\ \A e \in Channels \ there : announced'[e] = {} /\ named'[e] = named[e]
    BY <1>1, <1>3, <1>4 DEF Fine, ServerFine
  <2> QED
    BY <1>1, <1>7, <2>1, StaysFine
<1>9. \A e \in Channels : elsewhere[e] \subseteq elsewhere'[e]
  BY <1>1, <1>3 DEF ServerFine
<1> QED
  BY <1>1, <1>2, <1>5, <1>6, <1>7, <1>8, <1>9 DEF Says

LEMMA RemovesSays ==
    ASSUME ServerIsFine, NEW c \in Channels, Removes(c)
    PROVE  \E m : Says(m)
<1> DEFINE m == Remove_(c)
           v == ServerView
           w == ServerView'
<1>1. /\ c \in there \ {Root} /\ \A d \in there : above[d] # c
      /\ above' = [above EXCEPT ![c] = None] /\ named' = [named EXCEPT ![c] = None]
      /\ linked' = [d \in Channels |-> IF d = c THEN {} ELSE linked[d] \ {c}]
      /\ announced' = [d \in Channels |-> IF d = c THEN {} ELSE announced[d] \ {c}]
      /\ UNCHANGED <<elsewhere, allowed, past, channels>>
      /\ net' = Append(net, m) /\ changes' = changes + 1 /\ changes < MaxChanges
  BY DEF Removes, Change
<1>2. /\ m \in TreeMessages /\ m # Flush /\ m \notin Permissions
      /\ m.type = "ChannelRemove" /\ m.channel = c
  BY DEF Remove_, TreeMessages, ChannelRemoves, Flush, Permissions
<1> HIDE DEF m
<1>3. ServerFine /\ Fine(v)
  BY DEF ServerIsFine
<1>4. /\ v \in View /\ There(v) = there /\ v.above = above /\ v.named = named
      /\ v.linked = announced /\ v.past = past /\ there \subseteq Channels /\ Root \in there
  BY <1>3, ServerViewIs
<1>5. Sent(v, m, elsewhere')
  BY <1>1, <1>2, <1>4 DEF Sent
<1>6. there' = there \ {c}
  BY <1>1, <1>3, TreeAssumption DEF ServerFine, there
<1>7. w = Told(v, m)
  <2>1. Told(v, m) = WithoutChannel(v, c)
    BY <1>2 DEF Told
  <2> QED
    BY <1>1, <1>4, <2>1 DEF WithoutChannel, ServerView
<1>8. ServerFine'
  <2>1. /\ above' \in [Channels -> Channels \cup {None}]
        /\ named' \in [Channels -> Names \cup {None}]
        /\ linked' \in [Channels -> SUBSET Channels]
        /\ announced' \in [Channels -> SUBSET Channels]
    BY <1>1, <1>3 DEF ServerFine
  <2>2. /\ \A d \in there' \ {Root} : named'[d] # None
        /\ \A d, e \in there' \ {Root} : above'[d] = above'[e] /\ named'[d] = named'[e] => d = e
    BY <1>1, <1>3, <1>4, <1>6 DEF ServerFine
  <2>3. changes' \in 0 .. MaxChanges
    BY <1>1, <1>3, TreeAssumption DEF ServerFine
  <2>4. LinksFine'
    BY <1>1, <1>3, <1>4, <1>6 DEF ServerFine, LinksFine
  <2> QED
    BY <1>1, <1>3, <1>4, <1>6, <2>1, <2>2, <2>3, <2>4 DEF ServerFine
<1>9. Fine(w)
  <2>1. /\ w \in View /\ There(w) = there' /\ w.above = above' /\ w.named = named'
        /\ w.linked = announced' /\ w.past = past'
    BY <1>8 DEF ServerFine, ServerView, View, There, there
  <2> HIDE DEF v, w
  <2>2. Hangs(w)
    <3>1. /\ Hangs(v) /\ c \in There(v) \ {Root} /\ \A d \in There(v) : v.above[d] # c
          /\ w.above = [v.above EXCEPT ![c] = None]
      BY <1>1, <1>3, <1>4, <2>1 DEF Fine
    <3> QED
      BY <1>4, <2>1, <3>1, RemovedHangs, Zenon
  <2> QED
    BY <1>1, <1>3, <1>4, <1>6, <2>1, <2>2 DEF Fine, ServerFine
<1> QED
  BY <1>1, <1>2, <1>5, <1>7, <1>8, <1>9 DEF Says

LEMMA AnswersSays ==
    ASSUME ServerIsFine, NEW c \in Channels, Answers(c)
    PROVE  \E m : Says(m)
<1> DEFINE m == Permission(c, allowed[c])
           v == ServerView
<1>1. /\ c \in there
      /\ UNCHANGED <<above, named, linked, announced, elsewhere, allowed, past, channels>>
      /\ net' = Append(net, m) /\ changes' = changes + 1 /\ changes < MaxChanges
  BY DEF Answers, Change, linking
<1>2. ServerFine /\ Fine(v)
  BY DEF ServerIsFine
<1>3. c # None /\ allowed[c] \in {1, 2}
  BY <1>2, TreeAssumption DEF ServerFine
<1>4. /\ m \in TreeMessages /\ m # Flush
      /\ m.type = "PermissionQuery" /\ m.channel = c /\ m.permissions = allowed[c]
  BY <1>3 DEF Permission, TreeMessages, Permissions, Flush
<1> HIDE DEF m
<1>5. v' = v /\ Told(v, m) = v
  BY <1>1, <1>4 DEF ServerView, Told
<1>6. Sent(v, m, elsewhere')
  BY <1>1, <1>2, <1>4, ServerViewIs DEF Sent
<1>7. ServerFine'
  <2>1. changes' \in 0 .. MaxChanges
    BY <1>1, <1>2, TreeAssumption DEF ServerFine
  <2> QED
    BY <1>1, <1>2, <2>1 DEF ServerFine, LinksFine, there
<1>8. Fine(v')
  BY <1>2, <1>5
<1> QED
  BY <1>1, <1>4, <1>5, <1>6, <1>7, <1>8 DEF Says

LEMMA RulesSays ==
    ASSUME ServerIsFine, NEW c \in Channels, Rules(c)
    PROVE  \E m : Says(m)
<1> DEFINE m == Flush
           v == ServerView
<1>1. /\ c \in there /\ UNCHANGED <<above, named, linked, announced, elsewhere, past, channels>>
      /\ allowed' = [allowed EXCEPT ![c] = 3 - @]
      /\ net' = Append(net, m) /\ changes' = changes + 1 /\ changes < MaxChanges
  BY DEF Rules, Change, linking
<1>2. ServerFine /\ Fine(v)
  BY DEF ServerIsFine
<1>3. allowed' \in [Channels -> {1, 2}]
  <2>1. 3 - allowed[c] \in {1, 2}
    BY <1>2 DEF ServerFine
  <2> QED
    BY <1>1, <1>2, <2>1 DEF ServerFine
<1>4. /\ m \in TreeMessages /\ m \notin Permissions
      /\ m.type = "PermissionQuery" /\ m.channel = None
  BY TreeAssumption DEF TreeMessages, Permissions, Flush
<1>5. v' = v /\ Told(v, m) = v
  BY <1>1, <1>4 DEF ServerView, Told
<1>6. Sent(v, m, elsewhere')
  BY <1>4 DEF Sent
<1>7. ServerFine'
  <2>1. changes' \in 0 .. MaxChanges
    BY <1>1, <1>2, TreeAssumption DEF ServerFine
  <2> QED
    BY <1>1, <1>2, <1>3, <2>1 DEF ServerFine, LinksFine, there
<1>8. Fine(v')
  BY <1>2, <1>5
<1> QED
  BY <1>1, <1>4, <1>5, <1>6, <1>7, <1>8 DEF Says

LEMMA ServerSays ==
    ASSUME Reuse = FALSE, ServerIsFine, Server
    PROVE  \E m : Says(m)
BY CreatesSays, MovesSays, RenamesSays, LinksSays, UnlinksSays, RemovesSays, AnswersSays,
   RulesSays DEF Server

(* What may be sent may be sent when more is spoken of elsewhere.          *)
LEMMA SentElsewhere ==
    ASSUME NEW v, NEW m \in TreeMessages, NEW e, NEW f, Sent(v, m, e), There(v) \subseteq Channels,
           \A c \in Channels : e[c] \subseteq f[c]
    PROVE  Sent(v, m, f)
<1>1. m.type = "ChannelState" => m.channel \in Channels
  BY DEF TreeMessages, ChannelStates, ChannelRemoves, Permissions, Flush
<1>2. ASSUME m.type = "ChannelState" PROVE SaysLinks(v, m, f)
  <2>1. e[m.channel] \subseteq f[m.channel] /\ SaysLinks(v, m, e)
    BY <1>1, <1>2 DEF Sent
  <2> QED
    BY <2>1 DEF SaysLinks
<1> QED
  BY <1>2 DEF Sent

(* The same of what the client keeps.                                      *)
LEMMA MirrorsElsewhere ==
    ASSUME NEW v, Mirrors(v), UNCHANGED channels,
           \A c \in Channels : elsewhere[c] \subseteq elsewhere'[c]
    PROVE  Mirrors(v)'
<1>1. DOMAIN channels = There(v) /\ There(v) \subseteq Channels
  BY DEF Mirrors, There
<1>2. ASSUME NEW c \in There(v) PROVE Kept_(v, c)'
  <2>1. Kept_(v, c) /\ elsewhere[c] \subseteq elsewhere'[c] /\ channels' = channels
    BY <1>1 DEF Mirrors
  <2>2. Lists(v, c, channels[c].links, elsewhere'[c])
    BY <2>1 DEF Kept_, Lists
  <2> QED
    BY <2>1, <2>2 DEF Kept_
<1> QED
  BY <1>1, <1>2 DEF Mirrors

(* A message is sent: the views end with the server as it is then.         *)
LEMMA ServerIsGood ==
    ASSUME Reuse = FALSE, TreeInv, Server
    PROVE  TreeInv'
<1>1. PICK v : Leads(v)
  BY DEF TreeInv
<1>2. /\ v \in Seq(View) /\ net \in Seq(TreeMessages) /\ Len(v) = Len(net) + 1
      /\ \A k \in DOMAIN net : v[k + 1] = Told(v[k], net[k]) /\ Sent(v[k], net[k], elsewhere)
      /\ \A k \in DOMAIN v : Fine(v[k])
      /\ Mirrors(v[1]) /\ v[Len(v)] = ServerView
  BY <1>1 DEF Leads, Chain
<1>3. Fine(v[Len(v)])
  BY <1>2
<1>4. PICK m : Says(m)
  BY <1>2, <1>3, ServerSays DEF TreeInv, ServerIsFine
<1>5. /\ m \in TreeMessages /\ net' = Append(net, m) /\ channels' = channels
      /\ Sent(ServerView, m, elsewhere') /\ ServerView' = Told(ServerView, m)
      /\ \A c \in Channels : elsewhere[c] \subseteq elsewhere'[c]
      /\ ServerFine' /\ Fine(ServerView')
      /\ m # Flush => allowed' = allowed
      /\ m \in Permissions => m.permissions = allowed[m.channel]
  BY <1>4 DEF Says
<1>6. ServerView' \in View
  BY <1>5 DEF ServerFine, ServerView, View
<1>7. PICK w : w = Append(v, ServerView')
  OBVIOUS
<1>8. /\ w \in Seq(View) /\ Len(w) = Len(v) + 1 /\ w[Len(w)] = ServerView'
      /\ \A k \in 1 .. Len(v) : w[k] = v[k]
  BY <1>2, <1>6, <1>7
<1>9. /\ net' \in Seq(TreeMessages) /\ Len(net') = Len(net) + 1 /\ net'[Len(net')] = m
      /\ \A k \in 1 .. Len(net) : net'[k] = net[k]
      /\ DOMAIN net' = 1 .. Len(net) + 1 /\ DOMAIN net = 1 .. Len(net) /\ Len(net) \in Nat
  BY <1>2, <1>5
<1>10. Chain(w, net', elsewhere')
  <2>1. ASSUME NEW k \in DOMAIN net'
        PROVE  w[k + 1] = Told(w[k], net'[k]) /\ Sent(w[k], net'[k], elsewhere')
    <3>1. CASE k \in 1 .. Len(net)
      <4>1. /\ w[k] = v[k] /\ w[k + 1] = v[k + 1] /\ net'[k] = net[k] /\ k \in DOMAIN net
            /\ v[k] \in View /\ net[k] \in TreeMessages
        BY <1>2, <1>8, <1>9, <3>1
      <4>2. Sent(v[k], net[k], elsewhere) /\ v[k + 1] = Told(v[k], net[k])
        BY <1>2, <4>1
      <4>3. There(v[k]) \subseteq Channels
        BY DEF There
      <4>4. Sent(v[k], net[k], elsewhere')
        BY <1>5, <4>1, <4>2, <4>3, SentElsewhere
      <4> QED
        BY <4>1, <4>2, <4>4
    <3>2. CASE k = Len(net) + 1
      BY <1>2, <1>5, <1>8, <1>9, <3>2
    <3> QED
      BY <1>9, <3>1, <3>2
  <2>2. ASSUME NEW k \in DOMAIN w PROVE Fine(w[k])
    BY <1>2, <1>5, <1>8
  <2> QED
    BY <1>2, <1>8, <1>9, <2>1, <2>2 DEF Chain
<1>11. Mirrors(w[1])'
  <2>1. w[1] = v[1]
    BY <1>2, <1>8
  <2> QED
    BY <1>2, <1>5, <2>1, MirrorsElsewhere
<1>12. Leads(w)'
  BY <1>8, <1>10, <1>11 DEF Leads
<1>13. RightsAreTrue'
  <2>1. ASSUME NEW k \in DOMAIN net', net'[k] \in Permissions,
               \A j \in DOMAIN net' : j > k => net'[j] # Flush
        PROVE  net'[k].permissions = allowed'[net'[k].channel]
    <3>1. CASE k \in 1 .. Len(net)
      <4>1. m # Flush
        BY <1>9, <2>1, <3>1
      <4>2. \A j \in DOMAIN net : j > k => net[j] # Flush
        BY <1>9, <2>1
      <4> QED
        BY <1>5, <1>9, <2>1, <3>1, <4>1, <4>2 DEF TreeInv, RightsAreTrue
    <3>2. CASE k = Len(net) + 1
      <4>1. m \in Permissions /\ m # Flush
        BY <1>9, <2>1, <3>2, TreeAssumption DEF Permissions, Flush
      <4> QED
        BY <1>5, <1>9, <3>2, <4>1
    <3> QED
      BY <1>9, <3>1, <3>2
  <2>2. ASSUME \A k \in DOMAIN net' : net'[k] # Flush
        PROVE  \A c \in DOMAIN channels' : channels'[c].permissions \in {0, allowed'[c]}
    <3>1. m # Flush /\ \A k \in DOMAIN net : net[k] # Flush
      BY <1>9, <2>2
    <3> QED
      BY <1>5, <3>1 DEF TreeInv, RightsAreTrue
  <2> QED
    BY <2>1, <2>2 DEF RightsAreTrue
<1> QED
  BY <1>5, <1>12, <1>13 DEF TreeInv

(* The next message is handled: the first view is behind.                  *)
LEMMA ReceiveIsGood ==
    ASSUME TreeInv, Receive
    PROVE  TreeInv'
<1> PICK m : m = Head(net)
  OBVIOUS
<1>1. PICK v : Leads(v)
  BY DEF TreeInv
<1>2. /\ v \in Seq(View) /\ net \in Seq(TreeMessages) /\ Len(v) = Len(net) + 1
      /\ \A k \in DOMAIN net : v[k + 1] = Told(v[k], net[k]) /\ Sent(v[k], net[k], elsewhere)
      /\ \A k \in DOMAIN v : Fine(v[k])
      /\ Mirrors(v[1]) /\ v[Len(v)] = ServerView
  BY <1>1 DEF Leads, Chain
<1>3. /\ net # <<>> /\ net' = Tail(net) /\ Handle(m)
      /\ UNCHANGED <<above, named, linked, announced, elsewhere, allowed, past, changes>>
      /\ elsewhere \in [Channels -> SUBSET Channels]
  BY DEF Receive, server, linking, TreeInv, ServerFine
<1>4. PICK w : w = Tail(v)
  OBVIOUS
<1>5. /\ m = net[1] /\ m \in TreeMessages /\ 1 \in DOMAIN net /\ 1 \in DOMAIN v /\ v[1] \in View
      /\ v # <<>>
  BY <1>2, <1>3
<1>6. /\ w \in Seq(View) /\ Len(w) = Len(v) - 1 /\ \A k \in 1 .. Len(w) : w[k] = v[k + 1]
      /\ net' \in Seq(TreeMessages) /\ Len(net') = Len(net) - 1 /\ Len(net) \in Nat
      /\ DOMAIN net = 1 .. Len(net) /\ DOMAIN net' = 1 .. Len(net')
      /\ \A k \in DOMAIN net' : net'[k] = net[k + 1] /\ k + 1 \in DOMAIN net
  BY <1>2, <1>3, <1>4, <1>5
<1>7. Chain(w, net', elsewhere)
  <2>1. ASSUME NEW k \in DOMAIN net'
        PROVE  w[k + 1] = Told(w[k], net'[k]) /\ Sent(w[k], net'[k], elsewhere)
    <3>1. k + 1 \in DOMAIN net /\ k \in 1 .. Len(w) /\ k + 1 \in 1 .. Len(w)
      BY <1>2, <1>6
    <3>2. w[k] = v[k + 1] /\ w[k + 1] = v[(k + 1) + 1] /\ net'[k] = net[k + 1]
      BY <1>6, <3>1
    <3> QED
      BY <1>2, <3>1, <3>2
  <2>2. ASSUME NEW k \in DOMAIN w PROVE Fine(w[k])
    <3>1. k \in 1 .. Len(w) /\ k + 1 \in DOMAIN v
      BY <1>2, <1>6
    <3> QED
      BY <1>2, <1>6, <3>1
  <2> QED
    BY <1>2, <1>6, <2>1, <2>2 DEF Chain
<1>8. /\ w[1] = Told(v[1], m) /\ Sent(v[1], m, elsewhere) /\ Fine(v[1]) /\ Mirrors(v[1])
      /\ w[Len(w)] = ServerView'
  <2>1. ServerView' = ServerView
    BY <1>3 DEF ServerView
  <2> QED
    BY <1>2, <1>5, <1>6, <2>1
<1>9. /\ m \in ChannelStates \/ m \in ChannelRemoves \/ m \in Permissions \cup {Flush}
      /\ m \in ChannelStates => m.type = "ChannelState"
      /\ m \in ChannelRemoves => m.type = "ChannelRemove"
      /\ m \in Permissions \cup {Flush} => m.type = "PermissionQuery"
  BY <1>5 DEF TreeMessages, ChannelStates, ChannelRemoves, Permissions, Flush
<1>10. /\ \A k \in DOMAIN net' :
            /\ net'[k] \in Permissions
            /\ \A j \in DOMAIN net' : j > k => net'[j] # Flush
            => net'[k].permissions = allowed'[net'[k].channel]
       /\ (\A k \in DOMAIN net' : net'[k] # Flush) =>
             /\ m \in Permissions => m.permissions = allowed[m.channel]
             /\ m # Flush => \A c \in DOMAIN channels : channels[c].permissions \in {0, allowed[c]}
  <2>1. ASSUME NEW k \in DOMAIN net', net'[k] \in Permissions,
               \A j \in DOMAIN net' : j > k => net'[j] # Flush
        PROVE  net'[k].permissions = allowed'[net'[k].channel]
    <3>1. \A j \in DOMAIN net : j > k + 1 => net[j] # Flush
      <4> SUFFICES ASSUME NEW j \in DOMAIN net, j > k + 1 PROVE net[j] # Flush
        OBVIOUS
      <4>1. j - 1 \in DOMAIN net' /\ j - 1 > k
        BY <1>6
      <4> QED
        BY <1>6, <2>1, <4>1
    <3> QED
      BY <1>3, <1>6, <2>1, <3>1 DEF TreeInv, RightsAreTrue
  <2>2. ASSUME \A k \in DOMAIN net' : net'[k] # Flush
        PROVE  \A j \in DOMAIN net : j > 1 => net[j] # Flush
    <3> SUFFICES ASSUME NEW j \in DOMAIN net, j > 1 PROVE net[j] # Flush
      OBVIOUS
    <3>1. j - 1 \in DOMAIN net'
      BY <1>6
    <3> QED
      BY <1>6, <2>2, <3>1
  <2>3. ASSUME \A k \in DOMAIN net' : net'[k] # Flush, m \in Permissions
        PROVE  m.permissions = allowed[m.channel]
    BY <1>5, <2>2, <2>3 DEF TreeInv, RightsAreTrue
  <2>4. ASSUME \A k \in DOMAIN net' : net'[k] # Flush, m # Flush
        PROVE  \A c \in DOMAIN channels : channels[c].permissions \in {0, allowed[c]}
    <3>1. \A k \in DOMAIN net : net[k] # Flush
      BY <1>5, <1>6, <2>2, <2>4
    <3> QED
      BY <3>1 DEF TreeInv, RightsAreTrue
  <2> QED
    BY <2>1, <2>2, <2>3, <2>4
<1>11. /\ Mirrors(w[1])'
       /\ (\A k \in DOMAIN net' : net'[k] # Flush) =>
             \A c \in DOMAIN channels' : channels'[c].permissions \in {0, allowed'[c]}
  <2>1. CASE m \in ChannelStates
    <3>1. packet_channel_state(m) /\ m # Flush
      <4>1. m # Flush
        BY <1>9, <2>1 DEF Flush
      <4> QED
        BY <1>3, <1>9, <2>1, <4>1 DEF Handle
    <3>2. Mirrors(Told(v[1], m))'
      BY <1>3, <1>5, <1>8, <2>1, <3>1, StateIsKept
    <3>3. \A d \in DOMAIN channels' :
             channels'[d].permissions = IF d \in DOMAIN channels THEN channels[d].permissions ELSE 0
      BY <1>3, <1>5, <1>8, <2>1, <3>1, StateIsKept
    <3> QED
      BY <1>3, <1>8, <1>10, <3>1, <3>2, <3>3
  <2>2. CASE m \in ChannelRemoves
    <3>1. packet_channel_remove(m) /\ m # Flush
      <4>1. m # Flush
        BY <1>9, <2>2 DEF Flush
      <4> QED
        BY <1>3, <1>9, <2>2, <4>1 DEF Handle
    <3>2. Mirrors(Told(v[1], m))'
      BY <1>3, <1>5, <1>8, <2>2, <3>1, RemoveIsKept
    <3>3. \A d \in DOMAIN channels' : d \in DOMAIN channels /\ channels'[d] = channels[d]
      BY <3>1 DEF packet_channel_remove
    <3> QED
      BY <1>3, <1>8, <1>10, <3>1, <3>2, <3>3
  <2>3. CASE m \in Permissions \cup {Flush}
    <3>1. packet_permission_query(m) /\ w[1] = v[1]
      BY <1>3, <1>8, <1>9, <2>3 DEF Handle, Told
    <3>2. /\ Mirrors(v[1])'
          /\ m = Flush => \A c \in There(v[1]) : channels'[c].permissions = 0
          /\ m # Flush => \A c \in There(v[1]) :
                channels'[c].permissions = IF c = m.channel THEN m.permissions
                                           ELSE channels[c].permissions
      BY <1>3, <1>5, <1>8, <2>3, <3>1, RightsAreKept
    <3>3. DOMAIN channels' = There(v[1]) /\ DOMAIN channels = There(v[1])
      BY <1>8, <3>2 DEF Mirrors
    <3> QED
      BY <1>3, <1>10, <2>3, <3>1, <3>2, <3>3
  <2> QED
    BY <1>9, <2>1, <2>2, <2>3
<1>12. ServerFine'
  BY <1>3 DEF TreeInv, ServerFine, LinksFine, there
<1>13. Leads(w)'
  BY <1>3, <1>7, <1>8, <1>11 DEF Leads
<1> QED
  BY <1>10, <1>11, <1>12, <1>13 DEF TreeInv, RightsAreTrue

(* The first two messages describe the root and a channel below it to a    *)
(* client that knows of none.                                              *)
LEMMA TreeInitIsGood == TreeInit => TreeInv
<1> SUFFICES ASSUME TreeInit PROVE TreeInv
  OBVIOUS
<1>1. PICK c \in Channels \ {Root}, both \in BOOLEAN, n \in Names :
         /\ above = [d \in Channels |-> IF d \in {Root, c} THEN Root ELSE None]
         /\ named = [d \in Channels |-> IF d = c THEN n ELSE None]
         /\ announced = [d \in Channels |-> IF d = c /\ both THEN {Root} ELSE {}]
         /\ elsewhere = [d \in Channels |-> IF d = Root /\ both THEN {c} ELSE {}]
         /\ linked = [d \in Channels |-> announced[d] \cup elsewhere[d]]
         /\ net = <<State(Root, None, None, <<>>, <<>>, <<>>),
                    State(c, Root, n, IF both THEN <<Root>> ELSE <<>>, <<>>, <<>>)>>
  BY DEF TreeInit
<1>2. /\ allowed = [d \in Channels |-> 1] /\ past = there /\ changes = 0 /\ channels = <<>>
  BY DEF TreeInit
<1>3. Root \in Channels /\ None \notin Channels /\ None \notin Names /\ MaxChanges \in Nat
  BY TreeAssumption
<1>4. there = {Root, c}
  BY <1>1, <1>3 DEF there
<1> DEFINE m1 == State(Root, None, None, <<>>, <<>>, <<>>)
           l2 == IF both THEN <<Root>> ELSE <<>>
           m2 == State(c, Root, n, l2, <<>>, <<>>)
<1>5. /\ m1 \in TreeMessages /\ m1 \in ChannelStates /\ m1 # Flush /\ m1 \notin Permissions
      /\ m1.type = "ChannelState" /\ m1.channel = Root /\ m1.parent = None /\ m1.name = None
      /\ m1.links = <<>> /\ m1.links_add = <<>> /\ m1.links_remove = <<>>
  BY <1>3, StateWithout DEF StateOf
<1>6. /\ m2 \in TreeMessages /\ m2 \in ChannelStates /\ m2 # Flush /\ m2 \notin Permissions
      /\ m2.type = "ChannelState" /\ m2.channel = c /\ m2.parent = Root /\ m2.name = n
      /\ m2.links = l2 /\ m2.links_add = <<>> /\ m2.links_remove = <<>>
  <2>1. \A l, e \in Seq(Channels) : StateOf(State(c, Root, n, l, e, e), c, Root, n, l, e, e)
    BY <1>3, StateIs
  <2>2. l2 \in Seq(Channels) /\ <<>> \in Seq(Channels)
    BY <1>3
  <2> HIDE DEF l2
  <2>3. StateOf(State(c, Root, n, l2, <<>>, <<>>), c, Root, n, l2, <<>>, <<>>)
    BY <2>1, <2>2, Zenon
  <2> QED
    BY <2>3 DEF StateOf
<1>7. net = <<m1, m2>>
  BY <1>1
<1>8. both \in BOOLEAN /\ (both => l2 = <<Root>>) /\ (~both => l2 = <<>>)
  OBVIOUS
<1> HIDE DEF m1, m2, l2
<1>9. ElementsOf(<<>>) = {} /\ ElementsOf(<<Root>>) = {Root} /\ <<Root>> # <<>>
  BY DEF ElementsOf
<1> DEFINE v1 == [above |-> [d \in Channels |-> None], named |-> [d \in Channels |-> None],
                  linked |-> [d \in Channels |-> {}], past |-> {}]
           v2 == Told(v1, m1)
           v3 == Told(v2, m2)
<1>10. v1 \in View /\ There(v1) = {} /\ Fine(v1)
  BY DEF View, There, Fine, Hangs, Closed
<1>11. /\ v2 \in View /\ There(v2) = {Root}
       /\ v2 = [above |-> [d \in Channels |-> IF d = Root THEN Root ELSE None],
                named |-> [d \in Channels |-> None], linked |-> [d \in Channels |-> {}],
                past |-> {Root}]
  <2>1. v2 \in View /\ There(v2) = {Root}
    BY <1>5, <1>10, ToldIsView
  <2>2. v2 = Described(v1, m1)
    BY <1>5 DEF Told
  <2>3. [v1.linked EXCEPT ![Root] = (@ \cup {}) \ {}] = [d \in Channels |-> {}]
    BY DEF v1
  <2>4. [v1.above EXCEPT ![Root] = Root] = [d \in Channels |-> IF d = Root THEN Root ELSE None]
    BY <1>3
  <2>5. [v1.named EXCEPT ![Root] = None] = [d \in Channels |-> None]
    BY <1>3
  <2>6. v1.above[Root] = None /\ v1.named[Root] = None /\ v1.past = {}
    BY <1>3
  <2> HIDE DEF v1
  <2>7. Described(v1, m1).above = [v1.above EXCEPT ![Root] = Root]
    BY <1>5, <2>6 DEF Described
  <2>8. Described(v1, m1).named = [v1.named EXCEPT ![Root] = None]
    BY <1>5, <2>6 DEF Described, Given
  <2>9. Described(v1, m1).linked = [v1.linked EXCEPT ![Root] = (@ \cup {}) \ {}]
    BY <1>5, <1>9 DEF Described
  <2>10. Described(v1, m1).past = {Root}
    BY <1>5, <2>6 DEF Described
  <2> QED
    BY <2>1, <2>2, <2>3, <2>4, <2>5, <2>7, <2>8, <2>9, <2>10 DEF Described
<1> HIDE DEF v1, v2
<1>12. /\ v2.above = [d \in Channels |-> IF d = Root THEN Root ELSE None]
       /\ v2.named = [d \in Channels |-> None] /\ v2.linked = [d \in Channels |-> {}]
       /\ v2.past = {Root}
  BY <1>11
<1>13. Fine(v2)
  BY <1>3, <1>11, <1>12 DEF Fine, Hangs, Closed
<1>14. v3 = ServerView
  <2>1. v3 = Described(v2, m2)
    BY <1>6 DEF Told
  <2>2. Described(v2, m2).above = above
    BY <1>1, <1>3, <1>6, <1>12 DEF Described
  <2>3. Described(v2, m2).named = named
    BY <1>1, <1>3, <1>6, <1>12 DEF Described, Given
  <2>4. Described(v2, m2).linked = announced
    <3>1. Described(v2, m2).linked =
             [v2.linked EXCEPT ![c] = IF l2 # <<>> THEN ElementsOf(l2) ELSE (@ \cup {}) \ {}]
      BY <1>6, <1>9 DEF Described
    <3>2. CASE both
      <4>1. Described(v2, m2).linked = [v2.linked EXCEPT ![c] = {Root}]
        BY <1>8, <1>9, <3>1, <3>2
      <4> QED
        BY <1>1, <1>12, <3>2, <4>1
    <3>3. CASE ~both
      <4>1. v2.linked[c] = {}
        BY <1>12
      <4>2. Described(v2, m2).linked = [v2.linked EXCEPT ![c] = {}]
        BY <1>8, <3>1, <3>3, <4>1
      <4> QED
        BY <1>1, <1>12, <3>3, <4>2
    <3> QED
      BY <3>2, <3>3
  <2>5. Described(v2, m2).past = past
    BY <1>2, <1>4, <1>6, <1>12 DEF Described
  <2> QED
    BY <2>1, <2>2, <2>3, <2>4, <2>5 DEF Described, ServerView
<1>15. ServerFine
  <2>1. /\ announced \in [Channels -> SUBSET Channels]
        /\ elsewhere \in [Channels -> SUBSET Channels]
        /\ linked \in [Channels -> SUBSET Channels]
    BY <1>1, <1>3
  <2>2. LinksFine
    BY <1>1, <1>3, <1>4, <2>1 DEF LinksFine
  <2> QED
    BY <1>1, <1>2, <1>3, <1>4, <2>1, <2>2 DEF ServerFine
<1>16. /\ ServerView \in View /\ There(ServerView) = there
       /\ ServerView.above = above /\ ServerView.named = named
       /\ ServerView.linked = announced /\ ServerView.past = past
  BY <1>15, ServerViewIs
<1>17. Fine(ServerView)
  <2>1. Hangs(ServerView)
    <3>1. /\ Hangs(v2) /\ c \in Channels \ There(v2) /\ c # Root /\ Root \in There(v2)
          /\ above = [v2.above EXCEPT ![c] = Root]
      BY <1>1, <1>3, <1>11, <1>12, <1>13 DEF Fine
    <3> QED
      BY <1>11, <1>16, <3>1, CreatedHangs, Zenon
  <2>2. /\ \A d \in Channels : announced[d] \subseteq {Root}
        /\ \A d \in Channels \ there : announced[d] = {} /\ named[d] = None
    BY <1>1, <1>4
  <2> QED
    BY <1>2, <1>4, <1>16, <2>1, <2>2 DEF Fine
<1>18. Sent(v1, m1, elsewhere) /\ Sent(v2, m2, elsewhere)
  <2>1. v1.past = {}
    BY DEF v1
  <2> QED
    BY <1>5, <1>6, <1>8, <1>10, <1>11, <1>12, <2>1 DEF Sent, SaysLinks
<1>19. Leads(<<v1, v2, v3>>)
  <2> HIDE DEF v3
  <2>1. Chain(<<v1, v2, v3>>, net, elsewhere)
    <3>1. <<v1, v2, v3>> \in Seq(View) /\ net \in Seq(TreeMessages) /\ Len(net) = 2
      BY <1>5, <1>6, <1>7, <1>10, <1>11, <1>14, <1>16
    <3>2. \A k \in {1, 2} : <<v1, v2, v3>>[k + 1] = Told(<<v1, v2, v3>>[k], net[k])
      BY <1>7 DEF v2, v3
    <3>3. \A k \in {1, 2} : Sent(<<v1, v2, v3>>[k], net[k], elsewhere)
      BY <1>7, <1>18
    <3>4. \A k \in {1, 2, 3} : Fine(<<v1, v2, v3>>[k])
      BY <1>10, <1>13, <1>14, <1>17
    <3>5. DOMAIN net = {1, 2} /\ DOMAIN <<v1, v2, v3>> = {1, 2, 3}
      BY <1>7
    <3> QED
      BY <3>1, <3>2, <3>3, <3>4, <3>5 DEF Chain
  <2>2. Mirrors(v1)
    BY <1>2, <1>10 DEF Mirrors
  <2> QED
    BY <1>14, <2>1, <2>2 DEF Leads
<1>20. RightsAreTrue
  <2>1. \A k \in DOMAIN net : net[k] \notin Permissions
    BY <1>5, <1>6, <1>7
  <2>2. DOMAIN channels = {}
    BY <1>2
  <2> QED
    BY <2>1, <2>2 DEF RightsAreTrue
<1> QED
  BY <1>15, <1>19, <1>20 DEF TreeInv

LEMMA TreeStutters == TreeInv /\ UNCHANGED treeVars => TreeInv'
<1> SUFFICES ASSUME TreeInv, UNCHANGED treeVars PROVE TreeInv'
  OBVIOUS
<1>1. UNCHANGED <<above, named, linked, announced, elsewhere, allowed, past, changes, net,
                  channels>>
  BY DEF treeVars, server, linking
<1>2. PICK v : Leads(v)
  BY DEF TreeInv
<1>3. Leads(v)'
  BY <1>1, <1>2 DEF Leads, Chain, Mirrors, Kept_, ServerView
<1>4. ServerFine' /\ RightsAreTrue'
  BY <1>1 DEF TreeInv, ServerFine, LinksFine, there, RightsAreTrue
<1> QED
  BY <1>3, <1>4 DEF TreeInv

LEMMA TreeInvariance == ASSUME Reuse = FALSE PROVE TreeSpec => []TreeInv
<1>1. TreeInv /\ [TreeNext]_treeVars => TreeInv'
  BY ServerIsGood, ReceiveIsGood, TreeStutters DEF TreeNext
<1> QED
  BY <1>1, TreeInitIsGood, PTL DEF TreeSpec

-----------------------------------------------------------------------------
(* What the script reads of a client that is as in a view.                 *)
LEMMA ParentIs ==
    ASSUME NEW v \in View, Mirrors(v), Hangs(v), NEW c \in There(v)
    PROVE  /\ c \in DOMAIN channels /\ channels[c].parent = v.above[c]
           /\ getParent(c) = IF c = Root THEN None ELSE v.above[c]
           /\ raw_get(v.above[c]) = v.above[c] /\ v.above[c] \in There(v)
<1>1. DOMAIN channels = There(v) /\ channels[c].parent = v.above[c]
  BY DEF Mirrors, Kept_
<1>2. v.above[c] \in There(v) /\ (v.above[c] = c <=> c = Root)
  BY DEF Hangs
<1> QED
  BY <1>1, <1>2 DEF getParent, raw_get

(* Any view will do: what the script sees hangs on the root.               *)
LEMMA TreeInvIsATree == TreeInv => AlwaysATree
<1> SUFFICES ASSUME TreeInv PROVE AlwaysATree
  OBVIOUS
<1>1. PICK v : Leads(v)
  BY DEF TreeInv
<1> DEFINE u == v[1]
<1>2. u \in View /\ Mirrors(u) /\ Hangs(u)
  BY <1>1 DEF Leads, Chain, Fine
<1> HIDE DEF u
<1>3. DOMAIN channels = There(u)
  BY <1>2 DEF Mirrors
<1> SUFFICES ASSUME NEW part \in SUBSET There(u), Root \in There(u) => Root \in part,
                    \A c \in There(u) : getParent(c) \in part => c \in part
             PROVE  part = There(u)
  BY <1>3 DEF AlwaysATree
<1>4. Closed(u, part)
  <2>1. \A c \in There(u) \ {Root} : getParent(c) = u.above[c]
    BY <1>2, ParentIs
  <2> QED
    BY <2>1 DEF Closed
<1> QED
  BY <1>2, <1>4 DEF Hangs

(* With no message on its way the client is as the server.                 *)
LEMMA NothingOnItsWay ==
    ASSUME TreeInv, net = <<>>
    PROVE  ServerView \in View /\ Mirrors(ServerView) /\ Fine(ServerView)
<1>1. PICK v : Leads(v)
  BY DEF TreeInv
<1>2. v \in Seq(View) /\ Len(v) = 1 /\ v[1] = ServerView
  BY <1>1 DEF Leads, Chain
<1> QED
  BY <1>1, <1>2 DEF Leads, Chain

LEMMA TreeInvTyped == TreeInv => TreeTypeOK
<1> SUFFICES ASSUME TreeInv PROVE TreeTypeOK
  OBVIOUS
<1>1. PICK v : Leads(v)
  BY DEF TreeInv
<1>2. Mirrors(v[1])
  BY <1>1 DEF Leads
<1>3. \A c \in DOMAIN channels : c \in Channels /\ channels[c] \in Channel
  BY <1>2 DEF Mirrors, Kept_, There
<1> QED
  BY <1>3 DEF TreeInv, ServerFine, TreeTypeOK, Channel

LEMMA TreeInvMirrored == TreeInv /\ net = <<>> => Mirrored
<1> SUFFICES ASSUME TreeInv, net = <<>> PROVE Mirrored
  OBVIOUS
<1>1. PICK v : v = ServerView
  OBVIOUS
<1>2. v \in View /\ Mirrors(v) /\ Hangs(v)
  BY <1>1, NothingOnItsWay DEF Fine
<1>3. There(v) = there /\ v.above = above /\ v.linked = announced
  BY <1>1, ServerViewIs DEF TreeInv
<1>4. DOMAIN channels = there
  BY <1>2, <1>3 DEF Mirrors
<1>5. \A c \in there : /\ channels[c].parent = above[c] /\ above[c] \in there
                       /\ getParent(c) = IF c = Root THEN None ELSE above[c]
                       /\ (above[c] = c <=> c = Root)
  BY <1>2, <1>3, ParentIs DEF Hangs
<1> SUFFICES ASSUME NEW c \in there
             PROVE  /\ getChildren(c) = {d \in there \ {Root} : above[d] = c}
                    /\ getLinks(c) \ elsewhere[c] = linked[c] \ elsewhere[c]
                    /\ channels[c].permissions \in {0, allowed[c]}
  BY <1>4, <1>5 DEF Mirrored
<1>6. getChildren(c) = {d \in there \ {Root} : above[d] = c}
  BY <1>4, <1>5 DEF getChildren
<1>7. getLinks(c) \ elsewhere[c] = linked[c] \ elsewhere[c]
  <2>1. there \subseteq Channels /\ linked[c] \subseteq there
    BY DEF there, TreeInv, ServerFine, LinksFine
  <2>2. \A d \in there \ elsewhere[c] : d \in Indices(channels[c].links) <=> d \in announced[c]
    BY <1>2, <1>3, <2>1 DEF Mirrors, Kept_, Lists
  <2>3. \A d \in there \ elsewhere[c] : d \in linked[c] <=> d \in announced[c]
    BY <2>1 DEF TreeInv, ServerFine, LinksFine
  <2>4. getLinks(c) = Indices(channels[c].links) \cap there
    BY <1>4 DEF getLinks, Indices
  <2> QED
    BY <2>1, <2>2, <2>3, <2>4
<1>8. channels[c].permissions \in {0, allowed[c]}
  BY <1>4 DEF TreeInv, RightsAreTrue
<1> QED
  BY <1>6, <1>7, <1>8

LEMMA TreeInvMirrors == TreeInv => TreeMirrors
BY TreeInvTyped, TreeInvIsATree, TreeInvMirrored DEF TreeMirrors

(* One turn of channel_call's loop.                                        *)
LEMMA StepFollows ==
    ASSUME TreeInv, net = <<>>, NEW c \in there, NEW part \in PathParts
    PROVE  LeadsTo(c, part) = WalkedTo(Step(c, part)) /\ LeadsTo(c, part) \subseteq there
<1>1. PICK v : v = ServerView
  OBVIOUS
<1>2. v \in View /\ Mirrors(v) /\ Hangs(v)
  BY <1>1, NothingOnItsWay DEF Fine
<1>3. There(v) = there /\ v.above = above /\ v.named = named
  BY <1>1, ServerViewIs DEF TreeInv
<1>4. None \notin there
  BY TreeAssumption DEF there
<1>5. CASE part = "."
  BY <1>4, <1>5 DEF LeadsTo, Step, WalkedTo
<1>6. CASE part = ".."
  <2>1. raw_get(channels[c].parent) = above[c] /\ above[c] \in there
    BY <1>2, <1>3, ParentIs
  <2> QED
    BY <1>4, <1>6, <2>1 DEF LeadsTo, Step, WalkedTo
<1>7. CASE part \notin {".", ".."}
  <2> DEFINE found == {d \in getChildren(c) : channels[d].name = part}
  <2>1. found = Down(c, part)
    <3>1. getChildren(c) = {d \in there \ {Root} : above[d] = c}
      BY TreeInvMirrored DEF Mirrored
    <3>2. \A d \in there : channels[d].name = named[d]
      BY <1>2, <1>3 DEF Mirrors, Kept_
    <3> QED
      BY <3>1, <3>2 DEF Down
  <2>2. \A d, e \in Down(c, part) : d = e
    BY DEF Down, TreeInv, ServerFine
  <2>3. Down(c, part) \subseteq there
    BY DEF Down
  <2> HIDE DEF found
  <2>4. LeadsTo(c, part) = Down(c, part)
    BY <1>7 DEF LeadsTo
  <2>5. Step(c, part) = IF found = {} THEN None ELSE CHOOSE d \in found : TRUE
    BY <1>4, <1>7 DEF Step, found
  <2>6. CASE found = {}
    BY <2>1, <2>4, <2>5, <2>6 DEF WalkedTo
  <2>7. CASE found # {}
    <3>1. Step(c, part) \in found
      BY <2>5, <2>7
    <3>2. found = {Step(c, part)} /\ Step(c, part) # None
      BY <1>4, <2>1, <2>2, <2>3, <3>1
    <3> QED
      BY <2>1, <2>3, <2>4, <3>2 DEF WalkedTo
  <2> QED
    BY <2>6, <2>7
<1> QED
  BY <1>5, <1>6, <1>7 DEF PathParts

(* The walk of channel_call is the one function of its recurrence.         *)
Walks(f, c, parts, n) == f = [k \in 0 .. n |-> IF k = 0 THEN c ELSE Step(f[k - 1], parts[k])]

LEMMA WalkExists ==
    ASSUME NEW c, NEW parts, NEW n \in Nat
    PROVE  \E f : Walks(f, c, parts, n)
<1> DEFINE Is(f, m) == f = [k \in 0 .. m |-> IF k = 0 THEN c ELSE Step(f[k - 1], parts[k])]
           Bad == {m \in Nat : ~\E f : Is(f, m)}
<1>1. Bad = {}
  <2> SUFFICES ASSUME Bad # {} PROVE FALSE
    OBVIOUS
  <2>1. PICK m \in Bad : \A j \in Bad : m <= j
    <3> HIDE DEF Bad
    <3>1. Bad \subseteq Nat
      BY DEF Bad
    <3> QED
      BY <3>1, SmallestOf
  <2>2. CASE m = 0
    <3> DEFINE g == [k \in 0 .. 0 |-> c]
    <3>1. Is(g, 0)
      OBVIOUS
    <3> QED
      BY <2>1, <2>2, <3>1
  <2>3. CASE m # 0
    <3>1. m \in Nat /\ m - 1 \in Nat /\ ~(m <= m - 1)
      BY <2>1, <2>3
    <3>2. m - 1 \notin Bad
      BY <2>1, <3>1
    <3>3. PICK f : Is(f, m - 1)
      BY <3>1, <3>2
    <3>4. f[0] = c /\ \A k \in 1 .. (m - 1) : f[k] = Step(f[k - 1], parts[k])
      BY <3>1, <3>3
    <3> DEFINE g == [k \in 0 .. m |-> IF k = m THEN Step(f[m - 1], parts[m]) ELSE f[k]]
    <3>5. g[0] = c
      BY <2>3, <3>1, <3>4
    <3>6. ASSUME NEW k \in 1 .. m PROVE g[k] = Step(g[k - 1], parts[k])
      BY <3>1, <3>4
    <3>7. g = [k \in 0 .. m |-> g[k]]
      OBVIOUS
    <3> HIDE DEF g
    <3>8. \A k \in 0 .. m : g[k] = IF k = 0 THEN c ELSE Step(g[k - 1], parts[k])
      BY <3>1, <3>5, <3>6
    <3>9. Is(g, m)
      BY <3>7, <3>8
    <3> QED
      BY <2>1, <3>9
  <2> QED
    BY <2>2, <2>3
<1> QED
  BY <1>1 DEF Walks

LEMMA WalkIs ==
    ASSUME NEW c, NEW path \in Seq(PathParts)
    PROVE  \E f : channel_call(c, path, FALSE) = f[Len(path)] /\ Walks(f, c, path, Len(path))
<1> DEFINE Is(f) == Walks(f, c, path, Len(path))
           at == CHOOSE f : Is(f)
<1>1. Is(at)
  <2>1. \E f : Is(f)
    <3>1. Len(path) \in Nat
      OBVIOUS
    <3> QED
      BY <3>1, WalkExists
  <2> HIDE DEF Is
  <2> QED
    BY <2>1
<1>2. channel_call(c, path, FALSE) = at[Len(path)]
  BY DEF channel_call, Parts, Walks
<1> HIDE DEF at
<1> QED
  BY <1>1, <1>2

(* A route on the server is what the walk meets, and the other way round   *)
(* if the walk arrives.                                                    *)
LEMMA WalkFollows ==
    ASSUME TreeInv, net = <<>>, NEW c \in there, NEW path \in Seq(PathParts)
    PROVE  WalkedTo(channel_call(c, path, FALSE)) = Resolved(c, path)
<1>0. PICK f : channel_call(c, path, FALSE) = f[Len(path)] /\ Walks(f, c, path, Len(path))
  BY WalkIs
<1>1. /\ channel_call(c, path, FALSE) = f[Len(path)]
      /\ f = [k \in 0 .. Len(path) |-> f[k]] /\ f[0] = c
      /\ \A k \in 1 .. Len(path) : f[k] = Step(f[k - 1], path[k])
  BY <1>0 DEF Walks
<1> DEFINE n == Len(path)
<1>2. n \in Nat /\ DOMAIN path = 1 .. n /\ \A k \in 1 .. n : path[k] \in PathParts
  OBVIOUS
<1>3. None \notin there /\ there \subseteq Channels
  BY TreeAssumption DEF there
<1>4. ASSUME NEW k \in 1 .. n, f[k - 1] \in there
      PROVE  LeadsTo(f[k - 1], path[k]) = WalkedTo(f[k]) /\ LeadsTo(f[k - 1], path[k]) \subseteq there
  BY <1>1, <1>2, <1>4, StepFollows
<1> HIDE DEF n
<1>5. ASSUME NEW r \in Routes(c, path)
      PROVE  r[n] = f[n] /\ f[n] \in there
  <2> DEFINE Bad == {k \in 0 .. n : ~(r[k] = f[k] /\ f[k] \in there)}
  <2>1. r[0] = c /\ \A k \in 1 .. n : r[k] \in LeadsTo(r[k - 1], path[k])
    BY <1>2, <1>5 DEF Routes
  <2>2. Bad = {}
    <3> SUFFICES ASSUME Bad # {} PROVE FALSE
      OBVIOUS
    <3>1. PICK k \in Bad : \A j \in Bad : k <= j
      <4>1. Bad \subseteq Nat
        BY <1>2
      <4> HIDE DEF Bad
      <4> QED
        BY <4>1, SmallestOf
    <3>2. k \in 1 .. n /\ k - 1 \in 0 .. n /\ ~(k <= k - 1)
      BY <1>1, <1>2, <2>1, <3>1
    <3>3. r[k - 1] = f[k - 1] /\ f[k - 1] \in there
      BY <3>1, <3>2
    <3>4. r[k] \in WalkedTo(f[k]) /\ r[k] \in there
      BY <1>4, <2>1, <3>2, <3>3
    <3>5. r[k] = f[k] /\ f[k] \in there
      BY <3>4 DEF WalkedTo
    <3> QED
      BY <3>1, <3>5
  <2>3. n \in 0 .. n
    BY <1>2
  <2> QED
    BY <2>2, <2>3
<1>6. ASSUME f[n] # None
      PROVE  f \in Routes(c, path)
  <2> DEFINE Bad == {k \in 0 .. n : f[k] \notin there}
  <2>1. Bad = {}
    <3> SUFFICES ASSUME Bad # {} PROVE FALSE
      OBVIOUS
    <3>1. PICK k \in Bad : \A j \in Bad : k <= j
      <4>1. Bad \subseteq Nat
        BY <1>2
      <4> HIDE DEF Bad
      <4> QED
        BY <4>1, SmallestOf
    <3>2. k \in 1 .. n /\ k - 1 \in 0 .. n /\ ~(k <= k - 1)
      BY <1>1, <1>2, <3>1
    <3>3. f[k - 1] \in there
      BY <3>1, <3>2
    <3>4. WalkedTo(f[k]) \subseteq there /\ f[k] \notin there
      BY <1>4, <3>1, <3>2, <3>3
    <3>5. f[k] = None
      BY <3>4 DEF WalkedTo
    <3> DEFINE Late == {j \in k .. n : f[j] # None}
    <3>6. n \in Late
      BY <1>2, <1>6, <3>2
    <3>7. PICK j \in Late : \A i \in Late : j <= i
      <4>1. Late \subseteq Nat /\ Late # {}
        BY <3>2, <3>6
      <4> HIDE DEF Late
      <4> QED
        BY <4>1, SmallestOf
    <3>8. j \in 1 .. n /\ j - 1 \in k .. n /\ ~(j <= j - 1)
      BY <1>2, <3>2, <3>5, <3>7
    <3>9. f[j - 1] = None
      BY <3>7, <3>8
    <3>10. f[j] = None
      BY <1>1, <3>8, <3>9 DEF Step, n
    <3> QED
      BY <3>7, <3>10
  <2>2. \A k \in 0 .. n : f[k] \in there
    BY <2>1
  <2>3. \A k \in 1 .. n : f[k] \in LeadsTo(f[k - 1], path[k])
    <3> SUFFICES ASSUME NEW k \in 1 .. n PROVE f[k] \in LeadsTo(f[k - 1], path[k])
      OBVIOUS
    <3>1. f[k - 1] \in there /\ f[k] \in there
      BY <1>2, <2>2
    <3> QED
      BY <1>3, <1>4, <3>1 DEF WalkedTo
  <2>4. f \in [0 .. n -> Channels]
    BY <1>1, <1>3, <2>2 DEF n
  <2> QED
    BY <1>1, <1>2, <2>3, <2>4 DEF Routes, n
<1>7. WalkedTo(f[n]) = Resolved(c, path)
  <2>1. Resolved(c, path) = {r[n] : r \in Routes(c, path)}
    BY DEF Resolved, n
  <2>2. CASE f[n] = None
    <3>1. Routes(c, path) = {}
      BY <1>3, <1>5, <2>2
    <3> QED
      BY <2>1, <2>2, <3>1 DEF WalkedTo
  <2>3. CASE f[n] # None
    BY <1>5, <1>6, <2>1, <2>3 DEF WalkedTo
  <2> QED
    BY <2>2, <2>3
<1> QED
  BY <1>1, <1>7 DEF n

-----------------------------------------------------------------------------
(* The promises of the tree, as long as the server gives no number of a    *)
(* channel twice.                                                          *)

(* packet_channel_state, packet_channel_remove and packet_permission_query *)
(* (packet.c:420, 436, 1202): the script always sees a tree, and once      *)
(* every message was handled the server's channels, with their parents     *)
(* and children, with rights that are true, and with those links of each   *)
(* channel that only messages about that channel have spoken of.           *)
THEOREM TreeIsTheServers == ASSUME Reuse = FALSE PROVE TreeSpec => []TreeMirrors
BY TreeInvariance, TreeInvMirrors, PTL

(* getParent and getChildren (channel.c:73-103): at every moment, also     *)
(* between two messages, each channel the script sees hangs on the root.   *)
THEOREM TreeIsATree == ASSUME Reuse = FALSE PROVE TreeSpec => []AlwaysATree
BY TreeInvariance, TreeInvIsATree, PTL

(* channel_call (channel.c:369): a path of any length leads to the         *)
(* server's channel of that path, or to none if there is none.             *)
THEOREM EveryPathWalks ==
    ASSUME Reuse = FALSE
    PROVE  TreeSpec => [](\A path \in Seq(PathParts) : LooksUp(path, FALSE))
<1>1. TreeInv => \A path \in Seq(PathParts) : LooksUp(path, FALSE)
  BY WalkFollows DEF LooksUp
<1> QED
  BY <1>1, TreeInvariance, PTL

(* The same for the paths that the runs try.                               *)
THEOREM ShortPathsWalk == ASSUME Reuse = FALSE PROVE TreeSpec => []PathsWalk
<1>1. ShortPaths \subseteq Seq(PathParts)
  <2>1. 0 .. 2 \subseteq Nat
    OBVIOUS
  <2> QED
    BY <2>1, SeqDef, Zenon DEF ShortPaths
<1>2. (\A path \in Seq(PathParts) : LooksUp(path, FALSE)) => PathsWalk
  BY <1>1 DEF PathsWalk
<1> QED
  BY <1>2, EveryPathWalks, PTL

-----------------------------------------------------------------------------
(* Incoming: every message has its packet.                                 *)

(* The stream only adds bytes: a step of Incoming is one of ChannelTree,   *)
(* or leaves the tree alone.                                               *)
THEOREM IncomingIsTree == IncomingSpec => TreeSpec
<1>1. IncomingInit => TreeInit
  BY DEF IncomingInit
<1>2. [IncomingNext]_<<readerVars, treeVars>> => [TreeNext]_treeVars
  BY DEF IncomingNext, ServerSends, ServerSendsEmpty, Carries, Reads, TreeNext
<1> QED
  BY <1>1, <1>2, PTL DEF IncomingSpec, TreeSpec

(* The handlers that socket_read_event calls (mumble.c:436, packet.c:420): *)
(* read from the stream as well, the tree is the server's once every       *)
(* message was handled.                                                    *)
THEOREM IncomingTreeIsTheServers == ASSUME Reuse = FALSE PROVE IncomingSpec => []TreeMirrors
BY IncomingIsTree, TreeIsTheServers, PTL

(* Also between two read events of the stream (mumble.c:372) each channel  *)
(* hangs on the root (channel.c:73-103).                                   *)
THEOREM IncomingTreeIsATree == ASSUME Reuse = FALSE PROVE IncomingSpec => []AlwaysATree
BY IncomingIsTree, TreeIsATree, PTL

(* A path is looked up likewise in what was read from the stream           *)
(* (channel.c:369).                                                        *)
THEOREM IncomingPathsWalk == ASSUME Reuse = FALSE PROVE IncomingSpec => []PathsWalk
BY IncomingIsTree, ShortPathsWalk, PTL

(* The packets with a body that were not read to their end, one for each   *)
(* message.                                                                *)
ToRead == {k \in DOMAIN packets : packets[k].length > 0 /\ End(packets[k]) > pos}

Pairs(g) ==
    /\ g \in Seq(Nat) /\ Len(g) = Len(net) /\ ElementsOf(g) = ToRead
    /\ \A j, k \in DOMAIN g : j < k => g[j] < g[k]

Paired == \E g : Pairs(g)

LEMMA BodyLengths == \A m : BodyOf(m) \in Lengths /\ BodyOf(m) > 0
BY IncomingAssumption DEF BodyOf

LEMMA TreeNetIsSeq == TreeInv => net \in Seq(TreeMessages)
BY DEF TreeInv, Leads, Chain

LEMMA IncomingInitIsGood == IncomingInit => ReaderInv /\ Paired
<1> SUFFICES ASSUME IncomingInit PROVE ReaderInv /\ Paired
  OBVIOUS
<1>1. PICK a \in Lengths, b \in Lengths :
         /\ a = BodyOf(net[1]) /\ b = BodyOf(net[2]) /\ a > 0 /\ b > 0
  BY BodyLengths
<1>2. a \in Nat /\ b \in Nat /\ HeaderSize \in Nat /\ HeaderSize > 0
  BY ReaderAssumption
<1> DEFINE p == [at |-> 0, length |-> a, known |-> TRUE]
           q == [at |-> HeaderSize + a, length |-> b, known |-> TRUE]
<1>3. /\ packets = <<p, q>> /\ size = HeaderSize + a + HeaderSize + b
      /\ carried = 0 /\ cuts = {0} /\ records = <<>> /\ pending = 0 /\ pos = 0 /\ handled = <<>>
      /\ cleared \in BOOLEAN /\ Len(net) = 2
  BY <1>1 DEF IncomingInit, Packed, TreeInit, Unread
<1>4. /\ p \in PacketRecord /\ q \in PacketRecord
      /\ p.at = 0 /\ End(p) = HeaderSize + a /\ p.known /\ p.length = a
      /\ q.at = HeaderSize + a /\ End(q) = size /\ q.known /\ q.length = b
  BY <1>1, <1>2, <1>3 DEF PacketRecord, End
<1> HIDE DEF p, q
<1>5. /\ DOMAIN packets = {1, 2} /\ packets[1] = p /\ packets[2] = q
      /\ DOMAIN records = {} /\ DOMAIN handled = {} /\ MaxRecord \in Nat
      /\ packets \in Seq(PacketRecord) /\ handled \in Seq(PacketRecord) /\ records \in Seq(Nat)
  BY <1>3, <1>4, ReaderAssumption
<1>6. Boundary(0) /\ Boundary(HeaderSize + a) /\ Boundary(size)
  BY <1>4, <1>5 DEF Boundary
<1>7. ReaderTypeOK
  BY <1>2, <1>3, <1>5 DEF ReaderTypeOK
<1>8. Laid
  BY <1>2, <1>3, <1>4, <1>5, <1>6 DEF Laid
<1>9. Follow(pos, pending, records) /\ Stands
  BY <1>3, <1>5, <1>6 DEF Follow, Stands
<1>10. Handed
  <2>1. \A j \in DOMAIN packets : ~(End(packets[j]) <= pos)
    BY <1>2, <1>3, <1>4, <1>5
  <2> QED
    BY <1>5, <2>1 DEF Handed, Whole
<1>11. Pairs(<<1, 2>>)
  <2>1. ToRead = {1, 2}
    BY <1>1, <1>2, <1>3, <1>4, <1>5 DEF ToRead
  <2>2. ElementsOf(<<1, 2>>) = {1, 2}
    BY DEF ElementsOf
  <2> QED
    BY <1>3, <2>1, <2>2 DEF Pairs
<1> QED
  BY <1>7, <1>8, <1>9, <1>10, <1>11 DEF ReaderInv, Paired

(* A packet is sent, with the message it carries or without a body.        *)
LEMMA SentIsPaired ==
    ASSUME ReaderInv, TreeInv, Paired, NEW length \in Lengths, Sends(length),
           IF length = 0 THEN net' = net ELSE \E m : net' = Append(net, m)
    PROVE  Paired'
<1>1. PICK g : Pairs(g)
  BY DEF Paired
<1>2. PICK n : n = Len(packets) + 1
  OBVIOUS
<1>3. /\ packets \in Seq(PacketRecord) /\ pos' = pos /\ pos \in Nat /\ size \in Nat /\ pos <= size
      /\ length \in Nat
  <2>1. pos \in Nat /\ pending \in Nat /\ carried \in Nat /\ size \in Nat /\ carried <= size
        /\ pos + pending <= carried
    BY ReaderAssumption DEF ReaderInv, ReaderTypeOK, Follow
  <2> QED
    BY <2>1, ReaderAssumption DEF ReaderInv, ReaderTypeOK, Sends, received
<1>4. PICK p : p = [at |-> size, length |-> length, known |-> TRUE]
  OBVIOUS
<1>5. packets' = Append(packets, p) /\ p.at = size /\ p.length = length
  BY <1>4 DEF Sends
<1>6. /\ DOMAIN packets' = 1 .. n /\ DOMAIN packets = 1 .. n - 1 /\ n \in Nat /\ n > 0
      /\ packets'[n] = p /\ \A k \in 1 .. n - 1 : packets'[k] = packets[k]
  BY <1>3, <1>5, <1>2
<1>7. g \in Seq(Nat) /\ ElementsOf(g) = ToRead /\ Len(g) = Len(net)
      /\ \A j, k \in DOMAIN g : j < k => g[j] < g[k]
  BY <1>1 DEF Pairs
<1>8. /\ End(packets[n])' = size + HeaderSize + length
      /\ \A k \in 1 .. n - 1 : End(packets[k])' = End(packets[k])
      /\ HeaderSize \in Nat /\ HeaderSize > 0 /\ pos < size + HeaderSize + length
  <2>1. HeaderSize \in Nat /\ HeaderSize > 0
    BY ReaderAssumption
  <2>2. End(p) = size + HeaderSize + length /\ packets'[n] = p
    BY <1>5, <1>6 DEF End
  <2>3. End(packets[n])' = End(packets'[n])
    BY <1>6 DEF End
  <2>4. \A k \in 1 .. n - 1 : End(packets[k])' = End(packets[k])
    BY <1>6 DEF End
  <2> QED
    BY <1>3, <2>1, <2>2, <2>3, <2>4
<1>9. ToRead' = {k \in DOMAIN packets' : packets'[k].length > 0 /\ End(packets[k])' > pos'}
  BY DEF ToRead
<1>10. CASE length = 0
  <2>1. ToRead' = ToRead
    BY <1>3, <1>5, <1>6, <1>10, <1>8, <1>9 DEF ToRead
  <2>2. Pairs(g)'
    BY <1>7, <1>10, <2>1 DEF Pairs
  <2> QED
    BY <2>2 DEF Paired
<1>11. CASE length # 0
  <2>1. ToRead' = ToRead \cup {n}
    <3>1. packets'[n].length > 0 /\ End(packets[n])' > pos'
      BY <1>3, <1>5, <1>6, <1>11, <1>8
    <3>2. ASSUME NEW k \in 1 .. n - 1
          PROVE  packets'[k].length > 0 /\ End(packets[k])' > pos' <=> k \in ToRead
      BY <1>3, <1>6, <1>8 DEF ToRead
    <3>3. DOMAIN packets' = (1 .. n - 1) \cup {n} /\ ToRead \subseteq 1 .. n - 1
      BY <1>6 DEF ToRead
    <3> QED
      BY <1>9, <3>1, <3>2, <3>3
  <2>2. Len(net') = Len(net) + 1
    BY <1>11, TreeNetIsSeq
  <2>3. PICK h : h = Append(g, n)
    OBVIOUS
  <2>4. /\ h \in Seq(Nat) /\ Len(h) = Len(g) + 1 /\ Len(g) \in Nat /\ h[Len(g) + 1] = n
        /\ DOMAIN h = 1 .. Len(g) + 1 /\ DOMAIN g = 1 .. Len(g)
        /\ \A j \in DOMAIN g : h[j] = g[j]
    BY <1>6, <1>7, <2>3
  <2>5. \A j \in DOMAIN g : g[j] < n
    <3>1. \A j \in DOMAIN g : g[j] \in DOMAIN packets
      BY <1>7 DEF ElementsOf, ToRead
    <3> QED
      BY <1>6, <3>1
  <2>6. \A j, k \in DOMAIN h : j < k => h[j] < h[k]
    <3> SUFFICES ASSUME NEW j \in DOMAIN h, NEW k \in DOMAIN h, j < k PROVE h[j] < h[k]
      OBVIOUS
    <3>1. j \in DOMAIN g
      BY <2>4
    <3>2. CASE k \in DOMAIN g
      BY <1>7, <2>4, <3>1, <3>2
    <3>3. CASE k = Len(g) + 1
      BY <2>4, <2>5, <3>1, <3>3
    <3> QED
      BY <2>4, <3>2, <3>3
  <2>7. ElementsOf(h) = ElementsOf(g) \cup {n}
    <3>1. DOMAIN h = DOMAIN g \cup {Len(g) + 1}
      BY <2>4
    <3> QED
      BY <2>4, <3>1 DEF ElementsOf
  <2>8. Pairs(h)'
    BY <1>7, <2>1, <2>2, <2>4, <2>6, <2>7 DEF Pairs
  <2> QED
    BY <2>8 DEF Paired
<1> QED
  BY <1>10, <1>11

LEMMA ServerSendsIsGood ==
    ASSUME Reuse = FALSE, ReaderInv, TreeInv, Paired, ServerSends \/ ServerSendsEmpty
    PROVE  ReaderInv' /\ Paired'
<1>1. CASE ServerSends
  <2>1. PICK length \in Lengths : length = BodyOf(Last(net')) /\ length > 0
    BY BodyLengths
  <2>2. Sends(length)
    BY <1>1, <2>1 DEF ServerSends, Packed, Sends
  <2>3. \E m : net' = Append(net, m)
    <3>1. ServerIsFine
      <4>1. PICK v : Leads(v)
        BY DEF TreeInv
      <4> QED
        BY <4>1 DEF TreeInv, Leads, Chain, ServerIsFine
    <3> QED
      BY <1>1, <3>1, ServerSays DEF ServerSends, Says
  <2>4. length # 0
    BY <2>1, ReaderAssumption
  <2> QED
    BY <2>2, <2>3, <2>4, PacketIsGood, SentIsPaired
<1>2. CASE ServerSendsEmpty
  <2>1. 0 \in Lengths /\ Sends(0)
    BY <1>2, IncomingAssumption, ReaderAssumption DEF ServerSendsEmpty, Sends
  <2>2. net' = net
    BY <1>2 DEF ServerSendsEmpty, treeVars
  <2>3. \A length \in Lengths : length = 0 /\ Sends(length) => ReaderInv' /\ Paired'
    BY <2>2, PacketIsGood, SentIsPaired
  <2> QED
    BY <2>1, <2>3
<1> QED
  BY <1>1, <1>2

(* A read event that completes the packet of a message handles the         *)
(* message; one that reads an empty packet, or part of one, handles none.  *)
LEMMA ReadsIsGood ==
    ASSUME ReaderInv, TreeInv, Paired, Reads
    PROVE  ReaderInv' /\ Paired'
<1>1. ReadEvent /\ packets' = packets
  BY DEF Reads, ReadEvent
<1>2. PICK k \in DOMAIN packets :
         /\ packets[k].at = pos /\ pos' \in Nat /\ pos < pos' /\ pos' <= End(packets[k])
         /\ handled' = IF pos' = End(packets[k]) /\ packets[k].length > 0
                       THEN Append(handled, packets[k]) ELSE handled
  BY <1>1, EventReads
<1>3. PICK g : Pairs(g)
  BY DEF Paired
<1>4. g \in Seq(Nat) /\ ElementsOf(g) = ToRead /\ Len(g) = Len(net)
      /\ \A i, j \in DOMAIN g : i < j => g[i] < g[j]
  BY <1>3 DEF Pairs
<1>5. /\ pos \in Nat /\ k \in Nat
      /\ \A j \in DOMAIN packets : /\ packets[j].at \in Nat /\ j \in Nat
                                   /\ packets[j].at < End(packets[j])
                                   /\ End(packets[j]) \in Nat
  BY <1>2, PacketTypes DEF ReaderInv
<1>6. ASSUME NEW j \in DOMAIN packets
      PROVE  /\ j < k => ~(End(packets[j]) > pos) /\ ~(End(packets[j]) > pos')
             /\ k < j => End(packets[j]) > pos /\ End(packets[j]) > pos'
  <2>1. j < k => End(packets[j]) <= packets[k].at
    BY DEF ReaderInv, Laid
  <2>2. k < j => End(packets[k]) <= packets[j].at
    BY DEF ReaderInv, Laid
  <2> QED
    BY <1>2, <1>5, <2>1, <2>2
<1>7. /\ ToRead' = IF pos' = End(packets[k]) THEN ToRead \ {k} ELSE ToRead
      /\ \A j \in ToRead : k <= j
  <2>1. ToRead' = {j \in DOMAIN packets : packets[j].length > 0 /\ End(packets[j]) > pos'}
    BY <1>1 DEF ToRead, End
  <2>2. End(packets[k]) > pos /\ (End(packets[k]) > pos' <=> pos' # End(packets[k]))
    BY <1>2, <1>5
  <2> QED
    BY <1>5, <1>6, <2>1, <2>2 DEF ToRead
<1>8. CASE ~(pos' = End(packets[k]) /\ packets[k].length > 0)
  <2>1. handled' = handled
    BY <1>2, <1>8
  <2>2. net' = net
    BY <2>1 DEF Reads, treeVars
  <2>3. ToRead' = ToRead
    BY <1>7, <1>8 DEF ToRead
  <2>4. Pairs(g)'
    BY <1>4, <2>2, <2>3 DEF Pairs
  <2> QED
    BY <1>1, <2>4, ReadEventIsGood DEF Paired
<1>9. CASE pos' = End(packets[k]) /\ packets[k].length > 0
  <2>1. handled' # handled
    <3>1. handled \in Seq(PacketRecord) /\ packets[k] \in PacketRecord
      BY PacketTypes DEF ReaderInv, ReaderTypeOK
    <3>2. Len(handled') = Len(handled) + 1 /\ Len(handled) \in Nat
      BY <1>2, <1>9, <3>1
    <3> QED
      BY <3>2
  <2>2. net # <<>> /\ net' = Tail(net)
    BY <2>1 DEF Reads, Receive
  <2>3. net \in Seq(TreeMessages) /\ Len(net') = Len(net) - 1 /\ Len(net) \in Nat /\ Len(net) > 0
    BY <2>2, TreeNetIsSeq
  <2>4. k \in ToRead /\ ToRead' = ToRead \ {k}
    BY <1>2, <1>5, <1>7, <1>9 DEF ToRead
  <2>5. PICK h : h = Tail(g)
    OBVIOUS
  <2>6. /\ h \in Seq(Nat) /\ Len(h) = Len(g) - 1 /\ DOMAIN h = 1 .. Len(h)
        /\ DOMAIN g = 1 .. Len(g) /\ Len(g) \in Nat /\ 1 \in DOMAIN g
        /\ \A j \in DOMAIN h : h[j] = g[j + 1] /\ j + 1 \in DOMAIN g
        /\ \A j \in DOMAIN g : g[j] \in Nat
    <3>1. g # <<>> /\ Len(g) > 0
      BY <1>4, <2>3
    <3> QED
      BY <1>4, <2>5, <3>1
  <2>7. g[1] = k
    <3>1. PICK i \in DOMAIN g : g[i] = k
      BY <1>4, <2>4 DEF ElementsOf
    <3>2. k <= g[1]
      BY <1>4, <1>7, <2>6 DEF ElementsOf
    <3>3. i # 1 => g[1] < g[i]
      <4>1. \A m, n \in DOMAIN g : m < n => g[m] < g[n]
        BY <1>4
      <4>2. i # 1 => 1 < i
        BY <2>6, <3>1
      <4> QED
        BY <2>6, <3>1, <4>1, <4>2
    <3> QED
      BY <1>5, <2>6, <3>1, <3>2, <3>3
  <2>8. ElementsOf(h) = ElementsOf(g) \ {k}
    <3>1. \A j \in DOMAIN h : h[j] \in ElementsOf(g) /\ h[j] # k
      <4> SUFFICES ASSUME NEW j \in DOMAIN h PROVE h[j] \in ElementsOf(g) /\ h[j] # k
        OBVIOUS
      <4>1. 1 < j + 1 /\ j + 1 \in DOMAIN g /\ h[j] = g[j + 1]
        BY <2>6
      <4>2. g[1] < g[j + 1]
        <5>1. \A m, n \in DOMAIN g : m < n => g[m] < g[n]
          BY <1>4
        <5> QED
          BY <2>6, <4>1, <5>1
      <4> QED
        BY <2>6, <2>7, <4>1, <4>2 DEF ElementsOf
    <3>2. ASSUME NEW i \in DOMAIN g, g[i] # k PROVE g[i] \in ElementsOf(h)
      <4>1. i - 1 \in DOMAIN h /\ h[i - 1] = g[i]
        BY <2>6, <2>7, <3>2
      <4> QED
        BY <4>1 DEF ElementsOf
    <3> QED
      BY <3>1, <3>2 DEF ElementsOf
  <2>9. \A i, j \in DOMAIN h : i < j => h[i] < h[j]
    <3> SUFFICES ASSUME NEW i \in DOMAIN h, NEW j \in DOMAIN h, i < j PROVE h[i] < h[j]
      OBVIOUS
    <3>1. i + 1 \in DOMAIN g /\ j + 1 \in DOMAIN g /\ i + 1 < j + 1
      BY <2>6
    <3> QED
      BY <1>4, <2>6, <3>1
  <2>10. Pairs(h)'
    BY <1>4, <2>3, <2>4, <2>6, <2>8, <2>9 DEF Pairs
  <2> QED
    BY <1>1, <2>10, ReadEventIsGood DEF Paired
<1> QED
  BY <1>8, <1>9

LEMMA IncomingStep ==
    ASSUME Reuse = FALSE, ReaderInv, TreeInv, Paired,
           [IncomingNext]_<<readerVars, treeVars>>
    PROVE  ReaderInv' /\ Paired'
<1>1. CASE Carries
  <2>1. ReaderInv'
    BY <1>1, RecordIsGood DEF Carries
  <2>2. UNCHANGED <<packets, pos, net>>
    BY <1>1 DEF Carries, Record, treeVars
  <2> QED
    BY <2>1, <2>2 DEF Paired, Pairs, ToRead, End
<1>2. CASE UNCHANGED <<readerVars, treeVars>>
  <2>1. ReaderInv'
    BY <1>2, ReaderStutters
  <2>2. UNCHANGED <<packets, pos, net>>
    BY <1>2 DEF readerVars, received, treeVars
  <2> QED
    BY <2>1, <2>2 DEF Paired, Pairs, ToRead, End
<1> QED
  BY <1>1, <1>2, ServerSendsIsGood, ReadsIsGood DEF IncomingNext

(* What is read to its end is handled to its end.                          *)
LEMMA ReadToTheEnd == ReaderInv /\ TreeInv /\ Paired => ReadIsShown
<1> SUFFICES ASSUME ReaderInv, TreeInv, Paired, pos = size PROVE Mirrored
  BY DEF ReadIsShown
<1>1. ToRead = {}
  <2>1. ASSUME NEW k \in DOMAIN packets PROVE ~(End(packets[k]) > pos)
    BY PacketTypes DEF ReaderInv, Laid
  <2> QED
    BY <2>1 DEF ToRead
<1>2. PICK g : g \in Seq(Nat) /\ Len(g) = Len(net) /\ ElementsOf(g) = {}
  BY <1>1 DEF Paired, Pairs
<1>3. Len(g) = 0
  <2>1. Len(g) \in Nat /\ DOMAIN g = 1 .. Len(g)
    BY <1>2
  <2>2. 1 \notin DOMAIN g
    BY <1>2 DEF ElementsOf
  <2> QED
    BY <2>1, <2>2
<1>4. net = <<>>
  BY <1>2, <1>3, TreeNetIsSeq, EmptySeq
<1> QED
  BY <1>4, TreeInvMirrored

LEMMA IncomingInvariance ==
    ASSUME Reuse = FALSE
    PROVE  IncomingSpec => [](ReaderInv /\ TreeInv /\ Paired)
<1>1. ReaderInv /\ TreeInv /\ Paired
      /\ [IncomingNext]_<<readerVars, treeVars>> => ReaderInv' /\ Paired'
  BY IncomingStep
<1> QED
  BY <1>1, IncomingInitIsGood, IncomingIsTree, TreeInvariance, PTL DEF IncomingSpec

(* The stream with the messages about channels in it is read as any other  *)
(* (mumble.c:372-440), and ...                                             *)
THEOREM IncomingInOrder ==
    ASSUME Reuse = FALSE
    PROVE  IncomingSpec => []HandledInOrder
BY IncomingInvariance, ReaderInvImplies, PTL

(* ... a client that has read every byte shows the script the server's     *)
(* channels, whatever packets without a body were between: each message    *)
(* was in a packet that was handled (packet.c:420, 436, 1202).             *)
THEOREM IncomingReadIsShown ==
    ASSUME Reuse = FALSE
    PROVE  IncomingSpec => []ReadIsShown
BY IncomingInvariance, ReadToTheEnd, PTL
=============================================================================
