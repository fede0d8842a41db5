---------------------------- MODULE WorkerThreads ----------------------------
(***************************************************************************)
(* mumble.thread: a controller, in the Lua state of the main thread, and   *)
(* the worker it started, in a Lua state of another thread.  They exchange *)
(* messages over two queues, each with a uv_async_t that wakes the reader; *)
(* a third one tells the main thread that the worker is done.              *)
(*                                                                         *)
(* One action is one section under a mutex, one uv_async_send, or one step *)
(* of an event loop.  A message is its number, or what is queued of it,    *)
(* the number's negative when it is not whole.  What a script does, and    *)
(* when, is free: its calls are the actions of ControllerScript and        *)
(* WorkerScript, made at the top of the script or in a callback.           *)
(***************************************************************************)
EXTENDS Integers, SequencesExt

CONSTANTS
    MaxMessages,  \* bound: the messages that each side sends
    Binary        \* which of them have a zero byte in them

ASSUME MessagesAssumption == MaxMessages \in Nat /\ Binary \subseteq 1 .. MaxMessages

VARIABLES
    \* the controller: its flag and its pointer to the worker, which callbacks
    \* it has, its reference to itself, its two async handles, its queue
    started, workerPtr, finish, message, self,
    finishPending, messagePending, message_queue,
    life,         \* of its userdata: live, closing (after __gc), freed
    handles,      \* its handles are still in the event loop
    thread,       \* joinable, joined or detached
    held,         \* the script holds it in a variable
    main, ctx,    \* the main thread; in the script, or in which callback
    arg,          \* the callback that runs was passed the controller
    \* the worker: where it is, its callback, its queue and async handle
    worker, wctx, wmessage, wqueue, wpending, stop,
    \* ghosts: the messages each side sent and the other one's callback saw,
    \* and was a callback installed when messages had come already
    said, heard, wsaid, wheard, late

controller == <<started, workerPtr, finish, message, self, life, handles, thread, held>>
asyncs     == <<finishPending, messagePending>>
mainThread == <<main, ctx, arg>>
workerData == <<wmessage, wqueue, wpending, stop>>
upward     == <<message_queue, said, heard, late>>
downward   == <<wsaid, wheard>>
vars == <<controller, asyncs, mainThread, worker, wctx, workerData, upward, downward>>

(* Defect: the new controller does not reference itself.                   *)
Unreferenced ==
    /\ started = FALSE /\ workerPtr = "unset"
    /\ finish = FALSE /\ message = FALSE /\ self = FALSE
    /\ life = "live" /\ handles = TRUE /\ thread = "joinable" /\ held = TRUE

(* mumble_thread_new.                                                      *)
New ==
    /\ started = FALSE /\ workerPtr = "unset"
    /\ finish = FALSE /\ message = FALSE /\ self = TRUE
    /\ life = "live" /\ handles = TRUE /\ thread = "joinable" /\ held = TRUE

(* worker->message is read before it is written, thread.c:94-98, 230, 497: *)
(* the memory holds a number that is or is not above LUA_REFNIL.           *)
Init ==
    /\ New
    /\ finishPending = FALSE /\ messagePending = FALSE
    /\ main = "run" /\ ctx = "script" /\ arg = FALSE
    /\ worker = "load" /\ wctx = "script"
    /\ wmessage \in {"none", "garbage"}
    /\ wqueue = <<>> /\ wpending = FALSE /\ stop = FALSE
    /\ message_queue = <<>> /\ late = FALSE
    /\ said = 0 /\ heard = <<>> /\ wsaid = 0 /\ wheard = <<>>

-----------------------------------------------------------------------------
(* Defect: the copy leaves out the last byte.                              *)
strndupShort(n) == -n

(* What the readers find of a message: strndup stops at a zero byte, and   *)
(* the length that is queued is that of the whole.                         *)
strndup(n) == IF n \in Binary THEN -n ELSE n

(* The main thread: the calls of a script.  The controller is an argument  *)
(* of the call, from the variable or from the callback.                    *)

Calls == main = "run" /\ (held \/ arg) /\ life = "live"

OnFinish ==
    /\ Calls
    /\ finish' = TRUE
    /\ UNCHANGED <<started, workerPtr, message, self, life, handles, thread, held>>
    /\ UNCHANGED <<asyncs, mainThread, worker, wctx, workerData, upward, downward>>

OnMessage ==
    /\ Calls
    /\ message' = TRUE
    /\ late' = (message_queue # <<>> /\ (late \/ ~message))
    /\ UNCHANGED <<started, workerPtr, finish, self, life, handles, thread, held>>
    /\ UNCHANGED <<asyncs, mainThread, worker, wctx, workerData>>
    /\ UNCHANGED <<message_queue, said, heard, downward>>

Main(from, to) == main = from /\ main' = to /\ UNCHANGED <<ctx, arg>>

(* The rest of the system does not move.                                   *)
WorkerStill == UNCHANGED <<worker, wctx, workerData, upward, downward>>

Send ==
    /\ Calls /\ wsaid < MaxMessages
    /\ Main("run", "sendWait")
    /\ UNCHANGED <<controller, asyncs>> /\ WorkerStill

(* The pointer is read under the mutex and used after it.                  *)
SendWait ==
    /\ started
    /\ Main("sendWait", IF workerPtr = "null" THEN "run" ELSE "push")
    /\ UNCHANGED <<controller, asyncs>> /\ WorkerStill

(* lua_close freed the worker, its mutex, its queue and its handle.        *)
WorkerFreed == worker = "ended"

SendPush ==
    /\ Main("push", IF WorkerFreed THEN "fault" ELSE "signal")
    /\ IF WorkerFreed THEN UNCHANGED <<wqueue, wsaid>>
       ELSE /\ wqueue' = Append(wqueue, strndup(wsaid + 1))
            /\ wsaid' = wsaid + 1
    /\ UNCHANGED <<controller, asyncs, worker, wctx, wmessage, wpending, stop, upward, wheard>>

SendSignal ==
    /\ Main("signal", IF WorkerFreed THEN "fault" ELSE "run")
    /\ wpending' = (wpending \/ ~WorkerFreed)
    /\ UNCHANGED <<controller, asyncs, worker, wctx, wmessage, wqueue, stop, upward, downward>>

Join ==
    /\ Calls
    /\ Main("run", "joinWait")
    /\ UNCHANGED <<controller, asyncs>> /\ WorkerStill

JoinWait ==
    /\ started
    /\ Main("joinWait", "joining")
    /\ UNCHANGED <<controller, asyncs>> /\ WorkerStill

(* Joining a thread a second time is undefined.                            *)
Joined ==
    /\ worker = "ended"
    /\ \E to \in (IF thread = "joinable" THEN {"run"} ELSE {"run", "fault"}) :
        Main("joining", to)
    /\ thread' = "joined"
    /\ UNCHANGED <<started, workerPtr, finish, message, self, life, handles, held, asyncs>>
    /\ WorkerStill

Forget ==
    /\ main = "run" /\ held /\ held' = FALSE
    /\ UNCHANGED <<started, workerPtr, finish, message, self, life, handles, thread>>
    /\ UNCHANGED <<asyncs, mainThread>> /\ WorkerStill

ControllerScript == OnFinish \/ OnMessage \/ Send \/ Join \/ Forget

-----------------------------------------------------------------------------
(* The main thread: the garbage collector, which runs while Lua code does. *)

Referenced == held \/ self \/ arg

(* thread_controller_gc: a thread that was joined is detached all the same.*)
Collect ==
    /\ life = "live" /\ ~Referenced
    /\ \E to \in (IF thread = "joinable" THEN {"run"} ELSE {"run", "fault"}) :
        Main("run", to)
    /\ life' = "closing" /\ thread' = "detached"
    /\ finishPending' = FALSE /\ messagePending' = FALSE
    /\ message_queue' = <<>> /\ late' = FALSE
    /\ UNCHANGED <<started, workerPtr, finish, message, self, handles, held>>
    /\ UNCHANGED <<worker, wctx, workerData, said, heard, downward>>

(* A later cycle frees the memory.                                         *)
Free ==
    /\ main = "run" /\ life = "closing" /\ life' = "freed"
    /\ UNCHANGED <<started, workerPtr, finish, message, self, handles, thread, held>>
    /\ UNCHANGED <<asyncs, mainThread>> /\ WorkerStill

(* The event loop takes closed handles out at the end of its iteration.    *)
HandlesClosed ==
    /\ ctx = "script" /\ life # "live" /\ handles /\ handles' = FALSE
    /\ Main("run", IF life = "freed" THEN "fault" ELSE "run")
    /\ UNCHANGED <<started, workerPtr, finish, message, self, life, thread, held, asyncs>>
    /\ WorkerStill

-----------------------------------------------------------------------------
(* The main thread: the event loop.  It looks at the async handles in the  *)
(* order they were initialised in, async_finish first.                     *)

LeaveFinish ==
    /\ self' = FALSE
    /\ main' = "walk" /\ ctx' = "script" /\ arg' = FALSE

(* mumble_thread_worker_finish, up to the callback.                        *)
WalkFinish ==
    /\ main = "run" /\ ctx = "script" /\ life = "live"
    /\ finishPending' = FALSE
    /\ IF finishPending /\ finish
       THEN /\ ctx' = "finish" /\ arg' = self
            /\ UNCHANGED <<main, self>>
       ELSE IF finishPending THEN LeaveFinish
       ELSE main' = "walk" /\ UNCHANGED <<ctx, arg, self>>
    /\ UNCHANGED <<started, workerPtr, finish, message, life, handles, thread, held, messagePending>>
    /\ WorkerStill

(* The callback returns; one that it installed is unreferenced with it.    *)
FinishReturn ==
    /\ main = "run" /\ ctx = "finish"
    /\ finish' = FALSE
    /\ LeaveFinish
    /\ UNCHANGED <<started, workerPtr, message, life, handles, thread, held, asyncs>>
    /\ WorkerStill

WalkMessage ==
    /\ Main("walk", IF messagePending /\ message THEN "drain" ELSE "run")
    /\ messagePending' = FALSE
    /\ UNCHANGED <<controller, finishPending>> /\ WorkerStill

(* mumble_thread_controller_message: pop one message under the mutex.      *)
Drain ==
    /\ main = "drain" /\ life = "live"
    /\ IF message_queue # <<>>
       THEN /\ message_queue' = Tail(message_queue)
            /\ heard' = Append(heard, Head(message_queue))
            /\ main' = "run" /\ ctx' = "message" /\ arg' = self
       ELSE /\ main' = "run"
            /\ UNCHANGED <<message_queue, heard, ctx, arg>>
    /\ late' = FALSE
    /\ UNCHANGED <<controller, asyncs, worker, wctx, workerData, said, downward>>

(* Defect: one message is handled for each wakeup.                         *)
MessageReturnOnce ==
    /\ main = "run" /\ ctx = "message"
    /\ main' = "run"
    /\ ctx' = "script" /\ arg' = FALSE
    /\ UNCHANGED <<controller, asyncs>> /\ WorkerStill

(* The callback returns, and the loop reads controller->message again.     *)
MessageReturn ==
    /\ main = "run" /\ ctx = "message"
    /\ main' = IF life = "live" THEN "drain" ELSE "fault"
    /\ ctx' = "script" /\ arg' = FALSE
    /\ UNCHANGED <<controller, asyncs>> /\ WorkerStill

EventLoop == WalkFinish \/ FinishReturn \/ WalkMessage \/ Drain \/ MessageReturn

-----------------------------------------------------------------------------
(* The worker's thread, mumble_thread_worker_start.                        *)

Worker(from, to) == worker = from /\ worker' = to

Controller == UNCHANGED <<finish, message, self, life, handles, thread, held, mainThread>>

WorkerRest == UNCHANGED <<wctx, workerData, upward, downward>>

(* Defects: a worker that fails to load does not tell those who wait for   *)
(* it to start; or does not tell the event loop.                           *)
LoadFailsSilently ==
    /\ Worker("load", "failed")
    /\ workerPtr' = "null" /\ UNCHANGED started
    /\ Controller /\ UNCHANGED asyncs /\ WorkerRest

LoadFails ==
    /\ Worker("load", "failed")
    /\ workerPtr' = "null" /\ started' = TRUE
    /\ Controller /\ UNCHANGED asyncs /\ WorkerRest

FailFinishNot ==
    /\ Worker("failed", "ended")
    /\ UNCHANGED <<started, workerPtr, asyncs>>
    /\ Controller /\ WorkerRest

FailFinish ==
    /\ Worker("failed", "ended")
    /\ finishPending' = TRUE
    /\ UNCHANGED <<started, workerPtr, messagePending>>
    /\ Controller /\ WorkerRest

Publish ==
    /\ Worker("load", "run")
    /\ workerPtr' = "worker" /\ started' = TRUE
    /\ Controller /\ UNCHANGED asyncs /\ WorkerRest

(* thread_worker_send.                                                     *)
WorkerSend ==
    /\ Worker("run", "signal") /\ said < MaxMessages
    /\ message_queue' = Append(message_queue, strndup(said + 1))
    /\ said' = said + 1
    /\ Controller
    /\ UNCHANGED <<started, workerPtr, asyncs, wctx, workerData, heard, late, downward>>

WorkerSignal ==
    /\ Worker("signal", "run")
    /\ messagePending' = TRUE
    /\ UNCHANGED <<started, workerPtr, finishPending>>
    /\ Controller /\ WorkerRest

WorkerOnly(from, to) ==
    /\ Worker(from, to)
    /\ UNCHANGED <<started, workerPtr, asyncs>> /\ Controller

WorkerOnMessage ==
    /\ WorkerOnly("run", "run")
    /\ wmessage' = "callback"
    /\ UNCHANGED <<wctx, wqueue, wpending, stop, upward, downward>>

WorkerStop ==
    /\ WorkerOnly("run", "run")
    /\ stop' = TRUE
    /\ UNCHANGED <<wctx, wmessage, wqueue, wpending, upward, downward>>

Loop ==
    /\ WorkerOnly("run", "loop") /\ wctx = "script"
    /\ WorkerRest

LoopReturn ==
    /\ WorkerOnly("loop", "run")
    /\ stop /\ stop' = FALSE
    /\ UNCHANGED <<wctx, wmessage, wqueue, wpending, upward, downward>>

(* mumble_thread_worker_message.                                           *)
WorkerAsync ==
    /\ WorkerOnly("loop", IF wmessage = "none" THEN "loop" ELSE "drain")
    /\ ~stop /\ wpending /\ wpending' = FALSE
    /\ UNCHANGED <<wctx, wmessage, wqueue, stop, upward, downward>>

(* Defect: the newest message is taken first.                              *)
WorkerDrainNewest ==
    /\ worker = "drain"
    /\ IF wqueue = <<>>
       THEN worker' = "loop" /\ UNCHANGED <<wctx, wqueue, wheard>>
       ELSE /\ wqueue' = SubSeq(wqueue, 1, Len(wqueue) - 1)
            /\ wheard' = Append(wheard, wqueue[Len(wqueue)])
            /\ worker' = "run" /\ wctx' = "callback"
    /\ UNCHANGED <<started, workerPtr, asyncs, wmessage, wpending, stop, upward, wsaid>>
    /\ Controller

(* A reference that is garbage is no function: the call fails, and the     *)
(* message is gone.                                                        *)
WorkerDrain ==
    /\ worker = "drain"
    /\ IF wqueue = <<>>
       THEN worker' = "loop" /\ UNCHANGED <<wctx, wqueue, wheard>>
       ELSE /\ wqueue' = Tail(wqueue)
            /\ IF wmessage = "callback"
               THEN /\ wheard' = Append(wheard, Head(wqueue))
                    /\ worker' = "run" /\ wctx' = "callback"
               ELSE UNCHANGED <<worker, wctx, wheard>>
    /\ UNCHANGED <<started, workerPtr, asyncs, wmessage, wpending, stop, upward, wsaid>>
    /\ Controller

WorkerReturn ==
    /\ WorkerOnly("run", "drain")
    /\ wctx = "callback" /\ wctx' = "script"
    /\ UNCHANGED <<workerData, upward, downward>>

ScriptEnds ==
    /\ WorkerOnly("run", "finish") /\ wctx = "script"
    /\ WorkerRest

Finish ==
    /\ Worker("finish", "close")
    /\ finishPending' = TRUE
    /\ UNCHANGED <<started, workerPtr, messagePending>>
    /\ Controller /\ WorkerRest

(* lua_close, and with it thread_worker_gc.                                *)
Close ==
    /\ WorkerOnly("close", "ended")
    /\ wqueue' = <<>> /\ wpending' = FALSE
    /\ UNCHANGED <<wctx, wmessage, stop, upward, downward>>

WorkerScript == WorkerSend \/ WorkerOnMessage \/ WorkerStop \/ Loop \/ ScriptEnds

WorkerThread ==
    \/ LoadFails \/ FailFinish \/ Publish
    \/ WorkerSignal \/ LoopReturn \/ WorkerAsync \/ WorkerDrain \/ WorkerReturn
    \/ Finish \/ Close

-----------------------------------------------------------------------------
Blocking == SendWait \/ SendPush \/ SendSignal \/ JoinWait \/ Joined

Next ==
    \/ ControllerScript \/ Blocking
    \/ Collect \/ Free \/ HandlesClosed
    \/ EventLoop
    \/ WorkerScript \/ WorkerThread

Spec == Init /\ [][Next]_vars

(* Both threads run, and a script that makes calls returns to the event    *)
(* loop; nothing makes a script call, or a worker's script end.            *)
FairSpec ==
    /\ Spec
    /\ WF_vars(Blocking) /\ SF_vars(EventLoop) /\ WF_vars(WorkerThread)

-----------------------------------------------------------------------------
Messages == {strndup(n) : n \in 1 .. MaxMessages}

Number(copy) == IF copy < 0 THEN -copy ELSE copy

(* controller->worker is not initialised: it is read once it is set.       *)
TypeOK ==
    /\ started \in BOOLEAN /\ workerPtr \in {"unset", "null", "worker"}
    /\ started => workerPtr # "unset"
    /\ finish \in BOOLEAN /\ message \in BOOLEAN /\ self \in BOOLEAN
    /\ finishPending \in BOOLEAN /\ messagePending \in BOOLEAN
    /\ message_queue \in Seq(Messages)
    /\ life \in {"live", "closing", "freed"} /\ handles \in BOOLEAN
    /\ thread \in {"joinable", "joined", "detached"}
    /\ held \in BOOLEAN /\ arg \in BOOLEAN
    /\ main \in {"run", "sendWait", "push", "signal", "joinWait", "joining",
                 "walk", "drain", "fault"}
    /\ ctx \in {"script", "finish", "message"}
    /\ worker \in {"load", "failed", "run", "signal", "loop", "drain", "finish",
                   "close", "ended"}
    /\ wctx \in {"script", "callback"}
    /\ wmessage \in {"none", "garbage", "callback"}
    /\ wqueue \in Seq(Messages) /\ wpending \in BOOLEAN /\ stop \in BOOLEAN
    /\ said \in 0 .. MaxMessages /\ heard \in Seq(Messages)
    /\ wsaid \in 0 .. MaxMessages /\ wheard \in Seq(Messages)
    /\ late \in BOOLEAN

(* The worker's thread uses the controller's mutex, queue and handles as   *)
(* long as its script runs, and does so with no reference in its own state *)
(* (thread.c:464-488, 84, 129): the controller lives until then, whether   *)
(* the script that made it keeps it or not.  The callback of onFinish runs *)
(* when that use is over, and is passed the controller (thread.c:158).     *)
ControllerOutlivesWorker ==
    /\ TypeOK
    /\ worker \notin {"close", "ended"} => life = "live" /\ handles
    /\ ctx = "finish" => worker \in {"close", "ended"} /\ arg

(* The controller's callback sees what the worker sent, all of it, once    *)
(* and in order; what it did not see yet is in the queue.  The worker's    *)
(* callback sees messages in the order they were sent.  A message is whole *)
(* when there is no zero byte in it (thread.c:376).                        *)
MessagesInOrder ==
    LET seen == heard \o message_queue
        wseen == wheard \o wqueue
    IN  /\ life = "live" =>
            Len(seen) = said /\ \A k \in 1 .. said : Number(seen[k]) = k
        /\ \A j, k \in DOMAIN wseen : j < k => Number(wseen[j]) < Number(wseen[k])
        /\ \A copy \in ToSet(seen \o wseen) : Number(copy) \notin Binary => copy > 0

(* A message waits in the queue of a live controller with a callback only  *)
(* if the event loop is about to see it: no wakeup is lost between the two *)
(* threads, though wakeups are merged (thread.c:192).  A callback that is  *)
(* installed when messages wait already is not covered.                    *)
NoLostWakeup ==
    message /\ message_queue # <<>> /\ ~late =>
        messagePending \/ worker = "signal" \/ main = "drain" \/ ctx = "message"

(* Nobody waits for a worker for ever, loaded or not: send() and join()    *)
(* see it start (thread.c:76), and the controller sees it end and does not *)
(* keep itself alive any more (thread.c:169).                              *)
NobodyWaits ==
    /\ main \in {"sendWait", "joinWait"} ~> main \notin {"sendWait", "joinWait"}
    /\ worker = "ended" ~> ~self \/ main = "fault"

(* README.md: a message is a string or a buffer, which hold any bytes.     *)
MessagesAreWhole == \A copy \in ToSet(heard \o wheard) : copy > 0

(* thread.c:332 says of controller->worker that it may already be          *)
(* destroyed by lua_close: a script that sends does not use it then.       *)
SendIsSafe == main \in {"push", "signal"} => ~WorkerFreed
=============================================================================
