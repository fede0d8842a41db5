---------------------------- MODULE AudioPipeline ----------------------------
(***************************************************************************)
(* The way of outgoing audio from the mixer to the network, over three     *)
(* threads: the playback thread is a clock that wakes the main thread, the *)
(* main thread mixes one frame into encode_queue and sends one packet from *)
(* send_queue, and the encode thread moves work from the one to the other. *)
(* A disconnect stops the playback thread, then the encode thread, and     *)
(* frees what is still queued; it may come from a hook inside the mixing   *)
(* step, which then goes on with what was freed (UseFreed).                *)
(*                                                                         *)
(* One action is one section under a mutex, or one access to a variable    *)
(* that is shared without one (audio_encode_thread_running at the head of  *)
(* the loop, audio_playback_async_pending, connected).  The encoded data   *)
(* is left out; a piece of work is its sequence number and its end_frame.  *)
(* client:transmit, which README.md:153 excludes beside open streams, is   *)
(* not an action.                                                          *)
(***************************************************************************)
EXTENDS Integers, Sequences

CONSTANTS
    MaxSequence,  \* bound: the frames queued in one connection
    NoWork        \* the encode thread holds no work

ASSUME PipelineAssumption ==
    /\ MaxSequence \in Nat
    /\ NoWork \notin [audio_sequence : Nat, end_frame : BOOLEAN]

Work == [audio_sequence : Nat, end_frame : BOOLEAN]

VARIABLES
    \* the client
    connected, audio_sequence, audio_stream_active,
    files,        \* do file streams play, or only audio buffers (pipes)?
    \* the two queues, and the work in the hands of the encode thread
    encode_queue, send_queue, encoding,
    \* the flag the encode queue's condition is about, and the threads
    encode_running, encode,
    playback_running, playback,
    \* the async handle: has it a wakeup to deliver, and the pending flag
    signalled, pending,
    main,
    \* was the last disconnect called from inside the mixing step?
    hooked,
    \* ghosts: what was sent; did the mixer last queue a frame, and did that
    \* frame end the transmission; was a destroyed mutex or queue used?
    sent, mixed, terminated, fault

queues   == <<encode_queue, send_queue, encoding>>
threads  == <<encode_running, encode, playback_running, playback>>
wakeup   == <<signalled, pending>>
ghosts   == <<sent, mixed, terminated, hooked, fault>>
client   == <<connected, audio_sequence, audio_stream_active, files>>
vars     == <<client, queues, threads, wakeup, main, ghosts>>

MainLabels == {"idle", "take", "mix", "send", "stopPlayback", "joinPlayback",
               "stopEncode", "joinEncode", "cleanup", "gone", "hung"}

Init ==
    /\ connected = FALSE /\ audio_sequence = 0 /\ audio_stream_active = FALSE
    /\ files \in BOOLEAN
    /\ encode_queue = <<>> /\ send_queue = <<>> /\ encoding = NoWork
    /\ encode_running = TRUE /\ encode = "loop"
    /\ playback_running = TRUE /\ playback = "check"
    /\ signalled = FALSE /\ pending = FALSE
    /\ main = "idle"
    /\ sent = <<>> /\ mixed = FALSE /\ terminated = TRUE
    /\ hooked = FALSE /\ fault = FALSE

-----------------------------------------------------------------------------
(* mumble_audio_playback_thread: one frame interval after the other.       *)

Playback(from, to) ==
    /\ playback = from /\ playback' = to
    /\ UNCHANGED <<client, queues, encode_running, encode, playback_running, main, ghosts>>

PlaybackCheck ==
    /\ Playback("check", IF playback_running THEN "due" ELSE "done")
    /\ UNCHANGED wakeup

PlaybackDue ==
    /\ Playback("due", IF connected THEN "pend" ELSE "check")
    /\ UNCHANGED wakeup

PlaybackPend ==
    /\ Playback("pend", "signal")
    /\ pending' = TRUE /\ UNCHANGED signalled

(* uv_async_send: wakeups that were not delivered yet are one wakeup.      *)
PlaybackSignal ==
    /\ Playback("signal", "check")
    /\ signalled' = TRUE /\ UNCHANGED pending

-----------------------------------------------------------------------------
(* The main thread.                                                        *)

Main(from, to) == main = from /\ main' = to

Connect ==
    /\ Main("idle", "idle")
    /\ ~connected /\ connected' = TRUE
    /\ UNCHANGED <<audio_sequence, audio_stream_active, files, queues, threads, wakeup, ghosts>>

(* mumble_audio_playback_async reads the pending flag, and then clears it. *)
Async ==
    /\ Main("idle", IF pending THEN "take" ELSE "idle")
    /\ signalled /\ signalled' = FALSE
    /\ UNCHANGED <<client, queues, threads, pending, ghosts>>

TakePending ==
    /\ Main("take", IF connected THEN "mix" ELSE "idle")
    /\ pending' = FALSE
    /\ UNCHANGED <<client, queues, threads, signalled, ghosts>>

(* Defect: queueing work does not wake the encode thread.                  *)
SignalForgotten == encode' = encode

(* uv_cond_signal wakes the encode thread if it waits.                     *)
CondSignal == encode' = IF encode = "wait" THEN "pop" ELSE encode

(* encode_audio.                                                           *)
Submit(endFrame) ==
    /\ encode_queue' = Append(encode_queue, [audio_sequence |-> audio_sequence,
                                             end_frame |-> endFrame])
    /\ audio_sequence' = audio_sequence + 1
    /\ CondSignal
    /\ UNCHANGED <<send_queue, encoding, encode_running>>

(* Defect: only a frame with data in it can end the transmission.          *)
EndFrameWithData(didLoop, read, streamed) ==
    ~didLoop /\ read = "short" /\ audio_stream_active /\ ~streamed

(* end_frame: nothing loops, no source filled the frame, and the audio     *)
(* buffers fell silent since the last frame.                               *)
EndFrame(didLoop, read, streamed) ==
    ~didLoop /\ read # "full" /\ audio_stream_active /\ ~streamed

(* audio_encode_event, with the most frames a source yielded (read), did   *)
(* an audio buffer yield some (streamed), and did a file start over.       *)
MixFrame ==
    /\ Main("mix", "send")
    /\ audio_sequence < MaxSequence
    /\ \E read \in {"none", "short", "full"}, streamed, didLoop \in BOOLEAN :
        /\ streamed => read # "none"
        /\ ~files => (streamed <=> read # "none") /\ ~didLoop
        /\ LET endFrame == EndFrame(didLoop, read, streamed)
           IN  IF read # "none" \/ endFrame
               THEN Submit(endFrame) /\ mixed' = TRUE /\ terminated' = endFrame
               ELSE /\ mixed' = FALSE /\ UNCHANGED terminated
                    /\ UNCHANGED <<audio_sequence, queues, encode_running, encode>>
        /\ audio_stream_active' = streamed
    /\ UNCHANGED <<connected, files, playback_running, playback, wakeup, sent, hooked, fault>>

(* The bound: once MaxSequence frames are queued, a frame mixes nothing.   *)
MixAtBound ==
    /\ Main("mix", "send")
    /\ audio_sequence = MaxSequence
    /\ UNCHANGED <<client, queues, threads, wakeup, ghosts>>

(* audio_send_event: one packet, if there is one, and a packet that is too *)
(* long is not sent.  The packet is out of the queue before its speaking   *)
(* hooks are called: a disconnect in one of them is one from "idle" here.  *)
SendOne ==
    /\ Main("send", "idle")
    /\ IF send_queue = <<>>
       THEN UNCHANGED <<send_queue, sent>>
       ELSE /\ send_queue' = Tail(send_queue)
            /\ sent' \in {sent, Append(sent, Head(send_queue).audio_sequence)}
    /\ UNCHANGED <<client, encode_queue, encoding, threads, wakeup, mixed, terminated, hooked, fault>>

(* mumble_disconnect, mumble_client_free and mumble_audio_queue_shutdown,  *)
(* between the callbacks or in OnAudioStream, inside the mixing step.      *)
Disconnect ==
    /\ main \in {"idle", "mix"} /\ main' = "stopPlayback"
    /\ connected /\ connected' = FALSE
    /\ hooked' = (main = "mix")
    /\ UNCHANGED <<audio_sequence, audio_stream_active, files, queues, threads, wakeup,
                   sent, mixed, terminated, fault>>

(* In OnAudioStreamEnd the mixing step holds the stream's mutex, which     *)
(* mumble_client_cleanup locks again: the main thread waits for itself.    *)
DisconnectAtStreamEnd ==
    /\ Main("mix", "hung") /\ files
    /\ connected' = FALSE
    /\ UNCHANGED <<audio_sequence, audio_stream_active, files, queues, threads, wakeup, ghosts>>

StopPlayback ==
    /\ Main("stopPlayback", "joinPlayback")
    /\ playback_running' = FALSE
    /\ UNCHANGED <<client, queues, encode_running, encode, playback, wakeup, ghosts>>

JoinPlayback ==
    /\ Main("joinPlayback", "stopEncode")
    /\ playback = "done"
    /\ UNCHANGED <<client, queues, threads, wakeup, ghosts>>

(* Defect: the flag is cleared and the thread joined, without a signal.    *)
StopEncodeUnsignalled ==
    /\ Main("stopEncode", "joinEncode")
    /\ encode_running' = FALSE
    /\ UNCHANGED <<client, queues, encode, playback_running, playback, wakeup, ghosts>>

StopEncode ==
    /\ Main("stopEncode", "joinEncode")
    /\ encode_running' = FALSE
    /\ CondSignal
    /\ UNCHANGED <<client, queues, playback_running, playback, wakeup, ghosts>>

(* Defect: the queues are freed without waiting for the encode thread.     *)
JoinNothing ==
    /\ Main("joinEncode", "cleanup")
    /\ UNCHANGED <<client, queues, threads, wakeup, ghosts>>

JoinEncode ==
    /\ Main("joinEncode", "cleanup")
    /\ encode = "done"
    /\ UNCHANGED <<client, queues, threads, wakeup, ghosts>>

Cleanup ==
    /\ Main("cleanup", "gone")
    /\ encode_queue' = <<>> /\ send_queue' = <<>>
    /\ UNCHANGED <<client, encoding, threads, wakeup, ghosts>>

(* Back in the mixing step, which locks inner_mutex (audio.c:1010) and     *)
(* would push to the queue: the mutex is destroyed, uv_mutex_lock aborts.  *)
UseFreed ==
    /\ main = "gone" /\ hooked /\ ~fault
    /\ fault' = TRUE
    /\ UNCHANGED <<client, queues, threads, wakeup, main, sent, mixed, terminated, hooked>>

-----------------------------------------------------------------------------
(* mumble_audio_encode_thread.                                             *)

Encode(from) ==
    /\ encode = from
    /\ UNCHANGED <<client, encode_running, playback_running, playback, wakeup, main, ghosts>>

EncodeLoop ==
    /\ Encode("loop")
    /\ encode' = IF encode_running THEN "pop" ELSE "done"
    /\ UNCHANGED queues

(* audio_queue_pop: wait while there is nothing and the thread should run; *)
(* with nothing left at shutdown it ends.                                  *)
EncodePop ==
    /\ Encode("pop")
    /\ IF encode_queue = <<>>
       THEN /\ encode' = IF encode_running THEN "wait" ELSE "done"
            /\ UNCHANGED queues
       ELSE /\ encode' = "encode"
            /\ encoding' = Head(encode_queue)
            /\ encode_queue' = Tail(encode_queue)
            /\ UNCHANGED send_queue

(* uv_cond_wait may also return without a signal.                          *)
EncodeSpurious ==
    /\ Encode("wait")
    /\ encode' = "pop"
    /\ UNCHANGED queues

(* Defect: the work goes to the head of the send queue.                    *)
EncodePushFront ==
    /\ Encode("encode")
    /\ encode' = "loop"
    /\ send_queue' = <<encoding>> \o send_queue
    /\ encoding' = NoWork
    /\ UNCHANGED encode_queue

EncodePush ==
    /\ Encode("encode")
    /\ encode' = "loop"
    /\ send_queue' = Append(send_queue, encoding)
    /\ encoding' = NoWork
    /\ UNCHANGED encode_queue

-----------------------------------------------------------------------------
PlaybackThread == PlaybackCheck \/ PlaybackDue \/ PlaybackPend \/ PlaybackSignal

Callback == Async \/ TakePending \/ MixFrame \/ MixAtBound \/ SendOne

Shutdown == StopPlayback \/ JoinPlayback \/ StopEncode \/ JoinEncode \/ Cleanup

EncodeThread == EncodeLoop \/ EncodePop \/ EncodePush

Next ==
    \/ PlaybackThread
    \/ Connect \/ Callback \/ Disconnect \/ DisconnectAtStreamEnd \/ Shutdown \/ UseFreed
    \/ EncodeThread \/ EncodeSpurious

Spec == Init /\ [][Next]_vars

(* Every thread runs, and the event loop delivers a wakeup; nothing makes  *)
(* a script connect or disconnect, or a condition return by itself.        *)
FairSpec ==
    /\ Spec
    /\ WF_vars(PlaybackThread) /\ WF_vars(EncodeThread)
    /\ WF_vars(Callback) /\ WF_vars(Shutdown)

-----------------------------------------------------------------------------
TypeOK ==
    /\ connected \in BOOLEAN /\ files \in BOOLEAN
    /\ audio_sequence \in 0 .. MaxSequence /\ audio_stream_active \in BOOLEAN
    /\ encode_queue \in Seq(Work) /\ send_queue \in Seq(Work)
    /\ encoding \in Work \cup {NoWork}
    /\ encode_running \in BOOLEAN
    /\ encode \in {"loop", "pop", "wait", "encode", "done"}
    /\ playback_running \in BOOLEAN
    /\ playback \in {"check", "due", "pend", "signal", "done"}
    /\ signalled \in BOOLEAN /\ pending \in BOOLEAN
    /\ main \in MainLabels
    /\ sent \in Seq(Nat) /\ mixed \in BOOLEAN /\ terminated \in BOOLEAN
    /\ hooked \in BOOLEAN /\ fault \in BOOLEAN

(* The work on its way to the network, the next to be sent first.          *)
InFlight ==
    send_queue \o (IF encoding = NoWork THEN <<>> ELSE <<encoding>>) \o encode_queue

(* What was queued and not sent are the last numbers given out, in order   *)
(* and each once, whatever the three threads do between the queues: the    *)
(* receiver sees audio_sequence rise by one (audio.c:933).                 *)
InOrder ==
    LET flight == InFlight
    IN  main # "gone" =>
            \A k \in DOMAIN flight :
                flight[k].audio_sequence = audio_sequence - Len(flight) + k - 1

(* The pipeline is the queue that FrameFifo describes: packets leave in    *)
(* the order of their numbers, none twice, and only too long ones and      *)
(* those still queued at a disconnect do not leave.                        *)
NumbersInFlight == [k \in DOMAIN InFlight |-> InFlight[k].audio_sequence]

Fifo == INSTANCE FrameFifo WITH
            next <- audio_sequence, queue <- NumbersInFlight, sent <- sent,
            open <- (main # "gone")

IsFifo == Fifo!Spec

(* No other thread is left to use the queues when they are freed           *)
(* (audio.c:913), and the main thread itself uses them afterwards only     *)
(* where a script disconnects in OnAudioStream (audio.c:1007).             *)
QueuesUnused ==
    /\ TypeOK
    /\ main \in {"cleanup", "gone"} => encode = "done" /\ encoding = NoWork
    /\ fault => hooked /\ main = "gone"

(* Does nothing touch a queue or a mutex that was destroyed, not even      *)
(* after a disconnect in OnAudioStream (audio.c:1010)?  It does.           *)
NoUseOfFreed == ~fault

(* When the mixer has nothing more to queue, the last frame it queued told *)
(* the receivers, and OnUserStopSpeaking, that the transmission is over,   *)
(* if all the audio comes from audio buffers: end_frame is not sent when a *)
(* file ends (audio.c:1105).                                               *)
TalkEnds == ~files /\ main = "send" /\ ~mixed => terminated

(* Every frame that was mixed is sent, or found to be too long, unless the *)
(* client disconnects; a disconnect gets both threads to end and frees the *)
(* queues, except for one in OnAudioStreamEnd, which hangs before that.    *)
(* No wakeup is lost between the queue or the flag and the condition the   *)
(* encode thread sleeps on (audio.c:838, 905).                             *)
FramesLeave ==
    /\ \A n \in 0 .. (MaxSequence - 1) :
        (\E k \in DOMAIN InFlight : InFlight[k].audio_sequence = n)
            ~> ~(\E k \in DOMAIN InFlight : InFlight[k].audio_sequence = n) \/ main = "hung"
    /\ main = "stopPlayback" ~> main = "gone"
=============================================================================
