---------------------------- MODULE AudioStreams ----------------------------
(***************************************************************************)
(* The life of a mumble.audiostream: opened by a script, referenced while  *)
(* it plays, filled by the buffer thread, mixed by the main thread, and    *)
(* handed back to Lua's garbage collector when nobody uses it any more.    *)
(*                                                                         *)
(* Two threads share a stream.  The main thread runs Lua (play, pause,     *)
(* stop, the collector) and the frame callback playback_async (release the *)
(* reclaimed streams, mix one frame, stop every stream when a packet is    *)
(* too long).  The buffer thread walks stream_list, pins a stream, reads   *)
(* the file without a lock, and unpins.  inner_mutex guards the two lists, *)
(* sound->mutex the flags playing and end; reclaimed and usecount are      *)
(* atomics, refrence and reclaim_ref are plain fields.                     *)
(*                                                                         *)
(* One action is one access to a variable the other thread can see.  Main  *)
(* is the only writer of reclaimed, refrence, reclaim_ref and stream_list, *)
(* and its sections under inner_mutex are single steps that wait for       *)
(* inner = "free".  A read of a collected stream or of an unlinked node    *)
(* sets fault, and nothing is said of what the program does after that.    *)
(***************************************************************************)
EXTENDS Integers, Sequences, LinkedList

CONSTANTS
    Streams,    \* the audio streams a script may open
    NumRefs,    \* slots of the registry table client->audio_streams
    None,       \* the NULL pointer
    Dangling,   \* a pointer to a list node that was freed
    Replays,    \* may a script play a stream again after it was stopped?
    MaxReclaim, \* bound: it does so while reclaim_list is no longer than this
    HookCalls   \* what a script may do inside OnAudioStreamEnd

ASSUME StreamsAssumption ==
    /\ NumRefs \in Nat /\ MaxReclaim \in Nat
    /\ None \notin Streams /\ Dangling \notin Streams /\ None # Dangling
    /\ Replays \in BOOLEAN
    /\ HookCalls \subseteq {"play", "replay", "pause", "stop"}

NoRef == -2     \* LUA_NOREF
Refs == 1 .. NumRefs

VARIABLES
    \* the fields of an AudioStream
    life,        \* "unopened", "live", or "freed" by audiostream_gc
    refrence, reclaim_ref, reclaimed, usecount, playing, end,
    \* Lua: does the script hold the stream, which slots hold which stream
    held, registry,
    asked,       \* ghost: the last request a script made of the stream
    connected,   \* client->connected
    \* the client's lists and the locks
    stream_list, reclaim_list, inner, smutex,
    \* main thread: where it is, the stream it works on, where the call returns
    mpc, msnd, mret,
    \* its loop over stream_list: which loop, the pinned stream, the saved next
    loop, esnd, enext,
    \* buffer thread: where it is, its stream, the node it goes on from
    bpc, bsnd, bcur,
    fault

fields == <<refrence, reclaim_ref, reclaimed, usecount, playing, end>>
lua    == <<life, held, registry, asked, connected>>
lists  == <<stream_list, reclaim_list>>
locks  == <<inner, smutex>>
main   == <<mpc, msnd, mret, loop, esnd, enext>>
buffer == <<bpc, bsnd, bcur>>
vars   == <<fields, lua, lists, locks, main, buffer, fault>>

MainLabels == {"lua", "hook", "revive", "retake", "dequeue", "enlist",
               "lock", "unlist", "mark", "transfer", "check", "queue",
               "clean", "walk", "read", "unpin", "unpinQueue"}

BufferLabels == {"sleep", "walk", "pinAdd", "pinCheck", "flags", "fill", "eof",
                 "unpin", "loadReclaimed", "readRef", "queue", "resume"}

Init ==
    /\ life = [s \in Streams |-> "unopened"]
    /\ refrence = [s \in Streams |-> NoRef]
    /\ reclaim_ref = [s \in Streams |-> NoRef]
    /\ reclaimed = [s \in Streams |-> FALSE]
    /\ usecount = [s \in Streams |-> 0]
    /\ playing = [s \in Streams |-> FALSE]
    /\ end = [s \in Streams |-> FALSE]
    /\ held = [s \in Streams |-> FALSE]
    /\ registry = [r \in Refs |-> None]
    /\ asked = [s \in Streams |-> "none"] /\ connected = FALSE
    /\ stream_list = <<>> /\ reclaim_list = <<>>
    /\ inner = "free" /\ smutex = [s \in Streams |-> "free"]
    /\ mpc = "lua" /\ msnd = None /\ mret = "lua"
    /\ loop = "encode" /\ esnd = None /\ enext = None
    /\ bpc = "sleep" /\ bsnd = None /\ bcur = None
    /\ fault = FALSE

(* The main thread goes on at another label, its variables as they were.   *)
Main(from, to) ==
    /\ mpc = from /\ mpc' = to
    /\ UNCHANGED <<msnd, mret, loop, esnd, enext, buffer, fault>>

(* A call on stream s, and the return from it.                             *)
Call(to, s, return) ==
    /\ mpc' = to /\ msnd' = s /\ mret' = return
    /\ UNCHANGED <<loop, esnd, enext, buffer, fault>>

Return(from) == mpc = from /\ Call(mret, None, "lua")

(* The buffer thread goes on at one of the labels in to.                   *)
BufferThread(from, to) ==
    /\ bpc = from /\ bpc' \in to
    /\ UNCHANGED <<bsnd, bcur, main, fault>>

-----------------------------------------------------------------------------
(* What a script can do: at the top level of the event loop ("lua") and    *)
(* inside the OnAudioStreamEnd hook ("hook"), on any stream it holds or    *)
(* finds in client:getAudioStreams().                                      *)

Registered(s) == \E r \in Refs : registry[r] = s

MayCall(op, s) ==
    /\ life[s] = "live"
    /\ held[s] \/ Registered(s)
    /\ \/ mpc = "lua"
       \/ /\ mpc = "hook"
          /\ op \in HookCalls

Open(s) ==
    /\ mpc = "lua" /\ life[s] = "unopened"
    /\ life' = [life EXCEPT ![s] = "live"]
    /\ held' = [held EXCEPT ![s] = TRUE]
    /\ UNCHANGED <<fields, connected, registry, asked, lists, locks, main, buffer, fault>>

(* audiostream_pause: only the flag; the stream stays referenced.          *)
Pause(s) ==
    /\ MayCall("pause", s)
    /\ playing' = [playing EXCEPT ![s] = FALSE]
    /\ asked' = [asked EXCEPT ![s] = "pause"]
    /\ UNCHANGED <<refrence, reclaim_ref, reclaimed, usecount, end, life, held,
                   registry, connected, lists, locks, main, buffer, fault>>

(* audiostream_play: rewinds, sets playing without taking sound->mutex,    *)
(* and references a stream that is not referenced.                         *)
Play(s) ==
    /\ IF mpc = "hook" /\ s = esnd THEN MayCall("replay", s) ELSE MayCall("play", s)
    /\ reclaimed[s] => Replays /\ Len(reclaim_list) <= MaxReclaim
    /\ \/ refrence[s] > NoRef \/ reclaim_ref[s] > NoRef
       \/ \E r \in Refs : registry[r] = None
    /\ playing' = [playing EXCEPT ![s] = TRUE]
    /\ end' = [end EXCEPT ![s] = FALSE]
    /\ asked' = [asked EXCEPT ![s] = "play"]
    /\ IF refrence[s] > NoRef
       THEN UNCHANGED <<main, buffer, fault>>
       ELSE Call(IF reclaimed[s] THEN "revive" ELSE "enlist", s, mpc)
    /\ UNCHANGED <<refrence, reclaim_ref, reclaimed, usecount, life, held,
                   registry, connected, lists, locks>>

(* audiostream_stop: a stream that is not playing is left as it is.        *)
Stop(s) ==
    /\ MayCall("stop", s)
    /\ asked' = [asked EXCEPT ![s] = "stop"]
    /\ IF playing[s]
       THEN Call("lock", s, mpc)
       ELSE UNCHANGED <<main, buffer, fault>>
    /\ UNCHANGED <<fields, life, held, registry, connected, lists, locks>>

(* The script forgets the stream; the collector frees what nothing holds.  *)
Forget(s) ==
    /\ mpc \in {"lua", "hook"} /\ held[s]
    /\ held' = [held EXCEPT ![s] = FALSE]
    /\ UNCHANGED <<fields, life, connected, registry, asked, lists, locks, main, buffer, fault>>

Collect(s) ==
    /\ mpc \in {"lua", "hook"}
    /\ life[s] = "live" /\ ~held[s] /\ ~Registered(s)
    /\ life' = [life EXCEPT ![s] = "freed"]
    /\ UNCHANGED <<fields, held, connected, registry, asked, lists, locks, main, buffer, fault>>

-----------------------------------------------------------------------------
(* audio_transmission_reference, called by play on msnd.                   *)

(* Defect: the cancelled reclamation is not noted.                         *)
ReviveKeepingFlag ==
    /\ Main("revive", IF reclaim_ref[msnd] > NoRef THEN "retake" ELSE "enlist")
    /\ UNCHANGED <<fields, lua, lists, locks>>

Revive ==
    /\ Main("revive", IF reclaim_ref[msnd] > NoRef THEN "retake" ELSE "enlist")
    /\ reclaimed' = [reclaimed EXCEPT ![msnd] = FALSE]
    /\ UNCHANGED <<refrence, reclaim_ref, usecount, playing, end, lua, lists, locks>>

Retake ==
    /\ Main("retake", "dequeue")
    /\ refrence' = [refrence EXCEPT ![msnd] = reclaim_ref[msnd]]
    /\ reclaim_ref' = [reclaim_ref EXCEPT ![msnd] = NoRef]
    /\ UNCHANGED <<reclaimed, usecount, playing, end, lua, lists, locks>>

Dequeue ==
    /\ Main("dequeue", "enlist") /\ inner = "free"
    /\ reclaim_list' = list_remove(reclaim_list, refrence[msnd])
    /\ UNCHANGED <<fields, lua, stream_list, locks>>

(* registry_ref where there is no reference yet.                           *)
Register ==
    IF refrence[msnd] > NoRef
    THEN UNCHANGED <<refrence, registry>>
    ELSE \E r \in Refs :
            /\ registry[r] = None
            /\ registry' = [registry EXCEPT ![r] = msnd]
            /\ refrence' = [refrence EXCEPT ![msnd] = r]

(* Defect: only a newly registered stream is linked.                       *)
EnlistNewOnly ==
    /\ Return("enlist") /\ inner = "free"
    /\ Register
    /\ stream_list' = IF refrence[msnd] > NoRef THEN stream_list
                      ELSE list_add(stream_list, refrence'[msnd], msnd)
    /\ UNCHANGED <<reclaim_ref, reclaimed, usecount, playing, end, life, held, asked,
                   connected, reclaim_list, locks>>

Enlist ==
    /\ Return("enlist") /\ inner = "free"
    /\ Register
    /\ stream_list' = list_add(stream_list, refrence'[msnd], msnd)
    /\ UNCHANGED <<reclaim_ref, reclaimed, usecount, playing, end, life, held, asked,
                   connected, reclaim_list, locks>>

-----------------------------------------------------------------------------
(* audio_transmission_unreference on msnd.  The end of a stream enters at  *)
(* Unlist, with sound->mutex already held by the mixing loop; both paths   *)
(* release it at the end and go on at mret.                                *)

Lock ==
    /\ Main("lock", "unlist") /\ smutex[msnd] = "free"
    /\ smutex' = [smutex EXCEPT ![msnd] = "main"]
    /\ UNCHANGED <<fields, lua, lists, inner>>

(* The saved next pointer of a loop in progress may lead to the node that  *)
(* is freed here.                                                          *)
Unlist ==
    /\ mpc = "unlist" /\ mpc' = "mark" /\ inner = "free"
    /\ IF refrence[msnd] > NoRef
       THEN /\ stream_list' = list_remove(stream_list, refrence[msnd])
            /\ enext' = IF enext = msnd THEN Dangling ELSE enext
       ELSE UNCHANGED <<stream_list, enext>>
    /\ UNCHANGED <<fields, lua, reclaim_list, locks, msnd, mret, loop, esnd, buffer, fault>>

MarkReclaimed ==
    /\ Main("mark", "transfer")
    /\ reclaimed' = [reclaimed EXCEPT ![msnd] = TRUE]
    /\ UNCHANGED <<refrence, reclaim_ref, usecount, playing, end, lua, lists, locks>>

(* The reference moves to reclaim_ref, and audiostream_reset_playback_state*)
(* clears the flags, which the buffer thread reads under sound->mutex.     *)
Transfer ==
    /\ Main("transfer", "check")
    /\ IF refrence[msnd] > NoRef
       THEN /\ reclaim_ref' = [reclaim_ref EXCEPT ![msnd] = refrence[msnd]]
            /\ refrence' = [refrence EXCEPT ![msnd] = NoRef]
       ELSE UNCHANGED <<reclaim_ref, refrence>>
    /\ playing' = [playing EXCEPT ![msnd] = FALSE]
    /\ end' = [end EXCEPT ![msnd] = FALSE]
    /\ UNCHANGED <<reclaimed, usecount, lua, lists, locks>>

(* Defects: the reference is queued whatever the pins say; the queueing is *)
(* left to whoever unpins last.                                            *)
PinsIgnored(s) == TRUE
LeftToUnpin(s) == FALSE
Unpinned(s) == usecount[s] = 0

Unlock == smutex' = [smutex EXCEPT ![msnd] = "free"]

CheckPins ==
    /\ mpc = "check"
    /\ IF Unpinned(msnd) /\ reclaim_ref[msnd] > NoRef
       THEN Main("check", "queue") /\ UNCHANGED smutex
       ELSE Return("check") /\ Unlock
    /\ UNCHANGED <<fields, lua, lists, inner>>

QueueReclaim ==
    /\ Return("queue") /\ inner = "free"
    /\ reclaim_list' = list_add(reclaim_list, reclaim_ref[msnd], msnd)
    /\ Unlock
    /\ UNCHANGED <<fields, lua, stream_list, inner>>

-----------------------------------------------------------------------------
(* A client may have streams before it has a connection: openAudio, play   *)
(* and stop do not ask for one.                                            *)

(* socket_write_event_tcp, once the handshake is finished.  The model ends *)
(* where mumble_disconnect begins, which joins the buffer thread and closes*)
(* the async: what is reclaimed then stays registered.                     *)
Connect ==
    /\ mpc = "lua" /\ ~connected
    /\ connected' = TRUE
    /\ UNCHANGED <<fields, life, held, registry, asked, lists, locks, main, buffer,
                   fault>>

(* mumble_audio_playback_async: release what was reclaimed, then mix.  The *)
(* playback thread sends it only while the client is connected.            *)
Async ==
    /\ Main("lua", "clean") /\ connected
    /\ UNCHANGED <<fields, lua, lists, locks>>

(* sound_clean_reclaimed, one popped node: the stream is read after        *)
(* inner_mutex was released, and its slot is freed in the registry.        *)
CleanOne ==
    /\ mpc = "clean" /\ inner = "free" /\ reclaim_list # <<>>
    /\ LET node == Head(reclaim_list)
           s == node.data
       IN  /\ reclaim_list' = list_remove(reclaim_list, node.index)
           /\ IF life[s] = "freed"
              THEN fault' = TRUE /\ UNCHANGED <<registry, reclaim_ref>>
              ELSE IF reclaim_ref[s] > NoRef
              THEN /\ registry' = [registry EXCEPT ![reclaim_ref[s]] = None]
                   /\ reclaim_ref' = [reclaim_ref EXCEPT ![s] = NoRef]
                   /\ UNCHANGED fault
              ELSE UNCHANGED <<registry, reclaim_ref, fault>>
    /\ UNCHANGED <<refrence, reclaimed, usecount, playing, end, life, held, asked,
                   connected, stream_list, locks, main, buffer>>

(* The list is empty: back to the event loop if no frame is due, else mix a*)
(* frame.                                                                  *)
CleanDone ==
    /\ mpc = "clean" /\ inner = "free" /\ reclaim_list = <<>>
    /\ \/ mpc' = "lua" /\ UNCHANGED <<loop, enext>>
       \/ /\ mpc' = "walk" /\ loop' = "encode"
          /\ enext' = HeadData(stream_list, None)
    /\ UNCHANGED <<fields, lua, lists, locks, msnd, mret, esnd, buffer, fault>>

(* After the mixing: audio_send_event, whose packet may be too long, in    *)
(* which case audio_transmission_bitrate_warning stops every stream.       *)
WalkDone ==
    /\ mpc = "walk" /\ enext = None /\ inner = "free"
    /\ \/ mpc' = "lua" /\ UNCHANGED <<loop, enext>>
       \/ /\ loop = "encode" /\ loop' = "warn"
          /\ enext' = HeadData(stream_list, None)
          /\ UNCHANGED mpc
    /\ esnd' = None
    /\ UNCHANGED <<fields, lua, lists, locks, msnd, mret, buffer, fault>>

(* The next node of either loop, under inner_mutex: save its successor and *)
(* pin its stream.                                                         *)
(* Defect: the successor is looked up only after the stream was handled.   *)
SameNode(s) == s
Successor(s) == NextData(stream_list, s, None)

WalkOne ==
    /\ mpc = "walk" /\ enext # None /\ enext # Dangling /\ inner = "free"
    /\ enext' = Successor(enext)
    /\ IF reclaimed[enext]
       THEN UNCHANGED <<mpc, msnd, mret, esnd, usecount, asked>>
       ELSE /\ usecount' = [usecount EXCEPT ![enext] = @ + 1]
            /\ esnd' = enext
            /\ IF loop = "encode"
               THEN mpc' = "read" /\ UNCHANGED <<msnd, mret, asked>>
               ELSE /\ mpc' = "lock" /\ msnd' = enext /\ mret' = "unpin"
                    /\ asked' = [asked EXCEPT ![enext] = "none"]
    /\ UNCHANGED <<refrence, reclaim_ref, reclaimed, playing, end, life, held, registry,
                   connected, lists, locks, loop, buffer, fault>>

WalkFault ==
    /\ mpc = "walk" /\ enext = Dangling
    /\ fault' = TRUE
    /\ UNCHANGED <<fields, lua, lists, locks, main, buffer>>

(* process_audio_file on esnd under sound->mutex.  A fade to silence that  *)
(* ran out sets end; with end set and too few frames left in the ring the  *)
(* stream loops, or OnAudioStreamEnd is called with sound->mutex still     *)
(* held.                                                                   *)
ReadFrame ==
    /\ mpc = "read"
    /\ playing[esnd] => smutex[esnd] = "free"
    /\ UNCHANGED <<refrence, reclaim_ref, reclaimed, usecount, playing, life, held, registry,
                   connected, lists, inner>>
    /\ \/ Main("read", "unpin") /\ UNCHANGED <<end, smutex, asked>>
       \/ /\ playing[esnd] /\ ~reclaimed[esnd]
          /\ end' = [end EXCEPT ![esnd] = TRUE]
          /\ Main("read", "unpin") /\ UNCHANGED <<smutex, asked>>
       \/ \E fadedOut, loops \in BOOLEAN :
            /\ playing[esnd] /\ ~reclaimed[esnd]
            /\ end[esnd] \/ fadedOut
            /\ end' = [end EXCEPT ![esnd] = FALSE]
            /\ IF loops
               THEN Main("read", "unpin") /\ UNCHANGED <<smutex, asked>>
               ELSE /\ Main("read", "hook")
                    /\ smutex' = [smutex EXCEPT ![esnd] = "main"]
                    /\ asked' = [asked EXCEPT ![esnd] = "none"]

(* The hook returns and the ended stream is unreferenced.                  *)
HookReturn ==
    /\ mpc = "hook" /\ Call("unlist", esnd, "unpin")
    /\ UNCHANGED <<fields, lua, lists, locks>>

(* sound_unpin_schedule_unref_if_needed by the main thread.                *)
Released(s) == usecount[s] - 1

MainUnpin ==
    /\ Main("unpin", IF usecount[esnd] = 1 /\ reclaimed[esnd] /\ reclaim_ref[esnd] > NoRef
                     THEN "unpinQueue" ELSE "walk")
    /\ usecount' = [usecount EXCEPT ![esnd] = Released(esnd)]
    /\ UNCHANGED <<refrence, reclaim_ref, reclaimed, playing, end, lua, lists, locks>>

MainUnpinQueue ==
    /\ Main("unpinQueue", "walk") /\ inner = "free"
    /\ reclaim_list' = list_add(reclaim_list, reclaim_ref[esnd], esnd)
    /\ UNCHANGED <<fields, lua, stream_list, locks>>

-----------------------------------------------------------------------------
(* mumble_audio_buffer_thread.                                             *)

BufferWake ==
    /\ bpc = "sleep" /\ bpc' = "walk"
    /\ inner = "free" /\ inner' = "buffer"
    /\ bcur' = HeadData(stream_list, None)
    /\ UNCHANGED <<fields, lua, lists, smutex, main, bsnd, fault>>

BufferWalk ==
    /\ bpc = "walk"
    /\ IF bcur = None
       THEN inner' = "free" /\ bpc' = "sleep" /\ bsnd' = None /\ UNCHANGED bcur
       ELSE IF reclaimed[bcur]
       THEN bcur' = NextData(stream_list, bcur, None) /\ UNCHANGED <<inner, bpc, bsnd>>
       ELSE bsnd' = bcur /\ bpc' = "pinAdd" /\ UNCHANGED <<inner, bcur>>
    /\ UNCHANGED <<fields, lua, lists, smutex, main, fault>>

BufferPinAdd ==
    /\ BufferThread("pinAdd", {"pinCheck"})
    /\ usecount' = [usecount EXCEPT ![bsnd] = @ + 1]
    /\ UNCHANGED <<refrence, reclaim_ref, reclaimed, playing, end, lua, lists, locks>>

BufferPinCheck ==
    /\ bpc = "pinCheck"
    /\ IF reclaimed[bsnd]
       THEN /\ usecount' = [usecount EXCEPT ![bsnd] = @ - 1]
            /\ bcur' = NextData(stream_list, bcur, None)
            /\ bpc' = "walk" /\ UNCHANGED inner
       ELSE inner' = "free" /\ bpc' = "flags" /\ UNCHANGED <<usecount, bcur>>
    /\ UNCHANGED <<refrence, reclaim_ref, reclaimed, playing, end, lua, lists, smutex, main,
                   bsnd, fault>>

(* From here to the unpin, and in the test after it, the thread reads the  *)
(* stream without holding inner_mutex.                                     *)
Reading == {"flags", "fill", "eof", "unpin", "loadReclaimed", "readRef", "queue"}

BufferFault ==
    /\ bpc \in Reading /\ life[bsnd] = "freed"
    /\ fault' = TRUE
    /\ UNCHANGED <<fields, lua, lists, locks, main, buffer>>

BufferReads(from, to) == BufferThread(from, to) /\ life[bsnd] # "freed"

BufferFlags ==
    /\ BufferReads("flags", IF playing[bsnd] /\ ~end[bsnd] THEN {"fill", "unpin"} ELSE {"unpin"})
    /\ smutex[bsnd] = "free"
    /\ UNCHANGED <<fields, lua, lists, locks>>

(* process_audio and ring_write, which may or may not have met the end of  *)
(* the file.                                                               *)
BufferFill ==
    /\ BufferReads("fill", {"eof", "unpin"})
    /\ UNCHANGED <<fields, lua, lists, locks>>

BufferEof ==
    /\ BufferReads("eof", {"unpin"}) /\ smutex[bsnd] = "free"
    /\ end' = [end EXCEPT ![bsnd] = TRUE]
    /\ UNCHANGED <<refrence, reclaim_ref, reclaimed, usecount, playing, lua, lists, locks>>

(* Defect: the pin is dropped without asking the main thread to release.   *)
UnpinOnly ==
    /\ BufferReads("unpin", {"resume"})
    /\ usecount' = [usecount EXCEPT ![bsnd] = @ - 1]
    /\ UNCHANGED <<refrence, reclaim_ref, reclaimed, playing, end, lua, lists, locks>>

BufferUnpin ==
    /\ BufferReads("unpin", {IF usecount[bsnd] = 1 THEN "loadReclaimed" ELSE "resume"})
    /\ usecount' = [usecount EXCEPT ![bsnd] = @ - 1]
    /\ UNCHANGED <<refrence, reclaim_ref, reclaimed, playing, end, lua, lists, locks>>

BufferLoadReclaimed ==
    /\ BufferReads("loadReclaimed", {IF reclaimed[bsnd] THEN "readRef" ELSE "resume"})
    /\ UNCHANGED <<fields, lua, lists, locks>>

BufferReadRef ==
    /\ BufferReads("readRef", {IF reclaim_ref[bsnd] > NoRef THEN "queue" ELSE "resume"})
    /\ UNCHANGED <<fields, lua, lists, locks>>

(* reclaim_ref is read a second time, for the index of the node.           *)
BufferQueue ==
    /\ BufferReads("queue", {"resume"}) /\ inner = "free"
    /\ reclaim_list' = list_add(reclaim_list, reclaim_ref[bsnd], bsnd)
    /\ UNCHANGED <<fields, lua, stream_list, locks>>

(* Look the stream up again and go on after it, or from the head.          *)
BufferResume ==
    /\ bpc = "resume" /\ bpc' = "walk"
    /\ inner = "free" /\ inner' = "buffer"
    /\ bcur' = IF bsnd \in DataOf(stream_list)
               THEN NextData(stream_list, bsnd, None)
               ELSE HeadData(stream_list, None)
    /\ UNCHANGED <<fields, lua, lists, smutex, main, bsnd, fault>>

-----------------------------------------------------------------------------
Script ==
    \E s \in Streams :
        Open(s) \/ Play(s) \/ Pause(s) \/ Stop(s) \/ Forget(s) \/ Collect(s)

Unreference == Lock \/ Unlist \/ MarkReclaimed \/ Transfer \/ CheckPins \/ QueueReclaim

Reference == Revive \/ Retake \/ Dequeue \/ Enlist

Frame ==
    CleanOne \/ CleanDone \/ WalkOne \/ WalkFault \/ WalkDone \/ ReadFrame \/ HookReturn
    \/ MainUnpin \/ MainUnpinQueue

Buffer ==
    BufferWake \/ BufferWalk \/ BufferPinAdd \/ BufferPinCheck \/ BufferFault
    \/ BufferFlags \/ BufferFill \/ BufferEof \/ BufferUnpin \/ BufferLoadReclaimed
    \/ BufferReadRef \/ BufferQueue \/ BufferResume

Next ==
    /\ ~fault
    /\ Script \/ Connect \/ Async \/ Reference \/ Unreference \/ Frame \/ Buffer

Spec == Init /\ [][Next]_vars

(* While the client is connected the playback thread sends the frame       *)
(* callback every audio_frames milliseconds and libuv runs it before the   *)
(* loop polls again, whatever scripts do; a thread that runs is scheduled, *)
(* and one waiting for a mutex gets it, because the buffer thread sleeps   *)
(* between two walks.  Nothing obliges a client to connect.                *)
Fairness ==
    /\ SF_vars(~fault /\ Async)
    /\ SF_vars(~fault /\ (Reference \/ Unreference))
    /\ SF_vars(~fault /\ Frame)
    /\ SF_vars(~fault /\ Buffer)

FairSpec == Spec /\ Fairness

-----------------------------------------------------------------------------
TypeOK ==
    /\ life \in [Streams -> {"unopened", "live", "freed"}]
    /\ refrence \in [Streams -> Refs \cup {NoRef}]
    /\ reclaim_ref \in [Streams -> Refs \cup {NoRef}]
    /\ reclaimed \in [Streams -> BOOLEAN]
    /\ usecount \in [Streams -> Nat]
    /\ playing \in [Streams -> BOOLEAN]
    /\ end \in [Streams -> BOOLEAN]
    /\ held \in [Streams -> BOOLEAN]
    /\ registry \in [Refs -> Streams \cup {None}]
    /\ asked \in [Streams -> {"none", "play", "pause", "stop"}]
    /\ connected \in BOOLEAN
    /\ stream_list \in Seq([index : Refs, data : Streams])
    /\ reclaim_list \in Seq([index : Refs \cup {NoRef}, data : Streams])
    /\ inner \in {"free", "buffer"}
    /\ smutex \in [Streams -> {"free", "main"}]
    /\ mpc \in MainLabels /\ bpc \in BufferLabels
    /\ msnd \in Streams \cup {None} /\ mret \in {"lua", "hook", "unpin"}
    /\ loop \in {"encode", "warn"}
    /\ esnd \in Streams \cup {None} /\ enext \in Streams \cup {None, Dangling}
    /\ bsnd \in Streams \cup {None} /\ bcur \in Streams \cup {None}
    /\ fault \in BOOLEAN

(* The stream the buffer thread, and the main thread's loop, has pinned.   *)
BufferPins(s) == bsnd = s /\ bpc \in {"pinCheck", "flags", "fill", "eof", "unpin"}
MainPins(s) ==
    /\ esnd = s
    /\ \/ mpc \in {"read", "hook", "unpin"}
       \/ mret = "unpin" /\ mpc \in {"lock", "unlist", "mark", "transfer", "check", "queue"}
       \/ mret = "hook" /\ mpc \notin {"lua", "clean", "walk", "unpinQueue"}

(* A stream that a thread has pinned is not collected: the reference its   *)
(* last stop moved to reclaim_ref outlives every pin (audio.c:338).        *)
PinProtects ==
    \A s \in Streams : BufferPins(s) \/ MainPins(s) => life[s] = "live" /\ Registered(s)

(* Whatever either thread meets while walking stream_list can be pinned:   *)
(* it is live, not reclaimed, held by the slot its node is named after,    *)
(* and linked once.                                                        *)
ListedIsPinnable ==
    /\ \A k \in DOMAIN stream_list :
        LET s == stream_list[k].data
        IN  /\ life[s] = "live" /\ ~reclaimed[s]
            /\ stream_list[k].index = refrence[s]
            /\ registry[refrence[s]] = s
    /\ \A j, k \in DOMAIN stream_list : stream_list[j].data = stream_list[k].data => j = k

(* usecount is the number of threads that hold a pin: no interleaving of   *)
(* the two loops loses or invents one.                                     *)
UsecountIsPins ==
    \A s \in Streams :
        usecount[s] = (IF BufferPins(s) THEN 1 ELSE 0) + (IF MainPins(s) THEN 1 ELSE 0)

(* No reclaimed stream is forgotten: once neither thread is at work on it, *)
(* a stream that still has its reclaim_ref is queued for release.          *)
NoLostReclaim ==
    \A s \in Streams :
        /\ reclaim_ref[s] > NoRef
        /\ mpc = "lua" /\ bpc = "sleep"
        => s \in DataOf(reclaim_list)

(* A stream a script started goes on: when the main thread is back in the  *)
(* event loop it is linked and playing, unless the file ended or a request *)
(* to pause or to stop came after.                                         *)
PlayHonoured ==
    \A s \in Streams :
        mpc = "lua" /\ asked[s] = "play" => playing[s] /\ s \in DataOf(stream_list)

(* The main thread never waits for a sound->mutex it holds itself.         *)
NoSelfDeadlock == mpc = "lock" => smutex[msnd] = "free"

(* A loop over stream_list never goes on from a node that was freed while  *)
(* inner_mutex was released (audio.c:988).                                 *)
NoDanglingNext == mpc = "walk" => enext # Dangling

(* No thread reads a collected stream or an unlinked node (audio.c:31).    *)
NoUseAfterFree == ~fault

(* What was stopped is released while the client is connected: the stream  *)
(* leaves the registry table that getAudioStreams() returns, or is started *)
(* again.  Without a connection nothing releases it (audio.c:602).         *)
StoppedIsReleased ==
    \A s \in Streams :
        connected /\ reclaimed[s] ~> (~Registered(s) \/ ~reclaimed[s] \/ fault)

(* The same of a client that need not be connected.                        *)
ReleasedUnconnected ==
    \A s \in Streams : reclaimed[s] ~> (~Registered(s) \/ ~reclaimed[s] \/ fault)

(* README, stop(): "Will remove the stream from the getAudioStreams table".*)
StopRemoves ==
    \A s \in Streams :
        asked[s] = "stop" ~> (~Registered(s) \/ asked[s] # "stop" \/ fault)
=============================================================================
