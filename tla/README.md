# lua-mumble in TLA+

A verification development for lua-mumble, a Lua module written in C that
connects a script to a Mumble voice server. It models the parts of the module in
which several actors meet - threads, the network, the event loop, Lua's
collector and the scripts' own hooks - as TLA+ modules, checks them with TLC on
small instances and proves the central facts with TLAPS for every instance.

All source positions below are relative to `src/`.

## The system

One process runs one libuv event loop on the *main thread*, which is also the
only thread of the script's Lua state. Every client object starts three threads
of its own (`mumble.c:572-593`): the *buffer thread* reads audio files ahead, the
*playback thread* is the clock of outgoing audio, the *encode thread* runs Opus.
Scripts may start *workers*, threads with a Lua state and a loop of their own.

| component | source | state | operations |
|---|---|---|---|
| audio streams | `audio.c`, `audiostream.c`, `client.c` | per stream: registry reference, reclaim reference, reclaimed, usecount, playing, end; `stream_list`, `reclaim_list` | open, play, pause, stop, mixing, end of file, pin and unpin, release, collection |
| audio ring buffer | `audio.c:64-119` | samples, head, tail, used | write (buffer thread), read (main thread), reset (main thread) |
| audio pipeline | `audio.c`, `mumble.c` | `encode_queue`, `send_queue`, running flags, the async wakeup, `audio_sequence` | the frame clock, mixing a frame, encoding, sending, shutdown |
| UDP crypt state | `ocb.c`, `crypt.c` | nonces of both directions, `decrypt_history`, good/late/lost | set key, encrypt, decrypt, resync |
| UDP ping and TCP tunnel | `mumble.c`, `packet.c` | `tcp_udp_tunnel`, `udp_ping_acc` | ping timer, answers over UDP or the tunnel, fallback |
| TCP packet reader | `mumble.c:363-451` | the packet being read | one read event per wakeup |
| server state | `packet.c`, `user.c`, `channel.c` | users and channels of the server, the client's own session | one handler per packet of the server |
| client life cycle | `mumble.c`, `client.c` | connecting, connected, the registry reference, sockets, threads | connect, handshake, disconnect, hooks, collection |
| timers | `timer.c` | the registry reference of a timer, its libuv state | start, stop, pause, resume, set, again, callbacks, collection |
| workers | `thread.c`, `util.c` | controller and worker, two message queues, three wakeups | start, send, receive, finish, join, collection |
| byte buffers | `buffer.c` | memory, capacity, read and write head | write and read numbers and strings, pack, reset, flip, seek |
| pipes | `pipe.c` | the registry references of a pipe and its callback, its libuv handle | open, read, reopen at the end of file, close, collection |
| hooks | `mumble.c:1040-1161`, `client.c:472-548` | the functions of each hook, Lua's stack | hook, unhook, call, dispatch |
| channel tree | `packet.c`, `channel.c` | parent, name, links and permissions of each channel | the handlers of three packets, the getters, lookup by path |
| bandwidth | `mumble.c:774-849` | the server's limit, bitrate, packet length | adjustment at the ServerSync, the script's settings |
| requests to the server | `user.c`, `channel.c`, `client.c`, `target.c`, `packet.c:78-239` | a voice target, who is recorded, what TLS could not write | one message per method, its writing |
| Opus, log, bans | `encoder.c`, `decoder.c`, `log.c`, `banentry.c` | as named | as named |

How they interact. The main thread calls every handler; a *hook* is a script
function called from inside a handler, and may call back into any operation of
any component. The threads share with the main thread: the lists (under
`inner_mutex`), the flags of a stream (some under `sound->mutex`, some atomic,
some plain), the ring (atomics only), the two queues (a mutex and a condition
each) and `uv_async_send`, whose wakeups coalesce. Lua's collector may run inside
any call into Lua and frees whatever no registry slot and no variable holds.

What is hard to test there, and what the properties are therefore about: steps
of two threads between which nobody placed a test (pins, ring, reset, shutdown),
operations called from inside a hook, a reference dropped while a thread still
uses the object, packets lost, repeated and reordered, counters that wrap, an
event that reads half a packet, a socket that takes half of one, a handle that is
closed and opened again, a table that changes while it is gone through, and
shutdown while work is under way. The list,
with the line where each bites, is `hazards` in `PROJECT.json`.

## The modules

### AudioStreams, LinkedList, MCAudioStreams

`LinkedList` is the list of `util.c:275-331`: a sequence of nodes, added at the
head, removed by index. `AudioStreams` has the fields of `struct AudioStream`
(`types.h:75-104`) as functions over streams, Lua's side as `held` (a script
variable refers to it), `registry` (the table `client->audio_streams`) and
`life`, and each thread's position as a label. An action is one access to a
variable the other thread can see: `BufferPinAdd` and `BufferPinCheck` are the
two halves of `sound_try_pin` (`audio.c:12-29`), `BufferUnpin`,
`BufferLoadReclaimed`, `BufferReadRef` and `BufferQueue` the four of
`sound_unpin_schedule_unref_if_needed` (`audio.c:31-45`). The main thread's
sections under `inner_mutex` are one step, guarded by `inner = "free"`; the buffer
thread holds that mutex over several steps. Reading a freed stream or a freed
node sets `fault`, after which nothing is claimed.

Scripts act at the top level (`mpc = "lua"`) and inside `OnAudioStreamEnd`
(`mpc = "hook"`); `HookCalls` says which calls they make there. They may do so before
the client is connected, if it ever is (`Connect`): the frame callback, in which
reclaimed streams are released, comes only while it is (`audio.c:602`). A model ends
where `mumble_disconnect` begins. Volume, seek and the fade settings change nothing
another actor waits for and are left out.

### AudioRing

One action per sample copied and per index published, so that the reader and
the writer interleave inside `ring_write` and `ring_read`. A sample is its number.
The three stores of `audiostream_reset_playback_state` (`audio.c:308-312`) are
three actions of the reader's thread. `raced` records whether a write overlapped
the last reset.

### AudioPipeline and FrameFifo

`FrameFifo` is what the pipeline promises: frames are numbered, leave in that
order, at most once. `AudioPipeline` has the three threads, the two queues and
the wakeup; `IsFifo` is the refinement, mapping the two queues and the work in
the encode thread's hands to the abstract queue. `files` chooses whether file
streams play besides audio buffers. Mixing, resampling and Opus are abstracted
to how much each source yielded. A disconnect comes between two callbacks or in
`OnAudioStream`, inside the mixing step (`audio.c:1007`), which then goes on with
destroyed mutexes and queues (`UseFreed`); in `OnAudioStreamEnd` it waits for a mutex
that the same thread holds, for ever (`DisconnectAtStreamEnd`). A speaking hook is
called after its packet has left the queue, so a disconnect in it is one between two
callbacks. `client:transmit`, which `README.md:153` excludes
beside open streams, is not an action.

### CryptState

Sender, receiver and the network between them. A nonce is a number of which the
code sees the two lowest digits to the base `Byte` (256 in the code); a packet is
its key and its nonce, and is opened when the guessed nonce is its own. The
network is the set of all packets sent: each may arrive at any time, any number
of times, or never. The cipher (`ocb.c:247-432`) is taken to do what an
authenticated cipher does.

### UdpPing

The choice between UDP and the tunnel, with pings and pongs in flight, a path
that goes up and down, and the server (external). `Byte` is the width of the
`uint8_t` counter, so that its wrap is reached.

### TcpReader

The TLS stream is a sequence of positions; a record carries those up to where it
ends, a packet lies between where it starts and where the next one does, and one
`SSL_read` returns at most what is left of one record (external, from
how OpenSSL behaves and the code uses it). Records carry packets whole, several at
once, or split when they are full (`cuts` remembers where they ended). `ReadEvent` is
one call of `socket_read_event_tcp` (`mumble.c:363-451`): at most one read of the header
and one of the body. `cleared` says whether the memory of `client->tcp_read_packet`, to
which `mumble_client_new` gives no value, happens to be zero; if not, nothing is said of
what the reader does, and likewise after it has lost its place.

### WorkerThreads

A controller on the main thread and its worker (`thread.c`). An action is one
section under a mutex, one `uv_async_send` (they merge: a pending flag) or one
step of an event loop. `self` is the registry reference that the controller keeps
to itself until the finish callback ran; `workerPtr` is `controller->worker`, which
has a value of its own before the worker's thread has stored it. `ControllerScript`
and `WorkerScript` are the calls a script may make, at its top level (`ctx`, `wctx`) or
in a callback: `onMessage`, `onFinish`, `send`, `join`, forgetting the object; `send`,
`onMessage`, `loop`, `stop`. A message is its number, which is negative in the copy that
`strndup` cuts at a zero byte (`thread.c:376`); `Binary` says which messages have one.

### ServerState

The tables `client->users` and `client->channels`, the lists `user_list` and
`channel_list`, and the handlers of `packet.c` and of audio (`mumble.c:1438-1500`)
that change them. A handler is cut at each hook: `pc` says where it goes on, and in
the hook the script may disconnect, which empties the tables; the user the
handler still points to is then the `orphan`. `KickedOut` is the branch for the client's
own removal, which looks up who did it (`packet.c:585`). The server is external; it keeps its
own picture (`where`, `there`), sends every change in order over `net`, and audio
over `audio`, from which packets arrive in any order or never.

### LuaTimer

Timers with the registry table `MUMBLE_TIMER_REG` (keys that are given back and
used again, `Slots`), the state of libuv's handle, and the collector. The script's
calls are actions that are enabled in a callback as well; `Return` is what
`mumble_timer_callback` does after its callback (`timer.c:76-84`), `OnClose` the close
callback at the end of a loop iteration.

### ClientLifecycle

One client with its five libuv handles, its three threads (one flag: they start
and end together), the registry reference `self` and the stack of hooks the main
thread is in. `Disconnect` is `mumble_disconnect` up to its hook, `DisconnectReturn`
the rest; a handler that a hook has disconnected returns to what it was doing
(`EventContinues`, `EventCallsAgain`, `ConnectReturn`). The ends are the server or
the socket (`SocketFails`, `TcpFails`, `HandshakeFails`), the script in any hook
(`ScriptDisconnects`), `mumble.stop` and signals (`Stop`), and the collector (`Collect`).
Fields that `mumble_client_new` leaves without a value may make the clean-up of a client
that never came that far go wrong (`Free(unset)`, `NoPoll`), and so may what a handler uses
after a hook that disconnected (`GoesOn`); `fault` is then a choice, and only `NoFault`
is about it.
`Reached` is a thread, or libuv's queue of handles, that uses freed memory.

### LuaPipe

A pipe of `pipe.c`: the two registry references, the handle through all its states
(`"ending"` is the close after an end of file that opens another handle), and the
collector. Writers are external. `ended`, `stopped` and `revived` remember a close, one
that was `mumble.stop`'s, and a handle that was opened after it.

### HookTable

`mumble_hook_call_ret` with Lua's stack. A dispatch (`Frame`) has its part of the stack
as a sequence of kinds, so that what the pops of each branch leave behind is what
`lua_next` finds; `lua_next` is external, with the freedom Lua's manual gives it when a
key was added. The functions it calls hook, unhook, call the hook again and
disconnect; dispatches nest.

### MainLoop

The main thread: `ClientLifecycle`, `LuaPipe` and `HookTable` under one event loop. A
callback ends before the loop begins another, `OnEvent` is dispatched to several
functions, each of which may do what the script may do anywhere, and `StopAll` is
`mumble_close` for client and pipes at once. `Mixes` bounds what a behaviour has
besides the client: pipes, several functions in a hook, both or neither; the theorems
are about all of it.

### ChannelTree and Incoming

`ChannelTree` has the channels of a client and the server's own picture of them. Links
are mutual; the server makes or ends one with a message about either channel, and the
client keeps it for that channel only (`packet.c:501-520`). `announced` is what messages
about a channel have told, `elsewhere` the links of which some message about the other
channel spoke, which `TreeMirrors` therefore excepts. A
handler applies the fields of its message in the code's order; `getParent`,
`getChildren`, `getLinks` and `channel_call` (the lookup of a path) are operators that the
properties compare with the server. `strtok` is modelled by what it does to the
string. What lies below a channel (`Below`) is stated with the sets that hold every
channel's children, the loops of `channel_call` and `list_remove` as functions over the
turns, so that both can be reasoned about. `Incoming` composes it with `TcpReader`:
messages are packets of several bytes, and a handler runs in the read event that
completes its packet.

While messages are on their way the script's tree is one the server had earlier.
`AlwaysATree`, a part of `TreeMirrors`, says what holds nevertheless: every channel hangs
on the root over channels that are there, so that a script's walk with `getParent` comes
to an end. The rest of `TreeMirrors` and `PathsWalk` say what the tree is when nothing is
on its way, and the theorem about `ReadIsShown` that nothing is when the last byte was read.

### Bandwidth, Requests and Session

`Bandwidth` is `mumble_adjust_audio_bandwidth` with the actions that set bitrate and
packet length. `Requests` has one operator per method that asks something of the
server: the message with the fields that are really packed (an optional field whose
`has_` flag is not set is not). `wish` is what the server would be if every request did
what the README says of it, `world` what it is; `astray` marks the calls that ask for
something else. `packet_sendex` writes to a socket that may be full: OpenSSL
(external) then keeps its record, and the client, which frees the message, completes it
under a later one if that happens to have the same buffer (`mumble.c:740` allows
no moving buffer). A message that is longer than a record (`Lengths`: texts, textures,
data) is written in part even on a socket that is not full, and the server cannot read
on (`torn`). Users that are recorded may leave (`UserGoes`: `user_gc` closes the file and
updates nothing). The server is external. `client_auth` is its second message.
`Session` composes both with `UdpPing`: the ServerSync starts the pings and adjusts
the audio; `asking` chooses between following the voice and the requests.

### VarInt and ByteBuffer

`VarInt` is the encoder and the decoder of `buffer.c:163-313` over exact 64-bit
values, a sequence of eight bytes: each has its own tables, as in the code.
`ByteBuffer` is a `mumble.buffer`: `data` is its memory, as long as its capacity, with
`Unknown` for bytes that nobody wrote; `Pieces` are the writes for which
`buffer_adjust` makes room one by one, a flag or a length first. A flag calls the
decoder again for what follows it: `AfterFlags` is where such calls end, and each of
them complements what it got. `items` remembers which value lies where, so
that `ReadsBack` can ask for it through the code's own reading functions.

## What the runs check

Every run ends without an error, and every property of it is broken by at least
one plausible defect of the code, kept beside the definition it replaces
(comments that begin with "Defect"; `mutants` in `PROJECT.json`).

| run | what it shows | instance |
|---|---|---|
| `AudioStreams` | with streams played again while they are reclaimed, under all interleavings: the list holds exactly streams that can be pinned, no release is forgotten, `play()` is honoured, no walk from a freed node | two streams (interchangeable), two slots, hooks that play other streams and pause |
| `AudioStreamsOnce` | without replays: a pinned stream is never collected, and while the client is connected a stopped one is released | one stream, fair threads, a client that connects at any time or never |
| `AudioPipeline` | the pipeline is a FIFO; every mixed frame leaves; a disconnect, in the mixing step too, ends the other threads before it frees the queues; buffers that fall silent end the transmission | three frames, files or buffers |
| `AudioRing` | samples arrive once and in order after every reset no write overlapped, and the indices agree | three cells, nine samples: each cell is used again |
| `CryptState` | nothing is opened twice, the new packets of the window are opened, losses are exact up to one | base 6, window 2, six nonces of each of two keys (with the byte wrapping, and a whole round), one resync |
| `Session` | at most two unanswered pings while on UDP; a dead path ends in the tunnel, a live one leaves it; the audio fits in the server's bandwidth; requests are heard once and in order and do what they mean, and the server is told who records unless a recorded user left | counter of base 5, so it wraps; two pings and pongs under way; limits on both sides of a rate; any two requests about two users and two channels, each shorter or longer than a record |
| `Incoming` | packets are handled once and in order, and the reader loses its place only where a record splits one; the script sees a tree at every moment, and when all was read the tree, the permissions and the paths are the server's, and the links as far as messages about the channel told | three channels, two names, three changes, packets of two, three and five bytes, records of up to six, which carry several or split them |
| `WorkerThreads` | messages arrive once and in order; no wakeup is lost; the controller outlives the worker's script; nobody waits for ever for a worker to start, and a finished one leaves no reference | one worker, two messages each way, one with a zero byte |
| `ServerState` | tables and lists agree whatever hook disconnects and whoever is kicked; once all is handled the client's picture is the server's; joins, moves and utterances are told once | this user and another, two channels, three changes on the server, two audio packets |
| `LuaTimer` | a started timer lives as long as libuv knows it; it calls the function of its last start; the registry has exactly what is in use; a stopped one is released | two timers, four keys, two starts each |
| `MainLoop` | hooks in order and the end told once; a working client is whole; threads end before the memory; an ended client is silent (what each leaves out is said below); a pipe reads on until it is closed and is let go then, unless `mumble.stop` closed it; a hook's functions are each called and the dispatch keeps its place while they change the table | one client with one `connect()`, one pipe, two functions, two dispatches at once |
| `ByteBuffer` | what was written is read back after growth, packing and seeking; the heads stay in the memory | two values, from both sides of each boundary of the number formats with their complements, one move of the heads (pack, reset, flip, seek) between any number of reads; the theorem is for any number of each |

Further experiments. These disagreements were met while modelling and are not kept
as runs; each needs only the named constants and the definition as invariant or
property of the configuration of its module's run:

- `NoUseAfterFree` of `AudioStreams` (`Replays = FALSE`, `HookCalls = {}`): the buffer
  thread reads a stream after its last unpin, when it may have been collected
  (`audio.c:35`).
- `PlayHonoured` with `HookCalls = {"replay"}`: a stream started again inside its own
  `OnAudioStreamEnd` is stopped right after (`audio.c:637`), which is what
  `examples/playlist.lua` does with a playlist of one song.
- `NoDanglingNext` with `HookCalls = {"stop"}`: stopping another stream inside the
  hook frees the node the mixing loop goes on from (`audio.c:988`).
- `StopRemoves` with fairness: `stop()` on a paused stream does nothing
  (`audiostream.c:51`), README.md:972-974 says it is removed.
- `TalkEnds` without `~files`: no end frame is sent when a file ends
  (`audio.c:1105`).
- `FallbackAfterThree` of `UdpPing` (with its own `Spec` and the constants of `Session`): the fallback is taken with two unanswered pings
  (`mumble.c:178`).
- `LostBounded` with `{0}` for `{0, 1}`: the last loss that comes late stays counted
  (`ocb.c:241`).
- `NoSelfDeadlock` with `HookCalls = {"stop"}`: `stop()` of the stream inside its own
  `OnAudioStreamEnd` locks a mutex that the same thread holds (`audio.c:355`).
- `PinProtects` in the configuration of the run `AudioStreams`: a stale entry of
  `reclaim_list` releases a stream that is pinned, if it is stopped, played and
  stopped again while the buffer thread is between reading `reclaim_ref` and
  queueing it (`audio.c:38`).
- `RingAgrees` of `AudioRing`: play and stop clear the ring while the buffer thread
  writes (`audio.c:310`), and `head`, `tail` and `used` may disagree from then on.
- `AlwaysFresh` of `CryptState` (`Byte = 8`, `Window = 3`, `Starts = {3}`, `MaxIV = 12`,
  `MaxKeys = 1`, `MaxResyncs = 0`): a history of zeros takes new packets for repeats.
- `ReleasedUnconnected` with the configuration of `AudioStreamsOnce`: a stream that is
  stopped while the client has no connection is not released (`audio.c:602`).
- `NoUseOfFreed` of `AudioPipeline`: after a disconnect in `OnAudioStream` the mixing step
  locks a mutex that was destroyed (`audio.c:1010`).
- `Framed` of `TcpReader` under `ReaderSpec` (or in the configuration of `Incoming`), with
  `MaxRecord = 2`: the event works on a copy of `client->tcp_read_packet` that it never
  stores (`mumble.c:375`), so the rest of a packet that came in two records is read as a
  header; `mumble.c:374` says "This process might take a few read events to fully
  complete".
- `HandledInOrder` of `TcpReader` under `ReaderSpec`, with `UnknownTypes = TRUE` and
  `MaxRecord = 6`: the body of a packet whose type the client does not know is left in
  the stream (`mumble.c:399`) and read as a header.
- `OfflineIsEmpty` of `ServerState`: a client that is kicked by a user and disconnects in
  `OnUserRemove` makes that user anew after its tables were emptied (`packet.c:585`).
- `AllLinked` of `Incoming`: README.md:515 says "Returns a table of all linked channels"; a
  link is kept for the channel whose message told of it (`packet.c:501-520`), so the other
  one's list lacks it, or keeps it after an unlink that was told of the other one.
- `RecordingTold` of `Requests`: after a recorded user has left, the server is still told
  that the client records (`user.c:588` does not update what `mumble.c:1378` keeps).
- `SendIsSafe` of `WorkerThreads`: `send()` reads `controller->worker` under the mutex
  and uses it after (`thread.c:363`), when `lua_close` may have freed it.
- `NoPhantoms` of `ServerState`: audio of a user who has left makes a user anew, and
  `getUsers` lists it (`mumble.c:1444`).
- `NoUseAfterFree` of `ServerState`: a handler writes to a user after a hook in which
  the client disconnected (`packet.c:649`).
- `NoUseAfterFree` of `LuaTimer`: nothing keeps a timer that was never started, whose
  handle the collector frees with it.
- `EveryEndIsTold`, `SocketIsClosed` and `NoFault` of `ClientLifecycle`: a handshake that
  fails (`mumble.c:486`) and `mumble.stop` end a connection without `OnDisconnect`; the
  TCP handle, which is not "active", is not closed by a disconnect; a client that
  never connected is collected with its threads running (`client.c:995`), one that is
  stopped keeps them, and `uv_poll_start` follows an `OnConnect` that disconnected
  (`mumble.c:480`). Likewise a ping whose hook disconnected writes to the freed session
  (`mumble.c:166`), a failed `connect()` frees what was never set (`mumble.c:869-897`), and
  an end before TCP is connected asks about a poll handle that never was
  (`mumble.c:928`).
- `MainLoop` with `MaxConnects = 2`: `connect()` does not ask whether the client is
  connected, or was, and starts over on handles and threads that are in use or gone.
- `MessagesAreWhole` of `WorkerThreads`: a message with a zero byte arrives cut, with
  the length of the whole (`thread.c:376`).
- `NoUseAfterFree` of `LuaPipe`: a second `close()` uses a handle that is freed
  (`pipe.c:18`), nothing keeps a closed pipe until its handle is closed, and a pipe that
  is closed between an end of file and the new handle is opened again (`pipe.c:39`). A
  new handle that cannot be opened is freed while libuv has it in its queue (`pipe.c:57`,
  `pipe.c:67`).
- `ErrorIsSurvived` of `HookTable`: after a function that raises an error the pop for
  its message takes the traceback (`OnError` has taken the message), and the removal
  of the traceback, another value (`mumble.c:1117-1122`). `HookDispatch` with
  `CallGives = TRUE`: a value returned to `client:call` is in the way of the pop of
  value and key (`mumble.c:1143`).
- `TreeMirrors` of `ChannelTree` with `Reuse = TRUE` and `MaxChanges = 4`: a removed
  channel stays in the links of the others (`packet.c:431`), and is linked again when
  its number is.
- `PathsWalkAgain` of `ChannelTree`: `strtok` writes into Lua's own string
  (`channel.c:373`); the second lookup of a path ends at its first part.
- `LimitIsKept` of `Bandwidth`: `setBitRate` after the ServerSync is not held against the
  limit (`encoder.c:144`).
- `AllMeant` of `Requests`: `link`, `unlink`, `listen` and `unlisten` with plain arguments
  take the last one for each (`channel.c:203`, `channel.c:266`, `user.c:330`,
  `user.c:393`; README.md:408, 412, 520, 524); `create` and `createChannel` set the parent,
  position, temporary and max_users without their `has_` flags (`channel.c:433`,
  `client.c:927`; README.md:312, 555), as `requestStats` does stats_only (`user.c:137`;
  README.md:343); `setMuted` and `setDeaf` without an argument clear
  (`user.c:91`, `user.c:106`; README.md:332, 336).
- `AllHeard` of `Requests`: on a full socket requests are lost, and their callers are not
  told (`packet.c:234`); a request longer than a record is cut on any socket
  (`mumble.c:740`), and all that follows it is lost with it.
- `NoFault` of `Requests`: a voice target points into a string that Lua may have freed
  (`target.c:61`), users and channels of an ended connection send on it
  (`user.c:30`), `setListeningVolumeAdjustment` packs a message of another type
  (`channel.c:359`).
- `FailedReadKeepsHead` of `ByteBuffer`: a number or a string that does not fit moves
  the head although it is an error. Without `i.item.value # <<>>`, `ReadsBack` fails for
  the empty string, which cannot be read back (`buffer.c:577`). `IndexSeesAll`:
  `buffer[i]` compares with the length and not with the write head (`buffer.c:678`).

Met on the way, without a definition of their own: `kick()` and `ban()` without a
reason raise an error (`user.c:40`, `user.c:55`; README.md:322, 325);
`requestCommentBlob` and `requestDescriptionBlob` refuse plain arguments (`client.c:807`,
`client.c:868`; README.md:303, 308); `target:getUsers` stores into the wrong slot of the
stack (`target.c:38`); the callback of a pipe is called with the stack slot below the
traceback as its error handler (`pipe.c:108`).

### Bounds

Sequence numbers, samples, nonces, packets, messages and calls are bounded by the
constants that say so (`MaxSequence`, `MaxSamples`, `MaxIV`, `MaxPackets`, `MaxReclaim`,
`MaxFlight`, `MaxSilent`, `MaxMessages`, `MaxEvents`, `MaxAudio`, `MaxStarts`,
`MaxConnects`, `MaxWrites`, `MaxMoves`, `MaxDepth`, `MaxChanges`, `MaxBacklog`,
`MaxCalls`). Each bound is past the point where the case it
is about recurs: every ring cell is written three times, the nonce byte wraps
and comes round, the ping counter wraps, both slots of the stream registry are in
use at once, a second message comes while the first is handled, a key of the timer
registry is given back and used by another timer, a user leaves and comes again, a
dispatch begins inside another, a channel is linked, unlinked and removed, a request
is heard under a later one. Two variables split the instances of a composition where
the parts do not meet: `mix` in `MainLoop` and `asking` in `Session`.
A buffer grows by each of its three rates and both values are written after a move.
The theorems below have none of these bounds.

### Fairness

Each thread that can run is scheduled (weak fairness of the playback, encode and
shutdown actions). In `AudioStreams` the threads contend for `inner_mutex`, and
strong fairness of a thread's actions says that it gets the mutex eventually:
the buffer thread sleeps between two walks (`audio.c:499-513`), so the mutex is free
again and again, and while the client is connected the frame callback is
posted by a clock and run by libuv before the loop polls again; nothing makes a client
connect. In `UdpPing` and `Session` the timer fires, the server synchronises,
accepts a key in the end and answers what reaches it; the network owes nothing
except that what is never lost arrives. In `WorkerThreads` the calls that block and the
worker's thread go on (weak fairness); the event loop gets its turn (strong
fairness), as the script comes back to it. In `LuaTimer` callbacks return and every
closing handle is closed at the end of an iteration. Scripts are never assumed to
do anything else.

## What is proved

| module | theorems | argument |
|---|---|---|
| `AudioStreamsProofs` | `TypeCorrect`, `ListIsPinnable`, `UsecountCounts`, `Invariance` | an inductive invariant of named parts: list nodes are distinct and registered; `usecount` is the number of pins by label; a reclaim reference is registered |
| | `NothingIsForgotten` | what a walk holds is pinned (`WalkOK`); a slot that was taken is pinned, at work or queued (`ReclaimOK`) |
| | `PinsProtect` if `~Replays`; `StartedPlaysOn` if no hook replays its stream; `LoopsGoOnLinked` if no hook stops a stream | while a thread pins a stream its slot is taken; a started stream is linked unless a thread is about to unlink it; what a loop saved is linked. Without the hypotheses the statements are false (see the experiments) |
| `AudioPathProofs` | `RingTypeCorrect`, `ReadsInOrder`, `RingStaysWhole` | of the ring: sample `m` lives in the cell of `m - base`; counts of both threads bound `used` under every race, positions hold while the last reset was undisturbed |
| | `Invariance`, `QueuesAreLeft`, `TransmissionEnds`, `NumbersRise`, `PipelineIsFifo` | of the pipeline: the step each thread is at says what it holds and which flags are set; what is submitted is what was delivered, then the frame in work, then the queues, so that each step maps to one of `FrameFifo` or to a stutter. `QueuesAreLeft` is about the other threads; the mixing step around a hook that disconnected is excepted, and known to use the queues (see the experiments) |
| | `NoncesTyped`, `HistoryIsKept`, `OpenedOnce` | of the nonces: what was opened is not ahead of `decrypt_iv` and, within the window, in the history; nonces less than a round apart differ in their byte |
| | `FreshIsAccepted`, `LossesAreCounted` | what the history holds was opened; the opened nonces are as many as `decrypt_iv` has passed less the missing, counted by cardinality over every path of `crypt_decrypt` |
| `ServerStateProofs` | `Invariance`, `ServerStateListsMatch`, `ServerStateMirror`, `ServerStateHooksAreTrue` | there is a sequence of views, the first the client's and the last the server's, each of which comes from the one before by one packet on the way (`Leads`); a change on the server adds views at the end, a handler takes the first. In each view users are in channels that are known, and who was named is who came later (`Fine`). A kick of this client is one more packet; the user that `packet.c:585` may make afterwards is excepted from `OfflineIsEmpty`, not from the agreement of table and list. Within a handler `Upcoming` is the view it is about to record, and who has stopped speaking is not marked as speaking (`Talking`). TLC found no step that breaks the invariant before it was proved |
| `MessageProofs` | `Invariance`, `LivesLongEnough`, `OrderIsKept`, `WakeupsArrive` | the memory is alive until the worker's thread is joined; received messages followed by the queue are those that were sent; who waits for a wakeup has one pending or nothing to wait for |
| | `HandlersInOrder` if `UnknownTypes = FALSE` | packets fill the stream one after the other (`Laid`); an event that starts where a packet does stops at its end, or at the end of a record inside of it (`EventReads`), and has handed the packet over exactly in the first case. Records may split packets in any way. With types the client does not know the statement is false (see the experiments) |
| | `TreeInvariance`, `TreeIsTheServers`, `TreeIsATree` if `Reuse = FALSE` | there is a chain of views, one for each message on its way: the first is what the client keeps (`Mirrors`; its lists of links, which follow `announced`, may name channels that are gone), the last what the server is, and each is what the one before becomes by a message (`Told`). Each view hangs on the root: a set with the root that holds with a channel its children holds all (`Hangs`). A move keeps this because the new parent is outside of the part that moves: a set of channels, closed under children, has the channel and not its new parent, and with this set added a closed set of the new tree is one of the old (`MovedHangs`). The last answer about rights is true unless a flush follows (`RightsAreTrue`). With a number that is used again the statement is false (see the experiments) |
| | `EveryPathWalks`, `ShortPathsWalk` if `Reuse = FALSE` | one turn of `channel_call` finds the one channel, or none, to which the part leads on the server (`StepFollows`): names below a parent differ. The walk of a path of any length exists, and is compared with a route on the server at the first place at which they would part |
| | `IncomingIsTree`; `IncomingInOrder`, `IncomingReadIsShown` if `Reuse = FALSE` | each step of `Incoming` is one of `ChannelTree` or leaves the tree alone, so the theorems about the tree hold in it (`IncomingTreeIsTheServers`, `IncomingTreeIsATree`, `IncomingPathsWalk`). The packets with a body that were not read to their end are as many as the messages on the way, in a row (`Pairs`): a read event that completes a packet takes the first of both, and one that is cut short takes neither |
| `ScriptObjectsProofs` | `Invariance`, `RegistryIsExact`, `TheLatestIsCalled` | a key of the registry is free or belongs to one timer, as timer or as callback; it stays from the start to `on_close` |
| | `NumbersReadBack` | by cases on the form: the first byte of each lies between its prefix and the next, so the reader picks the same one (`FormOf`), and zeros in front of the bytes give the number back (`PadElements`); `AfterFlags` is 0 or 1 behind the place |
| | `BufferHeadsInMemory`, `WrittenReadsBack` | all below `write_head` is written, and the bytes of each value that was not written over stand at its place (`Holds`); a write leaves the bytes before and behind it alone (`Wrote`), whatever it grows by, packing shifts all, and what a damaged number claims never takes a head past `write_head` (`DecodeStays`) |
| `MainLoopProofs` | `ReadsUntilClosed`; `LoopImplementsPipes`, `PipesReadUntilClosed` | only a pipe that is closed leaves the registry, only one that has left it is collected, and one that is closed has left it unless `mumble.stop` closed it; each step of the loop is a step of the pipes or a stutter, so that this holds next to a client |
| | `OneConnection`; `LoopImplementsClient`, `LoopTellsInOrder`, `LoopKeepsWhole`, `LoopEndsComplete` | the hooks so far are in order and say which of `connecting`, `connected`, `established` and the registration can hold; each step of the loop is a step of the client or a stutter. Up to the second `connect()` of a client, which the code does not refuse: afterwards the properties are false (see the experiments). `LoopEndsComplete` is about established connections that end by a disconnect: `mumble.stop`, a failed handshake and, for the handles, an end before TCP was connected are excepted, and the TCP handle stays open (`SocketIsClosed`) |
| | `DispatchMeetsAll` if `CallGives = FALSE` | the stack below a dispatch is as it was; the functions still to come are those registered at the start, less the removed and the called. A function that returns a value to `client:call` refutes it (see the experiments) |
| `SessionProofs` | `ConnectionImplementsPings`, `VoiceIsAnswered` | each step of a connection is a step of `UdpPing` or a stutter; until a counter reaches the fallback it has not wrapped |
| | `ConnectionImplementsAudio`, `VoiceFits` | likewise of `Bandwidth`; the loop that lowers the bitrate ends at the first one at which it may stop, and a higher one needs no less bandwidth |
| | `ConnectionImplementsRequests`, `RequestsAreHeardInOrder`, `RequestsAreMeant` | likewise of `Requests`. Every call is shown, method by method, to pack a message that the server obeys by doing what the README says (`Fulfils`), or to be marked as one that does not. A message OpenSSL keeps is later than all that were heard, and the server is behind what was wished by that message only (`Obeyed`), which TLC confirmed as an invariant of `Session`. A message that was cut leaves nothing to be heard after it, and whether the client records is what `recorded` says unless a recorded user left (`RecordingTold` is false) |

`ListAndModTheorems` holds the lemmas that several proofs need: adding, removing and
looking up the nodes of a list of any length, and when counters that wrap are equal.
The pipes and the client are proved alone and then carried into `MainLoop` by
refinement. The constants' assumptions are the named `ASSUME`s of the modules:
buffers have at least one cell, twice the window fits in a round (60 and 256 in the
code), at least one dispatch fits, and the special values are no streams, timers,
callbacks or keys. What a script writes to a buffer are strings of up to 255 bytes and
numbers of up to 31 bits, their complements and the widest ones; `NumbersReadBack`
itself is about all of 64 bits. Of `ChannelTree` the root is a channel and no channel is
called `.` or `..`. Of `ServerState` users and channels are finite sets (numbers of 32
bits), and `None` is none of them and no user's record.

Only model-checked:

- everything temporal beyond safety (release, delivery, shutdown, fallback): liveness
  under fairness is beyond the prover.

Every invariant of the runs is stated by a theorem, under the hypotheses that the table
names.

## Plan

The order of work, the most important behaviour first. Done: streams, ring,
pipeline, crypt state, pings, packet reader, workers, server state, timers, client
life cycle, buffers and numbers, pipes, hooks, the channel tree, bandwidth and
requests, and three compositions. To come:

1. Composition: `AudioStreams` with the shutdown of `ClientLifecycle` (a disconnect
   inside the mixing loop), and `CryptState` with `UdpPing` over one UDP path. They
   would take the place of the runs they include.

## Not modelled

- Mixing, resampling, Opus and file decoding: arithmetic on samples. What of their
  outcome a decision depends on is an input of `AudioPipeline`.
- The cipher of `ocb.c`, TLS, libuv, Lua's collector: external, modelled by what the
  code relies on.
- The remaining packet handlers (which only call a hook with the packet's fields),
  `banentry.c`, `encoder.c`, `decoder.c`: no state of their own.
- Of requests: `target:setLinks` and `setChildren`, two more fields like those that are
  modelled; calls whose arguments raise an error.
- The files of recordings, logging, stack traces and certificates: input and output.
