---------------------------- MODULE ClientLifecycle ----------------------------
(***************************************************************************)
(* The life of one mumble.client: created, connected, disconnected by the  *)
(* server, by the network, by the script in whatever hook, by mumble.stop  *)
(* or by the collector; with its libuv handles, its three threads, the     *)
(* registry reference that keeps it, and the hooks that tell the script.   *)
(*                                                                         *)
(* libuv and OpenSSL are external.  A TCP handle that is not being read is *)
(* not "active" for uv_is_active, and one that is being connected is so or *)
(* not with the version; the connect request that mumble.c:924 casts to a  *)
(* handle is taken to be inactive.  What goes over the connection is left  *)
(* to the other modules.                                                   *)
(***************************************************************************)
EXTENDS Integers, Sequences

CONSTANT MaxConnects   \* bound: the calls of connect()

ASSUME ConnectsAssumption == MaxConnects \in Nat

VARIABLES
    connecting, connected,  \* the flags of MumbleClient
    self,       \* in MUMBLE_CLIENTS and in mumble_clients
    threads,    \* its threads run, its mutexes and OpenSSL objects exist
    handles,    \* its libuv handles
    pending,    \* uv_tcp_connect has not called back
    life, held, \* its memory; the script has it in a variable
    stack,      \* the hooks the main thread is in, the innermost last
    connects,   \* ghost: how often connect() was called
    hooks,      \* ghost: the hooks that were called, one for each of a row
    established,    \* ghost: connect() returned true
    abandoned,  \* ghost: cleaned up without a disconnect, or stopped
    early,      \* ghost: cleaned up while TCP was connecting
    fault       \* a handle, a thread, a lock was used before or after its life

flags  == <<connecting, connected, self>>
memory == <<life, held>>
ghosts == <<connects, established, abandoned, early>>
vars == <<flags, threads, handles, pending, memory, stack, hooks, ghosts, fault>>

Handles == {"tcp", "udp", "poll", "timer", "async"}
States  == {"none", "idle", "active", "closing", "closed"}

(* mumble_client_new: the threads run from the start.                      *)
Init ==
    /\ connecting = FALSE /\ connected = FALSE /\ self = FALSE
    /\ threads = TRUE
    /\ handles = [h \in Handles |-> IF h = "async" THEN "active" ELSE "none"]
    /\ pending = FALSE
    /\ life = "live" /\ held = TRUE
    /\ stack = <<>> /\ hooks = <<>>
    /\ connects = 0 /\ established = FALSE /\ abandoned = FALSE /\ early = FALSE
    /\ fault = FALSE

-----------------------------------------------------------------------------
(* mumble_hook_call: a client that is not registered calls no hook.  One   *)
(* call here is that of every function the script put under the name.      *)

Recorded(hook) ==
    IF hook = "OnEvent" /\ hooks # <<>> /\ hooks[Len(hooks)] = hook
    THEN hooks ELSE Append(hooks, hook)

(* Defect: hooks are called whether the client is registered or not.       *)
CalledAnyway(under, hook) ==
    /\ stack' = Append(under, hook)
    /\ hooks' = Recorded(hook)

(* The hook is called with those under it on the stack.                    *)
Called(under, hook) ==
    IF self THEN stack' = Append(under, hook) /\ hooks' = Recorded(hook)
    ELSE stack' = under /\ UNCHANGED hooks

(* What mumble_client_cleanup closes: what uv_is_active says is active.    *)
ClosedByCleanup(h) == handles[h] = "active"

(* mumble_client_cleanup: handles, streams, users, channels, and at last   *)
(* the registration.                                                       *)
Cleanup ==
    /\ \E tcp \in IF pending THEN BOOLEAN ELSE {FALSE} :
        handles' = [h \in Handles |->
            IF ClosedByCleanup(h) \/ (h = "tcp" /\ tcp /\ handles[h] = "idle")
            THEN "closing" ELSE handles[h]]
    /\ self' = FALSE
    /\ early' = (early \/ pending)

(* mumble_client_new gives ssl_poll no value, and mumble_client_cleanup    *)
(* asks uv_is_active of it (mumble.c:928) before TCP has been connected.   *)
NoPoll == handles["poll"] = "none"

(* mumble_client_free joins threads that run: a second call finds none.    *)
(* It may go wrong if something that it or the clean-up reads was never    *)
(* given a value.                                                          *)
Free(unset) ==
    /\ threads' = FALSE
    /\ fault' \in {~threads, ~threads \/ unset}

FlagsCleared == connecting' = FALSE /\ connected' = FALSE

(* Defect: the client is cleaned up before the hook, and so not            *)
(* registered then.                                                        *)
DisconnectQuietly ==
    /\ FlagsCleared
    /\ Cleanup /\ Free(NoPoll)
    /\ UNCHANGED <<stack, hooks>>

(* mumble_disconnect, of a client that is connecting; up to OnDisconnect,  *)
(* or to the end if that hook is ignored.                                  *)
Disconnect ==
    /\ FlagsCleared
    /\ Called(stack, "OnDisconnect")
    /\ IF self THEN UNCHANGED <<self, handles, early, threads, fault>>
       ELSE Cleanup /\ Free(NoPoll)

(* Defect: it returns at once if the client is not connected.              *)
Connected == connected

(* ... which returns at once if the client is not connecting.              *)
Connecting == connecting

Disconnected ==
    IF Connecting THEN Disconnect
    ELSE UNCHANGED <<flags, threads, handles, stack, hooks, early, fault>>

Top == IF stack = <<>> THEN "loop" ELSE stack[Len(stack)]

Pop == SubSeq(stack, 1, Len(stack) - 1)

(* Defect: the threads are not stopped.                                    *)
DisconnectReturnOnly ==
    /\ Top = "OnDisconnect" /\ stack' = Pop
    /\ Cleanup
    /\ UNCHANGED <<connecting, connected, pending, memory, hooks, threads, fault>>
    /\ UNCHANGED <<connects, established, abandoned>>

(* OnDisconnect returns to mumble_disconnect.                              *)
DisconnectReturn ==
    /\ Top = "OnDisconnect" /\ stack' = Pop
    /\ Cleanup /\ Free(NoPoll)
    /\ UNCHANGED <<connecting, connected, pending, memory, hooks>>
    /\ UNCHANGED <<connects, established, abandoned>>

-----------------------------------------------------------------------------
(* The script, in the main program, a timer or a hook.                     *)

Has == life = "live" /\ (held \/ stack # <<>>)

(* Defect: the client does not register itself.                            *)
Unregistered == UNCHANGED self

Registered == self' = TRUE

Counted == connects < MaxConnects /\ connects' = connects + 1

Connect ==
    /\ Has /\ Counted
    /\ Registered /\ connecting' = TRUE
    /\ handles' = [handles EXCEPT !["tcp"] = "idle", !["udp"] = "active", !["timer"] = "idle"]
    /\ pending' = TRUE
    /\ established' = TRUE
    /\ UNCHANGED <<connected, threads, memory, stack, hooks, abandoned, early, fault>>

(* connect() returns false, before or after the handles are initialised    *)
(* and the connection is started.  Before that, it leaves without a value  *)
(* some of crypt, ssl, ssl_context, server_host_udp, server_host_tcp and   *)
(* decoder, which mumble_client_free asks for (mumble.c:869-897).          *)
ConnectFails ==
    /\ Has /\ Counted
    /\ \E late, starts \in BOOLEAN :
        /\ handles' = IF late THEN [handles EXCEPT !["tcp"] = "idle", !["udp"] = "idle"]
                              ELSE handles
        /\ pending' = (late /\ starts)
        /\ Free(~late)
    /\ UNCHANGED <<flags, memory, stack, hooks, established, abandoned, early>>

(* client_disconnect.                                                      *)
ScriptDisconnects ==
    /\ Has /\ connecting
    /\ Disconnect
    /\ UNCHANGED <<pending, memory, connects, established, abandoned>>

Forget ==
    /\ held /\ held' = FALSE
    /\ UNCHANGED <<flags, threads, handles, pending, life, stack, hooks, ghosts, fault>>

(* mumble.stop and SIGINT: mumble_close cleans up the clients it finds in  *)
(* mumble_clients, and closes every handle of the loop.                    *)
Stop ==
    /\ life = "live"
    /\ handles' = [h \in Handles |-> IF handles[h] \in {"idle", "active"} THEN "closing" ELSE handles[h]]
    /\ self' = FALSE
    /\ abandoned' = TRUE
    /\ early' = (early \/ pending)
    /\ fault' \in {FALSE, self /\ NoPoll}
    /\ UNCHANGED <<connecting, connected, threads, pending, memory, stack, hooks, connects, established>>

Script == Connect \/ ConnectFails \/ ScriptDisconnects \/ Forget \/ Stop

-----------------------------------------------------------------------------
(* The event loop.                                                         *)

Loop(h, state) == stack = <<>> /\ life # "freed" /\ handles[h] = state

(* mumble_connected_tcp, which does not ask whether the client still is    *)
(* connecting.                                                             *)
TcpConnected ==
    /\ Loop("tcp", "idle") /\ pending /\ pending' = FALSE
    /\ handles' = [handles EXCEPT !["poll"] = "active"]
    /\ UNCHANGED <<flags, threads, memory, stack, hooks, ghosts, fault>>

TcpFails ==
    /\ Loop("tcp", "idle") /\ pending /\ pending' = FALSE
    /\ Disconnected
    /\ UNCHANGED <<memory, connects, established, abandoned>>

(* socket_write_event_tcp: the handshake is over, and OnConnect is called. *)
Handshake ==
    /\ Loop("poll", "active") /\ ~connected
    /\ IF threads
       THEN connected' = TRUE /\ Called(stack, "OnConnect") /\ UNCHANGED fault
       ELSE fault' = TRUE /\ UNCHANGED <<connected, stack, hooks>>
    /\ UNCHANGED <<connecting, self, threads, handles, pending, memory, ghosts>>

(* A handshake that fails does not disconnect the client.                  *)
HandshakeFails ==
    /\ Loop("poll", "active") /\ ~connected /\ threads
    /\ Cleanup
    /\ abandoned' = TRUE
    /\ UNCHANGED <<connecting, connected, threads, pending, memory, stack, hooks>>
    /\ UNCHANGED <<connects, established, fault>>

(* After OnConnect the socket is polled for packets; uv_poll_start asserts *)
(* that the handle was not closed.                                         *)
ConnectReturn ==
    /\ Top = "OnConnect" /\ stack' = Pop
    /\ fault' = (handles["poll"] # "active")
    /\ UNCHANGED <<flags, threads, handles, pending, memory, hooks, ghosts>>

(* A packet, a ping or a frame of audio is handled, with hooks; a          *)
(* ServerSync starts the timer of the pings.                               *)
Event(h, syncs) ==
    /\ Loop(h, "active") /\ h # "tcp" /\ connected
    /\ handles' = IF syncs /\ h = "poll" /\ handles["timer"] = "idle"
                  THEN [handles EXCEPT !["timer"] = "active"] ELSE handles
    /\ Called(stack, "OnEvent")
    /\ UNCHANGED <<flags, threads, pending, memory, ghosts, fault>>

(* What the handler goes on with after a hook may have been freed in it,   *)
(* by a disconnect: a ping writes to the TLS session (mumble.c:166,        *)
(* packet.c:234) and asks the key (mumble.c:170), and the mixer locks      *)
(* inner_mutex (audio.c:1010).  Other handlers use nothing of the kind.    *)
GoesOn == fault' \in {FALSE, ~threads}

(* The handler goes on after a hook, and may call another one.             *)
EventContinues ==
    /\ Top = "OnEvent" /\ stack' = Pop
    /\ GoesOn
    /\ UNCHANGED <<flags, threads, handles, pending, memory, hooks, ghosts>>

EventCallsAgain ==
    /\ Top = "OnEvent"
    /\ GoesOn /\ Called(Pop, "OnEvent")
    /\ UNCHANGED <<flags, threads, handles, pending, memory, ghosts>>

(* The socket fails, or the server closes the connection.                  *)
SocketFails ==
    /\ Loop("poll", "active")
    /\ Disconnected
    /\ UNCHANGED <<pending, memory, connects, established, abandoned>>

(* The end of an iteration.  A connect that is pending is cancelled then,  *)
(* and reported to mumble_connected_tcp.                                   *)
Closed(h) ==
    /\ Loop(h, "closing")
    /\ IF h = "tcp" /\ pending /\ connecting
       THEN /\ FlagsCleared
            /\ Free(NoPoll)
            /\ handles' = [g \in Handles |-> IF g = h THEN "closed"
                                             ELSE IF ClosedByCleanup(g) THEN "closing" ELSE handles[g]]
       ELSE /\ handles' = [handles EXCEPT ![h] = "closed"]
            /\ UNCHANGED <<connecting, connected, threads, fault>>
    /\ pending' = (pending /\ h # "tcp")
    /\ UNCHANGED <<self, memory, stack, hooks, ghosts>>

EventLoop ==
    \/ TcpConnected \/ TcpFails \/ Handshake \/ HandshakeFails \/ ConnectReturn
    \/ \E h \in Handles, syncs \in BOOLEAN : Event(h, syncs)
    \/ EventContinues \/ EventCallsAgain \/ SocketFails \/ DisconnectReturn
    \/ \E h \in Handles : Closed(h)

-----------------------------------------------------------------------------
(* The collector.                                                          *)

Referenced == held \/ self \/ stack # <<>>

(* client_gc: a client that is connecting is disconnected, without a hook. *)
Collect ==
    /\ life = "live" /\ ~Referenced
    /\ life' = "finalized"
    /\ IF Connecting THEN FlagsCleared /\ Cleanup /\ Free(NoPoll)
       ELSE UNCHANGED <<flags, handles, early, threads, fault>>
    /\ UNCHANGED <<pending, held, stack, hooks, connects, established, abandoned>>

FreeMemory ==
    /\ life = "finalized" /\ life' = "freed"
    /\ UNCHANGED <<flags, threads, handles, pending, held, stack, hooks, ghosts, fault>>

(* A thread, or libuv by a handle that it still lists, reaches the memory. *)
Reached ==
    /\ life = "freed"
    /\ threads \/ \E h \in Handles : handles[h] \notin {"none", "closed"}
    /\ fault' = TRUE
    /\ UNCHANGED <<flags, threads, handles, pending, memory, stack, hooks, ghosts>>

Next == ~fault /\ (Script \/ EventLoop \/ Collect \/ FreeMemory \/ Reached)

Spec == Init /\ [][Next]_vars

-----------------------------------------------------------------------------
HookNames == {"OnConnect", "OnEvent", "OnDisconnect"}

(* Hooks nest at most twice, OnDisconnect in the one that disconnects, and *)
(* the handle of the audio clock exists from the start.                    *)
TypeOK ==
    /\ connecting \in BOOLEAN /\ connected \in BOOLEAN /\ self \in BOOLEAN
    /\ threads \in BOOLEAN
    /\ handles \in [Handles -> States] /\ handles["async"] # "none"
    /\ pending \in BOOLEAN
    /\ life \in {"live", "finalized", "freed"} /\ held \in BOOLEAN
    /\ stack \in Seq(HookNames) /\ Len(stack) <= 2 /\ hooks \in Seq(HookNames)
    /\ connects \in 0 .. MaxConnects
    /\ established \in BOOLEAN /\ abandoned \in BOOLEAN /\ early \in BOOLEAN
    /\ fault \in BOOLEAN

(* The script hears OnConnect first and once, OnDisconnect last and once,  *)
(* whatever it does in its hooks and whatever handler is still on the      *)
(* stack when it disconnects (mumble.c:1049, 989).                         *)
HooksInOrder ==
    /\ TypeOK
    /\ \A k \in DOMAIN hooks :
        /\ hooks[k] = "OnConnect" => k = 1
        /\ hooks[k] = "OnDisconnect" => k = Len(hooks)
        /\ hooks[k] = "OnEvent" => hooks[1] = "OnConnect"

(* While a client is connecting or connected the script may forget it: it  *)
(* stays registered and alive, its threads run, and no handle is closed.   *)
WholeWhileWorking ==
    connecting /\ ~abandoned =>
        /\ self /\ life = "live" /\ threads
        /\ \A h \in Handles : handles[h] \notin {"closing", "closed"}

(* A disconnect is complete when OnDisconnect has returned, whoever        *)
(* disconnects the client and on whatever stack: it is in no list, its     *)
(* threads have ended (mumble.c:1008), and no handle calls back into it    *)
(* any more.  Not so after an end that came while TCP was connecting.  The *)
(* memory of a client on which connect() was called, with success or not,  *)
(* is not freed before its threads ended (mumble.c:899-911, client.c:999). *)
(* A connection of which the script was told does not end without          *)
(* OnDisconnect (README.md:1118), except by mumble.stop.                   *)
EndIsComplete ==
    /\ hooks # <<>> /\ ~self /\ ~abandoned => hooks[Len(hooks)] = "OnDisconnect"
    /\ connects > 0 /\ life # "live" => ~threads
    /\ established /\ ~connecting /\ (\A k \in DOMAIN stack : stack[k] # "OnDisconnect") =>
        ~self /\ ~threads
    /\ established /\ ~self /\ ~early => \A h \in Handles : handles[h] # "active"

(* README.md:1118, OnDisconnect: "Called when the connection to the server *)
(* is disconnected for any reason."                                        *)
EveryEndIsTold ==
    established /\ ~self => hooks # <<>> /\ hooks[Len(hooks)] = "OnDisconnect"

(* README.md:143: disconnect() closes the TCP connection.                  *)
SocketIsClosed ==
    established /\ ~connecting /\ stack = <<>> => handles["tcp"] \in {"closing", "closed"}

(* Nothing is used before its beginning or after its end.                  *)
NoFault == ~fault
=============================================================================
