------------------------------- MODULE MainLoop -------------------------------
(***************************************************************************)
(* The main thread: a client and pipes under one event loop.  A callback   *)
(* of either ends before the loop begins another one; in it the script may *)
(* call into both, so that a disconnect may begin and end in the callback  *)
(* of a pipe.  mumble.stop and signals end both together.                  *)
(*                                                                         *)
(* The hook OnEvent of ClientLifecycle, which stands for all hooks of      *)
(* packets and audio, is dispatched to several functions as in HookTable,  *)
(* each of which may do what a hook may.                                   *)
(***************************************************************************)
EXTENDS ClientLifecycle

CONSTANTS
    Pipes, None, Keys, CallGives, MaxDepth,
    Mixes       \* bound: what a behaviour may have besides the client

ASSUME DepthAssumption == MaxDepth \in Nat \ {0}

ASSUME MixesAssumption == Mixes \subseteq SUBSET {"pipes", "functions"}

VARIABLES
    pipeSelf, callback, handle, pipeLife, pipeHeld,
    input, running, ended, stopped, revived, pipeFault,
    table, frames, broken,
    mix         \* the bound of this behaviour: pipes, several functions

Pipe == INSTANCE LuaPipe WITH
    self <- pipeSelf, life <- pipeLife, held <- pipeHeld, fault <- pipeFault

pipeVars == <<pipeSelf, callback, handle, pipeLife, pipeHeld, input, running, ended, stopped, revived, pipeFault>>

Hooks == INSTANCE HookTable

hookVars == <<table, frames, broken>>
allVars  == <<vars, pipeVars, hookVars, mix>>

LoopInit ==
    /\ Init /\ Pipe!Init /\ Hooks!NoDispatch
    /\ mix \in Mixes /\ ("functions" \notin mix => \E k \in Keys : table = {k})

-----------------------------------------------------------------------------
(* OnEvent is called: the functions of its table are.                      *)
Dispatches ==
    IF \E k \in DOMAIN stack' : k > Len(stack) /\ stack'[k] = "OnEvent"
    THEN Hooks!Begins(FALSE) ELSE UNCHANGED frames

(* A handler of the client begins, or goes on when the functions of its    *)
(* hook have returned, or OnDisconnect in one of them.                     *)
HandlerBegins ==
    /\ running = None
    /\ \/ TcpConnected \/ TcpFails \/ Handshake \/ HandshakeFails \/ SocketFails
       \/ \E h \in Handles, syncs \in BOOLEAN : Event(h, syncs)
       \/ \E h \in Handles : Closed(h)

HandlerGoesOn ==
    \/ ConnectReturn \/ DisconnectReturn
    \/ Hooks!Idle /\ EventContinues

ClientRuns ==
    /\ (HandlerBegins /\ Dispatches) \/ (HandlerGoesOn /\ UNCHANGED frames)
    /\ UNCHANGED <<pipeVars, table, broken>>

HandlerCallsAgain ==
    /\ Hooks!Idle /\ EventCallsAgain
    /\ Hooks!Begins(FALSE)
    /\ UNCHANGED <<pipeVars, table, broken>>

(* The dispatch of OnEvent goes on, unless one of its functions waits for  *)
(* OnDisconnect.                                                           *)
HookRuns ==
    /\ Top = "OnEvent"
    /\ \/ Hooks!Turn \/ Hooks!Ends \/ Hooks!Raises
       \/ "functions" \in mix /\ Hooks!Call
       \/ \E gives \in BOOLEAN : Hooks!Returns(gives)
    /\ UNCHANGED <<vars, pipeVars>>

(* In the hook OnEvent the script runs in one of its functions only.       *)
InScript == Top = "OnEvent" => Hooks!Runs

ScriptHooks ==
    /\ "functions" \in mix /\ life = "live" /\ InScript
    /\ \E k \in Keys : Hooks!Hook(k) \/ Hooks!Unhook(k)
    /\ UNCHANGED <<vars, pipeVars>>

PipeRuns(p) == stack = <<>> /\ Pipe!Loop(p) /\ UNCHANGED <<vars, hookVars>>

(* The callback of a pipe returns, and with it every hook it caused.       *)
PipeReturns == stack = <<>> /\ Pipe!Return /\ UNCHANGED <<vars, hookVars>>

(* mumble_close: the clients, and then every handle of the loop.           *)
StopAll ==
    /\ InScript
    /\ Pipe!Stop
    /\ IF life = "live" THEN Stop ELSE UNCHANGED vars
    /\ UNCHANGED hookVars

CallsClient == InScript /\ (Connect \/ ConnectFails \/ ScriptDisconnects \/ Forget)

ClientAlone ==
    /\ CallsClient \/ Collect \/ FreeMemory \/ Reached
    /\ UNCHANGED <<pipeVars, hookVars>>

PipeAlone(p) ==
    /\ \/ "pipes" \in mix /\ InScript /\ Pipe!Script(p)
       \/ Pipe!Write(p) \/ Pipe!Collect(p) \/ Pipe!FreeMemory(p)
    /\ UNCHANGED <<vars, hookVars>>

LoopNext ==
    /\ ~fault /\ ~pipeFault /\ broken = "no"
    /\ \/ ClientRuns \/ HandlerCallsAgain \/ HookRuns \/ ScriptHooks \/ ClientAlone
       \/ PipeReturns \/ StopAll
       \/ \E p \in Pipes : PipeRuns(p) \/ PipeAlone(p)
    /\ UNCHANGED mix

LoopSpec == LoopInit /\ [][LoopNext]_allVars

-----------------------------------------------------------------------------
(* LuaPipe's property: in the company of a client that comes and goes, a   *)
(* pipe reads on for its callback until it is closed, and is let go then,  *)
(* unless it was mumble.stop that closed it (pipe.c:18, 38).               *)
PipeOpenOrGone == Pipe!TypeOK /\ Pipe!OpenOrGone

(* HookTable's property, with functions that disconnect the client:        *)
(* what stays registered is called, what was removed is not, and lua_next  *)
(* finds its key (mumble.c:1079, 1143, client.c:536).                      *)
HookDispatch ==
    /\ []Hooks!TypeOK
    /\ [][ /\ Len(frames') < Len(frames) /\ ~Hooks!Top.added =>
               Hooks!Top.start \ Hooks!Top.gone \subseteq Hooks!Top.seen
           /\ \A i \in DOMAIN frames \cap DOMAIN frames' :
               frames'[i].seen \ frames[i].seen \subseteq table
           /\ broken' # "found" ]_allVars
=============================================================================
