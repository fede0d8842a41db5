-------------------------------- MODULE LuaPipe --------------------------------
(***************************************************************************)
(* mumble.pipe (pipe.c): a Lua object that reads a named pipe through a    *)
(* libuv handle and gives what it reads to a callback.  At the end of file *)
(* the handle is closed and, at the end of the iteration, another one is   *)
(* opened in its place.  The registry table MUMBLE_PIPE_REG keeps the      *)
(* object and its callback until it is closed.                             *)
(*                                                                         *)
(* The processes that write to the pipe are external.  The script, the     *)
(* event loop and the collector take turns in one thread.                  *)
(***************************************************************************)
EXTENDS Integers

CONSTANTS
    Pipes,
    None        \* no pipe

VARIABLES
    self, callback, \* are they in MUMBLE_PIPE_REG?
    handle,     \* the uv_pipe_t that lpipe->pipe points to
    life, held, \* the memory of the object; the script has it in a variable
    input,      \* what the next read finds
    running,    \* the pipe whose callback runs
    ended,      \* ghost: closed, failed, or closed by mumble.stop
    stopped,    \* ghost: closed by mumble.stop, and not by the script since
    revived,    \* ghost: opened again after it had been closed
    fault       \* freed memory was used

object == <<self, callback, handle>>
memory == <<life, held>>
ghosts == <<ended, stopped, revived>>
vars == <<object, memory, input, running, ghosts, fault>>

(* "closing" ends in mumble_pipe_close_cb, "ending" in mumble_pipe_reopen, *)
(* and a handle that mumble.stop closes has no callback.                   *)
HandleStates == {"none", "reading", "closing", "ending", "stopping", "closed", "freed"}

Init ==
    /\ self = [p \in Pipes |-> FALSE] /\ callback = [p \in Pipes |-> FALSE]
    /\ handle = [p \in Pipes |-> "none"]
    /\ life = [p \in Pipes |-> "none"] /\ held = [p \in Pipes |-> FALSE]
    /\ input = [p \in Pipes |-> "nothing"]
    /\ running = None
    /\ ended = [p \in Pipes |-> FALSE] /\ stopped = [p \in Pipes |-> FALSE]
    /\ revived = [p \in Pipes |-> FALSE]
    /\ fault = FALSE

-----------------------------------------------------------------------------
(* mumble_pipe_new, when it does not fail.                                 *)
New(p) ==
    /\ life[p] = "none"
    /\ life' = [life EXCEPT ![p] = "live"] /\ held' = [held EXCEPT ![p] = TRUE]
    /\ self' = [self EXCEPT ![p] = TRUE] /\ callback' = [callback EXCEPT ![p] = TRUE]
    /\ handle' = [handle EXCEPT ![p] = "reading"]
    /\ UNCHANGED <<input, running, ghosts, fault>>

(* Defect: the callback stays in the registry.                             *)
CloseKeepsCallback(p, handleThen) ==
    /\ handle' = [handle EXCEPT ![p] = handleThen]
    /\ self' = [self EXCEPT ![p] = FALSE]
    /\ UNCHANGED callback
    /\ ended' = [ended EXCEPT ![p] = TRUE] /\ stopped' = [stopped EXCEPT ![p] = FALSE]

CloseTo(p, handleThen) ==
    /\ handle' = [handle EXCEPT ![p] = handleThen]
    /\ self' = [self EXCEPT ![p] = FALSE]
    /\ callback' = [callback EXCEPT ![p] = FALSE]
    /\ ended' = [ended EXCEPT ![p] = TRUE] /\ stopped' = [stopped EXCEPT ![p] = FALSE]

(* mumble_pipe_close: a handle that is closing already is left to go on.   *)
mumble_pipe_close(p) == CloseTo(p, IF handle[p] = "reading" THEN "closing" ELSE handle[p])

-----------------------------------------------------------------------------
(* The script.                                                             *)

Has(p) == life[p] = "live" /\ held[p]

(* pipe_close.  The handle's memory is freed when it is closed, and the    *)
(* pointer to it stays: a second call uses it.                             *)
Close(p) ==
    /\ Has(p)
    /\ IF handle[p] = "freed"
       THEN fault' = TRUE /\ UNCHANGED <<object, ended, stopped>>
       ELSE mumble_pipe_close(p) /\ UNCHANGED fault
    /\ UNCHANGED <<memory, input, running, revived>>

Forget(p) ==
    /\ held[p] /\ held' = [held EXCEPT ![p] = FALSE]
    /\ UNCHANGED <<object, life, input, running, ghosts, fault>>

(* stop_then_close, of every handle (mumble.c:1947).  MUMBLE_PIPE_REG is   *)
(* left as it is.                                                          *)
Stop ==
    /\ handle' = [p \in Pipes |-> IF handle[p] = "reading" THEN "stopping" ELSE handle[p]]
    /\ ended' = [p \in Pipes |-> ended[p] \/ handle[p] = "reading"]
    /\ stopped' = [p \in Pipes |-> stopped[p] \/ handle[p] = "reading"]
    /\ UNCHANGED <<self, callback, memory, input, running, revived, fault>>

-----------------------------------------------------------------------------
(* The writers: data, and the end of file when the last one has gone.      *)
Write(p) ==
    /\ input[p] = "nothing" /\ life[p] # "none"
    /\ \E what \in {"data", "end"} : input' = [input EXCEPT ![p] = what]
    /\ UNCHANGED <<object, memory, running, ghosts, fault>>

(* The event loop.  A handle points to its object with `data`.             *)

Uses(p, continue) ==
    IF life[p] = "live" THEN continue /\ UNCHANGED fault
    ELSE fault' = TRUE /\ UNCHANGED <<object, ghosts, running>>

Reads(p, what) ==
    /\ running = None /\ handle[p] = "reading" /\ input[p] = what
    /\ input' = [input EXCEPT ![p] = "nothing"]
    /\ UNCHANGED memory

(* Data: the callback is called, if there is one.                          *)
ReadData(p) ==
    /\ Reads(p, "data")
    /\ Uses(p, /\ running' = IF callback[p] THEN p ELSE None
               /\ UNCHANGED <<object, ghosts>>)

Return ==
    /\ running # None /\ running' = None
    /\ UNCHANGED <<object, memory, input, ghosts, fault>>

(* Defect: the end of file is treated as an error.                         *)
EndIsError(p) == "closing"

AtEnd(p) == "ending"

(* UV_EOF: the handle is closed, to be opened again.                       *)
ReadEnd(p) ==
    /\ Reads(p, "end")
    /\ Uses(p, /\ handle' = [handle EXCEPT ![p] = AtEnd(p)]
               /\ UNCHANGED <<self, callback, ghosts, running>>)

ReadError(p) ==
    /\ running = None /\ handle[p] = "reading"
    /\ Uses(p, mumble_pipe_close(p) /\ UNCHANGED <<revived, running>>)
    /\ UNCHANGED <<memory, input>>

(* The end of an iteration: mumble_pipe_close_cb, mumble_pipe_reopen, or   *)
(* no callback.                                                            *)
AtClosing(p, state) == running = None /\ handle[p] = state /\ UNCHANGED <<memory, input>>

Closed(p) ==
    /\ AtClosing(p, "closing")
    /\ Uses(p, /\ handle' = [handle EXCEPT ![p] = "freed"]
               /\ UNCHANGED <<self, callback, ghosts, running>>)

(* It does not ask whether the pipe was closed in the meantime.            *)
Reopened(p) ==
    /\ AtClosing(p, "ending")
    /\ Uses(p, /\ handle' = [handle EXCEPT ![p] = "reading"]
               /\ revived' = [revived EXCEPT ![p] = ended[p]]
               /\ UNCHANGED <<self, callback, ended, stopped, running>>)

(* ... or there is no memory, or the named pipe cannot be opened, or not   *)
(* be read.  Unless it comes to that first or last one, the new uv_pipe_t  *)
(* is freed while the loop has it in its queue of handles (pipe.c:51, 57,  *)
(* 67).                                                                    *)
ReopenFails(p) ==
    /\ AtClosing(p, "ending")
    /\ CloseTo(p, "closed")
    /\ \E queued \in BOOLEAN : fault' = (queued \/ life[p] # "live")
    /\ UNCHANGED <<revived, running>>

Stopped(p) ==
    /\ AtClosing(p, "stopping")
    /\ handle' = [handle EXCEPT ![p] = "closed"]
    /\ UNCHANGED <<self, callback, running, ghosts, fault>>

Loop(p) ==
    \/ ReadData(p) \/ ReadEnd(p) \/ ReadError(p)
    \/ Closed(p) \/ Reopened(p) \/ ReopenFails(p) \/ Stopped(p)

-----------------------------------------------------------------------------
(* The collector: pipe_gc, and the memory.                                 *)

Collect(p) ==
    /\ life[p] = "live" /\ ~held[p] /\ ~self[p]
    /\ life' = [life EXCEPT ![p] = "finalized"]
    /\ UNCHANGED <<object, held, input, running, ghosts, fault>>

FreeMemory(p) ==
    /\ life[p] = "finalized"
    /\ life' = [life EXCEPT ![p] = "freed"]
    /\ UNCHANGED <<object, held, input, running, ghosts, fault>>

Script(p) == New(p) \/ Close(p) \/ Forget(p)

Next ==
    /\ ~fault
    /\ \/ Return \/ Stop
       \/ \E p \in Pipes : Script(p) \/ Write(p) \/ Loop(p) \/ Collect(p) \/ FreeMemory(p)

Spec == Init /\ [][Next]_vars

-----------------------------------------------------------------------------
TypeOK ==
    /\ self \in [Pipes -> BOOLEAN] /\ callback \in [Pipes -> BOOLEAN]
    /\ handle \in [Pipes -> HandleStates]
    /\ life \in [Pipes -> {"none", "live", "finalized", "freed"}] /\ held \in [Pipes -> BOOLEAN]
    /\ input \in [Pipes -> {"nothing", "data", "end"}]
    /\ running \in Pipes \cup {None}
    /\ ended \in [Pipes -> BOOLEAN] /\ stopped \in [Pipes -> BOOLEAN]
    /\ revived \in [Pipes -> BOOLEAN] /\ fault \in BOOLEAN

(* A pipe goes on reading for its callback, across ends of file and        *)
(* whether the script keeps it or not, until it is closed, by close(), by  *)
(* an error, by a new handle that fails or by mumble.stop.  From then on   *)
(* it reads no more, unless the close came between an end of file and the  *)
(* new handle (pipe.c:38); and nothing keeps it, except one that           *)
(* mumble.stop closed: it stays in MUMBLE_PIPE_REG until the script calls  *)
(* close() upon it (mumble.c:1947, pipe.c:24-31).                          *)
OpenOrGone ==
    \A p \in Pipes : life[p] # "none" =>
        /\ ~ended[p] => /\ self[p] /\ callback[p] /\ life[p] = "live"
                        /\ handle[p] \in {"reading", "ending"}
        /\ ended[p] /\ ~stopped[p] => ~self[p] /\ ~callback[p]
        /\ ended[p] /\ ~revived[p] => handle[p] # "reading"

(* The loop uses no freed memory: not so after a second close(), for an    *)
(* object that is collected before its handle is closed, for one that is   *)
(* closed between an end of file and the new handle, and for a new handle  *)
(* that fails after it was initialised.                                    *)
NoUseAfterFree == ~fault
=============================================================================
