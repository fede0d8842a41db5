------------------------------- MODULE HookTable -------------------------------
(***************************************************************************)
(* How mumble_hook_call_ret calls the functions that the script has put    *)
(* under the name of one hook: it goes through their table with lua_next,  *)
(* while those functions add and remove functions, call the hook again     *)
(* (client:call) or disconnect the client.                                 *)
(*                                                                         *)
(* lua_next is external: it goes on from the key it finds on Lua's stack,  *)
(* in the table below it, meets each key once in an order of its own, and  *)
(* leaves out one whose value was cleared.  When a key was added since, it *)
(* may do anything.  The stack is a sequence of the kinds of its values,   *)
(* from the first argument of the hook up.                                 *)
(***************************************************************************)
EXTENDS Integers, SequencesExt

CONSTANTS
    Keys,       \* the names given to hook() and unhook()
    CallGives,  \* may a function that client:call calls return a value?
    MaxDepth    \* bound: dispatches under way at once

VARIABLES
    table,      \* the keys under which there is a function
    self,       \* is the client registered?
    frames,     \* the dispatches under way, the innermost last
    broken      \* the stack: "no", by an "error", or "found" so by lua_next

vars == <<table, self, frames, broken>>

(* A dispatch: its part of the stack, whether it keeps results, the keys   *)
(* whose functions were called, and ghosts: what was registered when it    *)
(* began, what was removed since, and whether a key was added.             *)
Frame(results) ==
    [stack |-> <<"arg", "table", "key">>, results |-> results, seen |-> {},
     start |-> table, gone |-> {}, added |-> FALSE]

NoDispatch ==
    /\ table \in SUBSET Keys
    /\ frames = <<>> /\ broken = "no"

Init == NoDispatch /\ self = TRUE

lua_pop(stack, n) == SubSeq(stack, 1, Len(stack) - n)

AtNext(frame) == Last(lua_pop(frame.stack, 1)) = "table" /\ Last(frame.stack) = "key"

InFunction(frame) == Last(frame.stack) = "traceback"

Idle == frames = <<>>
Top == frames[Len(frames)]
Runs == ~Idle /\ InFunction(Top)

SetTop(frame) == frames' = [frames EXCEPT ![Len(frames)] = frame]

-----------------------------------------------------------------------------
(* mumble_hook_call_ret, up to the loop.                                   *)
Begins(results) ==
    frames' = IF self THEN Append(frames, Frame(results)) ELSE frames

(* A handler of a packet, of audio or of a ping calls the hook.            *)
Dispatch ==
    /\ Idle /\ Begins(FALSE)
    /\ UNCHANGED <<table, self, broken>>

(* Defect: a copy of the table is gone through.                            *)
UpcomingOfCopy == Top.start \ Top.seen

(* The keys lua_next may give.                                             *)
Upcoming == IF Top.added THEN table ELSE table \ Top.seen

(* One turn of the loop, up to the call: a copy of the key, the function's *)
(* own copy and its arguments, which the call consumes, and the traceback. *)
Turn ==
    /\ ~Idle /\ ~Runs
    /\ IF AtNext(Top)
       THEN \E k \in Upcoming :
            /\ SetTop([Top EXCEPT !.stack = @ \o <<"value", "copy", "traceback">>,
                                  !.seen = @ \cup {k}])
            /\ UNCHANGED broken
       ELSE broken' = "found" /\ UNCHANGED frames
    /\ UNCHANGED <<table, self>>

(* ... or there is no key left.  The callbacks' table and the arguments go *)
(* and the results, if any, stay.                                          *)
Ends ==
    /\ ~Idle /\ AtNext(Top) /\ (Upcoming = {} \/ Top.added)
    /\ frames' = Front(frames)
    /\ UNCHANGED <<table, self, broken>>

-----------------------------------------------------------------------------
(* A function, or the script between two hooks.                            *)

Scripted == Idle \/ Runs

(* client_hook.  A function may take the place of another.                 *)
Hook(k) ==
    /\ Scripted
    /\ table' = table \cup {k}
    /\ frames' = [i \in DOMAIN frames |-> [frames[i] EXCEPT !.added = @ \/ k \notin table]]
    /\ UNCHANGED <<self, broken>>

(* client_unhook.                                                          *)
Unhook(k) ==
    /\ Scripted
    /\ table' = table \ {k}
    /\ frames' = [i \in DOMAIN frames |-> [frames[i] EXCEPT !.gone = @ \cup {k}]]
    /\ UNCHANGED <<self, broken>>

(* client_call.                                                            *)
Call ==
    /\ Runs /\ Len(frames) < MaxDepth
    /\ Begins(TRUE)
    /\ UNCHANGED <<table, self, broken>>

Disconnect ==
    /\ Scripted /\ self' = FALSE
    /\ UNCHANGED <<table, frames, broken>>

(* Defect: what the turn has put on the stack is popped without the key's  *)
(* copy.                                                                   *)
KeptCopy(stack) == lua_pop(stack, 1)

(* The turn ends with the value, the copy of the key and the function's    *)
(* results, of which two go.                                               *)
TurnEnds(stack) == lua_pop(stack, 2)

(* The function returns, and gives a value or not: the traceback is        *)
(* removed, the results of the first function that has some are kept.      *)
Returns(gives) ==
    /\ Runs /\ (gives /\ Top.results) \in {FALSE, CallGives}
    /\ SetTop([Top EXCEPT !.stack = TurnEnds(lua_pop(@, 1) \o
                            IF Top.results /\ gives THEN <<"result">> ELSE <<>>)])
    /\ UNCHANGED <<table, self, broken>>

(* It raises an error.  OnError takes the message off the stack, and what  *)
(* is popped for it is the traceback, which is then removed again.         *)
Raises ==
    /\ Runs
    /\ SetTop([Top EXCEPT !.stack = lua_pop(@, 1)])
    /\ broken' = "error"
    /\ UNCHANGED <<table, self>>

Function ==
    \/ Call \/ Disconnect
    \/ \E k \in Keys : Hook(k) \/ Unhook(k)
    \/ \E gives \in BOOLEAN : Returns(gives)
    \/ Raises

Next == broken = "no" /\ (Dispatch \/ Turn \/ Ends \/ Function)

Spec == Init /\ [][Next]_vars

-----------------------------------------------------------------------------
TypeOK ==
    /\ table \subseteq Keys /\ self \in BOOLEAN /\ broken \in {"no", "error", "found"}
    /\ Len(frames) <= MaxDepth
    /\ \A i \in DOMAIN frames :
        frames[i].seen \cup frames[i].start \cup frames[i].gone \subseteq Keys

(* Every function that was registered when a hook was called and stays so  *)
(* is called, none is called that is not registered, and lua_next finds    *)
(* its key where a turn of the loop has left it (mumble.c:1143), whatever  *)
(* the functions remove, call and disconnect meanwhile (client.c:536       *)
(* clears a key that mumble.c:1079 may have come to); unless one of them   *)
(* adds a function, or one that client:call calls returns a value.         *)
HookDispatch ==
    [][ /\ Len(frames') < Len(frames) /\ ~Top.added => Top.start \ Top.gone \subseteq Top.seen
        /\ \A i \in DOMAIN frames \cap DOMAIN frames' :
            frames'[i].seen \ frames[i].seen \subseteq table
        /\ broken' # "found" ]_vars

(* A dispatch goes on after a function that raises an error, of which      *)
(* OnError tells the script (mumble.c:1116-1125).  Not so.                 *)
ErrorIsSurvived == broken # "error"
=============================================================================
