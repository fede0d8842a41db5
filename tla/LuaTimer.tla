------------------------------- MODULE LuaTimer -------------------------------
(***************************************************************************)
(* mumble.timer (timer.c): a Lua object that holds a libuv timer.  libuv   *)
(* knows the timer from its creation until the callback of uv_close has    *)
(* run; the registry table MUMBLE_TIMER_REG keeps the object and its       *)
(* callback alive meanwhile; and the garbage collector takes what neither  *)
(* the table, nor the script, nor the running callback refers to.          *)
(*                                                                         *)
(* All of it runs in one thread: what interleaves is the script, the event *)
(* loop and the collector.  Time is left out, an active timer may be due   *)
(* at any moment; so are the counter and the durations that a script only  *)
(* reads back.                                                             *)
(***************************************************************************)
EXTENDS Integers, FiniteSets

CONSTANTS
    Timers,     \* the timers
    Slots,      \* the keys of the registry table
    None,       \* no key (LUA_NOREF), no value, no timer
    MaxStarts   \* bound: how often each timer is started

ASSUME TimersAssumption ==
    /\ IsFiniteSet(Slots) /\ Cardinality(Slots) >= 2 * Cardinality(Timers)
    /\ None \notin Timers \cup Slots
    /\ None \notin [timer : Timers] \cup [of : Timers, number : Nat]
    /\ MaxStarts \in Nat

VARIABLES
    registry,   \* MUMBLE_TIMER_REG
    self, callback, closed, paused,     \* MumbleTimer
    active, repeat, started, handle,    \* its uv_timer_t
    life, held, \* its memory; the script has it in a variable
    running,    \* the timer whose callback runs
    called,     \* ghost: what the callback is, and what it was passed
    starts,     \* ghost: the callback that was given last
    fault       \* libuv used the memory of a timer that was freed

object == <<self, callback, closed, paused>>
libuv  == <<active, repeat, started, handle>>
lua    == <<registry, life, held>>
rest   == <<running, called, starts, fault>>
vars == <<object, libuv, lua, rest>>

Object(t) == [timer |-> t]
Function(t, n) == [of |-> t, number |-> n]
Values == {None} \cup [timer : Timers] \cup [of : Timers, number : 1 .. MaxStarts]

(* mumble_timer_new, of each timer.                                        *)
Init ==
    /\ registry = [s \in Slots |-> None]
    /\ self = [t \in Timers |-> None] /\ callback = [t \in Timers |-> None]
    /\ closed = [t \in Timers |-> FALSE] /\ paused = [t \in Timers |-> FALSE]
    /\ active = [t \in Timers |-> FALSE] /\ repeat = [t \in Timers |-> FALSE]
    /\ started = [t \in Timers |-> FALSE] /\ handle = [t \in Timers |-> "open"]
    /\ life = [t \in Timers |-> "live"] /\ held = [t \in Timers |-> TRUE]
    /\ running = None /\ called = <<None, None>>
    /\ starts = [t \in Timers |-> 0] /\ fault = FALSE

-----------------------------------------------------------------------------
(* The registry table: luaL_ref takes a free key.                          *)

Free(reg) == {s \in Slots : reg[s] = None}

Unref(reg, s) == IF s = None THEN reg ELSE [reg EXCEPT ![s] = None]

(* Defect: the timer's own reference is dropped when it is closed.         *)
CloseDereferenced(t) ==
    /\ closed' = [closed EXCEPT ![t] = TRUE]
    /\ active' = [active EXCEPT ![t] = FALSE]
    /\ handle' = [handle EXCEPT ![t] = IF closed[t] THEN @ ELSE "closing"]
    /\ registry' = Unref(registry, self[t])
    /\ self' = [self EXCEPT ![t] = None]

(* mumble_timer_close: a second call finds it closed.                      *)
Close(t) ==
    /\ closed' = [closed EXCEPT ![t] = TRUE]
    /\ active' = [active EXCEPT ![t] = FALSE]
    /\ handle' = [handle EXCEPT ![t] = IF closed[t] THEN @ ELSE "closing"]
    /\ UNCHANGED <<registry, self>>

-----------------------------------------------------------------------------
(* The script: its calls on a timer that it has.                           *)

Has(t) == life[t] = "live" /\ (held[t] \/ running = t)

(* Defects: the callback that is replaced stays in the table; the timer's  *)
(* own key is given back in its place.                                     *)
OldCallbackKept(reg, t) == reg
OldSelfFreed(reg, t)    == Unref(reg, self[t])

OldCallbackFreed(reg, t) == Unref(reg, callback[t])

(* timer_start: the object is registered once, the callback every time.    *)
Start(t, repeats) ==
    /\ Has(t) /\ ~closed[t]
    /\ starts[t] < MaxStarts /\ starts' = [starts EXCEPT ![t] = @ + 1]
    /\ \E me \in IF self[t] = None THEN Free(registry) ELSE {self[t]} :
        LET registered == [registry EXCEPT ![me] = Object(t)]
            freed      == OldCallbackFreed(registered, t)
        IN  \E new \in Free(freed) :
                /\ self' = [self EXCEPT ![t] = me]
                /\ callback' = [callback EXCEPT ![t] = new]
                /\ registry' = [freed EXCEPT ![new] = Function(t, starts'[t])]
    /\ active' = [active EXCEPT ![t] = TRUE]
    /\ repeat' = [repeat EXCEPT ![t] = repeats]
    /\ started' = [started EXCEPT ![t] = TRUE]
    /\ paused' = [paused EXCEPT ![t] = FALSE]
    /\ UNCHANGED <<closed, handle, life, held, running, called, fault>>

Stop(t) ==
    /\ Has(t)
    /\ Close(t)
    /\ UNCHANGED <<callback, paused, repeat, started, life, held, rest>>

PausedStopped(t) == [active EXCEPT ![t] = FALSE]

(* timer_pause, which is no error on a closed timer.                       *)
Pause(t) ==
    /\ Has(t) /\ repeat[t] /\ started[t]
    /\ active' = PausedStopped(t)
    /\ paused' = [paused EXCEPT ![t] = TRUE]
    /\ UNCHANGED <<self, callback, closed, repeat, started, handle, lua, rest>>

(* timer_again and timer_resume.                                           *)
Resume(t) ==
    /\ Has(t) /\ ~closed[t] /\ repeat[t] /\ started[t]
    /\ active' = [active EXCEPT ![t] = TRUE]
    /\ paused' = [paused EXCEPT ![t] = FALSE]
    /\ UNCHANGED <<self, callback, closed, repeat, started, handle, lua, rest>>

(* timer_set and timer_setRepeat.                                          *)
SetRepeat(t) ==
    /\ Has(t)
    /\ repeat' = [repeat EXCEPT ![t] = ~@]
    /\ UNCHANGED <<object, active, started, handle, lua, rest>>

Forget(t) ==
    /\ held[t] /\ held' = [held EXCEPT ![t] = FALSE]
    /\ UNCHANGED <<object, libuv, registry, life, rest>>

Script ==
    \E t \in Timers :
        \/ \E repeats \in BOOLEAN : Start(t, repeats)
        \/ Stop(t) \/ Pause(t) \/ Resume(t) \/ SetRepeat(t) \/ Forget(t)

-----------------------------------------------------------------------------
(* The event loop.                                                         *)

(* uv__run_timers and mumble_lua_timer: a repeating timer is armed again   *)
(* before its callback, another one is stopped.                            *)
Fire(t) ==
    /\ running = None /\ active[t]
    /\ IF life[t] = "freed"
       THEN fault' = TRUE /\ UNCHANGED <<active, running, called>>
       ELSE /\ active' = [active EXCEPT ![t] = repeat[t]]
            /\ running' = t
            /\ called' = <<registry[callback[t]], registry[self[t]]>>
            /\ UNCHANGED fault
    /\ UNCHANGED <<object, repeat, started, handle, lua, starts>>

(* The timer is not active after its callback, and was not paused there.   *)
RunOut(t) == ~active[t] /\ ~paused[t]

Return ==
    /\ running # None /\ running' = None /\ called' = <<None, None>>
    /\ IF RunOut(running) THEN Close(running)
       ELSE UNCHANGED <<closed, active, handle, registry, self>>
    /\ UNCHANGED <<callback, paused, repeat, started, life, held, starts, fault>>

(* Defect: the callback is not taken out of the table.                     *)
DereferencedSelf(t) ==
    /\ registry' = Unref(registry, self[t])
    /\ self' = [self EXCEPT ![t] = None]
    /\ UNCHANGED callback

Dereferenced(t) ==
    /\ registry' = Unref(Unref(registry, callback[t]), self[t])
    /\ self' = [self EXCEPT ![t] = None]
    /\ callback' = [callback EXCEPT ![t] = None]

(* The end of an iteration: mumble_timer_on_close.                         *)
OnClose(t) ==
    /\ running = None /\ handle[t] = "closing"
    /\ handle' = [handle EXCEPT ![t] = "closed"]
    /\ IF life[t] = "freed"
       THEN fault' = TRUE /\ UNCHANGED <<registry, self, callback>>
       ELSE Dereferenced(t) /\ UNCHANGED fault
    /\ UNCHANGED <<closed, paused, active, repeat, started, life, held, running, called, starts>>

Loop == Return \/ \E t \in Timers : Fire(t) \/ OnClose(t)

-----------------------------------------------------------------------------
(* The collector.  A callback that refers to timers keeps them alive just  *)
(* as a variable does.                                                     *)

Referenced(t) ==
    held[t] \/ running = t \/ \E s \in Slots : registry[s] = Object(t)

(* timer_gc.                                                               *)
Collect(t) ==
    /\ life[t] = "live" /\ ~Referenced(t)
    /\ life' = [life EXCEPT ![t] = "finalized"]
    /\ Close(t)
    /\ UNCHANGED <<callback, paused, repeat, started, held, rest>>

FreeMemory(t) ==
    /\ life[t] = "finalized"
    /\ life' = [life EXCEPT ![t] = "freed"]
    /\ UNCHANGED <<object, libuv, registry, held, rest>>

Collector == \E t \in Timers : Collect(t) \/ FreeMemory(t)

Next == ~fault /\ (Script \/ Loop \/ Collector)

Spec == Init /\ [][Next]_vars

(* The event loop goes round: callbacks return, and each timer that is     *)
(* closed is closed at the end of an iteration.                            *)
FairSpec ==
    /\ Spec
    /\ WF_vars(~fault /\ Return)
    /\ \A t \in Timers : SF_vars(~fault /\ OnClose(t))

-----------------------------------------------------------------------------
(* The keys of an object are its own.                                      *)
TypeOK ==
    /\ registry \in [Slots -> Values]
    /\ self \in [Timers -> Slots \cup {None}]
    /\ callback \in [Timers -> Slots \cup {None}]
    /\ closed \in [Timers -> BOOLEAN] /\ paused \in [Timers -> BOOLEAN]
    /\ active \in [Timers -> BOOLEAN] /\ repeat \in [Timers -> BOOLEAN]
    /\ started \in [Timers -> BOOLEAN]
    /\ handle \in [Timers -> {"open", "closing", "closed"}]
    /\ life \in [Timers -> {"live", "finalized", "freed"}]
    /\ held \in [Timers -> BOOLEAN]
    /\ running \in Timers \cup {None}
    /\ called \in Values \X Values
    /\ starts \in [Timers -> 0 .. MaxStarts] /\ fault \in BOOLEAN
    /\ \A t \in Timers : self[t] # None => callback[t] # self[t]

(* A timer that fires is not paused and was not stopped, even if it was    *)
(* due before (timer.c:165, 41); the function that is called is the one of *)
(* its last start, and is passed its own timer, whatever keys were given   *)
(* back and used again (timer.c:63-65, 136).                               *)
CallsTheLatest ==
    [][\A t \in Timers : running = None /\ running' = t =>
           /\ ~paused[t] /\ ~closed[t]
           /\ called' = <<Function(t, starts[t]), Object(t)>>]_vars

(* The table holds each timer and each callback that is in use, once, and  *)
(* nothing else: a key that was given back is not used again.  A timer in  *)
(* it can still fire, is paused, or is about to be closed: none is kept    *)
(* for ever for nothing (README.md:565).  A timer that was started is not  *)
(* collected while libuv knows it, whether the script keeps it, stops it   *)
(* or forgets it (README.md:564).                                          *)
RegistryExact ==
    /\ TypeOK
    /\ \A t \in Timers : started[t] /\ handle[t] # "closed" => life[t] = "live"
    /\ \A s \in Slots :
        registry[s] # None <=>
            Cardinality({t \in Timers : self[t] = s} \cup {t \in Timers : callback[t] = s}) = 1
    /\ \A t \in Timers :
        self[t] # None /\ running # t => active[t] \/ paused[t] \/ handle[t] = "closing"

(* A timer that is stopped, or runs out, is made ready for collection      *)
(* (README.md:568).                                                        *)
StoppedIsReleased ==
    \A t \in Timers : closed[t] ~> fault \/ (self[t] = None /\ callback[t] = None)

(* libuv never uses memory that the collector freed: not so for a timer    *)
(* that was never started, which nothing keeps until on_close.             *)
NoUseAfterFree == ~fault
=============================================================================
