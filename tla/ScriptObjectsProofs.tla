------------------------- MODULE ScriptObjectsProofs -------------------------
(***************************************************************************)
(* Two objects of a script.                                                *)
(*                                                                         *)
(* mumble.timer, for any number of timers and keys: a timer that fires     *)
(* calls the function of its last start and is not paused and was not      *)
(* stopped, and the registry table holds what is in use, once, and nothing *)
(* else.                                                                   *)
(*                                                                         *)
(* mumble.buffer, for any sizes and any calls: a number of 64 bits is read *)
(* as it was written, the heads stay in the memory, and whatever was       *)
(* written is read back.                                                   *)
(***************************************************************************)
EXTENDS LuaTimer, ByteBuffer, FiniteSetTheorems, SequenceTheorems, ListAndModTheorems

(* What each key holds is what its timer thinks it does.  That no two have *)
(* one key follows, and need not be kept track of.                         *)
Keys ==
    /\ \A t \in Timers : self[t] # None => registry[self[t]] = Object(t)
    /\ \A t \in Timers :
        callback[t] # None => starts[t] # 0 /\ registry[callback[t]] = Function(t, starts[t])
    /\ \A s \in Slots :
        registry[s] # None => \E t \in Timers : self[t] = s \/ callback[t] = s

(* A timer is in the table from its first start until on_close.            *)
Registered ==
    \A t \in Timers :
        /\ started[t] /\ handle[t] # "closed" => self[t] # None /\ callback[t] # None
        /\ ~started[t] \/ handle[t] = "closed" => self[t] = None /\ callback[t] = None
        /\ closed[t] <=> handle[t] # "open"

(* What the table holds is not collected.                                  *)
KeptAlive == \A t \in Timers : started[t] /\ handle[t] # "closed" => life[t] = "live"

Armed == \A t \in Timers : active[t] => ~paused[t] /\ ~closed[t] /\ started[t]

(* What the table holds will fire, or was paused, or is about to go.       *)
Useful ==
    \A t \in Timers :
        self[t] # None /\ running # t => active[t] \/ paused[t] \/ handle[t] = "closing"

Types ==
    /\ registry \in [Slots -> Values]
    /\ self \in [Timers -> Slots \cup {None}]
    /\ callback \in [Timers -> Slots \cup {None}]
    /\ closed \in [Timers -> BOOLEAN] /\ paused \in [Timers -> BOOLEAN]
    /\ active \in [Timers -> BOOLEAN] /\ repeat \in [Timers -> BOOLEAN]
    /\ started \in [Timers -> BOOLEAN]
    /\ handle \in [Timers -> {"open", "closing", "closed"}]
    /\ life \in [Timers -> {"live", "finalized", "freed"}]
    /\ held \in [Timers -> BOOLEAN]
    /\ running \in Timers \cup {None}
    /\ called \in Values \X Values
    /\ starts \in [Timers -> 0 .. MaxStarts] /\ fault \in BOOLEAN

(* The inductive invariant.                                                *)
IInv == Types /\ Keys /\ Registered /\ KeptAlive /\ Armed /\ Useful

-----------------------------------------------------------------------------
(* Objects and functions are different values, each of one timer.          *)
LEMMA ValuesDiffer ==
    ASSUME NEW t \in Timers, NEW u \in Timers, NEW n \in Nat, NEW m \in Nat
    PROVE  /\ Object(t) = Object(u) => t = u
           /\ Function(t, n) = Function(u, m) => t = u /\ n = m
           /\ Object(t) # Function(u, n)
           /\ Object(t) # None /\ Function(t, n) # None
<1>1. Object(t) \in [timer : Timers] /\ Function(t, n) \in [of : Timers, number : Nat]
  BY DEF Object, Function
<1>2. Object(t) # None /\ Function(t, n) # None
  BY <1>1, TimersAssumption
<1>3. DOMAIN Object(t) = {"timer"} /\ DOMAIN Function(u, n) = {"of", "number"}
  BY DEF Object, Function
<1>4. Object(t) # Function(u, n)
  BY <1>3
<1>5. Object(t).timer = t /\ Object(u).timer = u
  BY DEF Object
<1>6. /\ Function(t, n).of = t /\ Function(u, m).of = u
      /\ Function(t, n).number = n /\ Function(u, m).number = m
  BY DEF Function
<1> QED
  BY <1>2, <1>4, <1>5, <1>6

(* No two timers, and no timer and callback, have the same key.            *)
LEMMA KeysDiffer ==
    ASSUME Types, Keys, NEW t \in Timers, NEW u \in Timers
    PROVE  /\ self[t] # None /\ self[t] = self[u] => t = u
           /\ callback[t] # None /\ callback[t] = callback[u] => t = u
           /\ self[t] # None => self[t] # callback[u]
           /\ self[t] # None => registry[self[t]] # None
           /\ callback[t] # None => registry[callback[t]] # None
<1>1. starts[t] \in Nat /\ starts[u] \in Nat
  BY TimersAssumption DEF Types
<1>2. self[t] # None => registry[self[t]] = Object(t)
  BY DEF Keys
<1>3. self[u] # None => registry[self[u]] = Object(u)
  BY DEF Keys
<1>4. callback[t] # None => registry[callback[t]] = Function(t, starts[t])
  BY DEF Keys
<1>5. callback[u] # None => registry[callback[u]] = Function(u, starts[u])
  BY DEF Keys
<1> QED
  BY <1>1, <1>2, <1>3, <1>4, <1>5, ValuesDiffer

(* What timer_start does to the table: the object and the new function are *)
(* in it, the old function is not, and what others have there stays.       *)
LEMMA StartRegisters ==
    ASSUME IInv, NEW t \in Timers, NEW repeats \in BOOLEAN, Start(t, repeats)
    PROVE  \E me \in Slots, new \in Slots :
              /\ self' = [self EXCEPT ![t] = me] /\ callback' = [callback EXCEPT ![t] = new]
              /\ me # new /\ (self[t] # None => self[t] = me)
              /\ \A u \in Timers \ {t} : self[u] \notin {me, new} /\ callback[u] \notin {me, new}
              /\ registry' = [s \in Slots |->
                    IF s = new THEN Function(t, starts[t] + 1)
                    ELSE IF s = me THEN Object(t)
                    ELSE IF s = callback[t] THEN None ELSE registry[s]]
<1>1. PICK me \in IF self[t] = None THEN Free(registry) ELSE {self[t]} :
         LET registered == [registry EXCEPT ![me] = Object(t)]
             freed      == OldCallbackFreed(registered, t)
         IN  \E new \in Free(freed) :
                 /\ self' = [self EXCEPT ![t] = me]
                 /\ callback' = [callback EXCEPT ![t] = new]
                 /\ registry' = [freed EXCEPT ![new] = Function(t, starts'[t])]
  BY Zenon DEF Start
<1> DEFINE registered == [registry EXCEPT ![me] = Object(t)]
           freed      == OldCallbackFreed(registered, t)
<1>2. PICK new \in Free(freed) :
         /\ self' = [self EXCEPT ![t] = me]
         /\ callback' = [callback EXCEPT ![t] = new]
         /\ registry' = [freed EXCEPT ![new] = Function(t, starts'[t])]
  BY <1>1
<1>3. me \in Slots /\ (self[t] # None => self[t] = me) /\ (self[t] = None => registry[me] = None)
  BY <1>1 DEF Free, IInv, Types
<1>4. callback[t] # me
  BY <1>3, KeysDiffer, TimersAssumption DEF IInv
<1>5. starts' = [starts EXCEPT ![t] = starts[t] + 1] /\ starts'[t] = starts[t] + 1
  BY DEF Start, IInv, Types
<1>6. freed = [s \in Slots |-> IF s = callback[t] THEN None
                               ELSE IF s = me THEN Object(t) ELSE registry[s]]
  <2>1. registered = [s \in Slots |-> IF s = me THEN Object(t) ELSE registry[s]]
    BY <1>3 DEF IInv, Types
  <2>2. CASE callback[t] = None
    BY <1>3, <2>1, <2>2, TimersAssumption DEF OldCallbackFreed, Unref
  <2>3. CASE callback[t] # None
    <3>1. freed = [registered EXCEPT ![callback[t]] = None]
      BY <2>3 DEF OldCallbackFreed, Unref
    <3> QED
      BY <1>3, <1>4, <2>1, <2>3, <3>1
  <2> QED
    BY <2>2, <2>3
<1> HIDE DEF freed
<1>7. new \in Slots /\ freed[new] = None
  BY <1>2, <1>6 DEF Free
<1>8. Object(t) # None
  BY ValuesDiffer
<1>9. new # me
  BY <1>3, <1>4, <1>6, <1>7, <1>8
<1>10. registry' = [s \in Slots |->
                    IF s = new THEN Function(t, starts[t] + 1)
                    ELSE IF s = me THEN Object(t)
                    ELSE IF s = callback[t] THEN None ELSE registry[s]]
  BY <1>2, <1>4, <1>5, <1>6
<1>11. ASSUME NEW u \in Timers \ {t}
       PROVE  self[u] \notin {me, new} /\ callback[u] \notin {me, new}
  <2>1. /\ self[u] # None => self[u] # callback[t] /\ registry[self[u]] # None
        /\ callback[u] # None => callback[u] # callback[t] /\ registry[callback[u]] # None
    BY KeysDiffer DEF IInv
  <2>2. self[u] # me /\ callback[u] # me
    BY <1>3, <2>1, KeysDiffer, TimersAssumption DEF IInv
  <2>3. self[u] # new /\ callback[u] # new
    BY <1>6, <1>7, <2>1, <2>2, TimersAssumption
  <2> QED
    BY <2>2, <2>3
<1> QED
  BY <1>2, <1>3, <1>7, <1>9, <1>10, <1>11

(* ... and what mumble_timer_on_close does.                                *)
LEMMA CloseDeregisters ==
    ASSUME IInv, NEW t \in Timers, OnClose(t)
    PROVE  \/ UNCHANGED <<registry, self, callback>> /\ life[t] = "freed"
           \/ /\ self' = [self EXCEPT ![t] = None] /\ callback' = [callback EXCEPT ![t] = None]
              /\ registry' = [s \in Slots |->
                    IF s = self[t] \/ s = callback[t] THEN None ELSE registry[s]]
<1>1. CASE life[t] = "freed"
  BY <1>1 DEF OnClose
<1>2. CASE life[t] # "freed"
  <2>1. Dereferenced(t)
    BY <1>2 DEF OnClose
  <2>2. self[t] \in Slots \cup {None} /\ callback[t] \in Slots \cup {None}
    BY DEF IInv, Types
  <2>3. registry' = [s \in Slots |->
                    IF s = self[t] \/ s = callback[t] THEN None ELSE registry[s]]
    <3> DEFINE without == Unref(registry, callback[t])
    <3>1. registry' = Unref(without, self[t])
      BY <2>1 DEF Dereferenced
    <3>2. without = [s \in Slots |-> IF s = callback[t] THEN None ELSE registry[s]]
      <4>1. registry \in [Slots -> Values]
        BY DEF IInv, Types
      <4>2. CASE callback[t] = None
        BY <4>1, <4>2, TimersAssumption DEF Unref
      <4>3. CASE callback[t] # None
        BY <2>2, <4>1, <4>3 DEF Unref
      <4> QED
        BY <4>2, <4>3
    <3> HIDE DEF without
    <3>3. Unref(without, self[t]) = [s \in Slots |-> IF s = self[t] THEN None ELSE without[s]]
      BY <2>2, <3>2, TimersAssumption DEF Unref
    <3> QED
      BY <3>1, <3>2, <3>3
  <2> QED
    BY <2>1, <2>3 DEF Dereferenced
<1> QED
  BY <1>1, <1>2

(* Every step keeps the keys: timer_start and on_close change them.        *)
LEMMA StepKeepsKeys == IInv /\ [Next]_vars => Keys'
<1> SUFFICES ASSUME IInv, [Next]_vars PROVE Keys'
  OBVIOUS
<1> USE DEF IInv, Types, Keys, object, libuv, lua, rest
<1>1. ASSUME NEW t \in Timers, NEW repeats \in BOOLEAN, Start(t, repeats)
      PROVE  Keys'
  <2>1. PICK me \in Slots, new \in Slots :
              /\ self' = [self EXCEPT ![t] = me] /\ callback' = [callback EXCEPT ![t] = new]
              /\ me # new /\ (self[t] # None => self[t] = me)
              /\ \A u \in Timers \ {t} : self[u] \notin {me, new} /\ callback[u] \notin {me, new}
              /\ registry' = [s \in Slots |->
                    IF s = new THEN Function(t, starts[t] + 1)
                    ELSE IF s = me THEN Object(t)
                    ELSE IF s = callback[t] THEN None ELSE registry[s]]
    BY <1>1, StartRegisters
  <2>2. starts' = [starts EXCEPT ![t] = starts[t] + 1]
    BY <1>1 DEF Start
  <2>3. ASSUME NEW u \in Timers PROVE self'[u] # None => registry'[self'[u]] = Object(u)
    BY <2>1, KeysDiffer
  <2>4. ASSUME NEW u \in Timers, callback'[u] # None
        PROVE  starts'[u] # 0 /\ registry'[callback'[u]] = Function(u, starts'[u])
    BY <2>1, <2>2, <2>4, KeysDiffer
  <2>5. ASSUME NEW s \in Slots, registry'[s] # None
        PROVE  \E u \in Timers : self'[u] = s \/ callback'[u] = s
    <3>1. self'[t] = me /\ callback'[t] = new
      BY <2>1
    <3>2. CASE s \in {me, new}
      BY <3>1, <3>2
    <3>3. CASE s \notin {me, new}
      <4>1. registry[s] # None /\ s # callback[t] /\ s # self[t]
        BY <2>1, <2>5, <3>3, TimersAssumption
      <4>2. PICK u \in Timers : self[u] = s \/ callback[u] = s
        BY <4>1
      <4>3. u # t
        BY <4>1, <4>2
      <4> QED
        BY <2>1, <4>2, <4>3
    <3> QED
      BY <3>2, <3>3
  <2> QED
    BY <2>3, <2>4, <2>5
<1>2. ASSUME NEW t \in Timers, Stop(t)
      PROVE  Keys'
  BY <1>2 DEF Stop, Has, Close
<1>3. ASSUME NEW t \in Timers, Pause(t)
      PROVE  Keys'
  BY <1>3 DEF Pause, Has, PausedStopped
<1>4. ASSUME NEW t \in Timers, Resume(t)
      PROVE  Keys'
  BY <1>4 DEF Resume, Has
<1>5. ASSUME NEW t \in Timers, SetRepeat(t)
      PROVE  Keys'
  BY <1>5 DEF SetRepeat, Has
<1>6. ASSUME NEW t \in Timers, Forget(t)
      PROVE  Keys'
  BY <1>6 DEF Forget
<1>7. ASSUME NEW t \in Timers, Fire(t)
      PROVE  Keys'
  BY <1>7 DEF Fire
<1>8. ASSUME NEW t \in Timers, OnClose(t)
      PROVE  Keys'
  <2>1. starts' = starts
    BY <1>8 DEF OnClose
  <2>2. CASE UNCHANGED <<registry, self, callback>>
    BY <2>1, <2>2
  <2>3. CASE ~UNCHANGED <<registry, self, callback>>
    <3>1. /\ self' = [self EXCEPT ![t] = None] /\ callback' = [callback EXCEPT ![t] = None]
          /\ registry' = [s \in Slots |->
                IF s = self[t] \/ s = callback[t] THEN None ELSE registry[s]]
      BY <1>8, <2>3, CloseDeregisters
    <3>2. ASSUME NEW u \in Timers PROVE self'[u] # None => registry'[self'[u]] = Object(u)
      BY <3>1, KeysDiffer
    <3>3. ASSUME NEW u \in Timers, callback'[u] # None
          PROVE  starts'[u] # 0 /\ registry'[callback'[u]] = Function(u, starts'[u])
      BY <2>1, <3>1, <3>3, KeysDiffer
    <3>4. ASSUME NEW s \in Slots, registry'[s] # None
          PROVE  \E u \in Timers : self'[u] = s \/ callback'[u] = s
      BY <3>1, <3>4
    <3> QED
      BY <3>2, <3>3, <3>4
  <2> QED
    BY <2>2, <2>3
<1>9. ASSUME Return PROVE Keys'
  BY <1>9 DEF Return, RunOut, Close
<1>10. ASSUME NEW t \in Timers, Collect(t)
      PROVE  Keys'
  BY <1>10 DEF Collect, Close, Referenced
<1>11. ASSUME NEW t \in Timers, FreeMemory(t)
      PROVE  Keys'
  BY <1>11 DEF FreeMemory
<1>12. CASE UNCHANGED vars
  BY <1>12 DEF vars
<1> QED
  BY <1>1, <1>2, <1>3, <1>4, <1>5, <1>6, <1>7, <1>8, <1>9, <1>10, <1>11, <1>12
     DEF Next, Script, Loop, Collector

(* ... registers a timer when it starts, until it is closed.               *)
LEMMA StepKeepsRegistered == IInv /\ [Next]_vars => Registered'
<1> SUFFICES ASSUME IInv, [Next]_vars PROVE Registered'
  OBVIOUS
<1> USE DEF IInv, Types, Registered, object, libuv, lua, rest
<1> USE DEF KeptAlive
<1>1. ASSUME NEW t \in Timers, NEW repeats \in BOOLEAN, Start(t, repeats)
      PROVE  Registered'
  <2>1. PICK me \in Slots, new \in Slots :
              self' = [self EXCEPT ![t] = me] /\ callback' = [callback EXCEPT ![t] = new]
    BY <1>1, StartRegisters
  <2> QED
    BY <1>1, <2>1, TimersAssumption DEF Start
<1>2. ASSUME NEW t \in Timers, Stop(t)
      PROVE  Registered'
  BY <1>2 DEF Stop, Has, Close
<1>3. ASSUME NEW t \in Timers, Pause(t)
      PROVE  Registered'
  BY <1>3 DEF Pause, Has, PausedStopped
<1>4. ASSUME NEW t \in Timers, Resume(t)
      PROVE  Registered'
  BY <1>4 DEF Resume, Has
<1>5. ASSUME NEW t \in Timers, SetRepeat(t)
      PROVE  Registered'
  BY <1>5 DEF SetRepeat, Has
<1>6. ASSUME NEW t \in Timers, Forget(t)
      PROVE  Registered'
  BY <1>6 DEF Forget
<1>7. ASSUME NEW t \in Timers, Fire(t)
      PROVE  Registered'
  BY <1>7 DEF Fire
<1>8. ASSUME NEW t \in Timers, OnClose(t)
      PROVE  Registered'
  BY <1>8, CloseDeregisters DEF OnClose, Dereferenced
<1>9. ASSUME Return PROVE Registered'
  BY <1>9 DEF Return, RunOut, Close
<1>10. ASSUME NEW t \in Timers, Collect(t)
      PROVE  Registered'
  BY <1>10 DEF Collect, Close, Referenced
<1>11. ASSUME NEW t \in Timers, FreeMemory(t)
      PROVE  Registered'
  BY <1>11 DEF FreeMemory
<1>12. CASE UNCHANGED vars
  BY <1>12 DEF vars
<1> QED
  BY <1>1, <1>2, <1>3, <1>4, <1>5, <1>6, <1>7, <1>8, <1>9, <1>10, <1>11, <1>12
     DEF Next, Script, Loop, Collector

(* ... collects nothing that the table holds.                              *)
LEMMA StepKeepsKeptAlive == IInv /\ [Next]_vars => KeptAlive'
<1> SUFFICES ASSUME IInv, [Next]_vars PROVE KeptAlive'
  OBVIOUS
<1> USE DEF IInv, Types, KeptAlive, object, libuv, lua, rest
<1> USE DEF Registered, Keys
<1>1. ASSUME NEW t \in Timers, NEW repeats \in BOOLEAN, Start(t, repeats)
      PROVE  KeptAlive'
  BY <1>1 DEF Start, Has
<1>2. ASSUME NEW t \in Timers, Stop(t)
      PROVE  KeptAlive'
  BY <1>2 DEF Stop, Has, Close
<1>3. ASSUME NEW t \in Timers, Pause(t)
      PROVE  KeptAlive'
  BY <1>3 DEF Pause, Has, PausedStopped
<1>4. ASSUME NEW t \in Timers, Resume(t)
      PROVE  KeptAlive'
  BY <1>4 DEF Resume, Has
<1>5. ASSUME NEW t \in Timers, SetRepeat(t)
      PROVE  KeptAlive'
  BY <1>5 DEF SetRepeat, Has
<1>6. ASSUME NEW t \in Timers, Forget(t)
      PROVE  KeptAlive'
  BY <1>6 DEF Forget
<1>7. ASSUME NEW t \in Timers, Fire(t)
      PROVE  KeptAlive'
  BY <1>7 DEF Fire
<1>8. ASSUME NEW t \in Timers, OnClose(t)
      PROVE  KeptAlive'
  BY <1>8 DEF OnClose, Dereferenced
<1>9. ASSUME Return PROVE KeptAlive'
  BY <1>9 DEF Return, RunOut, Close
<1>10. ASSUME NEW t \in Timers, Collect(t)
      PROVE  KeptAlive'
  BY <1>10 DEF Collect, Close, Referenced
<1>11. ASSUME NEW t \in Timers, FreeMemory(t)
      PROVE  KeptAlive'
  BY <1>11 DEF FreeMemory
<1>12. CASE UNCHANGED vars
  BY <1>12 DEF vars
<1> QED
  BY <1>1, <1>2, <1>3, <1>4, <1>5, <1>6, <1>7, <1>8, <1>9, <1>10, <1>11, <1>12
     DEF Next, Script, Loop, Collector

(* ... arms no timer that is paused or closed.                             *)
LEMMA StepKeepsArmed == IInv /\ [Next]_vars => Armed'
<1> SUFFICES ASSUME IInv, [Next]_vars PROVE Armed'
  OBVIOUS
<1> USE DEF IInv, Types, Armed, object, libuv, lua, rest
<1>1. ASSUME NEW t \in Timers, NEW repeats \in BOOLEAN, Start(t, repeats)
      PROVE  Armed'
  BY <1>1 DEF Start, Has
<1>2. ASSUME NEW t \in Timers, Stop(t)
      PROVE  Armed'
  BY <1>2 DEF Stop, Has, Close
<1>3. ASSUME NEW t \in Timers, Pause(t)
      PROVE  Armed'
  BY <1>3 DEF Pause, Has, PausedStopped
<1>4. ASSUME NEW t \in Timers, Resume(t)
      PROVE  Armed'
  BY <1>4 DEF Resume, Has
<1>5. ASSUME NEW t \in Timers, SetRepeat(t)
      PROVE  Armed'
  BY <1>5 DEF SetRepeat, Has
<1>6. ASSUME NEW t \in Timers, Forget(t)
      PROVE  Armed'
  BY <1>6 DEF Forget
<1>7. ASSUME NEW t \in Timers, Fire(t)
      PROVE  Armed'
  BY <1>7 DEF Fire
<1>8. ASSUME NEW t \in Timers, OnClose(t)
      PROVE  Armed'
  BY <1>8 DEF OnClose, Dereferenced
<1>9. ASSUME Return PROVE Armed'
  BY <1>9 DEF Return, RunOut, Close
<1>10. ASSUME NEW t \in Timers, Collect(t)
      PROVE  Armed'
  BY <1>10 DEF Collect, Close, Referenced
<1>11. ASSUME NEW t \in Timers, FreeMemory(t)
      PROVE  Armed'
  BY <1>11 DEF FreeMemory
<1>12. CASE UNCHANGED vars
  BY <1>12 DEF vars
<1> QED
  BY <1>1, <1>2, <1>3, <1>4, <1>5, <1>6, <1>7, <1>8, <1>9, <1>10, <1>11, <1>12
     DEF Next, Script, Loop, Collector

(* ... and leaves no timer in the table that is of no use.                 *)
LEMMA StepKeepsUseful == IInv /\ [Next]_vars => Useful'
<1> SUFFICES ASSUME IInv, [Next]_vars PROVE Useful'
  OBVIOUS
<1> USE DEF IInv, Types, Useful, object, libuv, lua, rest
<1> USE DEF Registered, KeptAlive
<1>1. ASSUME NEW t \in Timers, NEW repeats \in BOOLEAN, Start(t, repeats)
      PROVE  Useful'
  BY <1>1, StartRegisters DEF Start, Has
<1>2. ASSUME NEW t \in Timers, Stop(t)
      PROVE  Useful'
  BY <1>2 DEF Stop, Has, Close
<1>3. ASSUME NEW t \in Timers, Pause(t)
      PROVE  Useful'
  BY <1>3 DEF Pause, Has, PausedStopped
<1>4. ASSUME NEW t \in Timers, Resume(t)
      PROVE  Useful'
  BY <1>4 DEF Resume, Has
<1>5. ASSUME NEW t \in Timers, SetRepeat(t)
      PROVE  Useful'
  BY <1>5 DEF SetRepeat, Has
<1>6. ASSUME NEW t \in Timers, Forget(t)
      PROVE  Useful'
  BY <1>6 DEF Forget
<1>7. ASSUME NEW t \in Timers, Fire(t)
      PROVE  Useful'
  BY <1>7, TimersAssumption DEF Fire
<1>8. ASSUME NEW t \in Timers, OnClose(t)
      PROVE  Useful'
  BY <1>8, CloseDeregisters DEF OnClose, Dereferenced
<1>9. ASSUME Return PROVE Useful'
  BY <1>9 DEF Return, RunOut, Close
<1>10. ASSUME NEW t \in Timers, Collect(t)
      PROVE  Useful'
  BY <1>10 DEF Collect, Close, Referenced
<1>11. ASSUME NEW t \in Timers, FreeMemory(t)
      PROVE  Useful'
  BY <1>11 DEF FreeMemory
<1>12. CASE UNCHANGED vars
  BY <1>12 DEF vars
<1> QED
  BY <1>1, <1>2, <1>3, <1>4, <1>5, <1>6, <1>7, <1>8, <1>9, <1>10, <1>11, <1>12
     DEF Next, Script, Loop, Collector

(* Every value stays of its type.                                          *)
LEMMA StepKeepsTypes == IInv /\ [Next]_vars => Types'
<1> SUFFICES ASSUME IInv, [Next]_vars PROVE Types'
  OBVIOUS
<1> USE DEF IInv, Types, Types, object, libuv, lua, rest
<1>1. ASSUME NEW t \in Timers, NEW repeats \in BOOLEAN, Start(t, repeats)
      PROVE  Types'
  <2>1. PICK me \in Slots, new \in Slots :
              /\ self' = [self EXCEPT ![t] = me] /\ callback' = [callback EXCEPT ![t] = new]
              /\ registry' = [s \in Slots |->
                    IF s = new THEN Function(t, starts[t] + 1)
                    ELSE IF s = me THEN Object(t)
                    ELSE IF s = callback[t] THEN None ELSE registry[s]]
    BY <1>1, StartRegisters
  <2>2. starts[t] + 1 \in 1 .. MaxStarts
    BY <1>1, TimersAssumption DEF Start
  <2>3. Function(t, starts[t] + 1) \in Values /\ Object(t) \in Values /\ None \in Values
    BY <2>2 DEF Values, Function, Object
  <2>4. registry' \in [Slots -> Values]
    BY <2>1, <2>3
  <2>5. self' \in [Timers -> Slots \cup {None}] /\ callback' \in [Timers -> Slots \cup {None}]
    BY <2>1
  <2>6. starts' \in [Timers -> 0 .. MaxStarts]
    BY <1>1, <2>2, TimersAssumption DEF Start
  <2> QED
    BY <1>1, <2>4, <2>5, <2>6 DEF Start
<1>2. ASSUME NEW t \in Timers, Stop(t)
      PROVE  Types'
  BY <1>2 DEF Stop, Has, Close
<1>3. ASSUME NEW t \in Timers, Pause(t)
      PROVE  Types'
  BY <1>3 DEF Pause, Has, PausedStopped
<1>4. ASSUME NEW t \in Timers, Resume(t)
      PROVE  Types'
  BY <1>4 DEF Resume, Has
<1>5. ASSUME NEW t \in Timers, SetRepeat(t)
      PROVE  Types'
  BY <1>5 DEF SetRepeat, Has
<1>6. ASSUME NEW t \in Timers, Forget(t)
      PROVE  Types'
  BY <1>6 DEF Forget
<1>7. ASSUME NEW t \in Timers, Fire(t)
      PROVE  Types'
  <2>1. CASE life[t] = "freed"
    BY <1>7, <2>1 DEF Fire
  <2>2. CASE life[t] # "freed"
    <3>1. registry[callback[t]] \in Values /\ registry[self[t]] \in Values
      BY <1>7 DEF Fire, Armed, Registered
    <3>2. called' \in Values \X Values
      BY <1>7, <2>2, <3>1 DEF Fire
    <3> QED
      BY <1>7, <2>2, <3>2 DEF Fire
  <2> QED
    BY <2>1, <2>2
<1>8. ASSUME NEW t \in Timers, OnClose(t)
      PROVE  Types'
  <2>1. None \in Values
    BY DEF Values
  <2>2. /\ registry' \in [Slots -> Values]
        /\ self' \in [Timers -> Slots \cup {None}] /\ callback' \in [Timers -> Slots \cup {None}]
    BY <1>8, <2>1, CloseDeregisters
  <2> QED
    BY <1>8, <2>2 DEF OnClose
<1>9. ASSUME Return PROVE Types'
  <2>1. None \in Values
    BY DEF Values
  <2>2. called' \in Values \X Values
    BY <1>9, <2>1 DEF Return
  <2>3. closed' \in [Timers -> BOOLEAN] /\ active' \in [Timers -> BOOLEAN]
    BY <1>9 DEF Return, Close
  <2>4. handle' \in [Timers -> {"open", "closing", "closed"}]
    BY <1>9 DEF Return, Close
  <2>5. UNCHANGED <<registry, self>>
    BY <1>9, Zenon DEF Return, Close
  <2> QED
    BY <1>9, <2>2, <2>3, <2>4, <2>5 DEF Return
<1>10. ASSUME NEW t \in Timers, Collect(t)
      PROVE  Types'
  BY <1>10 DEF Collect, Close, Referenced
<1>11. ASSUME NEW t \in Timers, FreeMemory(t)
      PROVE  Types'
  BY <1>11 DEF FreeMemory
<1>12. CASE UNCHANGED vars
  BY <1>12 DEF vars
<1> QED
  BY <1>1, <1>2, <1>3, <1>4, <1>5, <1>6, <1>7, <1>8, <1>9, <1>10, <1>11, <1>12
     DEF Next, Script, Loop, Collector

-----------------------------------------------------------------------------
(* A new timer is in no table and will not fire.                           *)
LEMMA InitIsGood == Init => IInv
<1> SUFFICES ASSUME Init PROVE IInv
  OBVIOUS
<1>1. None \in Values
  BY DEF Values
<1>2. Types
  <2>1. /\ registry \in [Slots -> Values] /\ called \in Values \X Values
        /\ starts \in [Timers -> 0 .. MaxStarts]
    BY <1>1, TimersAssumption DEF Init
  <2> QED
    BY <2>1 DEF Init, Types
<1>3. Keys /\ Registered /\ KeptAlive /\ Armed /\ Useful
  BY TimersAssumption DEF Init, Keys, Registered, KeptAlive, Armed, Useful
<1> QED
  BY <1>2, <1>3 DEF IInv

(* Every step keeps the invariant.                                         *)
LEMMA StepIsGood == IInv /\ [Next]_vars => IInv'
BY StepKeepsTypes, StepKeepsKeys, StepKeepsRegistered, StepKeepsKeptAlive,
   StepKeepsArmed, StepKeepsUseful DEF IInv

(* The invariant holds of any timers, whatever the script, the event loop  *)
(* and the collector do.                                                   *)
THEOREM Invariance == Spec => []IInv
BY InitIsGood, StepIsGood, PTL DEF Spec

(* What is in the table has one owner, and what has no owner is not in it. *)
LEMMA OneOwner ==
    ASSUME IInv, NEW s \in Slots
    PROVE  registry[s] # None <=>
             Cardinality({t \in Timers : self[t] = s} \cup {t \in Timers : callback[t] = s}) = 1
<1> DEFINE owners == {t \in Timers : self[t] = s} \cup {t \in Timers : callback[t] = s}
<1>1. s # None
  BY TimersAssumption
<1>2. CASE registry[s] # None
  <2>1. PICK t \in Timers : self[t] = s \/ callback[t] = s
    BY <1>2 DEF IInv, Keys
  <2>2. ASSUME NEW u \in Timers, self[u] = s \/ callback[u] = s
        PROVE  u = t
    BY <1>1, <2>1, <2>2, KeysDiffer DEF IInv
  <2>3. owners = {t}
    BY <2>1, <2>2
  <2>4. Cardinality({t}) = 1
    BY FS_Singleton
  <2> QED
    BY <1>2, <2>3, <2>4
<1>3. CASE registry[s] = None
  <2>1. ASSUME NEW u \in Timers PROVE self[u] # s /\ callback[u] # s
    BY <1>1, <1>3, KeysDiffer DEF IInv
  <2>2. owners = {}
    BY <2>1
  <2>3. Cardinality({}) = 0
    BY FS_EmptySet
  <2> QED
    BY <1>3, <2>2, <2>3
<1> QED
  BY <1>2, <1>3

(* MUMBLE_TIMER_REG holds what is in use, once, and nothing that is not; a *)
(* timer that libuv knows is not collected (timer.c:63, 136).              *)
THEOREM RegistryIsExact == Spec => []RegistryExact
<1>1. ASSUME IInv PROVE RegistryExact
  <2>1. TypeOK
    BY <1>1, KeysDiffer DEF IInv, Types, TypeOK
  <2>2. \A t \in Timers : started[t] /\ handle[t] # "closed" => life[t] = "live"
    BY <1>1 DEF IInv, KeptAlive
  <2>3. \A t \in Timers :
           self[t] # None /\ running # t => active[t] \/ paused[t] \/ handle[t] = "closing"
    BY <1>1 DEF IInv, Useful
  <2> QED
    BY <1>1, <2>1, <2>2, <2>3, OneOwner DEF RegistryExact
<1> QED
  BY <1>1, Invariance, PTL

(* mumble_lua_timer calls the function of the last start with the timer    *)
(* itself, and only for one that is not paused and was not stopped         *)
(* (timer.c:41, 63-65, 136, 165).                                          *)
THEOREM TheLatestIsCalled == Spec => CallsTheLatest
<1> DEFINE A == \A t \in Timers : running = None /\ running' = t =>
           /\ ~paused[t] /\ ~closed[t]
           /\ called' = <<Function(t, starts[t]), Object(t)>>
<1>1. IInv /\ [Next]_vars => [A]_vars
  <2> SUFFICES ASSUME IInv, Next, NEW t \in Timers, running = None, running' = t
               PROVE  /\ ~paused[t] /\ ~closed[t]
                      /\ called' = <<Function(t, starts[t]), Object(t)>>
    OBVIOUS
  <2>1. t # None
    BY TimersAssumption
  <2>2. Fire(t)
    <3> USE DEF object, libuv, lua, rest
    <3>1. ASSUME NEW u \in Timers, Fire(u) PROVE u = t
      BY <2>1, <3>1 DEF Fire
    <3>2. ~Return
      BY DEF Return
    <3>3. ASSUME NEW u \in Timers, OnClose(u) \/ Collect(u) \/ FreeMemory(u) PROVE FALSE
      BY <2>1, <3>3 DEF OnClose, Collect, FreeMemory
    <3>4. ASSUME Script PROVE FALSE
      <4>1. running' = running
        BY <3>4 DEF Script, Start, Stop, Pause, Resume, SetRepeat, Forget
      <4> QED
        BY <2>1, <4>1
    <3> QED
      BY <3>1, <3>2, <3>3, <3>4 DEF Next, Loop, Collector
  <2>3. /\ active[t]
        /\ called' = <<registry[callback[t]], registry[self[t]]>>
    BY <2>1, <2>2 DEF Fire
  <2>4. ~paused[t] /\ ~closed[t] /\ started[t]
    BY <2>3 DEF IInv, Armed
  <2>5. self[t] # None /\ callback[t] # None
    BY <2>4 DEF IInv, Registered
  <2>6. registry[callback[t]] = Function(t, starts[t]) /\ registry[self[t]] = Object(t)
    BY <2>5 DEF IInv, Keys
  <2> QED
    BY <2>3, <2>4, <2>6
<1> HIDE DEF A
<1>2. Spec => [][A]_vars
  BY <1>1, Invariance, PTL DEF Spec
<1> QED
  BY <1>2 DEF A, CallsTheLatest

-----------------------------------------------------------------------------
(* What a byte says of the number that starts with it.                     *)
LEMMA FormOf ==
    ASSUME NEW f \in Forms, NEW first \in Nat, f.prefix <= first, first < f.prefix + f.high
    PROVE  /\ first < 240
           /\ \A g \in Forms : g.prefix <= first /\ first < g.prefix + g.high => g = f
           /\ Following(first) = f.bytes - 1 /\ FirstBits(first) = first - f.prefix
<1>1. \A g \in Forms : g.prefix <= first /\ first < g.prefix + g.high => g = f
  BY DEF Forms
<1>2. (CHOOSE g \in Forms : g.prefix <= first /\ first < g.prefix + g.high) = f
  <2> DEFINE F == {g \in Forms : g.prefix <= first /\ first < g.prefix + g.high}
  <2>1. f \in Forms /\ f.prefix <= first /\ first < f.prefix + f.high
    OBVIOUS
  <2> QED
    BY <1>1, <2>1
<1>3. first < 240
  BY DEF Forms
<1> QED
  BY <1>1, <1>2, <1>3 DEF Following, FirstBits

LEMMA FollowingTyped ==
    ASSUME NEW first \in Byte
    PROVE  Following(first) \in 0 .. 8
<1>1. CASE first < 240
  <2>1. \E f \in Forms : f.prefix <= first /\ first < f.prefix + f.high
    <3> DEFINE f1 == [bytes |-> 1, prefix |->   0, high |-> 128]
               f2 == [bytes |-> 2, prefix |-> 128, high |->  64]
               f3 == [bytes |-> 3, prefix |-> 192, high |->  32]
               f4 == [bytes |-> 4, prefix |-> 224, high |->  16]
    <3>1. f1 \in Forms /\ f2 \in Forms /\ f3 \in Forms /\ f4 \in Forms
      BY DEF Forms
    <3>2. first \in Nat
      BY DEF Byte
    <3> QED
      BY <1>1, <3>1, <3>2
  <2>2. PICK f \in Forms : f.prefix <= first /\ first < f.prefix + f.high
    BY <2>1
  <2>3. Following(first) = f.bytes - 1
    BY <2>2, FormOf DEF Byte
  <2> QED
    BY <2>3 DEF Forms
<1>2. CASE ~(first < 240)
  BY <1>2 DEF Following
<1> QED
  BY <1>1, <1>2

(* Behind the flags there is something, or the end.                        *)
LEMMA AfterFlagsTyped ==
    ASSUME NEW bytes, NEW at \in Nat, NEW end \in Nat, at <= end
    PROVE  AfterFlags(bytes, at, end) \in at .. end
<1> DEFINE S == {r \in at .. end : r = end \/ bytes[r + 1] \notin 248 .. 251}
<1>1. S \subseteq Nat /\ S # {} /\ S \subseteq at .. end
  <2>1. end \in S
    OBVIOUS
  <2> QED
    BY <2>1
<1>2. PICK n \in S : \A m \in S : n <= m
  BY <1>1, SmallestOf
<1> HIDE DEF S
<1>3. (CHOOSE x \in S : \A y \in S : x <= y) \in S
  BY <1>2
<1> QED
  BY <1>1, <1>3 DEF AfterFlags, Min, S

(* A number ends before the buffer does, and starts where it was looked    *)
(* for, or there is none.                                                  *)
LEMMA DecodeStays ==
    ASSUME NEW bytes, NEW at \in Nat, NEW end \in Nat, at <= end,
           \A k \in 1 .. end : bytes[k] \in Byte
    PROVE  Decode(bytes, at, end).head \in at .. end
<1> DEFINE r     == AfterFlags(bytes, at, end)
           first == bytes[r + 1]
           more  == Following(first)
<1>1. r \in at .. end
  BY AfterFlagsTyped
<1>2. r # end => first \in Byte /\ more \in 0 .. 8
  <2> SUFFICES ASSUME r # end PROVE first \in Byte /\ more \in 0 .. 8
    OBVIOUS
  <2>1. r + 1 \in 1 .. end
    BY <1>1
  <2>2. first \in Byte
    BY <2>1
  <2> QED
    BY <2>2, FollowingTyped
<1>3. Decode(bytes, at, end).head = IF r = end THEN end
                                    ELSE IF first >= 252 THEN r + 1
                                    ELSE IF r + 1 + more > end THEN r + 1
                                    ELSE r + (1 + more)
  <2> HIDE DEF more, first, r
  <2> QED
    BY DEF Decode, r, first, more
<1> HIDE DEF more, first, r
<1> QED
  BY <1>1, <1>2, <1>3

(* A part of a sequence, from m to n.                                      *)
IsPart(t, S, s, m, n) ==
    /\ t \in Seq(S) /\ Len(t) = n - m + 1
    /\ \A i \in 1 .. (n - m + 1) : t[i] = s[m + i - 1]

LEMMA Part ==
    ASSUME NEW S, NEW s \in Seq(S), NEW m \in Nat \ {0}, NEW n \in Nat, m <= n + 1, n <= Len(s)
    PROVE  IsPart(SubSeq(s, m, n), S, s, m, n)
<1>1. Len(s) \in Nat
  BY LenProperties
<1>2. \A i \in m .. n : s[i] \in S
  BY <1>1, ElementOfSeq
<1>3. /\ SubSeq(s, m, n) \in Seq(S)
      /\ Len(SubSeq(s, m, n)) = IF m <= n THEN n - m + 1 ELSE 0
      /\ \A i \in 1 .. n - m + 1 : SubSeq(s, m, n)[i] = s[m + i - 1]
  BY <1>2, SubSeqProperties
<1>4. (IF m <= n THEN n - m + 1 ELSE 0) = n - m + 1
  OBVIOUS
<1> QED
  BY <1>3, <1>4, Zenon DEF IsPart

LEMMA ComplementBack ==
    ASSUME NEW v \in UInt64
    PROVE  /\ Complement(v) \in UInt64 /\ Complement(Complement(v)) = v
           /\ v \in Seq(Byte) /\ Len(v) = 8
<1>1. \A k \in 1 .. 8 : v[k] \in 0 .. 255
  BY DEF UInt64, Byte
<1>2. Complement(v) \in UInt64
  <2>1. ASSUME NEW k \in 1 .. 8 PROVE 255 - v[k] \in 0 .. 255
    <3>1. PICK x \in 0 .. 255 : v[k] = x
      BY <1>1
    <3>2. 255 - x \in 0 .. 255
      OBVIOUS
    <3> QED
      BY <3>1, <3>2
  <2> QED
    BY <2>1 DEF Complement, UInt64, Byte
<1>3. \A k \in 1 .. 8 : Complement(Complement(v))[k] = v[k]
  <2>1. \A k \in 1 .. 8 : Complement(v)[k] = 255 - v[k]
    BY DEF Complement
  <2>2. \A k \in 1 .. 8 : Complement(Complement(v))[k] = 255 - Complement(v)[k]
    BY DEF Complement
  <2>3. ASSUME NEW k \in 1 .. 8 PROVE Complement(Complement(v))[k] = v[k]
    <3>1. v[k] \in 0 .. 255 /\ Complement(v)[k] = 255 - v[k]
      BY <1>1, <2>1
    <3>2. Complement(Complement(v))[k] = 255 - Complement(v)[k]
      BY <2>2
    <3>3. 255 - (255 - v[k]) = v[k]
      BY <3>1
    <3> QED
      BY <3>1, <3>2, <3>3
  <2> QED
    BY <2>3
<1>4. Complement(Complement(v)) = v
  BY <1>2, <1>3 DEF Complement, UInt64
<1>5. v \in Seq(Byte) /\ Len(v) = 8
  <2>1. v \in [1 .. 8 -> Byte]
    BY DEF UInt64
  <2> QED
    <3>1. v \in Seq(Byte)
      <4>1. Seq(Byte) = UNION {[1 .. n -> Byte] : n \in Nat}
        BY SeqDef, Zenon
      <4>2. [1 .. 8 -> Byte] \in {[1 .. n -> Byte] : n \in Nat}
        OBVIOUS
      <4> QED
        BY <2>1, <4>1, <4>2, Zenon
    <3>2. Len(v) \in Nat /\ DOMAIN v = 1 .. Len(v)
      BY <3>1, LenProperties
    <3>3. DOMAIN v = 1 .. 8
      BY <2>1
    <3>4. 1 .. Len(v) = 1 .. 8
      BY <3>2, <3>3
    <3> HIDE <2>1, <3>3
    <3> QED
      BY <3>1, <3>2, <3>4
<1> QED
  BY <1>2, <1>4, <1>5

(* What a positive number's bytes e say when they are read.                *)
Says(e, v) ==
    /\ e \in Seq(Byte) /\ Len(e) \in 1 .. 9 /\ e[1] < 248
    /\ Following(e[1]) = Len(e) - 1
    /\ Positive(e[1], SubSeq(e, 2, Len(e))) = v

(* Zeros in front of n bytes.                                              *)
LEMMA PadElements ==
    ASSUME NEW bytes \in Seq(Byte), NEW l \in 0 .. 8, Len(bytes) = l
    PROVE  /\ Pad(bytes) \in UInt64
           /\ \A k \in 1 .. 8 : Pad(bytes)[k] = IF k <= 8 - l THEN 0 ELSE bytes[k - (8 - l)]
<1> DEFINE n == 8 - l
           front == SubSeq(Zero, 1, n)
<1>1. n \in 0 .. 8 /\ n \in Nat /\ l \in Nat /\ n + l = 8
  OBVIOUS
<1> HIDE DEF n
<1>2. Zero \in Seq(Byte) /\ Len(Zero) = 8 /\ \A k \in 1 .. 8 : Zero[k] = 0
  <2>1. \A k \in 1 .. 8 : Zero[k] = 0
    BY DEF Zero
  <2> QED
    BY <2>1 DEF Zero, Byte
<1>3. front \in Seq(Byte) /\ Len(front) = n /\ \A k \in 1 .. n : front[k] = 0
  <2>1. /\ front \in Seq(Byte) /\ Len(front) = n - 1 + 1
        /\ \A k \in 1 .. (n - 1 + 1) : front[k] = Zero[1 + k - 1]
    <3>1. n <= Len(Zero)
      BY <1>1, <1>2
    <3>2. ASSUME NEW m \in Nat \ {0}, m <= n + 1
          PROVE  IsPart(SubSeq(Zero, m, n), Byte, Zero, m, n)
      <4>1. Zero \in Seq(Byte) /\ n \in Nat
        BY <1>1, <1>2
      <4> HIDE DEF front
      <4> QED
        BY <3>1, <3>2, <4>1, Part, Zenon
    <3>3. 1 \in Nat \ {0} /\ 1 <= n + 1
      BY <1>1
    <3>4. IsPart(front, Byte, Zero, 1, n)
      BY <3>2, <3>3, Zenon
    <3> HIDE DEF front
    <3> QED
      BY <3>4, Zenon DEF IsPart
  <2> QED
    BY <1>1, <1>2, <2>1
<1> HIDE DEF front
<1>4. Pad(bytes) = front \o bytes
  BY DEF Pad, front, n
<1>5. /\ front \o bytes \in Seq(Byte) /\ Len(front \o bytes) = n + l
      /\ \A k \in 1 .. (n + l) : (front \o bytes)[k] = IF k <= n THEN front[k] ELSE bytes[k - n]
  <2>1. /\ front \o bytes \in Seq(Byte) /\ Len(front \o bytes) = Len(front) + Len(bytes)
        /\ \A k \in 1 .. Len(front) + Len(bytes) :
              (front \o bytes)[k] = IF k <= Len(front) THEN front[k] ELSE bytes[k - Len(front)]
    BY <1>3, ConcatProperties, Zenon
  <2> QED
    BY <1>3, <2>1, Zenon
<1>6. \A k \in 1 .. 8 : (front \o bytes)[k] = IF k <= n THEN 0 ELSE bytes[k - n]
  <2> TAKE k \in 1 .. 8
  <2>1. (front \o bytes)[k] = IF k <= n THEN front[k] ELSE bytes[k - n]
    BY <1>1, <1>5
  <2>2. k <= n => front[k] = 0
    BY <1>1, <1>3
  <2> QED
    BY <2>1, <2>2
<1>7. front \o bytes \in UInt64
  <2>1. front \o bytes \in [1 .. Len(front \o bytes) -> Byte]
    BY <1>5, LenProperties
  <2> QED
    BY <1>1, <1>5, <2>1 DEF UInt64
<1> QED
  BY <1>4, <1>6, <1>7 DEF n

LEMMA LastBytesElements ==
    ASSUME NEW v \in UInt64, NEW n \in 1 .. 8
    PROVE  /\ LastBytes(v, n) \in Seq(Byte) /\ Len(LastBytes(v, n)) = n
           /\ \A k \in 1 .. n : LastBytes(v, n)[k] = v[8 - n + k]
<1>1. v \in Seq(Byte) /\ Len(v) = 8
  BY ComplementBack
<1>2. /\ SubSeq(v, 9 - n, 8) \in Seq(Byte) /\ Len(SubSeq(v, 9 - n, 8)) = 8 - (9 - n) + 1
      /\ \A k \in 1 .. (8 - (9 - n) + 1) : SubSeq(v, 9 - n, 8)[k] = v[9 - n + k - 1]
  <2>1. 9 - n \in Nat \ {0} /\ 9 - n <= 8 + 1 /\ 8 \in Nat /\ 8 <= Len(v)
    BY <1>1
  <2>2. IsPart(SubSeq(v, 9 - n, 8), Byte, v, 9 - n, 8)
    BY <1>1, <2>1, Part, Zenon
  <2> QED
    BY <2>2, Zenon DEF IsPart
<1>3. 8 - (9 - n) + 1 = n /\ \A k \in 1 .. n : 9 - n + k - 1 = 8 - n + k
  OBVIOUS
<1> QED
  BY <1>2, <1>3 DEF LastBytes

LEMMA ShortForm ==
    ASSUME NEW v \in UInt64, NEW f \in Forms, Fits(v, f.bytes, f.high)
    PROVE  Says([LastBytes(v, f.bytes) EXCEPT ![1] = f.prefix + @], v)
<1> DEFINE n == f.bytes
           last == LastBytes(v, n)
           e == [last EXCEPT ![1] = f.prefix + @]
<1>1. n \in 1 .. 4 /\ f.prefix \in Nat /\ f.high \in Nat /\ f.prefix + f.high <= 240
  BY DEF Forms
<1> HIDE DEF n
<1>2. /\ last \in Seq(Byte) /\ Len(last) = n
      /\ \A k \in 1 .. n : last[k] = v[8 - n + k]
  <2>1. n \in 1 .. 8
    BY <1>1
  <2> QED
    BY <2>1, LastBytesElements
<1> HIDE DEF last
<1>3. /\ \A k \in 1 .. (8 - n) : v[k] = 0
      /\ v[9 - n] < f.high /\ last[1] = v[9 - n] /\ v[9 - n] \in Nat
  <2>1. v[9 - n] \in 0 .. 255
    BY <1>1 DEF UInt64, Byte
  <2>2. last[1] = v[8 - n + 1] /\ 8 - n + 1 = 9 - n
    BY <1>1, <1>2
  <2> QED
    BY <2>1, <2>2 DEF Fits, n
<1>4. /\ e \in Seq(Byte) /\ Len(e) = n /\ e[1] = f.prefix + v[9 - n]
      /\ \A k \in 2 .. n : e[k] = last[k]
  <2>1. f.prefix + last[1] \in Byte
    <3>1. last[1] \in Nat /\ last[1] < f.high
      BY <1>3
    <3>2. \A p, h, l \in Nat : p + h <= 240 /\ l < h => p + l \in 0 .. 255
      OBVIOUS
    <3> QED
      BY <1>1, <3>1, <3>2 DEF Byte
  <2> QED
    BY <1>1, <1>2, <1>3, <2>1
<1> HIDE DEF e
<1>5. /\ e[1] < 240 /\ Following(e[1]) = n - 1 /\ FirstBits(e[1]) = v[9 - n]
  <2>1. e[1] \in Nat /\ f.prefix <= e[1] /\ e[1] < f.prefix + f.high
    BY <1>1, <1>3, <1>4
  <2>2. FirstBits(e[1]) = e[1] - f.prefix /\ e[1] < 240 /\ Following(e[1]) = n - 1
    BY <2>1, FormOf DEF n
  <2>3. e[1] - f.prefix = v[9 - n]
    BY <1>1, <1>3, <1>4
  <2> QED
    BY <2>2, <2>3
<1> DEFINE low == SubSeq(e, 2, n)
           whole == <<v[9 - n]>> \o low
<1>6. low \in Seq(Byte) /\ Len(low) = n - 1 /\ \A k \in 1 .. (n - 1) : low[k] = e[k + 1]
  <2>1. /\ low \in Seq(Byte) /\ Len(low) = n - 2 + 1
        /\ \A k \in 1 .. (n - 2 + 1) : low[k] = e[2 + k - 1]
    BY <1>1, <1>4, Part DEF IsPart
  <2>2. n - 2 + 1 = n - 1 /\ \A k \in 1 .. (n - 1) : 2 + k - 1 = k + 1
    BY <1>1
  <2> QED
    BY <2>1, <2>2
<1> HIDE DEF low
<1>7. /\ whole \in Seq(Byte) /\ Len(whole) = n /\ whole[1] = v[9 - n]
      /\ \A k \in 2 .. n : whole[k] = v[8 - n + k]
  <2>1. v[9 - n] \in Byte
    BY <1>1 DEF UInt64
  <2>2. <<v[9 - n]>> \in Seq(Byte) /\ Len(<<v[9 - n]>>) = 1 /\ <<v[9 - n]>>[1] = v[9 - n]
    BY <2>1
  <2>3. /\ whole \in Seq(Byte) /\ Len(whole) = n /\ whole[1] = v[9 - n]
        /\ \A k \in 2 .. n : whole[k] = low[k - 1]
    BY <1>1, <1>6, <2>2, ConcatProperties
  <2>4. ASSUME NEW k \in 2 .. n PROVE low[k - 1] = v[8 - n + k]
    <3>1. k - 1 \in 1 .. (n - 1) /\ k - 1 + 1 = k /\ k \in 1 .. n
      BY <1>1
    <3> QED
      BY <1>2, <1>4, <1>6, <3>1
  <2> QED
    BY <2>3, <2>4
<1> HIDE DEF whole
<1>8. Pad(whole) = v
  <2>1. ASSUME NEW k \in 1 .. 8 PROVE Pad(whole)[k] = v[k]
    <3>1. Pad(whole)[k] = IF k <= 8 - n THEN 0 ELSE whole[k - (8 - n)]
      <4>1. n \in 0 .. 8
        BY <1>1
      <4> QED
        BY <1>7, <4>1, PadElements
    <3>2. CASE k <= 8 - n
      BY <1>1, <1>3, <3>1, <3>2
    <3>3. CASE k = 9 - n
      BY <1>1, <1>7, <3>1, <3>3
    <3>4. CASE k > 9 - n
      <4>1. k - (8 - n) \in 2 .. n /\ 8 - n + (k - (8 - n)) = k
        BY <1>1, <3>4
      <4> QED
        BY <1>1, <1>7, <3>1, <3>4, <4>1
    <3> QED
      BY <1>1, <3>2, <3>3, <3>4
  <2>2. Pad(whole) \in [1 .. 8 -> Byte] /\ v \in [1 .. 8 -> Byte]
    <3>1. n \in 0 .. 8
      BY <1>1
    <3>2. Pad(whole) \in UInt64
      BY <1>7, <3>1, PadElements
    <3> QED
      BY <3>2 DEF UInt64
  <2> QED
    BY <2>1, <2>2
<1>9. Positive(e[1], SubSeq(e, 2, Len(e))) = v
  <2>1. SubSeq(e, 2, Len(e)) = low /\ Len(low) # 8
    BY <1>1, <1>4, <1>6 DEF low
  <2> QED
    BY <1>5, <1>8, <2>1 DEF Positive, whole
<1>10. Len(e) \in 1 .. 9 /\ e[1] < 248
  <2>1. e[1] \in Nat
    BY <1>1, <1>3, <1>4
  <2> QED
    BY <1>1, <1>4, <1>5, <2>1
<1>11. Says(e, v)
  BY <1>4, <1>5, <1>9, <1>10 DEF Says
<1> QED
  BY <1>11 DEF e, last, n

LEMMA ByteInFront ==
    ASSUME NEW s \in Seq(Byte), NEW b \in Byte
    PROVE  /\ <<b>> \o s \in Seq(Byte) /\ Len(<<b>> \o s) = Len(s) + 1
           /\ (<<b>> \o s)[1] = b /\ \A k \in 1 .. Len(s) : (<<b>> \o s)[k + 1] = s[k]
           /\ SubSeq(<<b>> \o s, 2, Len(<<b>> \o s)) = s
<1> DEFINE t == <<b>> \o s
<1>1. PICK n \in Nat : n = Len(s)
  BY LenProperties
<1>2. <<b>> \in Seq(Byte) /\ Len(<<b>>) = 1 /\ <<b>>[1] = b
  OBVIOUS
<1>3. /\ t \in Seq(Byte) /\ Len(t) = 1 + n
      /\ \A k \in 1 .. 1 + n : t[k] = IF k <= 1 THEN <<b>>[k] ELSE s[k - 1]
  <2>1. /\ t \in Seq(Byte) /\ Len(t) = Len(<<b>>) + Len(s)
        /\ \A k \in 1 .. Len(<<b>>) + Len(s) :
              t[k] = IF k <= Len(<<b>>) THEN <<b>>[k] ELSE s[k - Len(<<b>>)]
    BY <1>2, ConcatProperties, Zenon
  <2> QED
    BY <1>1, <1>2, <2>1, Zenon
<1> HIDE DEF t
<1>4. t[1] = b
  BY <1>2, <1>3
<1>5. \A k \in 1 .. n : t[k + 1] = s[k]
  <2> TAKE k \in 1 .. n
  <2>1. k + 1 \in 1 .. 1 + n /\ ~(k + 1 <= 1) /\ k + 1 - 1 = k
    OBVIOUS
  <2> QED
    BY <1>3, <2>1
<1> DEFINE p == SubSeq(t, 2, 1 + n)
<1>6. p \in Seq(Byte) /\ Len(p) = n /\ \A k \in 1 .. n : p[k] = t[k + 1]
  <2>1. 2 \in Nat \ {0} /\ 1 + n \in Nat /\ 2 <= 1 + n + 1 /\ 1 + n <= Len(t)
    BY <1>3
  <2>2. /\ p \in Seq(Byte) /\ Len(p) = 1 + n - 2 + 1
        /\ \A k \in 1 .. (1 + n - 2 + 1) : p[k] = t[2 + k - 1]
    BY <1>3, <2>1, Part DEF IsPart
  <2>3. 1 + n - 2 + 1 = n /\ \A k \in 1 .. n : 2 + k - 1 = k + 1
    OBVIOUS
  <2> QED
    BY <2>2, <2>3
<1> HIDE DEF p
<1>7. p = s
  BY <1>1, <1>5, <1>6, SeqEqual
<1> QED
  BY <1>1, <1>3, <1>4, <1>5, <1>7 DEF t, p

(* Every number that needs no flag is said by its bytes.                   *)
LEMMA PositiveSays ==
    ASSUME NEW v \in UInt64
    PROVE  Says(EncodePositive(v), v)
<1> DEFINE e == EncodePositive(v)
<1>1. CASE FormsOf(v) # {}
  <2> DEFINE Least(f) == \A g \in FormsOf(v) : f.bytes <= g.bytes
  <2>1. \E f \in FormsOf(v) : Least(f)
    <3> DEFINE B == {f.bytes : f \in FormsOf(v)}
    <3>1. B \subseteq Nat /\ B # {}
      BY <1>1 DEF FormsOf, Forms
    <3>2. PICK b \in B : \A c \in B : b <= c
      BY <3>1, SmallestOf
    <3>3. PICK f \in FormsOf(v) : f.bytes = b
      BY <3>2
    <3> QED
      BY <3>2, <3>3
  <2> DEFINE f == CHOOSE f \in FormsOf(v) : Least(f)
  <2>2. f \in FormsOf(v)
    BY <2>1
  <2>3. f \in Forms /\ Fits(v, f.bytes, f.high)
    BY <2>2 DEF FormsOf
  <2>4. e = [LastBytes(v, f.bytes) EXCEPT ![1] = f.prefix + @]
    BY <1>1 DEF EncodePositive
  <2> HIDE DEF f, e
  <2>5. Says([LastBytes(v, f.bytes) EXCEPT ![1] = f.prefix + @], v)
    BY <2>3, ShortForm
  <2> QED
    BY <2>4, <2>5 DEF e
<1>2. CASE FormsOf(v) = {} /\ Fits(v, 4, 256)
  <2> DEFINE last == LastBytes(v, 4)
             whole == <<0>> \o last
  <2>1. e = <<240>> \o last
    BY <1>2 DEF EncodePositive
  <2>2. last \in Seq(Byte) /\ Len(last) = 4 /\ \A k \in 1 .. 4 : last[k] = v[8 - 4 + k]
    BY LastBytesElements
  <2> HIDE DEF last, e
  <2>3. /\ e \in Seq(Byte) /\ Len(e) = 5 /\ e[1] = 240
        /\ SubSeq(e, 2, Len(e)) = last
    <3>1. PICK b \in Byte : b = 240
      BY DEF Byte
    <3>2. e = <<b>> \o last
      BY <2>1, <3>1
    <3>3. /\ <<b>> \o last \in Seq(Byte) /\ Len(<<b>> \o last) = Len(last) + 1
          /\ (<<b>> \o last)[1] = b
          /\ SubSeq(<<b>> \o last, 2, Len(<<b>> \o last)) = last
      BY <2>2, ByteInFront, Zenon
    <3> QED
      BY <2>2, <3>1, <3>2, <3>3
  <2>4. Following(240) = 4 /\ FirstBits(240) = 0
    BY DEF Following, FirstBits
  <2>5. whole \in Seq(Byte) /\ Len(whole) = 5 /\ whole[1] = 0 /\ \A k \in 1 .. 4 : whole[k + 1] = last[k]
    <3>1. 0 \in Byte
      BY DEF Byte
    <3>2. /\ whole \in Seq(Byte) /\ Len(whole) = Len(last) + 1
          /\ whole[1] = 0 /\ \A k \in 1 .. Len(last) : whole[k + 1] = last[k]
      BY <2>2, <3>1, ByteInFront, Zenon
    <3> QED
      BY <2>2, <3>2
  <2> HIDE DEF whole
  <2>6. Pad(whole) = v
    <3>1. \A k \in 1 .. 8 : Pad(whole)[k] = IF k <= 8 - 5 THEN 0 ELSE whole[k - (8 - 5)]
      BY <2>5, PadElements
    <3>2. \A k \in 1 .. 4 : v[k] = 0
      BY <1>2 DEF Fits
    <3>3. ASSUME NEW k \in 1 .. 8 PROVE Pad(whole)[k] = v[k]
      <4>1. CASE k <= 3
        BY <3>1, <3>2, <4>1
      <4>2. CASE k = 4
        BY <2>5, <3>1, <3>2, <4>2
      <4>3. CASE k > 4
        <5>1. k - 4 \in 1 .. 4 /\ k - 4 + 1 = k - 3 /\ 8 - 4 + (k - 4) = k
          BY <4>3
        <5>2. whole[k - 3] = last[k - 4]
          BY <2>5, <5>1
        <5>3. last[k - 4] = v[k]
          BY <2>2, <5>1
        <5> QED
          BY <3>1, <4>3, <5>2, <5>3
      <4> QED
        BY <4>1, <4>2, <4>3
    <3>4. Pad(whole) \in [1 .. 8 -> Byte] /\ v \in [1 .. 8 -> Byte]
      BY <2>5, PadElements DEF UInt64
    <3> QED
      BY <3>3, <3>4
  <2>7. Positive(240, last) = v
    BY <2>2, <2>4, <2>6 DEF Positive, whole
  <2> QED
    <3>1. Says(e, v)
      <4>1. Len(e) \in 1 .. 9 /\ e[1] < 248 /\ Following(e[1]) = Len(e) - 1
        BY <2>3, <2>4
      <4>2. Positive(e[1], SubSeq(e, 2, Len(e))) = v
        BY <2>3, <2>7, Zenon
      <4> QED
        BY <2>3, <4>1, <4>2 DEF Says
    <3> QED
      BY <3>1 DEF e
<1>3. CASE FormsOf(v) = {} /\ ~Fits(v, 4, 256)
  <2>1. e = <<244>> \o v
    BY <1>3 DEF EncodePositive
  <2>2. v \in Seq(Byte) /\ Len(v) = 8
    BY ComplementBack
  <2> HIDE DEF e
  <2>3. e \in Seq(Byte) /\ Len(e) = 9 /\ e[1] = 244 /\ SubSeq(e, 2, Len(e)) = v
    <3>1. PICK b \in Byte : b = 244
      BY DEF Byte
    <3>2. e = <<b>> \o v
      BY <2>1, <3>1
    <3>3. /\ <<b>> \o v \in Seq(Byte) /\ Len(<<b>> \o v) = Len(v) + 1
          /\ (<<b>> \o v)[1] = b
          /\ SubSeq(<<b>> \o v, 2, Len(<<b>> \o v)) = v
      BY <2>2, ByteInFront, Zenon
    <3> QED
      BY <2>2, <3>1, <3>2, <3>3
  <2>4. Following(244) = 8
    BY DEF Following
  <2>5. Positive(244, v) = v
    BY <2>2 DEF Positive
  <2> QED
    <3>1. Says(e, v)
      <4>1. Len(e) \in 1 .. 9 /\ e[1] < 248 /\ Following(e[1]) = Len(e) - 1
        BY <2>3, <2>4
      <4>2. Positive(e[1], SubSeq(e, 2, Len(e))) = v
        BY <2>3, <2>5, Zenon
      <4> QED
        BY <2>3, <4>1, <4>2 DEF Says
    <3> QED
      BY <3>1 DEF e
<1> QED
  BY <1>1, <1>2, <1>3

(* A number that starts without a flag, and one that starts with one.      *)
LEMMA NoFlag ==
    ASSUME NEW bytes, NEW at \in Nat, NEW end \in Nat, at < end, bytes[at + 1] \notin 248 .. 251
    PROVE  AfterFlags(bytes, at, end) = at
<1> DEFINE S == {r \in at .. end : r = end \/ bytes[r + 1] \notin 248 .. 251}
<1>1. at \in S /\ \A y \in S : at <= y /\ y \in Int
  OBVIOUS
<1> HIDE DEF S
<1>2. \A x \in S : (\A y \in S : x <= y) => x = at
  BY <1>1
<1>3. (CHOOSE x \in S : \A y \in S : x <= y) = at
  BY <1>1, <1>2
<1> QED
  BY <1>3 DEF AfterFlags, Min, S

LEMMA OneFlag ==
    ASSUME NEW bytes, NEW at \in Nat, NEW end \in Nat, at + 1 < end,
           bytes[at + 1] = 248, bytes[at + 2] \notin 248 .. 251
    PROVE  AfterFlags(bytes, at, end) = at + 1
<1> DEFINE S == {r \in at .. end : r = end \/ bytes[r + 1] \notin 248 .. 251}
<1>1. at + 1 \in S /\ \A y \in S : at + 1 <= y /\ y \in Int
  <2>1. at + 1 \in S
    <3>1. at + 1 \in at .. end /\ at + 1 + 1 = at + 2
      OBVIOUS
    <3> QED
      BY <3>1
  <2>2. at \notin S
    OBVIOUS
  <2>3. \A y \in S : y \in Int /\ at <= y
    OBVIOUS
  <2> HIDE DEF S
  <2> QED
    BY <2>1, <2>2, <2>3
<1> HIDE DEF S
<1>2. \A x \in S : (\A y \in S : x <= y) => x = at + 1
  BY <1>1
<1>3. (CHOOSE x \in S : \A y \in S : x <= y) = at + 1
  BY <1>1, <1>2
<1> QED
  BY <1>3 DEF AfterFlags, Min, S

(* The bytes s are there at a place before the end.                        *)
Stands(bytes, at, end, s) ==
    /\ at + Len(s) <= end
    /\ \A k \in 1 .. Len(s) : bytes[at + k] = s[k]

(* What says v is read as v, or as its complement behind a flag.           *)
LEMMA DecodeSays ==
    ASSUME NEW v \in UInt64, NEW e, Says(e, v), NEW bytes,
           NEW at \in Nat, NEW end \in Nat, NEW r \in {at, at + 1},
           AfterFlags(bytes, at, end) = r, Stands(bytes, r, end, e)
    PROVE  Decode(bytes, at, end) = [size |-> Len(e), head |-> r + Len(e),
                                     value |-> IF r = at THEN v ELSE Complement(v)]
<1>1. PICK n \in 0 .. 8 : Len(e) = 1 + n
  BY DEF Says
<1>2. /\ e \in Seq(Byte) /\ e[1] < 248 /\ Following(e[1]) = n /\ Positive(e[1], SubSeq(e, 2, 1 + n)) = v
      /\ e[1] \in Nat /\ r \in Nat /\ n \in Nat
  <2>1. e \in Seq(Byte) /\ e[1] < 248 /\ Following(e[1]) = Len(e) - 1
        /\ Positive(e[1], SubSeq(e, 2, Len(e))) = v
    BY DEF Says
  <2>2. e[1] \in Byte
    BY <1>1, <2>1, ElementOfSeq
  <2>3. Len(e) - 1 = n /\ n \in Nat
    BY <1>1
  <2>4. e[1] \in Nat /\ r \in Nat
    <3>1. r \in Nat
      OBVIOUS
    <3>2. Byte \subseteq Nat
      BY DEF Byte
    <3> QED
      BY <2>2, <3>1, <3>2
  <2> QED
    BY <1>1, <2>1, <2>3, <2>4, Zenon
<1>3. r + Len(e) <= end /\ \A k \in 1 .. Len(e) : bytes[r + k] = e[k]
  BY Zenon DEF Stands
<1>4. bytes[r + 1] = e[1] /\ r + 1 + n <= end /\ r # end
  BY <1>1, <1>2, <1>3
<1>5. SubSeq(bytes, r + 2, r + 1 + n) = SubSeq(e, 2, 1 + n)
  <2> DEFINE a == SubSeq(bytes, r + 2, r + 1 + n)
             b == SubSeq(e, 2, 1 + n)
  <2>1. b \in Seq(Byte) /\ Len(b) = n /\ \A i \in 1 .. n : b[i] = e[i + 1]
    <3>1. 1 + n <= Len(e) /\ 2 <= 1 + n + 1 /\ 1 + n \in Nat
      BY <1>1, <1>2
    <3>2. ASSUME NEW m \in Nat \ {0}, m <= 1 + n + 1
          PROVE  IsPart(SubSeq(e, m, 1 + n), Byte, e, m, 1 + n)
      BY <1>2, <3>1, <3>2, Part, Zenon
    <3>3. 1 + n - 2 + 1 = n /\ \A i \in 1 .. n : 2 + i - 1 = i + 1
      BY <1>2
    <3> HIDE DEF b
    <3>4. /\ b \in Seq(Byte) /\ Len(b) = 1 + n - 2 + 1
          /\ \A i \in 1 .. (1 + n - 2 + 1) : b[i] = e[2 + i - 1]
      <4>1. 2 \in Nat \ {0}
        OBVIOUS
      <4>2. IsPart(b, Byte, e, 2, 1 + n)
        BY <3>1, <3>2, <4>1, Zenon DEF b
      <4> QED
        BY <4>2 DEF IsPart
    <3> QED
      BY <3>3, <3>4
  <2>2. \A i \in (r + 2) .. (r + 1 + n) : bytes[i] = e[i - r] /\ bytes[i] \in Byte
    <3> TAKE i \in (r + 2) .. (r + 1 + n)
    <3>1. i - r \in 1 .. Len(e) /\ r + (i - r) = i
      BY <1>1, <1>2
    <3>2. e[i - r] \in Byte
      BY <1>2, <3>1, ElementOfSeq
    <3> QED
      BY <1>3, <3>1, <3>2
  <2>3. a \in Seq(Byte) /\ Len(a) = n /\ \A i \in 1 .. n : a[i] = bytes[r + 2 + i - 1]
    <3>1. /\ a \in Seq(Byte)
          /\ Len(a) = IF r + 2 <= r + 1 + n THEN r + 1 + n - (r + 2) + 1 ELSE 0
          /\ \A i \in 1 .. r + 1 + n - (r + 2) + 1 : a[i] = bytes[r + 2 + i - 1]
      <4>1. r + 2 \in Int /\ r + 1 + n \in Int
        BY <1>2
      <4> QED
        BY <2>2, <4>1, SubSeqProperties
    <3>2. /\ r + 1 + n - (r + 2) + 1 = n
          /\ (IF r + 2 <= r + 1 + n THEN r + 1 + n - (r + 2) + 1 ELSE 0) = n
      BY <1>2
    <3> HIDE DEF a
    <3> QED
      BY <3>1, <3>2
  <2> HIDE DEF a, b
  <2>4. ASSUME NEW i \in 1 .. n PROVE a[i] = b[i]
    <3> DEFINE j == r + 2 + i - 1
    <3>1. j \in (r + 2) .. (r + 1 + n) /\ j - r = i + 1
      BY <1>2
    <3>2. a[i] = bytes[j] /\ b[i] = e[i + 1]
      BY <2>1, <2>3
    <3> HIDE DEF j
    <3>3. bytes[j] = e[j - r]
      BY <2>2, <3>1
    <3> QED
      BY <3>1, <3>2, <3>3, Zenon
  <2>5. a = b
    BY <1>2, <2>1, <2>3, <2>4, SeqEqual
  <2> QED
    BY <2>5 DEF a, b
<1>6. ((r - at) % 2 = 1) = (r # at)
  OBVIOUS
<1> DEFINE first == bytes[r + 1]
           more  == Following(first)
           signed == IF (r - at) % 2 = 1 THEN Negated(v) ELSE v
<1>7. /\ (r = end) = FALSE /\ (first >= 252) = FALSE /\ more = n /\ (r + 1 + more > end) = FALSE
      /\ Positive(first, SubSeq(bytes, r + 2, r + 1 + more)) = v
  <2>1. first = e[1]
    BY <1>4
  <2>2. more = n
    BY <1>2, <2>1
  <2>3. Positive(first, SubSeq(bytes, r + 2, r + 1 + more)) = v
    BY <1>2, <1>5, <2>1, <2>2
  <2> HIDE DEF first, more
  <2>4. (r = end) = FALSE /\ (first >= 252) = FALSE /\ (r + 1 + more > end) = FALSE
    BY <1>2, <1>4, <2>1, <2>2
  <2> QED
    BY <2>2, <2>3, <2>4
<1>8. signed = IF r = at THEN v ELSE Complement(v)
  BY <1>6 DEF Negated
<1> HIDE DEF first, more
<1>9. Decode(bytes, at, end) = [size |-> 1 + more, value |-> signed, head |-> r + (1 + more)]
  BY <1>7 DEF Decode, first, more
<1> QED
  BY <1>1, <1>7, <1>8, <1>9

LEMMA EncodeTyped ==
    ASSUME NEW v \in UInt64
    PROVE  /\ Encode(v)[1] \in Seq(Byte) /\ Encode(v)[2] \in Seq(Byte)
           /\ Len(Encode(v)[2]) > 0
<1>1. EncodePositive(v) \in Seq(Byte) /\ Len(EncodePositive(v)) > 0
  BY PositiveSays DEF Says
<1> DEFINE c == Complement(v)
<1>2. c \in UInt64
  BY ComplementBack
<1>3. EncodePositive(c) \in Seq(Byte) /\ Len(EncodePositive(c)) > 0
  BY <1>2, PositiveSays DEF Says
<1>4. CASE ~IsNegative(v)
  BY <1>1, <1>4 DEF Encode
<1>5. CASE IsNegative(v) /\ Fits(c, 1, 4)
  <2>1. 252 + c[8] \in Byte
    BY <1>2, <1>5 DEF Fits, UInt64, Byte
  <2>2. Encode(v) = << <<>>, <<252 + c[8]>> >>
    BY <1>5 DEF Encode
  <2> HIDE DEF c
  <2> QED
    BY <2>1, <2>2
<1>6. CASE IsNegative(v) /\ ~Fits(c, 1, 4)
  <2>1. Encode(v) = <<<<248>>, EncodePositive(c)>>
    BY <1>6 DEF Encode
  <2>2. <<248>> \in Seq(Byte)
    BY DEF Byte
  <2> HIDE DEF c
  <2> QED
    BY <1>3, <2>1, <2>2
<1> QED
  BY <1>4, <1>5, <1>6

(* One piece behind another, of n bytes.                                   *)
Joined(flag, e, n) ==
    /\ flag \o e \in Seq(Byte) /\ Len(flag \o e) = n + Len(e)
    /\ \A k \in 1 .. n : (flag \o e)[k] = flag[k]
    /\ \A k \in 1 .. Len(e) : (flag \o e)[n + k] = e[k]

LEMMA FlagElements ==
    ASSUME NEW flag \in Seq(Byte), NEW e \in Seq(Byte), NEW n \in Nat, Len(flag) = n
    PROVE  Joined(flag, e, n)
<1>1. PICK l \in Nat : l = Len(e)
  BY LenProperties
<1>2. /\ flag \o e \in Seq(Byte) /\ Len(flag \o e) = Len(flag) + Len(e)
      /\ \A k \in 1 .. Len(flag) + Len(e) :
            (flag \o e)[k] = IF k <= Len(flag) THEN flag[k] ELSE e[k - Len(flag)]
  BY ConcatProperties, Zenon
<1>3. /\ flag \o e \in Seq(Byte) /\ Len(flag \o e) = n + l
      /\ \A k \in 1 .. n + l : (flag \o e)[k] = IF k <= n THEN flag[k] ELSE e[k - n]
  BY <1>1, <1>2, Zenon
<1>4. ASSUME NEW k \in 1 .. n PROVE (flag \o e)[k] = flag[k]
  BY <1>3
<1>5. ASSUME NEW k \in 1 .. l PROVE (flag \o e)[n + k] = e[k]
  <2> DEFINE j == n + k
  <2>1. j \in 1 .. n + l /\ ~(j <= n) /\ j - n = k
    OBVIOUS
  <2> HIDE DEF j
  <2>2. (flag \o e)[j] = e[j - n]
    BY <1>3, <2>1
  <2> QED
    BY <2>1, <2>2 DEF j
<1> QED
  BY <1>1, <1>3, <1>4, <1>5 DEF Joined

(* What buffer_readVarInt found: v, and that it ends at head.              *)
Found(number, v, head) == number.size > 0 /\ number.value = v /\ number.head = head

(* buffer_readVarInt reads what buffer_writeVarInt has written, whatever   *)
(* the number is and wherever in the buffer it stands (buffer.c:163-313).  *)
THEOREM NumbersReadBack ==
    ASSUME NEW v \in UInt64, NEW bytes, NEW at \in Nat, NEW end \in Nat,
           Stands(bytes, at, end, Encode(v)[1] \o Encode(v)[2])
    PROVE  Found(Decode(bytes, at, end), v, at + Len(Encode(v)[1] \o Encode(v)[2]))
<1> DEFINE c == Complement(v)
           s == Encode(v)[1] \o Encode(v)[2]
<1>1. c \in UInt64 /\ Complement(c) = v
  BY ComplementBack
<1>2. at + Len(s) <= end /\ \A k \in 1 .. Len(s) : bytes[at + k] = s[k]
  BY DEF Stands
<1>3. CASE ~IsNegative(v)
  <2> DEFINE e == EncodePositive(v)
  <2>1. Says(e, v)
    BY PositiveSays
  <2>2. s = <<>> \o e
    BY <1>3 DEF Encode
  <2> HIDE DEF e, s
  <2>3. e \in Seq(Byte)
    BY <2>1 DEF Says
  <2>4. s = e
    BY <2>2, <2>3, ConcatEmptySeq
  <2>5. PICK l \in 1 .. 9 : l = Len(e)
    BY <2>1 DEF Says
  <2>6. at + l <= end /\ \A k \in 1 .. l : bytes[at + k] = e[k]
    BY <1>2, <2>4, <2>5
  <2>7. at < end /\ bytes[at + 1] \notin 248 .. 251
    <3>1. bytes[at + 1] = e[1] /\ e[1] < 248 /\ at < end
      BY <2>1, <2>6 DEF Says
    <3> QED
      BY <3>1
  <2>8. AfterFlags(bytes, at, end) = at
    BY <2>7, NoFlag
  <2>9. Decode(bytes, at, end) = [size |-> l, head |-> at + l,
                                  value |-> IF at = at THEN v ELSE Complement(v)]
    <3>1. at \in {at, at + 1}
      OBVIOUS
    <3>2. Stands(bytes, at, end, e)
      BY <2>5, <2>6, Zenon DEF Stands
    <3>3. Decode(bytes, at, end) = [size |-> Len(e), head |-> at + Len(e),
                                    value |-> IF at = at THEN v ELSE Complement(v)]
      BY <2>1, <2>8, <3>1, <3>2, DecodeSays
    <3> QED
      BY <2>5, <3>3, Zenon
  <2> QED
    <3>1. /\ Decode(bytes, at, end).size > 0 /\ Decode(bytes, at, end).value = v
          /\ Decode(bytes, at, end).head = at + Len(s)
      BY <2>4, <2>5, <2>9
    <3> QED
      BY <3>1 DEF s, Found
<1>4. CASE IsNegative(v) /\ Fits(c, 1, 4)
  <2> DEFINE first == 252 + c[8]
  <2>1. /\ \A k \in 1 .. 7 : c[k] = 0
        /\ c[8] \in 0 .. 3 /\ first \in 252 .. 255 /\ first % 4 = c[8]
    <3>1. c[8] \in Nat /\ c[8] < 4 /\ \A k \in 1 .. 7 : c[k] = 0
      <4>1. c[8] \in Byte
        BY <1>1 DEF UInt64
      <4>2. \A k \in 1 .. (8 - 1) : c[k] = 0
        BY <1>4 DEF Fits
      <4>3. c[9 - 1] < 4
        BY <1>4 DEF Fits
      <4> HIDE DEF c
      <4>4. 8 - 1 = 7 /\ 9 - 1 = 8
        OBVIOUS
      <4>5. c[8] \in Nat
        <5>1. Byte \subseteq Nat
          BY DEF Byte
        <5> QED
          BY <4>1, <5>1
      <4>6. c[8] < 4
        BY <4>3, <4>4
      <4>7. \A k \in 1 .. 7 : c[k] = 0
        BY <4>2, <4>4
      <4> QED
        BY <4>5, <4>6, <4>7
    <3>2. \A x \in 0 .. 3 : (252 + x) % 4 = x
      OBVIOUS
    <3> HIDE DEF c
    <3> QED
      BY <3>1, <3>2
  <2>2. s = <<>> \o <<first>>
    BY <1>4 DEF Encode
  <2> HIDE DEF c, s, first
  <2>3. s = <<first>> /\ Len(s) = 1 /\ s[1] = first
    BY <2>2
  <2>4. at + 1 <= end /\ bytes[at + 1] = first
    BY <1>2, <2>3
  <2>5. AfterFlags(bytes, at, end) = at
    <3>1. at < end /\ bytes[at + 1] \notin 248 .. 251
      BY <2>1, <2>4
    <3> QED
      BY <3>1, NoFlag
  <2>6. Pad(<<first % 4>>) = c
    <3>1. PICK t \in Seq(Byte) : t = <<c[8]>> /\ Len(t) = 1 /\ t[1] = c[8]
      <4>1. c[8] \in Byte
        BY <2>1 DEF Byte
      <4>2. <<c[8]>> \in Seq(Byte) /\ Len(<<c[8]>>) = 1 /\ <<c[8]>>[1] = c[8]
        BY <4>1
      <4> QED
        BY <4>2
    <3>2. /\ Pad(t) \in UInt64
          /\ \A k \in 1 .. 8 : Pad(t)[k] = IF k <= 8 - 1 THEN 0 ELSE t[k - (8 - 1)]
      <4>1. PICK l \in 0 .. 8 : l = 1
        OBVIOUS
      <4>2. Len(t) = l
        BY <3>1, <4>1
      <4>3. /\ Pad(t) \in UInt64
            /\ \A k \in 1 .. 8 : Pad(t)[k] = IF k <= 8 - l THEN 0 ELSE t[k - (8 - l)]
        BY <4>2, PadElements
      <4> QED
        BY <4>1, <4>3
    <3>3. ASSUME NEW k \in 1 .. 8 PROVE Pad(t)[k] = c[k]
      <4>1. CASE k <= 7
        BY <2>1, <3>2, <4>1
      <4>2. CASE k = 8
        BY <3>1, <3>2, <4>2
      <4> QED
        BY <4>1, <4>2
    <3>4. Pad(t) = c
      BY <1>1, <3>2, <3>3 DEF UInt64
    <3> QED
      BY <2>1, <3>1, <3>4
  <2>7. Decode(bytes, at, end) = [size |-> 1, value |-> v, head |-> at + 1]
    <3>1. (at = end) = FALSE /\ (bytes[at + 1] >= 252) = TRUE /\ ((at - at) % 2 = 1) = FALSE
      BY <2>1, <2>4
    <3>2. Negated(Pad(<<bytes[at + 1] % 4>>)) = v
      BY <1>1, <2>4, <2>6 DEF Negated
    <3> QED
      BY <2>5, <3>1, <3>2 DEF Decode
  <2> QED
    BY <2>3, <2>7 DEF s, Found
<1>5. CASE IsNegative(v) /\ ~Fits(c, 1, 4)
  <2> DEFINE e == EncodePositive(c)
  <2>1. Says(e, c)
    BY <1>1, PositiveSays
  <2>2. s = <<248>> \o e
    BY <1>5 DEF Encode
  <2> HIDE DEF e, s, c
  <2>3. PICK l \in 1 .. 9 : l = Len(e)
    BY <2>1 DEF Says
  <2>4. /\ Len(s) = 1 + l /\ s[1] = 248
        /\ \A k \in 1 .. l : s[1 + k] = e[k]
    <3> DEFINE flag == <<248>>
    <3>1. flag \in Seq(Byte) /\ Len(flag) = 1 /\ flag[1] = 248
      <4>1. 248 \in Byte
        BY DEF Byte
      <4> QED
        BY <4>1
    <3>2. flag = <<248>>
      OBVIOUS
    <3> HIDE DEF flag
    <3>3. e \in Seq(Byte) /\ s = flag \o e
      BY <2>1, <2>2, <3>2 DEF Says
    <3>4. e \in Seq(Byte)
      BY <3>3
    <3>5. ASSUME NEW n \in Nat, Len(flag) = n
          PROVE  Joined(flag, e, n)
      <4>1. flag \in Seq(Byte)
        BY <3>1
      <4>2. Len(flag) = n
        BY <3>5
      <4> QED
        BY <3>4, <4>1, <4>2, FlagElements
    <3>6. /\ Len(flag \o e) = 1 + Len(e)
          /\ \A k \in 1 .. 1 : (flag \o e)[k] = flag[k]
          /\ \A k \in 1 .. Len(e) : (flag \o e)[1 + k] = e[k]
      <4>1. Joined(flag, e, 1)
        BY <3>1, <3>5
      <4> QED
        BY <4>1, Zenon DEF Joined
    <3> QED
      BY <2>3, <3>1, <3>3, <3>6
  <2>5. /\ at + 1 + l <= end /\ bytes[at + 1] = 248
        /\ \A k \in 1 .. l : bytes[at + 1 + k] = e[k]
    <3>1. at + (1 + l) <= end /\ bytes[at + 1] = s[1]
      BY <1>2, <2>4
    <3>2. ASSUME NEW k \in 1 .. l PROVE bytes[at + 1 + k] = e[k]
      <4>1. 1 + k \in 1 .. (1 + l) /\ at + (1 + k) = at + 1 + k
        OBVIOUS
      <4> QED
        BY <1>2, <2>4, <4>1
    <3> QED
      BY <2>4, <3>1, <3>2
  <2>6. bytes[at + 2] \notin 248 .. 251
    <3>1. at + 1 + 1 = at + 2 /\ e[1] < 248
      BY <2>1 DEF Says
    <3>2. bytes[at + 2] = e[1]
      BY <2>5, <3>1
    <3> QED
      BY <3>1, <3>2
  <2>7. AfterFlags(bytes, at, end) = at + 1
    BY <2>5, <2>6, OneFlag
  <2>8. Decode(bytes, at, end) = [size |-> l, head |-> at + 1 + l,
                                  value |-> IF at + 1 = at THEN c ELSE Complement(c)]
    <3>1. at + 1 \in {at, at + 1}
      OBVIOUS
    <3>2. Stands(bytes, at + 1, end, e)
      BY <2>3, <2>5, Zenon DEF Stands
    <3>3. Decode(bytes, at, end) = [size |-> Len(e), head |-> at + 1 + Len(e),
                                    value |-> IF at + 1 = at THEN c ELSE Complement(c)]
      BY <1>1, <2>1, <2>7, <3>1, <3>2, DecodeSays
    <3> QED
      BY <2>3, <3>3, Zenon
  <2>9. (at + 1 = at) = FALSE
    OBVIOUS
  <2> QED
    BY <1>1, <2>3, <2>4, <2>8, <2>9 DEF s, Found
<1> QED
  BY <1>3, <1>4, <1>5

-----------------------------------------------------------------------------
(* The bytes of a buffer, and what is written into them.                   *)
LEMMA TableIsSeq ==
    ASSUME NEW S, NEW n \in Nat, NEW f \in [1 .. n -> S]
    PROVE  f \in Seq(S) /\ Len(f) = n
<1>1. Seq(S) = UNION {[1 .. m -> S] : m \in Nat}
  BY SeqDef, Zenon
<1>2. [1 .. n -> S] \in {[1 .. m -> S] : m \in Nat}
  OBVIOUS
<1>3. f \in Seq(S)
  BY <1>1, <1>2, Zenon
<1>4. Len(f) \in Nat /\ DOMAIN f = 1 .. Len(f)
  BY <1>3, LenProperties
<1>5. 1 .. Len(f) = 1 .. n
  BY <1>4
<1>6. Len(f) = n
  <2> DEFINE l == Len(f)
  <2>1. l \in Nat /\ 1 .. l = 1 .. n
    BY <1>4, <1>5
  <2> HIDE DEF l
  <2>2. l = n
    <3>1. l > n => l \in 1 .. l /\ l \notin 1 .. n
      BY <2>1
    <3>2. n > l => n \in 1 .. n /\ n \notin 1 .. l
      BY <2>1
    <3> QED
      BY <2>1, <3>1, <3>2
  <2> QED
    BY <2>2 DEF l
<1> QED
  BY <1>3, <1>6

Cells == Byte \cup {Unknown}

(* A buffer that grows keeps its bytes and has room for what is written    *)
(* (buffer.c:36-64).                                                       *)
LEMMA AdjustedHasRoom ==
    ASSUME NEW bytes \in Seq(Cells), NEW head \in Nat
    PROVE  /\ Adjusted(bytes, head) \in Seq(Cells)
           /\ Len(bytes) <= Len(Adjusted(bytes, head)) /\ head <= Len(Adjusted(bytes, head))
           /\ \A k \in 1 .. Len(bytes) : Adjusted(bytes, head)[k] = bytes[k]
<1>1. PICK l \in Nat : l = Len(bytes)
  BY LenProperties
<1>2. CASE head <= l
  BY <1>1, <1>2 DEF Adjusted
<1>3. CASE ~(head <= l)
  <2> DEFINE c == NewCapacity(l, head)
             more == [k \in 1 .. (c - l) |-> Unknown]
  <2>1. c \in Nat /\ head <= c /\ c - l \in Nat
    BY <1>3 DEF NewCapacity
  <2> HIDE DEF c
  <2>2. Adjusted(bytes, head) = bytes \o more
    BY <1>1, <1>3 DEF Adjusted, c
  <2>3. more \in Seq(Cells) /\ Len(more) = c - l
    <3>1. more \in [1 .. (c - l) -> Cells]
      BY DEF Cells
    <3> HIDE DEF more
    <3> QED
      BY <2>1, <3>1, TableIsSeq
  <2> HIDE DEF more
  <2>4. /\ bytes \o more \in Seq(Cells) /\ Len(bytes \o more) = Len(bytes) + Len(more)
        /\ \A k \in 1 .. Len(bytes) + Len(more) :
              (bytes \o more)[k] = IF k <= Len(bytes) THEN bytes[k] ELSE more[k - Len(bytes)]
    BY <2>3, ConcatProperties, Zenon
  <2>5. /\ Len(bytes \o more) = l + (c - l)
        /\ \A k \in 1 .. l + (c - l) :
              (bytes \o more)[k] = IF k <= l THEN bytes[k] ELSE more[k - l]
    BY <1>1, <2>3, <2>4, Zenon
  <2>6. l + (c - l) = c /\ l <= c
    BY <1>3, <2>1
  <2>7. ASSUME NEW k \in 1 .. l PROVE (bytes \o more)[k] = bytes[k]
    <3>1. k \in 1 .. l + (c - l) /\ k <= l
      BY <2>6, <2>1
    <3> QED
      BY <2>5, <3>1
  <2> QED
    BY <1>1, <2>1, <2>2, <2>4, <2>5, <2>6, <2>7
<1> QED
  BY <1>2, <1>3

(* What became of the bytes `old` when s was written at head.              *)
Wrote(old, new, head, s) ==
    /\ new \in Seq(Cells) /\ Len(old) <= Len(new) /\ head + Len(s) <= Len(new)
    /\ \A k \in 1 .. Len(s) : new[head + k] = s[k]
    /\ \A k \in 1 .. Len(old) : k <= head \/ head + Len(s) < k => new[k] = old[k]

LEMMA PutWrites ==
    ASSUME NEW bytes \in Seq(Cells), NEW head \in Nat, head <= Len(bytes), NEW piece \in Seq(Byte)
    PROVE  /\ Put([bytes |-> bytes, head |-> head], piece).head = head + Len(piece)
           /\ Wrote(bytes, Put([bytes |-> bytes, head |-> head], piece).bytes, head, piece)
<1>1. PICK n \in Nat : n = Len(piece)
  BY LenProperties
<1> DEFINE b == Adjusted(bytes, head + n)
           new == [k \in DOMAIN b |-> IF k \in (head + 1) .. (head + n) THEN piece[k - head] ELSE b[k]]
<1>2. Put([bytes |-> bytes, head |-> head], piece) = [head |-> head + n, bytes |-> new]
  BY <1>1 DEF Put
<1>3. /\ b \in Seq(Cells) /\ Len(bytes) <= Len(b) /\ head + n <= Len(b)
      /\ \A k \in 1 .. Len(bytes) : b[k] = bytes[k]
  <2>1. head + n \in Nat
    BY <1>1
  <2> QED
    BY <2>1, AdjustedHasRoom
<1> HIDE DEF b
<1>4. PICK l \in Nat : l = Len(b) /\ DOMAIN b = 1 .. l
  BY <1>3, LenProperties
<1>5. new \in [1 .. l -> Cells]
  <2>1. ASSUME NEW k \in 1 .. l
        PROVE  (IF k \in (head + 1) .. (head + n) THEN piece[k - head] ELSE b[k]) \in Cells
    <3>1. CASE k \in (head + 1) .. (head + n)
      <4>1. k - head \in 1 .. Len(piece)
        BY <1>1, <3>1
      <4>2. piece[k - head] \in Byte
        BY <4>1, ElementOfSeq
      <4> QED
        BY <3>1, <4>2 DEF Cells
    <3>2. CASE ~(k \in (head + 1) .. (head + n))
      <4>1. b[k] \in Cells
        BY <1>3, <1>4, ElementOfSeq
      <4> QED
        BY <3>2, <4>1
    <3> QED
      BY <3>1, <3>2
  <2> QED
    BY <1>4, <2>1
<1>6. new \in Seq(Cells) /\ Len(new) = l
  BY <1>5, TableIsSeq
<1>7. ASSUME NEW k \in 1 .. n PROVE new[head + k] = piece[k]
  <2> DEFINE j == head + k
  <2>1. j \in (head + 1) .. (head + n) /\ j \in 1 .. l /\ j - head = k
    BY <1>3, <1>4
  <2> HIDE DEF j
  <2>2. new[j] = piece[j - head]
    BY <1>4, <2>1
  <2> QED
    BY <2>1, <2>2 DEF j
<1>8. PICK m \in Nat : m = Len(bytes)
  BY LenProperties
<1>9. ASSUME NEW k \in 1 .. m, k <= head \/ head + n < k PROVE new[k] = bytes[k]
  <2>1. k \in 1 .. l /\ ~(k \in (head + 1) .. (head + n))
    BY <1>3, <1>4, <1>8, <1>9
  <2>2. new[k] = b[k]
    BY <1>4, <2>1
  <2> QED
    BY <1>3, <1>8, <2>2
<1> HIDE DEF new
<1>10. Wrote(bytes, new, head, piece)
  BY <1>1, <1>3, <1>4, <1>6, <1>7, <1>8, <1>9 DEF Wrote
<1> QED
  BY <1>1, <1>2, <1>10

(* Numbers of 31 bits.                                                     *)
LEMMA Int31Bounds ==
    /\ MaxInt31 \in Nat /\ 255 <= MaxInt31
    /\ \A n \in 0 .. MaxInt31 : n \in Nat /\ n <= MaxInt31
<1>1. MaxInt31 \in Nat /\ 255 <= MaxInt31
  BY SMT DEF MaxInt31
<1> QED
  BY <1>1

LEMMA NumberTyped ==
    ASSUME NEW n \in Nat, n <= MaxInt31
    PROVE  /\ U(n) \in UInt64 /\ U(n)[1] = 0
           /\ n <= 255 => \A k \in 1 .. 7 : U(n)[k] = 0
           /\ n <= 255 => U(n)[8] = n
<1>1. /\ n \div 16777216 \in 0 .. 255 /\ (n \div 65536) % 256 \in 0 .. 255
      /\ (n \div 256) % 256 \in 0 .. 255 /\ n % 256 \in 0 .. 255
  BY SMT DEF MaxInt31
<1>2. U(n) \in [1 .. 8 -> 0 .. 255]
  BY <1>1, SMT DEF U
<1>3. n <= 255 => /\ n \div 16777216 = 0 /\ (n \div 65536) % 256 = 0
                  /\ (n \div 256) % 256 = 0 /\ n % 256 = n
  BY SMT DEF MaxInt31
<1>4. /\ U(n)[1] = 0 /\ U(n)[2] = 0 /\ U(n)[3] = 0 /\ U(n)[4] = 0
      /\ U(n)[5] = n \div 16777216 /\ U(n)[6] = (n \div 65536) % 256
      /\ U(n)[7] = (n \div 256) % 256 /\ U(n)[8] = n % 256
  BY SMT DEF U
<1>5. n <= 255 => \A k \in 1 .. 7 : U(n)[k] = 0
  <2> SUFFICES ASSUME n <= 255, NEW k \in 1 .. 7 PROVE U(n)[k] = 0
    OBVIOUS
  <2>1. k = 1 \/ k = 2 \/ k = 3 \/ k = 4 \/ k = 5 \/ k = 6 \/ k = 7
    OBVIOUS
  <2> QED
    BY <1>3, <1>4, <2>1, SMT
<1> QED
  BY <1>2, <1>3, <1>4, <1>5, SMT DEF UInt64, Byte

(* The length of a string.                                                 *)
LEMMA LengthTyped ==
    ASSUME NEW n \in 0 .. 255
    PROVE  /\ U(n) \in UInt64 /\ U(n)[1] = 0 /\ U(n)[8] = n
           /\ \A k \in 1 .. 7 : U(n)[k] = 0
<1>1. n \in Nat /\ n <= 255
  OBVIOUS
<1>2. n <= MaxInt31
  BY <1>1, Int31Bounds
<1> QED
  BY <1>1, <1>2, NumberTyped, Zenon

LEMMA TextTyped ==
    ASSUME NEW n \in Nat
    PROVE  Text(n) \in Seq(Byte) /\ Len(Text(n)) = n
<1>1. Text(n) \in [1 .. n -> Byte]
  BY DEF Text, Byte
<1> QED
  BY <1>1, TableIsSeq

(* What kinds of values there are.                                         *)
LEMMA ItemKinds ==
    ASSUME NEW item \in Items
    PROVE  \/ item.kind = "varint" /\ item.value \in UInt64
           \/ /\ item.kind = "string" /\ item.value \in Seq(Byte)
              /\ Len(item.value) \in 0 .. 255
           \/ item.kind = "plain" /\ item.value \in Seq(Byte)
<1>1. CASE item \in [kind : {"varint"}, value : Unsigned \cup {Complement(v) : v \in Unsigned}]
  <2>1. Unsigned \subseteq UInt64
    <3>1. \A n \in Numbers : n \in 0 .. MaxInt31
      BY BufferAssumption, Zenon
    <3>2. ASSUME NEW n \in Numbers PROVE U(n) \in UInt64
      <4>1. n \in Nat /\ n <= MaxInt31
        BY <3>1, Int31Bounds, Zenon
      <4> QED
        BY <4>1, NumberTyped, Zenon
    <3>3. Wide \subseteq UInt64
      BY DEF Wide, UInt64, Byte
    <3> QED
      BY <3>2, <3>3 DEF Unsigned
  <2>2. \A v \in Unsigned : Complement(v) \in UInt64
    BY <2>1, ComplementBack
  <2> QED
    BY <1>1, <2>1, <2>2
<1>2. CASE item \in {[kind |-> "string", value |-> Text(n)] : n \in Strings}
  <2>1. PICK n \in Strings : item = [kind |-> "string", value |-> Text(n)]
    BY <1>2
  <2>2. n \in 0 .. 255
    BY BufferAssumption, Zenon
  <2>3. n \in Nat
    BY <2>2
  <2> QED
    BY <2>1, <2>2, <2>3, TextTyped
<1>3. CASE item \in {[kind |-> "plain", value |-> Text(n)] : n \in Sizes}
  <2>1. PICK n \in Sizes : item = [kind |-> "plain", value |-> Text(n)]
    BY <1>3
  <2>2. n \in Nat
    <3>1. n \in Nat \ {0}
      BY BufferAssumption, Zenon
    <3> QED
      BY <3>1
  <2> QED
    BY <2>1, <2>2, TextTyped
<1> QED
  BY <1>1, <1>2, <1>3 DEF Items

LEMMA PiecesTyped ==
    ASSUME NEW item \in Items
    PROVE  /\ Pieces(item)[1] \in Seq(Byte) /\ Pieces(item)[2] \in Seq(Byte)
           /\ Bytes(item) \in Seq(Byte) /\ Size(item) \in Nat
           /\ Size(item) = Len(Pieces(item)[1]) + Len(Pieces(item)[2])
<1>1. Pieces(item)[1] \in Seq(Byte) /\ Pieces(item)[2] \in Seq(Byte)
  <2>1. CASE item.kind = "varint" /\ item.value \in UInt64
    <3>1. Pieces(item) = Encode(item.value)
      BY <2>1 DEF Pieces
    <3> QED
      BY <2>1, <3>1, EncodeTyped
  <2>2. CASE item.kind = "string" /\ item.value \in Seq(Byte) /\ Len(item.value) \in 0 .. 255
    <3>1. Pieces(item) = <<Encode(U(Len(item.value)))[2], item.value>>
      BY <2>2 DEF Pieces
    <3>2. U(Len(item.value)) \in UInt64
      BY <2>2, LengthTyped, Zenon
    <3>3. Encode(U(Len(item.value)))[2] \in Seq(Byte)
      BY <3>2, EncodeTyped
    <3> QED
      BY <2>2, <3>1, <3>3
  <2>3. CASE item.kind = "plain" /\ item.value \in Seq(Byte)
    <3>1. Pieces(item) = << <<>>, item.value>>
      BY <2>3 DEF Pieces
    <3> QED
      BY <2>3, <3>1
  <2> QED
    BY <2>1, <2>2, <2>3, ItemKinds
<1>2. /\ Bytes(item) \in Seq(Byte)
      /\ Len(Bytes(item)) = Len(Pieces(item)[1]) + Len(Pieces(item)[2])
  BY <1>1, ConcatProperties, Zenon DEF Bytes
<1>3. Len(Bytes(item)) \in Nat
  BY <1>2, LenProperties
<1> QED
  BY <1>1, <1>2, <1>3 DEF Size

(* Both pieces of a value, one after the other.                            *)
LEMMA WriteWrites ==
    ASSUME NEW bytes \in Seq(Cells), NEW head \in Nat, head <= Len(bytes), NEW item \in Items
    PROVE  LET b == Put(Put([bytes |-> bytes, head |-> head], Pieces(item)[1]), Pieces(item)[2])
           IN  b.head = head + Size(item) /\ Wrote(bytes, b.bytes, head, Bytes(item))
<1> DEFINE p == Pieces(item)[1]
           q == Pieces(item)[2]
           s == Bytes(item)
<1>1. p \in Seq(Byte) /\ q \in Seq(Byte) /\ s \in Seq(Byte) /\ s = p \o q
  BY PiecesTyped DEF Bytes
<1> HIDE DEF p, q, s
<1>2. PICK m \in Nat : m = Len(p)
  BY <1>1, LenProperties
<1>3. PICK n \in Nat : n = Len(q)
  BY <1>1, LenProperties
<1> DEFINE b1 == Put([bytes |-> bytes, head |-> head], p)
           b2 == Put([bytes |-> b1.bytes, head |-> b1.head], q)
<1>4. b1.head = head + m /\ Wrote(bytes, b1.bytes, head, p)
  BY <1>1, <1>2, PutWrites
<1>5. b1 = [bytes |-> b1.bytes, head |-> b1.head]
  BY DEF Put
<1> HIDE DEF b1
<1>6. /\ b1.bytes \in Seq(Cells) /\ b1.head \in Nat /\ b1.head <= Len(b1.bytes)
  BY <1>2, <1>4 DEF Wrote
<1>7. b2.head = b1.head + n /\ Wrote(b1.bytes, b2.bytes, b1.head, q)
  BY <1>1, <1>3, <1>6, PutWrites
<1> HIDE DEF b2
<1>8. /\ Len(s) = m + n /\ \A k \in 1 .. m : s[k] = p[k]
      /\ \A k \in 1 .. n : s[m + k] = q[k]
  <2>1. /\ Len(p \o q) = m + Len(q) /\ \A k \in 1 .. m : (p \o q)[k] = p[k]
        /\ \A k \in 1 .. Len(q) : (p \o q)[m + k] = q[k]
    <3>1. Joined(p, q, m)
      BY <1>1, <1>2, FlagElements
    <3> QED
      BY <3>1, Zenon DEF Joined
  <2> QED
    BY <1>1, <1>3, <2>1
<1>9. PICK l \in Nat : l = Len(bytes)
  BY LenProperties
<1>10. PICK l1 \in Nat : l1 = Len(b1.bytes)
  BY <1>6, LenProperties
<1>11. PICK l2 \in Nat : l2 = Len(b2.bytes)
  BY <1>7, LenProperties DEF Wrote
<1>12. /\ l <= l1 /\ head + m <= l1 /\ l1 <= l2 /\ head + m + n <= l2
       /\ \A k \in 1 .. m : b1.bytes[head + k] = p[k]
       /\ \A k \in 1 .. l : k <= head \/ head + m < k => b1.bytes[k] = bytes[k]
       /\ \A k \in 1 .. n : b2.bytes[head + m + k] = q[k]
       /\ \A k \in 1 .. l1 : k <= head + m \/ head + m + n < k => b2.bytes[k] = b1.bytes[k]
  BY <1>2, <1>3, <1>4, <1>7, <1>9, <1>10, <1>11 DEF Wrote
<1>13. ASSUME NEW k \in 1 .. m + n PROVE b2.bytes[head + k] = s[k]
  <2>1. CASE k <= m
    <3>1. head + k \in 1 .. l1 /\ head + k <= head + m /\ k \in 1 .. m
      BY <1>12, <2>1
    <3> QED
      BY <1>8, <1>12, <3>1
  <2>2. CASE ~(k <= m)
    <3> DEFINE j == k - m
    <3>1. j \in 1 .. n /\ head + m + j = head + k /\ m + j = k
      BY <2>2
    <3> HIDE DEF j
    <3>2. b2.bytes[head + m + j] = q[j] /\ s[m + j] = q[j]
      BY <1>8, <1>12, <3>1
    <3> QED
      BY <3>1, <3>2
  <2> QED
    BY <2>1, <2>2
<1>14. ASSUME NEW k \in 1 .. l, k <= head \/ head + (m + n) < k PROVE b2.bytes[k] = bytes[k]
  <2>1. /\ k \in 1 .. l1 /\ (k <= head + m \/ head + m + n < k)
        /\ (k <= head \/ head + m < k)
    BY <1>12, <1>14
  <2> QED
    BY <1>12, <2>1
<1>15. Wrote(bytes, b2.bytes, head, s)
  <2>1. b2.bytes \in Seq(Cells)
    BY <1>7 DEF Wrote
  <2>2. l <= l2 /\ head + (m + n) <= l2
    BY <1>12
  <2> QED
    BY <1>8, <1>9, <1>11, <1>13, <1>14, <2>1, <2>2 DEF Wrote
<1>16. b2.head = head + Size(item)
  <2>1. Size(item) = m + n
    BY <1>8 DEF Size, s
  <2> QED
    BY <1>4, <1>7, <2>1
<1>17. Put(b1, q) = b2
  BY <1>5 DEF b2
<1> QED
  BY <1>15, <1>16, <1>17 DEF b1, p, q, s

(* The n bytes at a place.                                                 *)
AreAt(t, bytes, at, n) ==
    t \in Seq(Byte) /\ Len(t) = n /\ \A i \in 1 .. n : t[i] = bytes[at + i]

LEMMA BytesAt ==
    ASSUME NEW bytes, NEW at \in Nat, NEW n \in Nat,
           \A k \in (at + 1) .. (at + n) : bytes[k] \in Byte
    PROVE  AreAt(SubSeq(bytes, at + 1, at + n), bytes, at, n)
<1> DEFINE a == SubSeq(bytes, at + 1, at + n)
<1>1. /\ a \in Seq(Byte)
      /\ Len(a) = IF at + 1 <= at + n THEN at + n - (at + 1) + 1 ELSE 0
      /\ \A i \in 1 .. at + n - (at + 1) + 1 : a[i] = bytes[at + 1 + i - 1]
  <2>1. at + 1 \in Int /\ at + n \in Int
    OBVIOUS
  <2> QED
    BY <2>1, SubSeqProperties
<1>2. /\ at + n - (at + 1) + 1 = n
      /\ (IF at + 1 <= at + n THEN at + n - (at + 1) + 1 ELSE 0) = n
  OBVIOUS
<1> HIDE DEF a
<1>3. ASSUME NEW i \in 1 .. n PROVE a[i] = bytes[at + i]
  <2>1. at + 1 + i - 1 = at + i
    OBVIOUS
  <2>2. a[i] = bytes[at + 1 + i - 1]
    BY <1>1, <1>2
  <2> QED
    BY <2>1, <2>2, Zenon
<1>4. a \in Seq(Byte) /\ Len(a) = n
  BY <1>1, <1>2
<1> QED
  BY <1>3, <1>4 DEF a, AreAt

LEMMA FirstBitsTyped ==
    ASSUME NEW first \in Byte
    PROVE  FirstBits(first) \in Byte
<1>1. CASE first < 240
  <2>1. \E f \in Forms : f.prefix <= first /\ first < f.prefix + f.high
    <3> DEFINE f1 == [bytes |-> 1, prefix |->   0, high |-> 128]
               f2 == [bytes |-> 2, prefix |-> 128, high |->  64]
               f3 == [bytes |-> 3, prefix |-> 192, high |->  32]
               f4 == [bytes |-> 4, prefix |-> 224, high |->  16]
    <3>1. f1 \in Forms /\ f2 \in Forms /\ f3 \in Forms /\ f4 \in Forms
      BY DEF Forms
    <3>2. first \in Nat
      BY DEF Byte
    <3> QED
      BY <1>1, <3>1, <3>2
  <2>2. PICK f \in Forms : f.prefix <= first /\ first < f.prefix + f.high
    BY <2>1
  <2>3. FirstBits(first) = first - f.prefix
    BY <2>2, FormOf DEF Byte
  <2>4. PICK p \in Nat : f.prefix = p
    BY DEF Forms
  <2>5. first \in 0 .. 255 /\ p <= first
    BY <2>2, <2>4 DEF Byte
  <2>6. first - p \in 0 .. 255
    BY <2>5
  <2> QED
    BY <2>3, <2>4, <2>6 DEF Byte
<1>2. CASE ~(first < 240)
  BY <1>2 DEF FirstBits, Byte
<1> QED
  BY <1>1, <1>2

(* What a number's bytes say is a uint64_t, whatever they are.             *)
LEMMA PositiveTyped ==
    ASSUME NEW first \in Byte, NEW n \in 0 .. 8, NEW bytes \in Seq(Byte), Len(bytes) = n
    PROVE  Positive(first, bytes) \in UInt64
<1>1. CASE n = 8
  <2>1. bytes \in [1 .. Len(bytes) -> Byte]
    BY LenProperties
  <2> QED
    BY <1>1, <2>1 DEF Positive, UInt64
<1>2. CASE n # 8
  <2> DEFINE t == <<FirstBits(first)>> \o bytes
  <2>1. FirstBits(first) \in Byte
    BY FirstBitsTyped
  <2>2. t \in Seq(Byte) /\ Len(t) = n + 1
    <3> HIDE DEF t
    <3>1. t \in Seq(Byte) /\ Len(t) = Len(bytes) + 1
      BY <2>1, ByteInFront, Zenon DEF t
    <3> QED
      BY <3>1
  <2>3. Positive(first, bytes) = Pad(t)
    BY <1>2 DEF Positive
  <2> HIDE DEF t
  <2>4. ASSUME NEW l \in 0 .. 8, l = n + 1 PROVE Pad(t) \in UInt64
    <3>1. Len(t) = l
      BY <2>2, <2>4
    <3> QED
      BY <2>2, <3>1, PadElements
  <2>5. n + 1 \in 0 .. 8
    BY <1>2
  <2> QED
    BY <2>3, <2>4, <2>5
<1> QED
  BY <1>1, <1>2

LEMMA ZeroTyped == Zero \in UInt64
BY DEF Zero, UInt64, Byte

LEMMA DecodeTyped ==
    ASSUME NEW bytes, NEW at \in Nat, NEW end \in Nat, at <= end,
           \A k \in 1 .. end : bytes[k] \in Byte
    PROVE  Decode(bytes, at, end).value \in UInt64
<1> DEFINE r     == AfterFlags(bytes, at, end)
           first == bytes[r + 1]
           more  == Following(first)
           s     == SubSeq(bytes, r + 2, r + 1 + more)
           Signed(v) == IF (r - at) % 2 = 1 THEN Complement(v) ELSE v
<1>1. r \in at .. end
  BY AfterFlagsTyped
<1>2. r # end => first \in Byte /\ more \in 0 .. 8
  <2> SUFFICES ASSUME r # end PROVE first \in Byte /\ more \in 0 .. 8
    OBVIOUS
  <2>1. r + 1 \in 1 .. end
    BY <1>1
  <2>2. first \in Byte
    BY <2>1
  <2> QED
    BY <2>2, FollowingTyped
<1>3. Decode(bytes, at, end).value = IF r = end THEN Zero
                                     ELSE IF first >= 252 THEN Signed(Complement(Pad(<<first % 4>>)))
                                     ELSE IF r + 1 + more > end THEN Zero
                                     ELSE Signed(Positive(first, s))
  <2> HIDE DEF more, first, r
  <2> QED
    BY DEF Decode, Negated, r, first, more
<1> HIDE DEF first, r
<1>4. ASSUME NEW v \in UInt64 PROVE Signed(v) \in UInt64
  BY <1>4, ComplementBack
<1>5. CASE r # end /\ first >= 252
  <2> DEFINE t == <<first % 4>>
  <2>1. t \in Seq(Byte) /\ Len(t) = 1
    <3>1. first \in 0 .. 255
      BY <1>2, <1>5 DEF Byte
    <3>2. first % 4 \in Byte
      BY <3>1 DEF Byte
    <3> QED
      BY <3>2
  <2> HIDE DEF t
  <2>2. Pad(t) \in UInt64
    <3>1. 1 \in 0 .. 8
      OBVIOUS
    <3> QED
      BY <2>1, <3>1, PadElements
  <2>3. Complement(Pad(t)) \in UInt64
    BY <2>2, ComplementBack
  <2>4. Signed(Complement(Pad(t))) \in UInt64
    BY <1>4, <2>3
  <2> HIDE DEF more, Signed
  <2> QED
    BY <1>3, <1>5, <2>4 DEF t
<1>6. CASE r # end /\ ~(first >= 252) /\ ~(r + 1 + more > end)
  <2> HIDE DEF more
  <2>1. r + 1 \in Nat /\ more \in Nat /\ more \in 0 .. 8 /\ first \in Byte
    BY <1>1, <1>2, <1>6
  <2>2. \A k \in (r + 1 + 1) .. (r + 1 + more) : bytes[k] \in Byte
    <3> TAKE k \in (r + 1 + 1) .. (r + 1 + more)
    <3>1. k \in 1 .. end
      BY <1>1, <1>6, <2>1
    <3> QED
      BY <3>1
  <2>3. s \in Seq(Byte) /\ Len(s) = more
    <3>1. AreAt(SubSeq(bytes, r + 1 + 1, r + 1 + more), bytes, r + 1, more)
      BY <2>1, <2>2, BytesAt, Zenon
    <3>2. r + 1 + 1 = r + 2
      BY <1>1
    <3> QED
      BY <3>1, <3>2 DEF AreAt
  <2> HIDE DEF s
  <2>4. Positive(first, s) \in UInt64
    BY <2>1, <2>3, PositiveTyped
  <2>5. Signed(Positive(first, s)) \in UInt64
    BY <1>4, <2>4
  <2> HIDE DEF Signed
  <2> QED
    BY <1>3, <1>6, <2>5
<1> HIDE DEF more, s, Signed
<1> QED
  BY <1>3, <1>5, <1>6, ZeroTyped

LEMMA PlainBytes ==
    ASSUME NEW item, item.kind = "plain", item.value \in Seq(Byte), NEW n \in Nat, n = Len(item.value)
    PROVE  Size(item) = n /\ \A k \in 1 .. n : Bytes(item)[k] = item.value[k]
<1> DEFINE s == item.value
           e == <<>>
<1>1. Pieces(item) = <<e, s>>
  BY DEF Pieces
<1>2. e \in Seq(Byte) /\ Len(e) = 0
  OBVIOUS
<1> HIDE DEF e, s
<1>3. Bytes(item) = e \o s
  BY <1>1 DEF Bytes
<1>4. Len(e \o s) = 0 + Len(s) /\ \A k \in 1 .. Len(s) : (e \o s)[0 + k] = s[k]
  <2>1. 0 \in Nat /\ s \in Seq(Byte)
    BY DEF s
  <2> QED
    BY <1>2, <2>1, FlagElements, Zenon DEF Joined
<1>5. Len(s) = n
  BY DEF s
<1> QED
  BY <1>3, <1>4, <1>5 DEF Size, s

-----------------------------------------------------------------------------
(* The bytes of a value that was written and not written over are there.   *)
Holds(bytes, i) ==
    /\ i.at + Size(i.item) <= Len(bytes)
    /\ \A k \in 1 .. Size(i.item) : bytes[i.at + k] = Bytes(i.item)[k]

BufferInv == HeadsInMemory /\ \A i \in items : Holds(data, i)

LEMMA WrittenBytes ==
    ASSUME HeadsInMemory
    PROVE  /\ read_head \in Nat /\ write_head \in Nat /\ read_head <= write_head
           /\ data \in Seq(Cells) /\ \A k \in 1 .. write_head : data[k] \in Byte
<1>1. /\ data \in Seq(Cells) /\ write_head <= Len(data) /\ write_head \in Nat
      /\ read_head \in Nat /\ read_head <= write_head
      /\ \A k \in 1 .. write_head : data[k] # Unknown
  BY DEF HeadsInMemory, BufferTypeOK, Cells, Written
<1>2. PICK l \in Nat : l = Len(data)
  BY <1>1, LenProperties
<1>3. ASSUME NEW k \in 1 .. write_head PROVE data[k] \in Byte
  <2>1. k \in 1 .. Len(data)
    BY <1>1, <1>2
  <2>2. data[k] \in Cells
    BY <1>1, <2>1, ElementOfSeq
  <2> QED
    BY <1>1, <2>2 DEF Cells
<1> QED
  BY <1>1, <1>3

(* A value whose bytes were left alone is still there.                     *)
LEMMA StillHeld ==
    ASSUME NEW old \in Seq(Cells), NEW new \in Seq(Cells), NEW i \in [at : Nat, item : Items],
           Holds(old, i), Len(old) <= Len(new),
           \A k \in 1 .. Size(i.item) : new[i.at + k] = old[i.at + k]
    PROVE  Holds(new, i)
<1>1. PICK l \in Nat, m \in Nat, n \in Nat, a \in Nat :
          l = Len(old) /\ m = Len(new) /\ n = Size(i.item) /\ a = i.at
  <2>1. Len(old) \in Nat /\ Len(new) \in Nat
    BY LenProperties
  <2>2. i.item \in Items /\ i.at \in Nat
    OBVIOUS
  <2>3. Size(i.item) \in Nat
    BY <2>2, PiecesTyped
  <2> QED
    BY <2>1, <2>2, <2>3
<1>2. a + n <= l /\ l <= m /\ \A k \in 1 .. n : old[a + k] = Bytes(i.item)[k]
  BY <1>1 DEF Holds
<1>3. a + n <= m
  BY <1>2
<1>4. \A k \in 1 .. n : new[a + k] = Bytes(i.item)[k]
  BY <1>1, <1>2
<1> QED
  BY <1>1, <1>3, <1>4 DEF Holds

(* buffer_write and what calls it (buffer.c:36-86).                        *)
LEMMA WriteKeeps ==
    ASSUME BufferInv, NEW item \in Items, Write(item)
    PROVE  BufferInv'
<1>1. /\ data \in Seq(Cells) /\ read_head \in Nat /\ write_head \in Nat /\ read_head <= write_head
      /\ items \subseteq [at : Nat, item : Items] /\ moves \in 0 .. MaxMoves
      /\ writes \in 0 .. MaxWrites
      /\ \A k \in 1 .. write_head : data[k] \in Byte
      /\ \A i \in items : Holds(data, i)
  <2>1. HeadsInMemory
    BY DEF BufferInv
  <2> QED
    BY <2>1, WrittenBytes DEF BufferInv, HeadsInMemory, BufferTypeOK
<1>2. PICK l \in Nat : l = Len(data) /\ write_head <= l
  <2>1. Len(data) \in Nat
    BY <1>1, LenProperties
  <2> QED
    BY <2>1 DEF BufferInv, HeadsInMemory
<1>3. PICK n \in Nat : n = Size(item)
  BY PiecesTyped
<1> DEFINE b == Put(Put([bytes |-> data, head |-> write_head], Pieces(item)[1]), Pieces(item)[2])
<1>4. b.head = write_head + n /\ Wrote(data, b.bytes, write_head, Bytes(item))
  <2>1. write_head <= Len(data)
    BY <1>2
  <2>2. b.head = write_head + Size(item) /\ Wrote(data, b.bytes, write_head, Bytes(item))
    BY <1>1, <2>1, WriteWrites, Zenon
  <2> QED
    BY <1>3, <2>2, Zenon
<1>5. /\ data' = b.bytes /\ write_head' = b.head
      /\ items' = {i \in items : i.at + Size(i.item) <= write_head \/ i.at >= b.head}
                      \cup {[at |-> write_head, item |-> item]}
      /\ read_head' = read_head /\ moves' = moves /\ writes' = writes + 1 /\ writes < MaxWrites
  BY Zenon DEF Write
<1> HIDE DEF b
<1>6. /\ data' \in Seq(Cells) /\ write_head' = write_head + n
      /\ Wrote(data, data', write_head, Bytes(item))
  BY <1>4, <1>5 DEF Wrote
<1>7. PICK m \in Nat : m = Len(data')
  BY <1>6, LenProperties
<1>8. /\ l <= m /\ write_head + n <= m
      /\ \A k \in 1 .. n : data'[write_head + k] = Bytes(item)[k]
      /\ \A k \in 1 .. l : k <= write_head \/ write_head + n < k => data'[k] = data[k]
  BY <1>2, <1>3, <1>6, <1>7 DEF Wrote, Size
<1>9. BufferTypeOK'
  <2>1. items' \subseteq [at : Nat, item : Items]
    BY <1>1, <1>5
  <2>2. writes + 1 \in 0 .. MaxWrites
    BY <1>1, <1>5, BufferAssumption
  <2> QED
    BY <1>1, <1>5, <1>6, <2>1, <2>2 DEF BufferTypeOK, Cells
<1>10. ASSUME NEW k \in 1 .. write_head + n PROVE data'[k] # Unknown
  <2>1. CASE k <= write_head
    <3>1. k \in 1 .. l /\ k \in 1 .. write_head
      BY <1>1, <1>2, <2>1
    <3>2. data'[k] = data[k] /\ data[k] \in Byte
      BY <1>1, <1>8, <2>1, <3>1
    <3> QED
      BY <3>2 DEF Byte, Unknown
  <2>2. CASE ~(k <= write_head)
    <3> DEFINE j == k - write_head
    <3>1. j \in 1 .. n /\ write_head + j = k
      BY <1>1, <2>2
    <3> HIDE DEF j
    <3>2. data'[k] = Bytes(item)[j]
      BY <1>8, <3>1
    <3>3. Bytes(item)[j] \in Byte
      <4>1. Bytes(item) \in Seq(Byte)
        BY PiecesTyped
      <4>2. j \in 1 .. Len(Bytes(item))
        BY <1>3, <3>1 DEF Size
      <4> QED
        BY <4>1, <4>2, ElementOfSeq
    <3> QED
      BY <3>2, <3>3 DEF Byte, Unknown
  <2> QED
    BY <2>1, <2>2
<1>11. HeadsInMemory'
  <2>1. write_head' <= Len(data') /\ read_head' <= write_head'
    BY <1>1, <1>5, <1>6, <1>7, <1>8
  <2>2. Written(write_head)'
    BY <1>6, <1>10, <2>1 DEF Written
  <2> QED
    BY <1>9, <2>1, <2>2 DEF HeadsInMemory
<1>12. ASSUME NEW i \in items' PROVE Holds(data', i)
  <2>1. CASE i = [at |-> write_head, item |-> item]
    <3>1. i.at = write_head /\ i.item = item
      BY <2>1
    <3> QED
      BY <1>3, <1>7, <1>8, <3>1 DEF Holds
  <2>2. CASE i \in items /\ (i.at + Size(i.item) <= write_head \/ i.at >= write_head + n)
    <3>1. i \in [at : Nat, item : Items] /\ Holds(data, i)
      BY <1>1, <2>2
    <3>2. PICK a \in Nat, s \in Nat : a = i.at /\ s = Size(i.item)
      <4>1. i.at \in Nat /\ i.item \in Items
        BY <3>1
      <4>2. Size(i.item) \in Nat
        BY <4>1, PiecesTyped
      <4> QED
        BY <4>1, <4>2
    <3>3. a + s <= l /\ (a + s <= write_head \/ a >= write_head + n)
      BY <1>2, <2>2, <3>1, <3>2 DEF Holds
    <3>4. ASSUME NEW k \in 1 .. s PROVE data'[a + k] = data[a + k]
      <4>1. a + k \in 1 .. l /\ (a + k <= write_head \/ write_head + n < a + k)
        BY <1>1, <3>3
      <4> QED
        BY <1>8, <4>1
    <3>5. Len(data) <= Len(data')
      BY <1>2, <1>7, <1>8
    <3> QED
      BY <1>1, <1>6, <3>1, <3>2, <3>4, <3>5, StillHeld
  <2> QED
    BY <1>4, <1>5, <2>1, <2>2
<1> QED
  BY <1>11, <1>12 DEF BufferInv

(* A call that moves the heads, within what was written, and no bytes.     *)
LEMMA HeadsMove ==
    ASSUME BufferInv, UNCHANGED <<data, items>>, BufferTypeOK',
           read_head' <= write_head', Written(write_head')
    PROVE  BufferInv'
<1>1. data' = data /\ items' = items
  OBVIOUS
<1>2. HeadsInMemory'
  BY <1>1 DEF HeadsInMemory, Written
<1>3. \A i \in items' : Holds(data', i)
  BY <1>1 DEF BufferInv
<1> QED
  BY <1>2, <1>3 DEF BufferInv

LEMMA ReadsKeeps ==
    ASSUME BufferInv, NEW result, Reads(result), result.head \in read_head .. write_head
    PROVE  BufferInv'
<1>1. /\ read_head' = result.head /\ write_head' = write_head /\ writes' = writes /\ moves' = moves
      /\ data' = data /\ items' = items
  BY DEF Reads
<1>2. HeadsInMemory
  BY DEF BufferInv
<1>3. BufferTypeOK /\ Written(write_head) /\ read_head \in Nat /\ write_head \in Nat
  BY <1>2 DEF HeadsInMemory, BufferTypeOK
<1>4. result.head \in Nat /\ result.head <= write_head
  BY <1>3
<1>5. BufferTypeOK'
  BY <1>1, <1>3, <1>4 DEF BufferTypeOK
<1> QED
  BY <1>1, <1>3, <1>4, <1>5, HeadsMove

LEMMA PlainStays ==
    ASSUME NEW at \in Nat, write_head \in Nat, at <= write_head, NEW n \in Nat
    PROVE  ReadPlain(at, n).head \in at .. write_head
BY DEF ReadPlain, Result

LEMMA VarIntStays ==
    ASSUME HeadsInMemory
    PROVE  /\ ReadVarInt(read_head).head \in read_head .. write_head
           /\ ReadVarInt(read_head).value \in UInt64
<1>1. /\ read_head \in Nat /\ write_head \in Nat /\ read_head <= write_head
      /\ \A k \in 1 .. write_head : data[k] \in Byte
  BY WrittenBytes
<1>2. Decode(data, read_head, write_head).head \in read_head .. write_head
  BY <1>1, DecodeStays
<1>3. Decode(data, read_head, write_head).value \in UInt64
  BY <1>1, DecodeTyped
<1> QED
  BY <1>2, <1>3 DEF ReadVarInt, Result

(* luabuffer_read, luabuffer_readVarInt and luabuffer_readString.          *)
LEMMA ReadingKeeps ==
    ASSUME BufferInv, ReadSome \/ ReadNumber \/ ReadText
    PROVE  BufferInv'
<1>1. HeadsInMemory
  BY DEF BufferInv
<1>2. read_head \in Nat /\ write_head \in Nat /\ read_head <= write_head
  BY <1>1, WrittenBytes
<1>3. CASE ReadSome
  <2>1. PICK n \in Sizes \cup {write_head - read_head} : Reads(ReadPlain(read_head, n))
    BY <1>3 DEF ReadSome
  <2>2. n \in Nat
    <3>1. Sizes \subseteq Nat
      BY BufferAssumption, Zenon
    <3>2. write_head - read_head \in Nat
      BY <1>2
    <3> QED
      BY <3>1, <3>2
  <2>3. ReadPlain(read_head, n).head \in read_head .. write_head
    BY <1>2, <2>2, PlainStays
  <2> QED
    BY <2>1, <2>3, ReadsKeeps
<1>4. CASE ReadNumber
  <2>1. Reads(ReadVarInt(read_head))
    BY <1>4 DEF ReadNumber
  <2>2. ReadVarInt(read_head).head \in read_head .. write_head
    BY <1>1, VarIntStays
  <2> QED
    BY <2>1, <2>2, ReadsKeeps
<1>5. CASE ReadText
  <2>1. Reads(ReadString(read_head))
    BY <1>5 DEF ReadText
  <2> DEFINE h == ReadVarInt(read_head).head
             v == ReadVarInt(read_head).value
             n == v[7] * 256 + v[8]
  <2>2. h \in read_head .. write_head /\ v \in UInt64
    BY <1>1, VarIntStays
  <2> HIDE DEF v
  <2>3. n \in Nat
    <3>1. PICK x \in Nat, y \in Nat : v[7] = x /\ v[8] = y
      <4>1. \A k \in 1 .. 8 : v[k] \in Byte
        BY <2>2 DEF UInt64
      <4>2. v[7] \in Byte /\ v[8] \in Byte
        BY <4>1
      <4>3. Byte \subseteq Nat
        BY DEF Byte
      <4> QED
        BY <4>2, <4>3
    <3>2. x * 256 + y \in Nat
      OBVIOUS
    <3> QED
      BY <3>1, <3>2
  <2> HIDE DEF h, n
  <2>4. ReadPlain(h, n).head \in h .. write_head
    <3>1. h \in Nat /\ h <= write_head
      BY <1>2, <2>2
    <3> QED
      BY <1>2, <2>3, <3>1, PlainStays
  <2>5. ReadString(read_head).head \in {h, ReadPlain(h, n).head}
    BY DEF ReadString, Result, h, n, v
  <2>6. ReadString(read_head).head \in read_head .. write_head
    BY <1>2, <2>2, <2>4, <2>5
  <2> QED
    BY <2>1, <2>6, ReadsKeeps
<1> QED
  BY <1>3, <1>4, <1>5

(* buffer_reset, buffer_flip and luabuffer_seek.                           *)
LEMMA MovingKeeps ==
    ASSUME BufferInv, Reset \/ Flip \/ Seek
    PROVE  BufferInv'
<1>1. /\ BufferTypeOK /\ read_head \in Nat /\ write_head \in Nat /\ read_head <= write_head
      /\ Written(write_head) /\ moves \in 0 .. MaxMoves
  BY DEF BufferInv, HeadsInMemory, BufferTypeOK
<1>2. PICK r \in Nat, w \in Nat :
          Moved(r, w) /\ UNCHANGED <<data, items, writes>> /\ r <= w /\ Written(w)
  <2>1. Reset => Moved(0, 0) /\ UNCHANGED <<data, items, writes>> /\ Written(0)
    <3>1. Len(data) \in Nat
      BY <1>1, LenProperties DEF BufferTypeOK
    <3>2. Written(0)
      BY <3>1 DEF Written
    <3> QED
      BY <3>2 DEF Reset
  <2>2. Flip => Moved(0, write_head) /\ UNCHANGED <<data, items, writes>>
    BY DEF Flip
  <2>3. ASSUME Seek
        PROVE  \E r, w \in Nat : Moved(r, w) /\ UNCHANGED <<data, items, writes>> /\ r <= w /\ Written(w)
    <3>1. PICK p \in Places : /\ Written(p)
                              /\ \/ p <= write_head /\ Moved(p, write_head)
                                 \/ p >= read_head /\ Moved(read_head, p)
                                 \/ Moved(p, p)
      BY <2>3, Zenon DEF Seek
    <3>2. p \in Nat
      BY BufferAssumption, Zenon
    <3>3. UNCHANGED <<data, items, writes>>
      BY <2>3 DEF Seek
    <3>4. CASE p <= write_head /\ Moved(p, write_head)
      BY <1>1, <3>2, <3>3, <3>4, Zenon
    <3>5. CASE p >= read_head /\ Moved(read_head, p)
      <4>1. read_head <= p
        BY <1>1, <3>2, <3>5
      <4> QED
        BY <1>1, <3>1, <3>2, <3>3, <3>5, <4>1, Zenon
    <3>6. CASE Moved(p, p)
      <4>1. p <= p
        BY <3>2
      <4> QED
        BY <3>1, <3>2, <3>3, <3>6, <4>1, Zenon
    <3> QED
      BY <3>1, <3>4, <3>5, <3>6
  <2> QED
    <3>1. 0 <= 0 /\ 0 <= write_head /\ 0 \in Nat
      BY <1>1
    <3> QED
      BY <1>1, <2>1, <2>2, <2>3, <3>1, Zenon
<1>3. /\ read_head' = r /\ write_head' = w /\ moves' = moves + 1 /\ moves < MaxMoves
      /\ UNCHANGED <<data, items, writes>>
  BY <1>2 DEF Moved
<1>4. moves + 1 \in 0 .. MaxMoves
  BY <1>1, <1>3, BufferAssumption
<1>5. BufferTypeOK'
  BY <1>1, <1>3, <1>4 DEF BufferTypeOK
<1> QED
  BY <1>2, <1>3, <1>5, HeadsMove

(* buffer_pack.                                                            *)
LEMMA PackKeeps ==
    ASSUME BufferInv, Pack
    PROVE  BufferInv'
<1>1. /\ data \in Seq(Cells) /\ read_head \in Nat /\ write_head \in Nat /\ read_head <= write_head
      /\ items \subseteq [at : Nat, item : Items] /\ moves \in 0 .. MaxMoves
      /\ writes \in 0 .. MaxWrites
      /\ \A k \in 1 .. write_head : data[k] \in Byte
      /\ \A i \in items : Holds(data, i)
  <2>1. HeadsInMemory
    BY DEF BufferInv
  <2> QED
    BY <2>1, WrittenBytes DEF BufferInv, HeadsInMemory, BufferTypeOK
<1>2. PICK l \in Nat : l = Len(data) /\ write_head <= l /\ DOMAIN data = 1 .. l
  <2>1. Len(data) \in Nat /\ DOMAIN data = 1 .. Len(data)
    BY <1>1, LenProperties
  <2> QED
    BY <2>1 DEF BufferInv, HeadsInMemory
<1>3. CASE read_head = write_head
  <2>1. /\ read_head' = 0 /\ write_head' = 0 /\ moves' = moves + 1 /\ moves < MaxMoves
        /\ data' = data /\ items' = items /\ writes' = writes
    BY <1>3 DEF Pack, Moved
  <2>2. moves + 1 \in 0 .. MaxMoves
    BY <1>1, <2>1, BufferAssumption
  <2>3. BufferTypeOK'
    BY <1>1, <2>1, <2>2 DEF BufferTypeOK, Cells
  <2>4. Written(write_head')
    BY <1>2, <2>1 DEF Written
  <2> QED
    BY <2>1, <2>3, <2>4, HeadsMove
<1>4. CASE read_head # write_head
  <2> DEFINE n == write_head - read_head
  <2>1. n \in Nat /\ read_head + n = write_head /\ n <= l
    BY <1>1, <1>2
  <2>2. /\ read_head' = 0 /\ write_head' = n /\ moves' = moves + 1 /\ moves < MaxMoves
        /\ data' = [k \in DOMAIN data |-> IF k <= n THEN data[k + read_head] ELSE data[k]]
        /\ items' = {[i EXCEPT !.at = @ - read_head] :
                        i \in {i \in items : /\ i.at >= read_head
                                             /\ i.at + Size(i.item) <= write_head}}
        /\ writes' = writes
    BY <1>4 DEF Pack, Moved
  <2> HIDE DEF n
  <2>3. \A k \in 1 .. n : data'[k] = data[read_head + k] /\ data'[k] \in Byte
    <3> TAKE k \in 1 .. n
    <3>1. k \in 1 .. l /\ k <= n /\ k + read_head = read_head + k /\ read_head + k \in 1 .. write_head
      BY <1>1, <2>1
    <3>2. data'[k] = data[k + read_head]
      BY <1>2, <2>2, <3>1
    <3> QED
      BY <1>1, <3>1, <3>2
  <2>4. data' \in Seq(Cells) /\ Len(data') = l
    <3>1. data' \in [1 .. l -> Cells]
      <4>1. \A k \in 1 .. l : (IF k <= n THEN data[k + read_head] ELSE data[k]) \in Cells
        <5> TAKE k \in 1 .. l
        <5>1. data[k] \in Cells
          BY <1>1, <1>2, ElementOfSeq
        <5>2. CASE k <= n
          <6>1. k + read_head \in 1 .. write_head
            BY <1>1, <2>1, <5>2
          <6> QED
            BY <1>1, <5>2, <6>1 DEF Cells
        <5> QED
          BY <5>1, <5>2
      <4> QED
        BY <1>2, <2>2, <4>1
    <3> HIDE <2>2
    <3> QED
      BY <3>1, TableIsSeq
  <2>5. ASSUME NEW j \in items'
        PROVE  j \in [at : Nat, item : Items] /\ Holds(data', j)
    <3>1. PICK i \in items : /\ j = [i EXCEPT !.at = @ - read_head]
                             /\ i.at >= read_head /\ i.at + Size(i.item) <= write_head
      BY <2>2, <2>5
    <3>2. i \in [at : Nat, item : Items] /\ Holds(data, i)
      BY <1>1
    <3>3. PICK a \in Nat, s \in Nat : a = i.at /\ s = Size(i.item)
      <4>1. i.at \in Nat /\ i.item \in Items
        BY <3>2
      <4>2. Size(i.item) \in Nat
        BY <4>1, PiecesTyped
      <4> QED
        BY <4>1, <4>2
    <3> DEFINE b == a - read_head
    <3>4. b \in Nat /\ b + s <= n /\ read_head + b = a
      BY <1>1, <2>1, <3>1, <3>3
    <3>5. j.at = b /\ j.item = i.item /\ j \in [at : Nat, item : Items]
      BY <3>1, <3>2, <3>3, <3>4
    <3> HIDE DEF b
    <3>6. ASSUME NEW k \in 1 .. s PROVE data'[b + k] = Bytes(j.item)[k]
      <4>1. b + k \in 1 .. n
        BY <2>1, <3>4
      <4>2. read_head + (b + k) = a + k
        BY <1>1, <3>4
      <4>3. data'[b + k] = data[a + k]
        BY <2>3, <4>1, <4>2
      <4>4. data[a + k] = Bytes(i.item)[k]
        BY <3>2, <3>3 DEF Holds
      <4> QED
        BY <3>5, <4>3, <4>4
    <3>7. b + s <= l
      BY <2>1, <3>4
    <3> QED
      BY <2>4, <3>3, <3>5, <3>6, <3>7 DEF Holds
  <2>6. BufferTypeOK'
    <3>1. moves + 1 \in 0 .. MaxMoves
      BY <1>1, <2>2, BufferAssumption
    <3>2. items' \subseteq [at : Nat, item : Items]
      BY <2>5
    <3>3. data' \in Seq(Byte \cup {Unknown})
      BY <2>4 DEF Cells
    <3>4. read_head' \in Nat /\ write_head' \in Nat /\ writes' \in 0 .. MaxWrites /\ moves' \in 0 .. MaxMoves
      BY <1>1, <2>1, <2>2, <3>1
    <3> QED
      BY <3>2, <3>3, <3>4 DEF BufferTypeOK
  <2>7. HeadsInMemory'
    <3>1. read_head' <= write_head' /\ write_head' <= Len(data') /\ write_head' = n
      BY <2>1, <2>2, <2>4
    <3>2. \A k \in 1 .. n : data'[k] # Unknown
      BY <2>3 DEF Byte, Unknown
    <3> QED
      BY <2>6, <3>1, <3>2 DEF HeadsInMemory, Written
  <2> QED
    BY <2>5, <2>7 DEF BufferInv
<1> QED
  BY <1>3, <1>4

(* mumble_buffer_new.                                                      *)
LEMMA MadeWell ==
    ASSUME BufferInit
    PROVE  BufferInv
<1>1. read_head = 0 /\ writes = 0 /\ moves = 0 /\ 0 \in 0 .. MaxWrites /\ 0 \in 0 .. MaxMoves
  BY BufferAssumption DEF BufferInit
<1>2. CASE (\E capacity \in Capacities : data = Blank(capacity)) /\ write_head = 0 /\ items = {}
  <2>1. PICK capacity \in Capacities : data = Blank(capacity)
    BY <1>2
  <2>2. capacity \in Nat
    BY BufferAssumption, Zenon
  <2>3. data \in Seq(Cells) /\ Len(data) = capacity
    <3>1. Blank(capacity) \in [1 .. capacity -> Cells]
      BY DEF Blank, Cells
    <3> QED
      BY <2>1, <2>2, <3>1, TableIsSeq
  <2>4. BufferTypeOK
    BY <1>1, <1>2, <2>3 DEF BufferTypeOK, Cells
  <2>5. HeadsInMemory
    BY <1>1, <1>2, <2>2, <2>3, <2>4 DEF HeadsInMemory, Written
  <2> QED
    BY <1>2, <2>5 DEF BufferInv
<1>3. CASE \E n \in Sizes : /\ data = Text(n) /\ write_head = n
                            /\ items = {[at |-> 0, item |-> [kind |-> "plain", value |-> Text(n)]]}
  <2>1. PICK n \in Sizes :
            /\ data = Text(n) /\ write_head = n
            /\ items = {[at |-> 0, item |-> [kind |-> "plain", value |-> Text(n)]]}
    BY <1>3
  <2> DEFINE item == [kind |-> "plain", value |-> Text(n)]
  <2>2. n \in Nat /\ item \in Items
    <3>1. n \in Nat \ {0}
      BY BufferAssumption, Zenon
    <3> QED
      BY <3>1 DEF Items
  <2>3. Text(n) \in Seq(Byte) /\ Len(Text(n)) = n
    BY <2>2, TextTyped
  <2>4. \A k \in 1 .. n : Text(n)[k] \in Byte
    BY <2>3, ElementOfSeq
  <2>5. data \in Seq(Cells) /\ Len(data) = n
    <3>1. Text(n) \in [1 .. n -> Cells]
      BY <2>4 DEF Text, Cells
    <3> QED
      BY <2>1, <2>2, <3>1, TableIsSeq
  <2>6. BufferTypeOK
    <3>1. items \subseteq [at : Nat, item : Items]
      BY <2>1, <2>2
    <3> QED
      BY <1>1, <2>1, <2>2, <2>5, <3>1 DEF BufferTypeOK, Cells
  <2>7. HeadsInMemory
    <3>1. \A k \in 1 .. n : data[k] # Unknown
      BY <2>1, <2>4 DEF Byte, Unknown
    <3> QED
      BY <1>1, <2>1, <2>2, <2>5, <2>6, <3>1 DEF HeadsInMemory, Written
  <2>8. Size(item) = n /\ \A k \in 1 .. n : Bytes(item)[k] = Text(n)[k]
    BY <2>2, <2>3, PlainBytes
  <2>9. \A i \in items : Holds(data, i)
    BY <2>1, <2>2, <2>5, <2>8 DEF Holds
  <2> QED
    BY <2>7, <2>9 DEF BufferInv
<1> QED
  BY <1>2, <1>3, Zenon DEF BufferInit

LEMMA BufferInvHolds == BufferSpec => []BufferInv
<1>1. BufferInit => BufferInv
  BY MadeWell
<1>2. BufferInv /\ [BufferNext]_bufferVars => BufferInv'
  <2> SUFFICES ASSUME BufferInv, [BufferNext]_bufferVars PROVE BufferInv'
    OBVIOUS
  <2>1. CASE \E item \in Items : Write(item)
    BY <2>1, WriteKeeps
  <2>2. CASE ReadSome \/ ReadNumber \/ ReadText
    BY <2>2, ReadingKeeps
  <2>3. CASE Pack
    BY <2>3, PackKeeps
  <2>4. CASE Reset \/ Flip \/ Seek
    BY <2>4, MovingKeeps
  <2>5. CASE UNCHANGED bufferVars
    BY <2>5 DEF bufferVars, BufferInv, HeadsInMemory, BufferTypeOK, Written
  <2> QED
    BY <2>1, <2>2, <2>3, <2>4, <2>5 DEF BufferNext
<1> QED
  BY <1>1, <1>2, PTL DEF BufferSpec

(* However a buffer is made, grown, packed and read, its heads stay in its *)
(* memory, and no byte that was never written is read (buffer.c:36-51).    *)
THEOREM BufferHeadsInMemory == BufferSpec => []HeadsInMemory
<1>1. BufferInv => HeadsInMemory
  BY DEF BufferInv
<1> QED
  BY <1>1, BufferInvHolds, PTL

-----------------------------------------------------------------------------
(* What is found at the place of a value: plain bytes, and a number.       *)
LEMMA PlainThere ==
    ASSUME HeadsInMemory, NEW at \in Nat, NEW s \in Seq(Byte), s # <<>>,
           NEW n \in Nat, n = Len(s), at + n <= write_head,
           \A k \in 1 .. n : data[at + k] = s[k]
    PROVE  ReadPlain(at, n) = [ok |-> TRUE, value |-> s, head |-> at + n]
<1> DEFINE a == SubSeq(data, at + 1, at + n)
<1>1. write_head \in Nat /\ \A k \in 1 .. write_head : data[k] \in Byte
  BY WrittenBytes
<1>2. a \in Seq(Byte) /\ Len(a) = n /\ \A i \in 1 .. n : a[i] = data[at + i]
  <2>1. \A k \in (at + 1) .. (at + n) : data[k] \in Byte
    <3> TAKE k \in (at + 1) .. (at + n)
    <3>1. k \in 1 .. write_head
      BY <1>1
    <3> QED
      BY <1>1, <3>1
  <2>2. AreAt(a, data, at, n)
    BY <2>1, BytesAt, Zenon
  <2> HIDE DEF a
  <2> QED
    BY <2>2, Zenon DEF AreAt
<1> HIDE DEF a
<1>3. a = s
  <2>1. Len(a) = Len(s)
    BY <1>2
  <2>2. \A i \in 1 .. Len(a) : a[i] = s[i]
    BY <1>2
  <2> QED
    BY <1>2, <2>1, <2>2, SeqEqual
<1>4. n > 0
  <2>1. n # 0
    BY EmptySeq
  <2> QED
    BY <2>1
<1>5. ReadPlain(at, n) = Result(n, a, at + n)
  <2>1. ~(at + n > write_head)
    BY <1>1
  <2> QED
    BY <2>1 DEF ReadPlain, a
<1> QED
  BY <1>3, <1>4, <1>5 DEF Result

LEMMA NumberThere ==
    ASSUME HeadsInMemory, NEW at \in Nat, NEW v \in UInt64,
           Stands(data, at, write_head, Encode(v)[1] \o Encode(v)[2])
    PROVE  ReadVarInt(at) = [ok |-> TRUE, value |-> v,
                             head |-> at + Len(Encode(v)[1] \o Encode(v)[2])]
<1>1. write_head \in Nat
  BY WrittenBytes
<1>2. Found(Decode(data, at, write_head), v, at + Len(Encode(v)[1] \o Encode(v)[2]))
  BY <1>1, NumbersReadBack, Zenon
<1> QED
  BY <1>2 DEF ReadVarInt, Result, Found

(* A length is written without a flag, and is two bytes at most.           *)
LEMMA LengthFits ==
    ASSUME NEW n \in 0 .. 255
    PROVE  /\ Encode(U(n))[1] = <<>> /\ Fits(U(n), 2, 256)
           /\ U(n)[7] * 256 + U(n)[8] = n
<1>1. U(n)[1] = 0 /\ U(n)[8] = n /\ \A k \in 1 .. 7 : U(n)[k] = 0
  BY LengthTyped
<1> DEFINE v == U(n)
<1> HIDE DEF v
<1>2. v[1] = 0 /\ v[8] = n /\ v[7] = 0 /\ \A k \in 1 .. 6 : v[k] = 0
  BY <1>1 DEF v
<1>3. ~IsNegative(v)
  BY <1>2 DEF IsNegative
<1>4. Encode(v)[1] = <<>>
  BY <1>3 DEF Encode
<1>5. Fits(v, 2, 256)
  BY <1>2 DEF Fits
<1>6. v[7] * 256 + v[8] = n
  BY <1>2
<1> QED
  BY <1>4, <1>5, <1>6 DEF v

(* A string is its length and its bytes.                                   *)
IsText(s, l) == s \in Seq(Byte) /\ s # <<>> /\ Len(s) = l

LEMMA StringThere ==
    ASSUME HeadsInMemory, NEW at \in Nat, NEW l \in 0 .. 255,
           NEW s, IsText(s, l), NEW e \in Seq(Byte), e = Encode(U(l))[2],
           Stands(data, at, write_head, e \o s)
    PROVE  ReadString(at) = [ok |-> TRUE, value |-> s, head |-> at + Len(e \o s)]
<1> DEFINE v == U(l)
<1>1. v \in UInt64
  BY LengthTyped
<1>2. Encode(v)[1] = <<>> /\ Fits(v, 2, 256) /\ v[7] * 256 + v[8] = l
  BY LengthFits
<1>3. Encode(v)[2] = e
  OBVIOUS
<1> HIDE DEF v
<1>4. PICK m \in Nat : m = Len(e)
  BY LenProperties
<1>5. /\ Len(e \o s) = m + l /\ \A k \in 1 .. m : (e \o s)[k] = e[k]
      /\ \A k \in 1 .. l : (e \o s)[m + k] = s[k]
  <2>1. s \in Seq(Byte) /\ Len(s) = l
    BY DEF IsText
  <2>2. Joined(e, s, m)
    BY <1>4, <2>1, FlagElements, Zenon
  <2> QED
    BY <2>1, <2>2, Zenon DEF Joined
<1>6. l \in Nat /\ write_head \in Nat /\ at + (m + l) <= write_head
      /\ \A k \in 1 .. (m + l) : data[at + k] = (e \o s)[k]
  <2>1. /\ at + Len(e \o s) <= write_head
        /\ \A k \in 1 .. Len(e \o s) : data[at + k] = (e \o s)[k]
    BY Zenon DEF Stands
  <2>2. l \in Nat
    OBVIOUS
  <2> QED
    BY <1>5, <2>1, <2>2, WrittenBytes, Zenon
<1>7. \A a, b, c \in Nat : a + b \in Nat /\ a + b + c = a + (b + c) /\ a + b <= a + (b + c)
  OBVIOUS
<1>8. at + m \in Nat /\ at + m + l = at + (m + l) /\ at + m <= at + (m + l)
  BY <1>4, <1>6, <1>7
<1>9. \A k \in 1 .. m : data[at + k] = e[k]
  <2> TAKE k \in 1 .. m
  <2>1. k \in 1 .. (m + l)
    BY <1>4, <1>6
  <2> QED
    BY <1>5, <1>6, <2>1
<1>10. \A k \in 1 .. l : data[at + m + k] = s[k]
  <2> TAKE k \in 1 .. l
  <2>1. m + k \in 1 .. (m + l) /\ at + (m + k) = at + m + k
    <3>1. k \in Nat /\ m + k \in 1 .. (m + l)
      BY <1>4, <1>6
    <3>2. at + m + k = at + (m + k)
      BY <1>4, <1>7, <3>1
    <3> QED
      BY <3>1, <3>2, Zenon
  <2>2. data[at + (m + k)] = (e \o s)[m + k]
    BY <1>6, <2>1
  <2> QED
    BY <1>5, <2>1, <2>2
<1>11. ReadVarInt(at) = [ok |-> TRUE, value |-> v, head |-> at + m]
  <2>1. e = Encode(v)[1] \o Encode(v)[2]
    BY <1>2, <1>3, ConcatEmptySeq, Zenon
  <2>2. Stands(data, at, write_head, e)
    <3>1. at + m <= write_head
      BY <1>6, <1>8
    <3>2. at + Len(e) <= write_head /\ \A k \in 1 .. Len(e) : data[at + k] = e[k]
      BY <1>4, <1>9, <3>1, Zenon
    <3> QED
      BY <3>2, Zenon DEF Stands
  <2>3. ReadVarInt(at) = [ok |-> TRUE, value |-> v, head |-> at + Len(e)]
    BY <1>1, <2>1, <2>2, NumberThere
  <2> QED
    BY <1>4, <2>3
<1> DEFINE h == at + m
<1>12. ReadPlain(h, l) = [ok |-> TRUE, value |-> s, head |-> h + l]
  <2>1. h \in Nat /\ h + l <= write_head
    BY <1>6, <1>8
  <2>2. \A k \in 1 .. l : data[h + k] = s[k]
    BY <1>10
  <2> HIDE DEF h
  <2> QED
    BY <1>6, <2>1, <2>2, PlainThere DEF IsText
<1>13. ReadString(at) = ReadPlain(h, l)
  BY <1>2, <1>11 DEF ReadString
<1>14. h + l = at + Len(e \o s)
  BY <1>5, <1>6, <1>8
<1> HIDE DEF h
<1> QED
  BY <1>12, <1>13, <1>14

(* Every value that was written, and not written over, is read back as it  *)
(* was, whatever was written after it, and when the buffer has grown or    *)
(* was packed (buffer.c:36-86, 163-313).                                   *)
THEOREM WrittenReadsBack == BufferSpec => []ReadsBack
<1>1. ASSUME BufferInv PROVE ReadsBack
  <2> SUFFICES ASSUME NEW i \in items, i.at + Size(i.item) <= write_head, i.item.value # <<>>
               PROVE  Read(i.item, i.at) =
                        [ok |-> TRUE, value |-> i.item.value, head |-> i.at + Size(i.item)]
    BY DEF ReadsBack
  <2>1. HeadsInMemory /\ Holds(data, i) /\ i \in [at : Nat, item : Items]
    BY <1>1 DEF BufferInv, HeadsInMemory, BufferTypeOK
  <2> DEFINE item == i.item
             at == i.at
  <2>2. item \in Items /\ at \in Nat
    BY <2>1
  <2>3. PICK n \in Nat : n = Size(item)
    BY <2>2, PiecesTyped
  <2>4. at + n <= write_head /\ \A k \in 1 .. n : data[at + k] = Bytes(item)[k]
    BY <2>1, <2>3 DEF Holds
  <2>5. item.value # <<>>
    OBVIOUS
  <2> HIDE DEF item, at
  <2>6. CASE item.kind = "varint" /\ item.value \in UInt64
    <3>1. Bytes(item) = Encode(item.value)[1] \o Encode(item.value)[2]
      BY <2>6 DEF Bytes, Pieces
    <3>2. Stands(data, at, write_head, Bytes(item))
      BY <2>3, <2>4 DEF Stands, Size
    <3>3. ReadVarInt(at) = [ok |-> TRUE, value |-> item.value, head |-> at + Len(Bytes(item))]
      BY <2>1, <2>2, <2>6, <3>1, <3>2, NumberThere
    <3>4. Read(item, at) = ReadVarInt(at)
      BY <2>6 DEF Read
    <3> QED
      BY <2>3, <3>3, <3>4 DEF item, at, Size
  <2>7. CASE item.kind = "string" /\ item.value \in Seq(Byte) /\ Len(item.value) \in 0 .. 255
    <3>1. PICK l \in 0 .. 255 : l = Len(item.value)
      BY <2>7
    <3>2. PICK s \in Seq(Byte) : s = item.value /\ IsText(s, l)
      BY <2>5, <2>7, <3>1 DEF IsText
    <3>3. PICK e \in Seq(Byte) : e = Encode(U(l))[2]
      <4>1. U(l) \in UInt64
        BY LengthTyped
      <4> QED
        BY <4>1, EncodeTyped
    <3>4. Bytes(item) = e \o s
      BY <2>7, <3>1, <3>2, <3>3 DEF Bytes, Pieces
    <3>5. Len(e \o s) = n /\ Stands(data, at, write_head, e \o s)
      BY <2>3, <2>4, <3>4 DEF Size, Stands
    <3>6. ReadString(at) = [ok |-> TRUE, value |-> s, head |-> at + Len(e \o s)]
      <4>1. HeadsInMemory /\ at \in Nat /\ IsText(s, l) /\ Stands(data, at, write_head, e \o s)
        BY <2>1, <2>2, <3>2, <3>5, Zenon
      <4> HIDE DEF IsText
      <4> QED
        BY <3>3, <4>1, StringThere
    <3>7. Read(item, at) = ReadString(at)
      BY <2>7 DEF Read
    <3> QED
      BY <2>3, <3>2, <3>5, <3>6, <3>7 DEF item, at
  <2>8. CASE item.kind = "plain" /\ item.value \in Seq(Byte)
    <3>1. PICK l \in Nat : l = Len(item.value)
      BY <2>8, LenProperties
    <3>2. l = n /\ \A k \in 1 .. n : data[at + k] = item.value[k]
      BY <2>3, <2>4, <2>8, <3>1, PlainBytes
    <3>3. ReadPlain(at, n) = [ok |-> TRUE, value |-> item.value, head |-> at + n]
      BY <2>1, <2>2, <2>4, <2>5, <2>8, <3>1, <3>2, PlainThere
    <3>4. Read(item, at) = ReadPlain(at, n)
      BY <2>8, <3>1, <3>2 DEF Read
    <3> QED
      BY <2>3, <3>3, <3>4 DEF item, at
  <2> QED
    BY <2>2, <2>6, <2>7, <2>8, ItemKinds
<1> QED
  BY <1>1, BufferInvHolds, PTL
==============================================================================
