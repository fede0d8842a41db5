---------------------------- MODULE MainLoopProofs ----------------------------
(***************************************************************************)
(* The event loop, for any pipes and any functions under a hook.           *)
(*                                                                         *)
(* Alone, a pipe reads on for its callback until it is closed, and nothing *)
(* keeps it from then on unless it was mumble.stop that closed it; alone,  *)
(* a client tells the script of its one connection in order, is whole      *)
(* while it works, and has ended when OnDisconnect has returned.  The loop *)
(* with both implements the pipes and the client as they are alone: what   *)
(* one does is a stutter of the other, and mumble.stop, which ends both,   *)
(* is a step of each.                                                      *)
(*                                                                         *)
(* The dispatch of a hook to its functions, which are called in the loop   *)
(* only, is proved of the loop.                                            *)
(***************************************************************************)
EXTENDS MainLoop, SequenceTheorems, TLAPS

-----------------------------------------------------------------------------
(* What there is before mumble_pipe_new: no handle, and nothing ended.     *)
NewIsClean == \A p \in Pipes : pipeLife[p] = "none" => handle[p] = "none" /\ ~ended[p]

PipeInv == Pipe!TypeOK /\ Pipe!OpenOrGone /\ NewIsClean

(* The pipes: the invariant holds before the first is opened.              *)
LEMMA PipeInitIsGood == Pipe!Init => PipeInv
<1> SUFFICES ASSUME Pipe!Init PROVE PipeInv
  OBVIOUS
<1>1. Pipe!TypeOK
  BY DEF Pipe!Init, Pipe!TypeOK, Pipe!HandleStates
<1>2. Pipe!OpenOrGone /\ NewIsClean
  BY DEF Pipe!Init, Pipe!OpenOrGone, NewIsClean
<1> QED
  BY <1>1, <1>2 DEF PipeInv

(* The calls of the script (pipe_close and mumble_pipe_new, pipe.c).       *)
LEMMA PipeScriptIsGood ==
    ASSUME PipeInv, NEW p \in Pipes, Pipe!Script(p)
    PROVE  PipeInv'
<1>1. CASE Pipe!New(p)
  BY <1>1 DEF PipeInv, Pipe!New, Pipe!TypeOK, Pipe!OpenOrGone, NewIsClean,
         Pipe!HandleStates, Pipe!ghosts
<1>2. CASE Pipe!Close(p)
  <2> USE <1>2 DEF Pipe!Close, Pipe!Has, Pipe!mumble_pipe_close, Pipe!CloseTo,
         Pipe!memory, Pipe!object
  <2>1. Pipe!TypeOK'
    BY DEF PipeInv, Pipe!TypeOK, Pipe!HandleStates
  <2>2. Pipe!OpenOrGone'
    BY DEF PipeInv, Pipe!TypeOK, Pipe!HandleStates, Pipe!OpenOrGone, NewIsClean
  <2>3. NewIsClean'
    BY DEF PipeInv, Pipe!TypeOK, Pipe!HandleStates, NewIsClean
  <2> QED
    BY <2>1, <2>2, <2>3 DEF PipeInv
<1>3. CASE Pipe!Forget(p)
  BY <1>3 DEF PipeInv, Pipe!Forget, Pipe!TypeOK, Pipe!OpenOrGone, NewIsClean,
         Pipe!object, Pipe!ghosts
<1> QED
  BY <1>1, <1>2, <1>3 DEF Pipe!Script

(* A handle that closes or reads belongs to a pipe that there is.          *)
LEMMA PipeLoopIsGood ==
    ASSUME PipeInv, NEW p \in Pipes, Pipe!Loop(p)
    PROVE  PipeInv'
<1> USE DEF Pipe!object, Pipe!memory, Pipe!ghosts, Pipe!Uses
<1>1. CASE Pipe!ReadData(p)
  <2> USE <1>1 DEF Pipe!ReadData, Pipe!Reads
  <2>1. Pipe!TypeOK'
    BY DEF PipeInv, Pipe!TypeOK, Pipe!HandleStates
  <2>2. Pipe!OpenOrGone'
    BY DEF PipeInv, Pipe!TypeOK, Pipe!HandleStates, Pipe!OpenOrGone, NewIsClean
  <2>3. NewIsClean'
    BY DEF PipeInv, Pipe!TypeOK, Pipe!HandleStates, NewIsClean
  <2> QED
    BY <2>1, <2>2, <2>3 DEF PipeInv
<1>2. CASE Pipe!ReadEnd(p)
  <2> USE <1>2 DEF Pipe!ReadEnd, Pipe!Reads, Pipe!AtEnd
  <2>1. Pipe!TypeOK'
    BY DEF PipeInv, Pipe!TypeOK, Pipe!HandleStates
  <2>2. Pipe!OpenOrGone'
    BY DEF PipeInv, Pipe!TypeOK, Pipe!HandleStates, Pipe!OpenOrGone, NewIsClean
  <2>3. NewIsClean'
    BY DEF PipeInv, Pipe!TypeOK, Pipe!HandleStates, NewIsClean
  <2> QED
    BY <2>1, <2>2, <2>3 DEF PipeInv
<1>3. CASE Pipe!ReadError(p)
  <2> USE <1>3 DEF Pipe!ReadError, Pipe!mumble_pipe_close, Pipe!CloseTo
  <2>1. Pipe!TypeOK'
    BY DEF PipeInv, Pipe!TypeOK, Pipe!HandleStates
  <2>2. Pipe!OpenOrGone'
    BY DEF PipeInv, Pipe!TypeOK, Pipe!HandleStates, Pipe!OpenOrGone, NewIsClean
  <2>3. NewIsClean'
    BY DEF PipeInv, Pipe!TypeOK, Pipe!HandleStates, NewIsClean
  <2> QED
    BY <2>1, <2>2, <2>3 DEF PipeInv
<1>4. CASE Pipe!Closed(p)
  <2> USE <1>4 DEF Pipe!Closed, Pipe!AtClosing
  <2>1. Pipe!TypeOK'
    BY DEF PipeInv, Pipe!TypeOK, Pipe!HandleStates
  <2>2. Pipe!OpenOrGone'
    BY DEF PipeInv, Pipe!TypeOK, Pipe!HandleStates, Pipe!OpenOrGone, NewIsClean
  <2>3. NewIsClean'
    BY DEF PipeInv, Pipe!TypeOK, Pipe!HandleStates, NewIsClean
  <2> QED
    BY <2>1, <2>2, <2>3 DEF PipeInv
<1>5. CASE Pipe!Reopened(p)
  <2> USE <1>5 DEF Pipe!Reopened, Pipe!AtClosing
  <2>1. Pipe!TypeOK'
    BY DEF PipeInv, Pipe!TypeOK, Pipe!HandleStates
  <2>2. Pipe!OpenOrGone'
    BY DEF PipeInv, Pipe!TypeOK, Pipe!HandleStates, Pipe!OpenOrGone, NewIsClean
  <2>3. NewIsClean'
    BY DEF PipeInv, Pipe!TypeOK, Pipe!HandleStates, NewIsClean
  <2> QED
    BY <2>1, <2>2, <2>3 DEF PipeInv
<1>6. CASE Pipe!ReopenFails(p)
  <2> USE <1>6 DEF Pipe!ReopenFails, Pipe!AtClosing, Pipe!CloseTo
  <2>1. Pipe!TypeOK'
    BY DEF PipeInv, Pipe!TypeOK, Pipe!HandleStates
  <2>2. Pipe!OpenOrGone'
    BY DEF PipeInv, Pipe!TypeOK, Pipe!HandleStates, Pipe!OpenOrGone, NewIsClean
  <2>3. NewIsClean'
    BY DEF PipeInv, Pipe!TypeOK, Pipe!HandleStates, NewIsClean
  <2> QED
    BY <2>1, <2>2, <2>3 DEF PipeInv
<1>7. CASE Pipe!Stopped(p)
  <2> USE <1>7 DEF Pipe!Stopped, Pipe!AtClosing
  <2>1. Pipe!TypeOK'
    BY DEF PipeInv, Pipe!TypeOK, Pipe!HandleStates
  <2>2. Pipe!OpenOrGone'
    BY DEF PipeInv, Pipe!TypeOK, Pipe!HandleStates, Pipe!OpenOrGone, NewIsClean
  <2>3. NewIsClean'
    BY DEF PipeInv, Pipe!TypeOK, Pipe!HandleStates, NewIsClean
  <2> QED
    BY <2>1, <2>2, <2>3 DEF PipeInv
<1> QED
  BY <1>1, <1>2, <1>3, <1>4, <1>5, <1>6, <1>7 DEF Pipe!Loop

(* mumble.stop closes what reads (mumble.c:1947).                          *)
LEMMA PipeStopIsGood == PipeInv /\ Pipe!Stop => PipeInv'
BY DEF PipeInv, Pipe!Stop, Pipe!TypeOK, Pipe!OpenOrGone, NewIsClean,
       Pipe!HandleStates, Pipe!memory

(* The writers and the collector, which takes what nothing keeps.          *)
LEMMA PipeOthersAreGood ==
    ASSUME PipeInv, NEW p \in Pipes,
    Pipe!Write(p) \/ Pipe!Collect(p) \/ Pipe!FreeMemory(p)
    PROVE  PipeInv'
<1> USE DEF PipeInv, Pipe!TypeOK, Pipe!OpenOrGone, NewIsClean, Pipe!object,
       Pipe!memory, Pipe!ghosts
<1>1. CASE Pipe!Write(p)
  BY <1>1 DEF Pipe!Write
<1>2. CASE Pipe!Collect(p)
  BY <1>2 DEF Pipe!Collect
<1>3. CASE Pipe!FreeMemory(p)
  BY <1>3 DEF Pipe!FreeMemory
<1> QED
  BY <1>1, <1>2, <1>3

(* Every step of a pipe, or a stutter, keeps the invariant.                *)
LEMMA PipeStepIsGood == PipeInv /\ [Pipe!Next]_(Pipe!vars) => PipeInv'
<1> SUFFICES ASSUME PipeInv, [Pipe!Next]_(Pipe!vars) PROVE PipeInv'
  OBVIOUS
<1>1. CASE Pipe!Return
  BY <1>1 DEF Pipe!Return, PipeInv, Pipe!TypeOK, Pipe!OpenOrGone, NewIsClean,
         Pipe!object, Pipe!memory, Pipe!ghosts
<1>2. CASE UNCHANGED Pipe!vars
  BY <1>2 DEF Pipe!vars, PipeInv, Pipe!TypeOK, Pipe!OpenOrGone, NewIsClean,
         Pipe!object, Pipe!memory, Pipe!ghosts
<1> QED
  BY <1>1, <1>2, PipeScriptIsGood, PipeLoopIsGood, PipeStopIsGood,
         PipeOthersAreGood DEF Pipe!Next

(* The pipes alone: across ends of file and whether the script keeps it or *)
(* not, a pipe reads for its callback until it is closed, and then the     *)
(* registry lets it go; but one that mumble.stop closes stays in the       *)
(* registry until the script closes it too (pipe.c:18, 38, mumble.c:1947). *)
THEOREM ReadsUntilClosed == Pipe!Spec => []PipeOpenOrGone
<1>1. Pipe!Spec => []PipeInv
  BY PipeInitIsGood, PipeStepIsGood, PTL DEF Pipe!Spec
<1>2. PipeInv => PipeOpenOrGone
  BY DEF PipeInv, PipeOpenOrGone
<1> QED
  BY <1>1, <1>2, PTL

-----------------------------------------------------------------------------
(* LuaPipe begins as the pipes of the loop do.                             *)
LEMMA LoopInitIsPipes == LoopInit => Pipe!Init
BY DEF LoopInit

(* Every step of the loop is a step of the pipes, or leaves them alone.    *)
LEMMA LoopStepIsPipes == [LoopNext]_allVars => [Pipe!Next]_(Pipe!vars)
<1> SUFFICES ASSUME [LoopNext]_allVars PROVE [Pipe!Next]_(Pipe!vars)
  OBVIOUS
<1>1. CASE LoopNext
  <2>1. ~pipeFault
    BY <1>1 DEF LoopNext
  <2>2. CASE ClientRuns \/ HandlerCallsAgain \/ HookRuns \/ ScriptHooks \/ ClientAlone
    <3>1. UNCHANGED pipeVars
      BY <2>2, Zenon DEF ClientRuns, HandlerCallsAgain, HookRuns, ScriptHooks,
             ClientAlone
    <3> QED
      BY <3>1 DEF pipeVars, Pipe!vars, Pipe!object, Pipe!memory, Pipe!ghosts
  <2>3. CASE PipeReturns
    BY <2>1, <2>3 DEF PipeReturns, Pipe!Next
  <2>4. CASE StopAll
    BY <2>1, <2>4 DEF StopAll, Pipe!Next
  <2>5. ASSUME NEW p \in Pipes, PipeRuns(p)
        PROVE  Pipe!Next
    BY <2>1, <2>5 DEF PipeRuns, Pipe!Next
  <2>6. ASSUME NEW p \in Pipes, PipeAlone(p)
        PROVE  Pipe!Next
    BY <2>1, <2>6 DEF PipeAlone, Pipe!Next
  <2> QED
    BY <1>1, <2>2, <2>3, <2>4, <2>5, <2>6, Zenon DEF LoopNext
<1>2. CASE UNCHANGED allVars
  <2>1. UNCHANGED pipeVars
    BY <1>2 DEF allVars
  <2> QED
    BY <2>1 DEF pipeVars, Pipe!vars, Pipe!object, Pipe!memory, Pipe!ghosts
<1> QED
  BY <1>1, <1>2

(* The pipes of the loop are pipes as LuaPipe says: no call of a hook, and *)
(* no disconnect in the callback of a pipe, does to them what they could   *)
(* not meet alone (pipe.c, and mumble_close at mumble.c:1947).             *)
THEOREM LoopImplementsPipes == LoopSpec => Pipe!Spec
BY LoopInitIsPipes, LoopStepIsPipes, PTL DEF LoopSpec, Pipe!Spec

(* The same next to a client, whatever mixes of pipes and functions under  *)
(* its hooks there are, with dispatches nested in each other: a pipe reads *)
(* for its callback until it is closed, and then the registry lets it go   *)
(* unless it was mumble.stop that closed it (pipe.c:18, 38).               *)
THEOREM PipesReadUntilClosed == LoopSpec => []PipeOpenOrGone
BY LoopImplementsPipes, ReadsUntilClosed, PTL

-----------------------------------------------------------------------------
(* The client, until connect() is called a second time on it: the          *)
(* properties describe one connection.                                     *)

(* A row of hooks that is in order; that has begun; that goes on; that is  *)
(* over.                                                                   *)
InOrder(row) ==
    /\ row \in Seq(HookNames)
    /\ \A k \in DOMAIN row :
        /\ row[k] = "OnConnect" => k = 1
        /\ row[k] = "OnDisconnect" => k = Len(row)
        /\ row[k] = "OnEvent" => row[1] = "OnConnect"

Begun(row) == row # <<>> /\ row[1] = "OnConnect"
Open(row)  == \A k \in DOMAIN row : row[k] # "OnDisconnect"
Over(row)  == row # <<>> /\ row[Len(row)] = "OnDisconnect"

(* The hooks under way: one handler's, and OnDisconnect upon it or alone.  *)
Handling == {s \in Seq(HookNames) : Len(s) <= 1 /\ (Len(s) = 1 => s[1] # "OnDisconnect")}
Leaving  == {s \in Seq(HookNames) : /\ Len(s) \in 1 .. 2 /\ s[Len(s)] = "OnDisconnect"
                                    /\ Len(s) = 2 => s[1] # "OnDisconnect"}

(* What TypeOK says of the variables but stack and hooks.                  *)
FieldsOK ==
    /\ connecting \in BOOLEAN /\ connected \in BOOLEAN /\ self \in BOOLEAN
    /\ threads \in BOOLEAN
    /\ handles \in [Handles -> States] /\ handles["async"] # "none"
    /\ pending \in BOOLEAN
    /\ life \in {"live", "finalized", "freed"} /\ held \in BOOLEAN
    /\ connects \in 0 .. MaxConnects
    /\ established \in BOOLEAN /\ abandoned \in BOOLEAN /\ early \in BOOLEAN
    /\ fault \in BOOLEAN

(* Before connect() there is nothing but the threads and the clock of the  *)
(* audio; a connect() that failed leaves no more than handles.             *)
BeforeConnect ==
    /\ connects = 0 =>
        /\ threads /\ ~established /\ ~pending /\ ~early
        /\ \A h \in Handles \ {"async"} : handles[h] = "none"
        /\ ~abandoned => handles["async"] = "active"
    /\ connects > 0 /\ ~established => ~threads
    /\ ~established => ~connecting /\ ~connected /\ ~self /\ stack = <<>> /\ hooks = <<>>

(* The flags tell how far the hooks have come.                             *)
FlagsOK ==
    /\ stack \in Handling \cup Leaving
    /\ connected => connecting
    /\ connecting /\ stack # <<>> => connected
    /\ stack \in Leaving => ~connecting /\ Over(hooks)
    /\ connecting => Open(hooks)
    /\ connecting /\ ~connected => hooks = <<>>
    /\ self /\ connected => Begun(hooks)

(* What EndIsComplete says, and that after the registration has gone       *)
(* nothing is registered or started again.                                 *)
EndOK ==
    /\ hooks # <<>> /\ ~self /\ ~abandoned => Over(hooks)
    /\ connects > 0 /\ life # "live" => ~threads
    /\ established /\ ~connecting /\ stack \in Handling => ~self /\ ~threads
    /\ established /\ ~self /\ ~early => \A h \in Handles : handles[h] # "active"
    /\ established /\ handles["tcp"] \in {"closing", "closed"} => ~self
    /\ established /\ ~self /\ ~early => ~pending

ClientInv ==
    FieldsOK /\ InOrder(hooks) /\ BeforeConnect /\ FlagsOK /\ EndOK /\ WholeWhileWorking

ClientGood == connects \in Nat /\ (connects <= 1 => ClientInv)

(* OnDisconnect is called upon one handler at most, and returns to it; a   *)
(* handler's hook returns to the loop.                                     *)
LEMMA HandlingFacts ==
    /\ <<>> \in Handling
    /\ \A h \in {"OnConnect", "OnEvent"} : Append(<<>>, h) \in Handling /\ Append(<<>>, h) # <<>>
    /\ \A s \in Handling :
        /\ s \in Seq(HookNames) /\ Len(s) \in 0 .. 1 /\ s \notin Leaving
        /\ s = <<>> \/ (s # <<>> /\ s[Len(s)] \in {"OnConnect", "OnEvent"})
        /\ \A k \in DOMAIN s : s[k] # "OnDisconnect"
        /\ Append(s, "OnDisconnect") \in Leaving
        /\ s # <<>> => SubSeq(s, 1, Len(s) - 1) = <<>>
<1>1. <<>> \in Handling
  BY DEF Handling
<1>2. ASSUME NEW h \in {"OnConnect", "OnEvent"}
      PROVE  Append(<<>>, h) \in Handling /\ Append(<<>>, h) # <<>>
  BY DEF Handling, HookNames
<1>3. ASSUME NEW s \in Handling
      PROVE  /\ s \in Seq(HookNames) /\ Len(s) \in 0 .. 1 /\ DOMAIN s = 1 .. Len(s)
             /\ s = <<>> \/ (s # <<>> /\ Len(s) = 1 /\ s[1] \in {"OnConnect", "OnEvent"})
             /\ \A k \in DOMAIN s : s[k] # "OnDisconnect"
  <2>1. /\ s \in Seq(HookNames) /\ Len(s) \in Nat /\ DOMAIN s = 1 .. Len(s)
        /\ Len(s) <= 1 /\ (Len(s) = 1 => s[1] # "OnDisconnect")
        /\ \A k \in 1 .. Len(s) : s[k] \in HookNames
    BY LenProperties, ElementOfSeq DEF Handling
  <2>2. s # <<>> => Len(s) = 1
    BY <2>1, EmptySeq
  <2>3. Len(s) = 1 => s[1] \in {"OnConnect", "OnEvent"}
    BY <2>1 DEF HookNames
  <2>4. \A k \in DOMAIN s : s[k] # "OnDisconnect"
    BY <2>1
  <2>5. Len(s) \in 0 .. 1
    BY <2>1
  <2>6. s = <<>> \/ (s # <<>> /\ Len(s) = 1 /\ s[1] \in {"OnConnect", "OnEvent"})
    BY <2>2, <2>3
  <2> QED
    BY <2>1, <2>4, <2>5, <2>6
<1>4. ASSUME NEW s \in Handling
      PROVE  s \notin Leaving /\ Append(s, "OnDisconnect") \in Leaving
  <2>1. s \in Seq(HookNames) /\ Len(s) \in 0 .. 1 /\ DOMAIN s = 1 .. Len(s)
    BY <1>3, <1>4
  <2>2. \A k \in 1 .. Len(s) : s[k] # "OnDisconnect"
    BY <1>3, <1>4, <2>1
  <2>3. s \notin Leaving
    BY <2>1, <2>2 DEF Leaving
  <2> DEFINE t == Append(s, "OnDisconnect")
  <2>4. /\ t \in Seq(HookNames) /\ Len(t) = Len(s) + 1
        /\ \A k \in 1 .. Len(s) : t[k] = s[k]
        /\ t[Len(s) + 1] = "OnDisconnect"
    BY <2>1, AppendProperties DEF HookNames
  <2> HIDE DEF t
  <2>5. t \in Leaving
    BY <2>1, <2>2, <2>4 DEF Leaving
  <2> QED
    BY <2>3, <2>5 DEF t
<1>5. ASSUME NEW s \in Handling, s # <<>>
      PROVE  SubSeq(s, 1, Len(s) - 1) = <<>>
  <2>1. Len(s) = 1
    BY <1>3, <1>5
  <2> QED
    BY <2>1, SubSeqEmpty
<1> QED
  BY <1>1, <1>2, <1>3, <1>4, <1>5

(* A stack on which OnDisconnect has been called ends with it.             *)
LEMMA LeavingFacts ==
    \A s \in Leaving :
        /\ s \in Seq(HookNames) /\ Len(s) \in 1 .. 2 /\ s # <<>>
        /\ Len(s) \in DOMAIN s /\ s[Len(s)] = "OnDisconnect"
        /\ SubSeq(s, 1, Len(s) - 1) \in Handling
<1> SUFFICES ASSUME NEW s \in Leaving
    PROVE  /\ s \in Seq(HookNames) /\ Len(s) \in 1 .. 2 /\ s # <<>>
           /\ Len(s) \in DOMAIN s /\ s[Len(s)] = "OnDisconnect"
           /\ SubSeq(s, 1, Len(s) - 1) \in Handling
  OBVIOUS
<1>1. /\ s \in Seq(HookNames) /\ Len(s) \in 1 .. 2 /\ DOMAIN s = 1 .. Len(s) /\ s # <<>>
      /\ s[Len(s)] = "OnDisconnect"
      /\ \A k \in 1 .. Len(s) : s[k] \in HookNames
      /\ \A k \in 1 .. Len(s) - 1 : s[k] # "OnDisconnect"
  BY LenProperties, ElementOfSeq, EmptySeq DEF Leaving
<1>2. SubSeq(s, 1, Len(s) - 1) \in Handling
  <2> DEFINE n == Len(s) - 1
             t == SubSeq(s, 1, n)
  <2>1. n \in Int /\ n \in 0 .. 1
    BY <1>1
  <2>2. \A k \in 1 .. n : s[k] \in HookNames
    BY <1>1
  <2>3. /\ t \in Seq(HookNames) /\ Len(t) = n
        /\ \A k \in 1 .. n : t[k] = s[k]
    <3> HIDE DEF n
    <3> QED
      BY <2>1, <2>2, SubSeqProperties
  <2> HIDE DEF t
  <2>4. t \in Handling
    BY <1>1, <2>1, <2>3 DEF Handling
  <2> QED
    BY <2>4 DEF t
<1> QED
  BY <1>1, <1>2

(* The invariant says what the properties do.                              *)
LEMMA InvSaysSo ==
    ASSUME ClientInv
    PROVE  HooksInOrder /\ WholeWhileWorking /\ EndIsComplete
<1>1. stack \in Seq(HookNames) /\ Len(stack) <= 2
  <2>1. \A s \in Handling : s \in Seq(HookNames) /\ Len(s) <= 2
    BY HandlingFacts
  <2>2. \A s \in Leaving : s \in Seq(HookNames) /\ Len(s) <= 2
    BY LeavingFacts
  <2> QED
    BY <2>1, <2>2 DEF ClientInv, FlagsOK
<1>2. (\A k \in DOMAIN stack : stack[k] # "OnDisconnect") => stack \in Handling
  BY HandlingFacts, LeavingFacts DEF ClientInv, FlagsOK
<1>3. TypeOK
  BY <1>1 DEF ClientInv, FieldsOK, InOrder, TypeOK
<1>4. HooksInOrder
  BY <1>3 DEF ClientInv, InOrder, HooksInOrder
<1>5. EndIsComplete
  <2>1. hooks # <<>> /\ ~self /\ ~abandoned => hooks[Len(hooks)] = "OnDisconnect"
    BY DEF ClientInv, EndOK, Over
  <2> QED
    BY <1>2, <2>1 DEF ClientInv, EndOK, EndIsComplete
<1> QED
  BY <1>4, <1>5 DEF ClientInv

(* mumble_client_new.                                                      *)
LEMMA ClientInitIsGood == Init => ClientInv
<1> SUFFICES ASSUME Init PROVE ClientInv
  OBVIOUS
<1>1. FieldsOK
  <2>1. handles \in [Handles -> States] /\ handles["async"] # "none"
    BY DEF Init, Handles, States
  <2>2. connects \in 0 .. MaxConnects
    BY ConnectsAssumption DEF Init
  <2> QED
    BY <2>1, <2>2 DEF Init, FieldsOK
<1>2. InOrder(hooks)
  BY DEF Init, InOrder
<1>3. BeforeConnect /\ WholeWhileWorking
  BY DEF Init, BeforeConnect, WholeWhileWorking, Handles
<1>4. stack \in Handling /\ stack \notin Leaving
  BY HandlingFacts DEF Init
<1>5. FlagsOK /\ EndOK
  BY <1>4 DEF Init, FlagsOK, EndOK
<1> QED
  BY <1>1, <1>2, <1>3, <1>5 DEF ClientInv

(* What is appended to a row, and what stays of it.                        *)
LEMMA AppendFacts ==
    ASSUME NEW row \in Seq(HookNames), NEW hook \in HookNames
    PROVE  LET longer == Append(row, hook)
           IN  /\ longer \in Seq(HookNames) /\ longer # <<>>
               /\ Len(longer) = Len(row) + 1 /\ Len(row) \in Nat
               /\ DOMAIN longer = 1 .. Len(row) + 1 /\ DOMAIN row = 1 .. Len(row)
               /\ \A k \in DOMAIN row : longer[k] = row[k]
               /\ longer[Len(row) + 1] = hook
OBVIOUS

(* What the hooks are after one more: OnConnect begins them,               *)
LEMMA ConnectIsRecorded ==
    ASSUME hooks = <<>>
    PROVE  LET row == Recorded("OnConnect")
           IN  InOrder(row) /\ Begun(row) /\ Open(row)
<1> DEFINE row == Recorded("OnConnect")
<1>1. row = <<"OnConnect">>
  BY DEF Recorded
<1> HIDE DEF row
<1>2. /\ row \in Seq(HookNames) /\ row # <<>>
      /\ DOMAIN row = {1} /\ row[1] = "OnConnect"
  BY <1>1 DEF HookNames
<1>3. InOrder(row) /\ Begun(row) /\ Open(row)
  BY <1>2 DEF InOrder, Begun, Open
<1> QED
  BY <1>3 DEF row

(* ... OnEvent and the like go on with them,                               *)
LEMMA EventIsRecorded ==
    ASSUME InOrder(hooks), Begun(hooks), Open(hooks)
    PROVE  LET row == Recorded("OnEvent")
           IN  InOrder(row) /\ Begun(row) /\ Open(row)
<1> DEFINE row == Recorded("OnEvent")
<1>1. row = hooks \/ row = Append(hooks, "OnEvent")
  BY DEF Recorded
<1> HIDE DEF row
<1>2. ASSUME row = Append(hooks, "OnEvent")
      PROVE  InOrder(row) /\ Begun(row) /\ Open(row)
  <2>1. hooks \in Seq(HookNames) /\ "OnEvent" \in HookNames
    BY DEF InOrder, HookNames
  <2>2. /\ row \in Seq(HookNames) /\ row # <<>>
        /\ Len(row) = Len(hooks) + 1 /\ Len(hooks) \in Nat
        /\ DOMAIN row = 1 .. Len(hooks) + 1 /\ DOMAIN hooks = 1 .. Len(hooks)
        /\ \A k \in DOMAIN hooks : row[k] = hooks[k]
        /\ row[Len(hooks) + 1] = "OnEvent"
    BY <1>2, <2>1, AppendFacts
  <2>3. Len(hooks) >= 1
    BY <2>1, <2>2 DEF Begun
  <2>4. row[1] = "OnConnect"
    BY <2>2, <2>3 DEF Begun
  <2>5. Open(row)
    BY <2>2 DEF Open
  <2>6. InOrder(row)
    BY <2>2, <2>3, <2>4, <2>5 DEF InOrder, Open
  <2> QED
    BY <2>2, <2>4, <2>5, <2>6 DEF Begun
<1>3. InOrder(row) /\ Begun(row) /\ Open(row)
  BY <1>1, <1>2
<1> QED
  BY <1>3 DEF row

(* ... and OnDisconnect ends them.                                         *)
LEMMA DisconnectIsRecorded ==
    ASSUME InOrder(hooks), Open(hooks)
    PROVE  LET row == Recorded("OnDisconnect")
           IN  InOrder(row) /\ Over(row)
<1> DEFINE row == Recorded("OnDisconnect")
<1>1. row = Append(hooks, "OnDisconnect")
  BY DEF Recorded
<1> HIDE DEF row
<1>2. hooks \in Seq(HookNames) /\ "OnDisconnect" \in HookNames
  BY DEF InOrder, HookNames
<1>3. /\ row \in Seq(HookNames) /\ row # <<>>
      /\ Len(row) = Len(hooks) + 1 /\ Len(hooks) \in Nat
      /\ DOMAIN row = 1 .. Len(hooks) + 1 /\ DOMAIN hooks = 1 .. Len(hooks)
      /\ \A k \in DOMAIN hooks : row[k] = hooks[k]
      /\ row[Len(hooks) + 1] = "OnDisconnect"
  BY <1>1, <1>2, AppendFacts
<1>4. InOrder(row)
  BY <1>3 DEF InOrder, Open
<1>5. Over(row)
  BY <1>3 DEF Over
<1> QED
  BY <1>4, <1>5 DEF row

(* What Pop leaves.                                                        *)
LEMMA PopFacts ==
    ASSUME stack \in Handling \cup Leaving
    PROVE  /\ Top = "OnDisconnect" => stack \in Leaving /\ Pop \in Handling
           /\ Top \in {"OnConnect", "OnEvent"} => stack \in Handling /\ stack # <<>> /\ Pop = <<>>
BY HandlingFacts, LeavingFacts DEF Top, Pop

(* mumble_client_cleanup leaves no handle active, and the client in no     *)
(* list (client.c:860-880).                                                *)
LEMMA CleanupFacts ==
    ASSUME FieldsOK, Cleanup
    PROVE  /\ handles' \in [Handles -> States] /\ handles'["async"] # "none"
           /\ \A h \in Handles : handles'[h] # "active"
           /\ self' = FALSE /\ early' = (early \/ pending)
<1>1. PICK tcp \in BOOLEAN :
        handles' = [h \in Handles |->
            IF ClosedByCleanup(h) \/ (h = "tcp" /\ tcp /\ handles[h] = "idle")
            THEN "closing" ELSE handles[h]]
  BY DEF Cleanup
<1>2. \A h \in Handles : /\ handles'[h] \in {"closing", handles[h]}
                         /\ handles'[h] # "active"
  BY <1>1 DEF ClosedByCleanup
<1>3. "async" \in Handles /\ "closing" \in States
  BY DEF Handles, States
<1> QED
  BY <1>1, <1>2, <1>3 DEF Cleanup, FieldsOK

(* What ends the client without a hook: all that is left to show is what   *)
(* became of its threads and of the row of hooks.                          *)
LEMMA CleanedIsGood ==
    ASSUME ClientInv, Cleanup, connecting' = FALSE, connected' = FALSE,
           threads' = FALSE,
           fault' \in BOOLEAN, pending' = pending, established,
           life' \in {"live", "finalized", "freed"}, held' = held,
           stack' \in Handling, hooks' = hooks, abandoned' = abandoned,
           connects' = connects, established' = established,
           hooks = <<>> \/ abandoned \/ Over(hooks)
    PROVE  ClientInv'
<1>1. /\ handles' \in [Handles -> States] /\ handles'["async"] # "none"
      /\ \A h \in Handles : handles'[h] # "active"
      /\ self' = FALSE /\ early' = (early \/ pending)
  BY CleanupFacts DEF ClientInv
<1>2. stack' \notin Leaving
  BY HandlingFacts
<1>3. connects' # 0
  BY DEF ClientInv, BeforeConnect
<1>4. FieldsOK'
  BY <1>1 DEF ClientInv, FieldsOK
<1>5. BeforeConnect' /\ FlagsOK'
  BY <1>1, <1>2, <1>3 DEF ClientInv, BeforeConnect, FlagsOK
<1>6. EndOK' /\ WholeWhileWorking'
  BY <1>1, <1>2 DEF ClientInv, EndOK, WholeWhileWorking, FieldsOK
<1> QED
  BY <1>4, <1>5, <1>6 DEF ClientInv

(* mumble_disconnect (mumble.c:979), whoever calls it and wherever.        *)
LEMMA DisconnectIsGood ==
    ASSUME ClientInv, connecting, Disconnect, pending' = pending \/ pending' = FALSE,
           life' = life, held' = held, connects' = connects,
           established' = established, abandoned' = abandoned
    PROVE  ClientInv'
<1>1. established /\ connects # 0 /\ connects' # 0
  BY DEF ClientInv, BeforeConnect
<1>2. stack \in Handling
  BY DEF ClientInv, FlagsOK
<1>3. connecting' = FALSE /\ connected' = FALSE
  BY DEF Disconnect, FlagsCleared
<1>4. CASE self
  <2>1. /\ stack' = Append(stack, "OnDisconnect") /\ hooks' = Recorded("OnDisconnect")
        /\ self' = self /\ handles' = handles /\ early' = early
        /\ threads' = threads /\ fault' = fault
    BY <1>4 DEF Disconnect, Called
  <2>2. InOrder(hooks') /\ Over(hooks')
    BY <2>1, DisconnectIsRecorded DEF ClientInv, FlagsOK
  <2>3. stack' \in Leaving /\ stack' \notin Handling
    BY <1>2, <2>1, HandlingFacts
  <2>4. FieldsOK'
    BY <1>3, <2>1 DEF ClientInv, FieldsOK
  <2>5. BeforeConnect' /\ FlagsOK'
    BY <1>1, <1>3, <2>1, <2>2, <2>3 DEF BeforeConnect, FlagsOK
  <2>6. EndOK' /\ WholeWhileWorking'
    BY <1>1, <1>3, <1>4, <2>1, <2>2, <2>3 DEF ClientInv, EndOK, WholeWhileWorking
  <2> QED
    BY <2>2, <2>4, <2>5, <2>6 DEF ClientInv
<1>5. CASE ~self
  <2>1. Cleanup /\ threads' = FALSE /\ fault' \in BOOLEAN /\ stack' = stack /\ hooks' = hooks
    BY <1>5, Zenon DEF Disconnect, Called, Free, ClientInv, FieldsOK
  <2>2. abandoned
    BY <1>5 DEF ClientInv, WholeWhileWorking
  <2>3. /\ handles' \in [Handles -> States] /\ handles'["async"] # "none"
        /\ \A h \in Handles : handles'[h] # "active"
        /\ self' = FALSE /\ early' = (early \/ pending)
    BY <2>1, CleanupFacts DEF ClientInv
  <2>4. FieldsOK'
    BY <1>3, <2>1, <2>3 DEF ClientInv, FieldsOK
  <2>5. BeforeConnect' /\ FlagsOK'
    BY <1>1, <1>2, <1>3, <2>1, <2>3, HandlingFacts DEF BeforeConnect, FlagsOK
  <2>6. EndOK' /\ WholeWhileWorking'
    BY <1>1, <1>2, <1>3, <2>1, <2>2, <2>3 DEF EndOK, WholeWhileWorking, ClientInv, FieldsOK
  <2> QED
    BY <2>1, <2>4, <2>5, <2>6 DEF ClientInv
<1> QED
  BY <1>4, <1>5 DEF ClientInv, FieldsOK

(* It returns at once if the client is not connecting, and then a connect  *)
(* that failed is all there was.                                           *)
LEMMA DisconnectedIsGood ==
    ASSUME ClientInv, Disconnected, pending' = pending \/ pending' = FALSE,
           life' = life, held' = held, connects' = connects,
           established' = established, abandoned' = abandoned
    PROVE  ClientInv'
<1>1. CASE connecting
  BY <1>1, DisconnectIsGood DEF Disconnected, Connecting
<1>2. CASE ~connecting
  <2>1. /\ connecting' = connecting /\ connected' = connected /\ self' = self
        /\ threads' = threads /\ handles' = handles /\ stack' = stack /\ hooks' = hooks
        /\ early' = early /\ fault' = fault
    BY <1>2 DEF Disconnected, Connecting, flags
  <2>2. FieldsOK' /\ InOrder(hooks)'
    BY <2>1 DEF ClientInv, FieldsOK
  <2>3. BeforeConnect' /\ FlagsOK'
    BY <2>1 DEF ClientInv, BeforeConnect, FlagsOK
  <2>4. EndOK' /\ WholeWhileWorking'
    BY <1>2, <2>1 DEF ClientInv, EndOK, WholeWhileWorking, FieldsOK
  <2> QED
    BY <2>2, <2>3, <2>4 DEF ClientInv
<1> QED
  BY <1>1, <1>2

(* OnDisconnect returns: the client has been told, and is cleaned up.      *)
LEMMA DisconnectReturnIsGood ==
    ASSUME ClientInv, DisconnectReturn
    PROVE  ClientInv'
<1>1. stack \in Leaving /\ stack' \in Handling
  BY PopFacts DEF DisconnectReturn, ClientInv, FlagsOK
<1>2. ~connecting /\ ~connected /\ Over(hooks)
  BY <1>1 DEF ClientInv, FlagsOK
<1>3. established
  BY <1>1, LeavingFacts DEF ClientInv, BeforeConnect
<1> QED
  BY <1>1, <1>2, <1>3, CleanedIsGood
     DEF DisconnectReturn, Free, memory, ClientInv, FieldsOK

(* The calls of the script, the first connect() among them (client.c:886). *)
LEMMA ConnectIsGood ==
    ASSUME ClientInv, Connect \/ ConnectFails, connects = 0
    PROVE  ClientInv'
<1>1. /\ threads /\ ~established /\ ~pending /\ ~early /\ ~connecting /\ ~connected /\ ~self
      /\ stack = <<>> /\ hooks = <<>>
      /\ \A h \in Handles \ {"async"} : handles[h] = "none"
      /\ ~abandoned => handles["async"] = "active"
  BY DEF ClientInv, BeforeConnect
<1>2. connects' = 1 /\ connects' \in 0 .. MaxConnects /\ life = "live"
  BY ConnectsAssumption DEF Connect, ConnectFails, Counted, Has
<1>3. <<>> \in Handling /\ <<>> \notin Leaving
  BY HandlingFacts
<1>4. CASE Connect
  <2>1. /\ connecting' = TRUE /\ connected' = connected /\ self' = TRUE /\ threads' = threads
        /\ pending' = TRUE /\ life' = life /\ held' = held /\ stack' = stack /\ hooks' = hooks
        /\ established' = TRUE /\ abandoned' = abandoned /\ early' = early /\ fault' = fault
    BY <1>4 DEF Connect, Registered, memory
  <2>2. /\ handles' \in [Handles -> States] /\ handles'["async"] # "none"
        /\ handles'["tcp"] = "idle"
        /\ ~abandoned => \A h \in Handles : handles'[h] \notin {"closing", "closed"}
    BY <1>1, <1>4 DEF Connect, ClientInv, FieldsOK, Handles, States
  <2>3. FieldsOK' /\ InOrder(hooks)'
    BY <1>2, <2>1, <2>2 DEF ClientInv, FieldsOK
  <2>4. BeforeConnect' /\ FlagsOK'
    BY <1>1, <1>2, <1>3, <2>1 DEF BeforeConnect, FlagsOK, Open
  <2>5. EndOK' /\ WholeWhileWorking'
    BY <1>1, <1>2, <1>3, <2>1, <2>2 DEF EndOK, WholeWhileWorking
  <2> QED
    BY <2>3, <2>4, <2>5 DEF ClientInv
<1>5. CASE ConnectFails
  <2>1. /\ connecting' = connecting /\ connected' = connected /\ self' = self
        /\ threads' = FALSE /\ fault' \in BOOLEAN /\ pending' \in BOOLEAN
        /\ life' = life /\ held' = held /\ stack' = stack /\ hooks' = hooks
        /\ established' = established /\ abandoned' = abandoned /\ early' = early
    BY <1>1, <1>5 DEF ConnectFails, Free, flags, memory
  <2>2. handles' \in [Handles -> States] /\ handles'["async"] # "none"
    BY <1>5 DEF ConnectFails, ClientInv, FieldsOK, Handles, States
  <2>3. FieldsOK' /\ InOrder(hooks)'
    BY <1>2, <2>1, <2>2 DEF ClientInv, FieldsOK
  <2>4. BeforeConnect' /\ FlagsOK'
    BY <1>1, <1>2, <1>3, <2>1 DEF BeforeConnect, FlagsOK
  <2>5. EndOK' /\ WholeWhileWorking'
    BY <1>1, <1>2, <1>3, <2>1 DEF EndOK, WholeWhileWorking
  <2> QED
    BY <2>3, <2>4, <2>5 DEF ClientInv
<1> QED
  BY <1>4, <1>5

(* The script forgets its client.                                          *)
LEMMA ForgetIsGood == ASSUME ClientInv, Forget PROVE ClientInv'
<1>1. FieldsOK' /\ InOrder(hooks)'
  BY DEF Forget, ClientInv, FieldsOK, flags, ghosts
<1>2. BeforeConnect' /\ FlagsOK'
  BY DEF Forget, ClientInv, BeforeConnect, FlagsOK, flags, ghosts
<1>3. EndOK' /\ WholeWhileWorking'
  BY DEF Forget, ClientInv, EndOK, WholeWhileWorking, flags, ghosts
<1> QED
  BY <1>1, <1>2, <1>3 DEF ClientInv

(* mumble.stop takes the client off both lists, and closes its handles.    *)
LEMMA StopIsGood == ASSUME ClientInv, Stop PROVE ClientInv'
<1>1. /\ connecting' = connecting /\ connected' = connected /\ self' = FALSE
      /\ threads' = threads /\ pending' = pending /\ life' = life /\ held' = held
      /\ stack' = stack /\ hooks' = hooks /\ connects' = connects
      /\ established' = established /\ fault' \in BOOLEAN
      /\ abandoned' = TRUE /\ early' = (early \/ pending)
  <2>1. fault' \in BOOLEAN
    BY Zenon DEF Stop, NoPoll
  <2> QED
    BY <2>1 DEF Stop, memory
<1>2. \A h \in Handles : handles'[h] = IF handles[h] \in {"idle", "active"} THEN "closing" ELSE handles[h]
  BY DEF Stop
<1>3. /\ handles' \in [Handles -> States] /\ handles'["async"] # "none"
      /\ \A h \in Handles : handles'[h] # "active"
      /\ \A h \in Handles : handles[h] = "none" => handles'[h] = "none"
  BY <1>2 DEF Stop, ClientInv, FieldsOK, Handles, States
<1>4. FieldsOK' /\ InOrder(hooks)'
  BY <1>1, <1>3 DEF ClientInv, FieldsOK
<1>5. BeforeConnect'
  BY <1>1, <1>3 DEF ClientInv, BeforeConnect
<1>6. FlagsOK'
  BY <1>1 DEF ClientInv, FlagsOK
<1>7. EndOK' /\ WholeWhileWorking'
  BY <1>1, <1>3 DEF ClientInv, EndOK, WholeWhileWorking
<1> QED
  BY <1>4, <1>5, <1>6, <1>7 DEF ClientInv

(* The connection: mumble_connected_tcp, and the handshake.                *)
LEMMA TcpConnectedIsGood == ASSUME ClientInv, TcpConnected PROVE ClientInv'
<1>1. /\ connecting' = connecting /\ connected' = connected /\ self' = self
      /\ threads' = threads /\ pending /\ pending' = FALSE /\ life' = life /\ held' = held
      /\ stack' = stack /\ hooks' = hooks /\ connects' = connects
      /\ established' = established /\ fault' = fault
      /\ abandoned' = abandoned /\ early' = early
  BY DEF TcpConnected, flags, memory, ghosts
<1>2. connects # 0
  BY <1>1 DEF ClientInv, BeforeConnect
<1>3. established => self \/ early
  BY <1>1 DEF ClientInv, EndOK
<1>4. /\ handles' \in [Handles -> States] /\ handles'["async"] # "none"
      /\ handles["tcp"] = handles'["tcp"]
      /\ (\A h \in Handles : handles[h] \notin {"closing", "closed"}) =>
            \A h \in Handles : handles'[h] \notin {"closing", "closed"}
  BY DEF TcpConnected, ClientInv, FieldsOK, Handles, States
<1>5. FieldsOK' /\ InOrder(hooks)'
  BY <1>1, <1>4 DEF ClientInv, FieldsOK
<1>6. BeforeConnect' /\ FlagsOK'
  BY <1>1, <1>2 DEF ClientInv, BeforeConnect, FlagsOK
<1>7. EndOK' /\ WholeWhileWorking'
  BY <1>1, <1>3, <1>4 DEF ClientInv, EndOK, WholeWhileWorking
<1> QED
  BY <1>5, <1>6, <1>7 DEF ClientInv

(* What polls the socket is the handle of a connection that there is; and  *)
(* one whose threads run is connecting.                                    *)
LEMMA PollFacts ==
    ASSUME ClientInv, Loop("poll", "active")
    PROVE  /\ connects # 0 /\ stack = <<>>
           /\ threads => connecting /\ established
<1>1. handles["poll"] = "active" /\ "poll" \in Handles \ {"async"} /\ stack = <<>>
  BY DEF Loop, Handles
<1>2. connects # 0
  BY <1>1 DEF ClientInv, BeforeConnect
<1>3. threads => established
  BY <1>2 DEF ClientInv, BeforeConnect, FieldsOK
<1>4. threads => connecting
  BY <1>1, <1>3, HandlingFacts DEF ClientInv, EndOK
<1> QED
  BY <1>1, <1>2, <1>3, <1>4

(* The handshake succeeds (socket_connect_event_tcp).                      *)
LEMMA HandshakeIsGood == ASSUME ClientInv, Handshake PROVE ClientInv'
<1>1. /\ connecting' = connecting /\ self' = self /\ threads' = threads
      /\ handles' = handles /\ pending' = pending /\ life' = life /\ held' = held
      /\ connects' = connects /\ established' = established
      /\ abandoned' = abandoned /\ early' = early /\ ~connected
  BY DEF Handshake, memory, ghosts
<1>2. connects # 0 /\ stack = <<>> /\ (threads => connecting /\ established)
  BY PollFacts DEF Handshake
<1>3. CASE ~threads
  <2>1. connected' = connected /\ stack' = stack /\ hooks' = hooks /\ fault' = TRUE
    BY <1>3 DEF Handshake
  <2>2. FieldsOK' /\ InOrder(hooks)'
    BY <1>1, <2>1 DEF ClientInv, FieldsOK
  <2>3. BeforeConnect' /\ FlagsOK'
    BY <1>1, <2>1 DEF ClientInv, BeforeConnect, FlagsOK
  <2>4. EndOK' /\ WholeWhileWorking'
    BY <1>1, <2>1 DEF ClientInv, EndOK, WholeWhileWorking
  <2> QED
    BY <2>2, <2>3, <2>4 DEF ClientInv
<1>4. CASE threads
  <2>1. connected' = TRUE /\ fault' = fault
    BY <1>4 DEF Handshake
  <2>2. hooks = <<>>
    BY <1>1, <1>2, <1>4 DEF ClientInv, FlagsOK
  <2>3. /\ self => stack' = Append(<<>>, "OnConnect") /\ hooks' = Recorded("OnConnect")
        /\ ~self => stack' = <<>> /\ hooks' = hooks
    BY <1>2, <1>4 DEF Handshake, Called
  <2>4. stack' \in Handling /\ stack' \notin Leaving
    BY <2>3, HandlingFacts
  <2>5. InOrder(hooks') /\ Open(hooks') /\ (self => Begun(hooks'))
    <3>1. CASE self
      BY <2>2, <2>3, <3>1, ConnectIsRecorded
    <3>2. CASE ~self
      BY <2>2, <2>3, <3>2 DEF InOrder, Open
    <3> QED
      BY <3>1, <3>2
  <2>6. FieldsOK'
    BY <1>1, <2>1 DEF ClientInv, FieldsOK
  <2>7. BeforeConnect' /\ FlagsOK'
    BY <1>1, <1>2, <1>4, <2>1, <2>4, <2>5 DEF ClientInv, BeforeConnect, FlagsOK
  <2>8. EndOK' /\ WholeWhileWorking'
    BY <1>1, <1>2, <1>4, <2>1, <2>2, <2>3, <2>4 DEF ClientInv, EndOK, WholeWhileWorking
  <2> QED
    BY <2>5, <2>6, <2>7, <2>8 DEF ClientInv
<1> QED
  BY <1>3, <1>4

(* ... or fails.                                                           *)
LEMMA HandshakeFailsIsGood == ASSUME ClientInv, HandshakeFails PROVE ClientInv'
<1>1. /\ connecting' = connecting /\ connected' = connected /\ threads' = threads
      /\ pending' = pending /\ life' = life /\ held' = held /\ stack' = stack
      /\ hooks' = hooks /\ connects' = connects /\ established' = established
      /\ fault' = fault /\ abandoned' = TRUE
  BY DEF HandshakeFails, memory
<1>2. connects # 0
  BY PollFacts DEF HandshakeFails
<1>3. /\ handles' \in [Handles -> States] /\ handles'["async"] # "none"
      /\ \A h \in Handles : handles'[h] # "active"
      /\ self' = FALSE /\ early' = (early \/ pending)
  BY CleanupFacts DEF HandshakeFails, ClientInv
<1>4. FieldsOK' /\ InOrder(hooks)'
  BY <1>1, <1>3 DEF ClientInv, FieldsOK
<1>5. BeforeConnect' /\ FlagsOK'
  BY <1>1, <1>2, <1>3 DEF ClientInv, BeforeConnect, FlagsOK
<1>6. EndOK' /\ WholeWhileWorking'
  BY <1>1, <1>3 DEF ClientInv, EndOK, WholeWhileWorking
<1> QED
  BY <1>4, <1>5, <1>6 DEF ClientInv

(* Handlers and their hooks.  A handler returns, or goes on with the next  *)
(* part of its packet.                                                     *)
LEMMA ReturnIsGood ==
    ASSUME ClientInv, ConnectReturn \/ EventContinues
    PROVE  ClientInv'
<1>1. /\ connecting' = connecting /\ connected' = connected /\ self' = self
      /\ threads' = threads /\ handles' = handles /\ pending' = pending
      /\ life' = life /\ held' = held /\ hooks' = hooks /\ connects' = connects
      /\ established' = established /\ abandoned' = abandoned /\ early' = early
  BY DEF ConnectReturn, EventContinues, flags, memory, ghosts
<1>2. fault' \in BOOLEAN
  BY Zenon DEF ConnectReturn, EventContinues, GoesOn
<1>3. stack \in Handling /\ stack # <<>> /\ stack' = <<>>
  BY PopFacts DEF ConnectReturn, EventContinues, ClientInv, FlagsOK
<1>4. stack' \in Handling /\ stack' \notin Leaving /\ stack \notin Leaving
  BY <1>3, HandlingFacts
<1>5. FieldsOK' /\ InOrder(hooks)'
  BY <1>1, <1>2 DEF ClientInv, FieldsOK
<1>6. BeforeConnect' /\ FlagsOK'
  BY <1>1, <1>3, <1>4 DEF ClientInv, BeforeConnect, FlagsOK
<1>7. EndOK' /\ WholeWhileWorking'
  BY <1>1, <1>3, <1>4 DEF ClientInv, EndOK, WholeWhileWorking
<1> QED
  BY <1>5, <1>6, <1>7 DEF ClientInv

(* A hook of a packet, called from the loop or by a handler that goes on.  *)
LEMMA EventCallIsGood ==
    ASSUME ClientInv, Called(<<>>, "OnEvent"), stack \in Handling,
           self => connecting /\ connected,
           FieldsOK', connecting' = connecting, connected' = connected,
           self' = self, threads' = threads, pending' = pending, life' = life,
           connects' = connects, established' = established,
           abandoned' = abandoned, early' = early, connects # 0,
           established, handles'["tcp"] = handles["tcp"],
           ~self /\ ~early => \A h \in Handles : handles'[h] # "active",
           (\A h \in Handles : handles[h] \notin {"closing", "closed"}) =>
               \A h \in Handles : handles'[h] \notin {"closing", "closed"},
           connecting => connected
    PROVE  ClientInv'
<1>1. CASE self
  <2>1. stack' = Append(<<>>, "OnEvent") /\ hooks' = Recorded("OnEvent")
    BY <1>1 DEF Called
  <2>2. stack' \in Handling /\ stack' \notin Leaving
    BY <2>1, HandlingFacts
  <2>3. InOrder(hooks') /\ Begun(hooks') /\ Open(hooks')
    BY <1>1, <2>1, EventIsRecorded DEF ClientInv, FlagsOK
  <2>4. BeforeConnect' /\ FlagsOK'
    BY <1>1, <2>2, <2>3 DEF BeforeConnect, FlagsOK
  <2>5. EndOK' /\ WholeWhileWorking'
    BY <1>1, <2>2 DEF ClientInv, EndOK, WholeWhileWorking
  <2> QED
    BY <2>3, <2>4, <2>5 DEF ClientInv
<1>2. CASE ~self
  <2>1. stack' = <<>> /\ hooks' = hooks
    BY <1>2 DEF Called
  <2>2. stack' \in Handling /\ stack' \notin Leaving
    BY <2>1, HandlingFacts
  <2>3. BeforeConnect' /\ FlagsOK'
    BY <1>2, <2>1, <2>2 DEF ClientInv, BeforeConnect, FlagsOK
  <2>4. EndOK' /\ WholeWhileWorking'
    BY <1>2, <2>1, <2>2 DEF ClientInv, EndOK, WholeWhileWorking
  <2> QED
    BY <2>1, <2>3, <2>4 DEF ClientInv
<1> QED
  BY <1>1, <1>2 DEF ClientInv, FieldsOK

(* An event of a handle, with the packet that it handles.                  *)
LEMMA EventIsGood ==
    ASSUME ClientInv, NEW h \in Handles, NEW syncs \in BOOLEAN, Event(h, syncs)
    PROVE  ClientInv'
<1>1. /\ connecting' = connecting /\ connected' = connected /\ self' = self
      /\ threads' = threads /\ pending' = pending /\ life' = life /\ held' = held
      /\ connects' = connects /\ established' = established /\ fault' = fault
      /\ abandoned' = abandoned /\ early' = early
      /\ stack = <<>> /\ handles[h] = "active" /\ connected
  BY DEF Event, Loop, flags, memory, ghosts
<1>2. connecting /\ established /\ connects # 0
  BY <1>1 DEF ClientInv, FlagsOK, BeforeConnect
<1>3. self \/ early
  BY <1>1, <1>2 DEF ClientInv, EndOK
<1>4. /\ handles' \in [Handles -> States] /\ handles'["async"] # "none"
      /\ handles'["tcp"] = handles["tcp"]
      /\ (\A g \in Handles : handles[g] \notin {"closing", "closed"}) =>
            \A g \in Handles : handles'[g] \notin {"closing", "closed"}
  BY DEF Event, ClientInv, FieldsOK, Handles, States
<1>5. FieldsOK'
  BY <1>1, <1>4 DEF ClientInv, FieldsOK
<1>6. Called(<<>>, "OnEvent") /\ stack \in Handling
  BY <1>1, HandlingFacts DEF Event
<1> QED
  BY <1>1, <1>2, <1>3, <1>4, <1>5, <1>6, EventCallIsGood

(* ... and of a handler that calls a second hook.                          *)
LEMMA EventCallsAgainIsGood == ASSUME ClientInv, EventCallsAgain PROVE ClientInv'
<1>1. /\ connecting' = connecting /\ connected' = connected /\ self' = self
      /\ threads' = threads /\ handles' = handles /\ pending' = pending
      /\ life' = life /\ held' = held /\ connects' = connects
      /\ established' = established /\ fault' \in BOOLEAN
      /\ abandoned' = abandoned /\ early' = early
  <2>1. fault' \in BOOLEAN
    BY Zenon DEF EventCallsAgain, GoesOn
  <2> QED
    BY <2>1 DEF EventCallsAgain, flags, memory, ghosts
<1>2. stack \in Handling /\ stack # <<>> /\ Pop = <<>>
  BY PopFacts DEF EventCallsAgain, ClientInv, FlagsOK
<1>3. established /\ connects # 0
  BY <1>2 DEF ClientInv, BeforeConnect
<1>4. (self => connecting /\ connected) /\ (connecting => connected)
  BY <1>2, <1>3 DEF ClientInv, EndOK, FlagsOK
<1>5. Called(<<>>, "OnEvent")
  BY <1>2 DEF EventCallsAgain
<1>6. FieldsOK'
  BY <1>1 DEF ClientInv, FieldsOK
<1>7. ~self /\ ~early => \A h \in Handles : handles[h] # "active"
  BY <1>3 DEF ClientInv, EndOK
<1> QED
  BY <1>1, <1>2, <1>3, <1>4, <1>5, <1>6, <1>7, EventCallIsGood

(* The end of an iteration: a connect that is pending is cancelled with    *)
(* its handle, after mumble.stop only.                                     *)
LEMMA ClosedIsGood ==
    ASSUME ClientInv, NEW h \in Handles, Closed(h)
    PROVE  ClientInv'
<1>1. /\ self' = self /\ life' = life /\ held' = held /\ stack' = stack
      /\ hooks' = hooks /\ connects' = connects /\ established' = established
      /\ abandoned' = abandoned /\ early' = early
      /\ stack = <<>> /\ handles[h] = "closing"
      /\ pending' = (pending /\ h # "tcp")
  BY DEF Closed, Loop, memory, ghosts
<1>2. connects = 0 => h = "async" /\ abandoned
  BY <1>1 DEF ClientInv, BeforeConnect
<1>3. stack \in Handling /\ stack \notin Leaving
  BY <1>1, HandlingFacts
<1>4. CASE h = "tcp" /\ pending /\ connecting
  <2>1. /\ connecting' = FALSE /\ connected' = FALSE /\ threads' = FALSE
        /\ fault' \in BOOLEAN /\ pending' = FALSE
    <3>1. FlagsCleared /\ Free(NoPoll) /\ pending' = FALSE
      BY <1>1, <1>4 DEF Closed
    <3>2. fault' \in BOOLEAN
      BY <3>1, Zenon DEF Free
    <3> QED
      BY <3>1, <3>2 DEF FlagsCleared, Free
  <2>2. handles' = [g \in Handles |-> IF g = h THEN "closed"
                                      ELSE IF ClosedByCleanup(g) THEN "closing" ELSE handles[g]]
    BY <1>4 DEF Closed
  <2>3. /\ handles' \in [Handles -> States] /\ handles'["async"] # "none"
        /\ \A g \in Handles : handles'[g] # "active"
    BY <2>2 DEF ClosedByCleanup, ClientInv, FieldsOK, Handles, States
  <2>4. established /\ ~self /\ abandoned /\ connects # 0
    BY <1>1, <1>4 DEF ClientInv, BeforeConnect, EndOK, WholeWhileWorking
  <2>5. FieldsOK' /\ InOrder(hooks)'
    BY <1>1, <2>1, <2>3 DEF ClientInv, FieldsOK
  <2>6. BeforeConnect' /\ FlagsOK'
    BY <1>1, <1>3, <2>1, <2>4 DEF BeforeConnect, FlagsOK
  <2>7. EndOK' /\ WholeWhileWorking'
    BY <1>1, <2>1, <2>3, <2>4 DEF EndOK, WholeWhileWorking
  <2> QED
    BY <2>5, <2>6, <2>7 DEF ClientInv
<1>5. CASE ~(h = "tcp" /\ pending /\ connecting)
  <2>1. /\ connecting' = connecting /\ connected' = connected /\ threads' = threads
        /\ fault' = fault /\ handles' = [handles EXCEPT ![h] = "closed"]
    BY <1>5 DEF Closed
  <2>2. /\ handles' \in [Handles -> States] /\ handles'["async"] # "none"
        /\ \A g \in Handles : handles'[g] = IF g = h THEN "closed" ELSE handles[g]
    BY <2>1 DEF ClientInv, FieldsOK, Handles, States
  <2>3. connecting => abandoned
    BY <1>1 DEF ClientInv, WholeWhileWorking
  <2>4. FieldsOK' /\ InOrder(hooks)'
    BY <1>1, <2>1, <2>2 DEF ClientInv, FieldsOK
  <2>5. BeforeConnect'
    BY <1>1, <1>2, <2>1, <2>2 DEF ClientInv, BeforeConnect
  <2>6. FlagsOK'
    BY <1>1, <2>1 DEF ClientInv, FlagsOK
  <2>7. EndOK'
    <3>1. pending' => pending
      BY <1>1
    <3>2. handles'["tcp"] \in {"closing", "closed"} => handles["tcp"] \in {"closing", "closed"}
      BY <1>1, <2>2 DEF Handles
    <3>3. (\A g \in Handles : handles[g] # "active") => \A g \in Handles : handles'[g] # "active"
      BY <2>2
    <3> QED
      BY <1>1, <2>1, <3>1, <3>2, <3>3 DEF ClientInv, EndOK
  <2>8. WholeWhileWorking'
    BY <1>1, <2>1, <2>3 DEF WholeWhileWorking
  <2> QED
    BY <2>4, <2>5, <2>6, <2>7, <2>8 DEF ClientInv
<1> QED
  BY <1>4, <1>5

(* The collector takes what neither the script nor a list refers to        *)
(* (client.c:999).                                                         *)
LEMMA CollectIsGood == ASSUME ClientInv, Collect PROVE ClientInv'
<1>1. /\ pending' = pending /\ held' = held /\ stack' = stack /\ hooks' = hooks
      /\ connects' = connects /\ established' = established
      /\ abandoned' = abandoned /\ life' = "finalized"
      /\ ~self /\ stack = <<>>
  BY DEF Collect, Referenced
<1>2. stack \in Handling /\ stack \notin Leaving
  BY <1>1, HandlingFacts
<1>3. CASE connecting
  <2>1. Cleanup /\ connecting' = FALSE /\ connected' = FALSE /\ threads' = FALSE
        /\ fault' \in BOOLEAN
    BY <1>3 DEF Collect, Connecting, FlagsCleared, Free, ClientInv, FieldsOK
  <2>2. established /\ abandoned
    BY <1>1, <1>3 DEF ClientInv, BeforeConnect, WholeWhileWorking
  <2> QED
    BY <1>1, <1>2, <2>1, <2>2, CleanedIsGood
<1>4. CASE ~connecting
  <2>1. /\ connecting' = connecting /\ connected' = connected /\ self' = self
        /\ handles' = handles /\ early' = early /\ threads' = threads /\ fault' = fault
    BY <1>4 DEF Collect, Connecting, flags
  <2>2. connects > 0 => ~threads
    BY <1>2, <1>4 DEF ClientInv, EndOK, BeforeConnect
  <2>3. FieldsOK' /\ InOrder(hooks)'
    BY <1>1, <2>1 DEF ClientInv, FieldsOK
  <2>4. BeforeConnect' /\ FlagsOK'
    BY <1>1, <2>1 DEF ClientInv, BeforeConnect, FlagsOK
  <2>5. EndOK' /\ WholeWhileWorking'
    BY <1>1, <1>4, <2>1, <2>2 DEF ClientInv, EndOK, WholeWhileWorking
  <2> QED
    BY <2>3, <2>4, <2>5 DEF ClientInv
<1> QED
  BY <1>3, <1>4

(* The collector frees a client, or is reached at the end.                 *)
LEMMA MemoryIsGood ==
    ASSUME ClientInv, FreeMemory \/ Reached
    PROVE  ClientInv'
<1>1. /\ connecting' = connecting /\ connected' = connected /\ self' = self
      /\ threads' = threads /\ handles' = handles /\ pending' = pending
      /\ held' = held /\ stack' = stack /\ hooks' = hooks /\ connects' = connects
      /\ established' = established /\ abandoned' = abandoned /\ early' = early
      /\ fault' \in {fault, TRUE}
      /\ life # "live" /\ life' = "freed"
  BY DEF FreeMemory, Reached, flags, memory, ghosts
<1>2. FieldsOK' /\ InOrder(hooks)'
  BY <1>1 DEF ClientInv, FieldsOK
<1>3. BeforeConnect' /\ FlagsOK'
  BY <1>1 DEF ClientInv, BeforeConnect, FlagsOK
<1>4. EndOK' /\ WholeWhileWorking'
  BY <1>1 DEF ClientInv, EndOK, WholeWhileWorking
<1> QED
  BY <1>2, <1>3, <1>4 DEF ClientInv

(* Every step of a client, or a stutter, keeps the invariant.              *)
LEMMA ClientStepIsGood == ClientGood /\ [Next]_vars => ClientGood'
<1> SUFFICES ASSUME ClientGood, [Next]_vars PROVE ClientGood'
  OBVIOUS
<1>1. CASE Connect \/ ConnectFails
  <2>1. connects' = connects + 1
    BY <1>1 DEF Connect, ConnectFails, Counted
  <2>2. connects' <= 1 => connects = 0
    BY <2>1 DEF ClientGood
  <2> QED
    BY <1>1, <2>1, <2>2, ConnectIsGood DEF ClientGood
<1>2. CASE UNCHANGED vars
  <2>1. /\ connecting' = connecting /\ connected' = connected /\ self' = self
        /\ threads' = threads /\ handles' = handles /\ pending' = pending
        /\ life' = life /\ held' = held /\ stack' = stack /\ hooks' = hooks
        /\ connects' = connects /\ established' = established /\ fault' = fault
        /\ abandoned' = abandoned /\ early' = early
    BY <1>2 DEF vars, flags, memory, ghosts
  <2>2. ASSUME ClientInv PROVE ClientInv'
    <3>1. FieldsOK' /\ InOrder(hooks)'
      BY <2>1, <2>2 DEF ClientInv, FieldsOK
    <3>2. BeforeConnect' /\ FlagsOK'
      BY <2>1, <2>2 DEF ClientInv, BeforeConnect, FlagsOK
    <3>3. EndOK' /\ WholeWhileWorking'
      BY <2>1, <2>2 DEF ClientInv, EndOK, WholeWhileWorking
    <3> QED
      BY <3>1, <3>2, <3>3 DEF ClientInv
  <2> QED
    BY <2>1, <2>2 DEF ClientGood
<1>3. CASE Next /\ ~Connect /\ ~ConnectFails
  <2>1. connects' = connects
    BY <1>3 DEF Next, Script, EventLoop, ScriptDisconnects, Forget, Stop, TcpConnected,
           TcpFails, Handshake, HandshakeFails, ConnectReturn, Event, EventContinues,
           EventCallsAgain, SocketFails, DisconnectReturn, Closed, Collect, FreeMemory,
           Reached, ghosts
  <2>2. ASSUME ClientInv PROVE ClientInv'
    <3>1. CASE ScriptDisconnects
      BY <2>2, <3>1, DisconnectIsGood DEF ScriptDisconnects, memory
    <3>2. CASE Forget \/ Stop
      BY <2>2, <3>2, ForgetIsGood, StopIsGood
    <3>3. CASE TcpConnected \/ Handshake \/ HandshakeFails
      BY <2>2, <3>3, TcpConnectedIsGood, HandshakeIsGood, HandshakeFailsIsGood
    <3>4. CASE TcpFails
      BY <2>2, <3>4, DisconnectedIsGood DEF TcpFails, memory
    <3>5. CASE SocketFails
      BY <2>2, <3>5, DisconnectedIsGood DEF SocketFails, memory
    <3>6. CASE ConnectReturn \/ EventContinues \/ DisconnectReturn
      BY <2>2, <3>6, ReturnIsGood, DisconnectReturnIsGood
    <3>7. CASE \E h \in Handles, syncs \in BOOLEAN : Event(h, syncs)
      BY <2>2, <3>7, EventIsGood
    <3>8. CASE EventCallsAgain \/ \E h \in Handles : Closed(h)
      BY <2>2, <3>8, EventCallsAgainIsGood, ClosedIsGood
    <3>9. CASE Collect \/ FreeMemory \/ Reached
      BY <2>2, <3>9, CollectIsGood, MemoryIsGood
    <3> QED
      BY <1>3, <3>1, <3>2, <3>3, <3>4, <3>5, <3>6, <3>7, <3>8, <3>9, Zenon
         DEF Next, Script, EventLoop
  <2> QED
    BY <2>1, <2>2 DEF ClientGood
<1> QED
  BY <1>1, <1>2, <1>3

(* The invariant of the client holds throughout.                           *)
LEMMA ClientInvariance == Spec => []ClientGood
<1>1. Init => ClientGood
  BY ClientInitIsGood DEF Init, ClientGood
<1> QED
  BY <1>1, ClientStepIsGood, PTL DEF Spec

(* Of one connection: the script hears OnConnect first and OnDisconnect    *)
(* last, once each, whoever disconnects and on whatever stack              *)
(* (mumble.c:1049, 989); a client that is working is whole; and its end is *)
(* complete when OnDisconnect has returned (mumble.c:1008).                *)
THEOREM OneConnection ==
    Spec => [](connects <= 1 => HooksInOrder /\ WholeWhileWorking /\ EndIsComplete)
<1>1. ClientGood => (connects <= 1 => HooksInOrder /\ WholeWhileWorking /\ EndIsComplete)
  BY InvSaysSo DEF ClientGood
<1> QED
  BY <1>1, ClientInvariance, PTL

-----------------------------------------------------------------------------
(* Every step of the loop is a step of the client, or leaves it alone.     *)
LEMMA LoopStepIsClient == [LoopNext]_allVars => [Next]_vars
<1> SUFFICES ASSUME [LoopNext]_allVars PROVE [Next]_vars
  OBVIOUS
<1>1. CASE LoopNext
  <2>1. ~fault
    BY <1>1 DEF LoopNext
  <2>2. CASE ClientRuns \/ HandlerCallsAgain
    <3>1. EventLoop
      BY <2>2, Zenon DEF ClientRuns, HandlerBegins, HandlerGoesOn, HandlerCallsAgain, EventLoop
    <3> QED
      BY <2>1, <3>1 DEF Next
  <2>3. CASE HookRuns \/ ScriptHooks \/ PipeReturns
    <3>1. UNCHANGED vars
      BY <2>3, Zenon DEF HookRuns, ScriptHooks, PipeReturns
    <3> QED
      BY <3>1
  <2>4. CASE ClientAlone
    <3>1. Script \/ Collect \/ FreeMemory \/ Reached
      BY <2>4, Zenon DEF ClientAlone, CallsClient, Script
    <3> QED
      BY <2>1, <3>1 DEF Next
  <2>5. CASE StopAll
    <3>1. Stop \/ UNCHANGED vars
      BY <2>5, Zenon DEF StopAll
    <3> QED
      BY <2>1, <3>1 DEF Next, Script
  <2>6. ASSUME NEW p \in Pipes, PipeRuns(p) \/ PipeAlone(p)
        PROVE  UNCHANGED vars
    BY <2>6, Zenon DEF PipeRuns, PipeAlone
  <2> QED
    BY <1>1, <2>2, <2>3, <2>4, <2>5, <2>6, Zenon DEF LoopNext
<1>2. CASE UNCHANGED allVars
  BY <1>2 DEF allVars
<1> QED
  BY <1>1, <1>2

(* The client of the loop is a client as ClientLifecycle says: no callback *)
(* of a pipe and no function of a hook does to it what it could not meet   *)
(* alone (mumble.c, client.c).                                             *)
THEOREM LoopImplementsClient == LoopSpec => Spec
<1>1. LoopInit => Init
  BY DEF LoopInit
<1> QED
  BY <1>1, LoopStepIsClient, PTL DEF LoopSpec, Spec

(* In the company of pipes, and with several functions for each hook, of   *)
(* one connection: OnConnect first, OnDisconnect last, once each           *)
(* (mumble.c:1049, 989).                                                   *)
THEOREM LoopTellsInOrder == LoopSpec => [](connects <= 1 => HooksInOrder)
BY LoopImplementsClient, OneConnection, PTL

(* ... a client that is connecting or connected is registered, alive, and  *)
(* has its threads and handles (client.c:886, 999).                        *)
THEOREM LoopKeepsWhole == LoopSpec => [](connects <= 1 => WholeWhileWorking)
BY LoopImplementsClient, OneConnection, PTL

(* ... and when OnDisconnect has returned, it has ended (mumble.c:1008).   *)
THEOREM LoopEndsComplete == LoopSpec => [](connects <= 1 => EndIsComplete)
BY LoopImplementsClient, OneConnection, PTL

-----------------------------------------------------------------------------
(* The dispatch of hooks, with a client that comes and goes; when no       *)
(* function that client:call calls returns a value (mumble.c:1143).        *)

(* The hooks under way are hooks, OnEvent only the outermost of them.      *)
Nest(s) ==
    /\ s \in Seq(HookNames)
    /\ \A k \in DOMAIN s : s[k] = "OnEvent" => k = 1

HooksNest == Nest(stack) /\ self \in BOOLEAN

(* Where a frame's part of Lua's stack stands: between two turns of the    *)
(* loop, where lua_next finds its key, or in a function.                   *)
Values == {"arg", "table", "key", "value", "copy", "traceback"}
AtTurn(s) == Len(s) = 3 /\ s[2] = "table" /\ s[3] = "key"
InCall(s) == Len(s) = 6 /\ s[2] = "table" /\ s[3] = "key" /\ s[6] = "traceback"

Frames ==
    [stack : Seq(Values), results : BOOLEAN, seen : SUBSET Keys,
     start : SUBSET Keys, gone : SUBSET Keys, added : BOOLEAN]

(* What was there when it began, and was not removed, is in the table yet. *)
Keeps(frame, keys) == ~frame.added => frame.start \ frame.gone \subseteq keys

DispatchOK ==
    /\ table \subseteq Keys /\ broken \in {"no", "error"}
    /\ frames \in Seq(Frames) /\ Len(frames) <= MaxDepth
    /\ \A i \in DOMAIN frames : Keeps(frames[i], table)
    /\ broken = "no" =>
        \A i \in DOMAIN frames : AtTurn(frames[i].stack) \/ InCall(frames[i].stack)

(* There are dispatches in the hook OnEvent alone.                         *)
InHookOnly == frames # <<>> => stack # <<>> /\ stack[1] = "OnEvent"

(* What a step may do to the dispatches, as HookDispatch says.             *)
DispatchStep ==
    /\ Len(frames') < Len(frames) /\ ~Hooks!Top.added =>
        Hooks!Top.start \ Hooks!Top.gone \subseteq Hooks!Top.seen
    /\ \A i \in DOMAIN frames \cap DOMAIN frames' :
        frames'[i].seen \ frames[i].seen \subseteq table
    /\ broken' # "found"

(* The stack at a turn of mumble_hook_call, as it calls a function,        *)
LEMMA TurnFacts ==
    ASSUME NEW s \in Seq(Values), AtTurn(s)
    PROVE  /\ Hooks!Last(s) = "key" /\ Hooks!Last(Hooks!lua_pop(s, 1)) = "table"
           /\ LET t == s \o <<"value", "copy", "traceback">>
              IN  t \in Seq(Values) /\ InCall(t)
<1>1. Len(s) = 3 /\ s[2] = "table" /\ s[3] = "key" /\ (\A i \in 1 .. 2 : s[i] \in Values)
  BY ElementOfSeq DEF AtTurn
<1>2. Hooks!Last(s) = "key"
  BY <1>1 DEF Hooks!Last
<1>3. Len(SubSeq(s, 1, 2)) = 2 /\ SubSeq(s, 1, 2)[2] = s[2]
  BY <1>1, SubSeqProperties
<1>4. Hooks!Last(Hooks!lua_pop(s, 1)) = "table"
  BY <1>1, <1>3 DEF Hooks!Last, Hooks!lua_pop
<1> DEFINE more == <<"value", "copy", "traceback">>
<1>5. more \in Seq(Values) /\ Len(more) = 3 /\ more[3] = "traceback"
  BY DEF Values
<1> HIDE DEF more
<1>6. s \o more \in Seq(Values) /\ InCall(s \o more)
  <2>1. /\ s \o more \in Seq(Values) /\ Len(s \o more) = Len(s) + Len(more)
        /\ \A i \in 1 .. Len(s) + Len(more) :
              (s \o more)[i] = IF i <= Len(s) THEN s[i] ELSE more[i - Len(s)]
    BY <1>5, ConcatProperties
  <2>2. (s \o more)[2] = s[2] /\ (s \o more)[3] = s[3] /\ (s \o more)[6] = more[3]
    BY <1>1, <1>5, <2>1
  <2> QED
    BY <1>1, <1>5, <2>1, <2>2 DEF InCall
<1> QED
  BY <1>2, <1>4, <1>6 DEF more

(* ... and as the function returns.                                        *)
LEMMA CallFacts ==
    ASSUME NEW s \in Seq(Values), InCall(s)
    PROVE  /\ Hooks!Last(s) = "traceback"
           /\ Hooks!lua_pop(s, 1) \in Seq(Values)
           /\ Hooks!TurnEnds(Hooks!lua_pop(s, 1)) \in Seq(Values)
           /\ AtTurn(Hooks!TurnEnds(Hooks!lua_pop(s, 1)))
<1>1. /\ Len(s) = 6 /\ s[2] = "table" /\ s[3] = "key" /\ s[6] = "traceback"
      /\ \A i \in 1 .. 5 : s[i] \in Values
  <2>1. Len(s) = 6
    BY DEF InCall
  <2>2. \A i \in 1 .. 5 : s[i] \in Values
    <3>1. s \in [1 .. 6 -> Values]
      BY <2>1, LenProperties
    <3> QED
      BY <3>1
  <2> QED
    BY <2>1, <2>2 DEF InCall
<1> DEFINE t == SubSeq(s, 1, 5)
<1>2. t \in Seq(Values) /\ Len(t) = 5 /\ \A i \in 1 .. 5 : t[i] = s[i]
  BY <1>1, SubSeqProperties
<1>3. Hooks!lua_pop(s, 1) = t
  BY <1>1 DEF Hooks!lua_pop
<1> HIDE DEF t
<1> DEFINE u == SubSeq(t, 1, 3)
<1>4. \A i \in 1 .. 3 : t[i] \in Values
  BY <1>1, <1>2
<1>5. u \in Seq(Values) /\ Len(u) = 3 /\ \A i \in 1 .. 3 : u[i] = t[i]
  BY <1>4, SubSeqProperties
<1>6. Hooks!TurnEnds(t) = u
  BY <1>2 DEF Hooks!TurnEnds, Hooks!lua_pop
<1> HIDE DEF u
<1>7. AtTurn(u)
  BY <1>1, <1>2, <1>5 DEF AtTurn
<1> QED
  BY <1>1, <1>2, <1>3, <1>5, <1>6, <1>7 DEF Hooks!Last

(* A dispatch begins, upon those under way.                                *)
LEMMA BeginsIsGood ==
    ASSUME DispatchOK, broken = "no", NEW results \in BOOLEAN,
           Len(frames) < MaxDepth, Hooks!Begins(results),
           table' = table, broken' = broken
    PROVE  DispatchOK' /\ DispatchStep
<1>1. /\ frames \in Seq(Frames) /\ Len(frames) \in Nat /\ DOMAIN frames = 1 .. Len(frames)
  BY LenProperties DEF DispatchOK
<1>2. CASE self
  <2> DEFINE f == Hooks!Frame(results)
  <2>1. /\ f \in Frames /\ Keeps(f, table) /\ AtTurn(f.stack)
    <3>1. <<"arg", "table", "key">> \in Seq(Values) /\ AtTurn(<<"arg", "table", "key">>)
      BY DEF Values, AtTurn
    <3> QED
      BY <3>1 DEF Hooks!Frame, Frames, Keeps, DispatchOK
  <2>2. frames' = Append(frames, f)
    BY <1>2 DEF Hooks!Begins
  <2> HIDE DEF f
  <2>3. /\ frames' \in Seq(Frames) /\ Len(frames') = Len(frames) + 1
        /\ DOMAIN frames' = 1 .. Len(frames) + 1
        /\ \A i \in 1 .. Len(frames) : frames'[i] = frames[i]
        /\ frames'[Len(frames) + 1] = f
    BY <1>1, <2>1, <2>2, AppendProperties, LenProperties
  <2>4. DispatchOK'
    <3>1. \A i \in DOMAIN frames' : Keeps(frames'[i], table)
      BY <1>1, <2>1, <2>3 DEF DispatchOK
    <3>2. \A i \in DOMAIN frames' : AtTurn(frames'[i].stack) \/ InCall(frames'[i].stack)
      BY <1>1, <2>1, <2>3 DEF DispatchOK
    <3>3. Len(frames') <= MaxDepth
      BY <1>1, <2>3, DepthAssumption
    <3> QED
      BY <2>3, <3>1, <3>2, <3>3 DEF DispatchOK
  <2> QED
    BY <1>1, <2>3, <2>4 DEF DispatchStep
<1>3. CASE ~self
  BY <1>3 DEF Hooks!Begins, DispatchOK, DispatchStep
<1> QED
  BY <1>2, <1>3

(* The innermost dispatch goes on, and keeps what it began with.           *)
LEMMA TopIsGood ==
    ASSUME DispatchOK, broken = "no", frames # <<>>, NEW f \in Frames,
           Hooks!SetTop(f), table' = table, broken' \in {"no", "error"},
           broken' = "no" => AtTurn(f.stack) \/ InCall(f.stack),
           f.start = Hooks!Top.start, f.gone = Hooks!Top.gone,
           f.added = Hooks!Top.added, f.seen \ Hooks!Top.seen \subseteq table
    PROVE  DispatchOK' /\ DispatchStep
<1> DEFINE n == Len(frames)
<1>1. /\ frames \in Seq(Frames) /\ n \in Nat \ {0} /\ DOMAIN frames = 1 .. n
  BY LenProperties, EmptySeq DEF DispatchOK
<1>2. frames' = [frames EXCEPT ![n] = f]
  BY DEF Hooks!SetTop
<1> HIDE DEF n
<1>3. n = Len(frames) /\ Hooks!Top = frames[n]
  BY DEF n, Hooks!Top
<1>4. /\ frames' \in Seq(Frames) /\ Len(frames') = n /\ DOMAIN frames' = 1 .. n
      /\ \A i \in 1 .. n : frames'[i] = IF i = n THEN f ELSE frames[i]
  BY <1>1, <1>2, <1>3, ExceptSeq, LenProperties
<1>5. Keeps(f, table)
  BY <1>1, <1>3 DEF DispatchOK, Keeps
<1>6. DispatchOK'
  BY <1>1, <1>3, <1>4, <1>5 DEF DispatchOK
<1>7. DispatchStep
  <2>1. ASSUME NEW i \in DOMAIN frames
        PROVE  frames'[i].seen \ frames[i].seen \subseteq table
    <3>1. frames'[i] = frames[i] \/ (i = n /\ frames'[i] = f)
      BY <1>1, <1>4
    <3> QED
      BY <1>3, <3>1
  <2>2. Len(frames') = Len(frames) /\ Len(frames) \in Nat
    BY <1>1, <1>3, <1>4
  <2> QED
    BY <2>1, <2>2 DEF DispatchStep
<1> QED
  BY <1>6, <1>7

(* One turn of the loop: a key of the table is met, and lua_next finds the *)
(* one it goes on from.                                                    *)
LEMMA TurnIsGood ==
    ASSUME DispatchOK, broken = "no", Hooks!Turn
    PROVE  DispatchOK' /\ DispatchStep
<1> DEFINE top == Hooks!Top
<1>1. frames # <<>> /\ top \in Frames /\ AtTurn(top.stack)
  <2>1. frames # <<>> /\ Len(frames) \in DOMAIN frames
    <3>1. frames # <<>> /\ frames \in Seq(Frames)
      BY DEF Hooks!Turn, Hooks!Idle, DispatchOK
    <3> QED
      BY <3>1, LenProperties, EmptySeq
  <2>2. top \in Frames /\ (AtTurn(top.stack) \/ InCall(top.stack))
    BY <2>1, ElementOfSeq, LenProperties DEF DispatchOK, Hooks!Top
  <2>3. Hooks!Last(top.stack) # "traceback"
    BY DEF Hooks!Turn, Hooks!Runs, Hooks!InFunction
  <2>4. top.stack \in Seq(Values)
    BY <2>2 DEF Frames
  <2> HIDE DEF top
  <2> QED
    BY <2>1, <2>2, <2>3, <2>4, CallFacts
<1>2. top.stack \in Seq(Values)
  BY <1>1 DEF Frames
<1>3. Hooks!AtNext(top)
  <2> HIDE DEF top
  <2> QED
    BY <1>1, <1>2, TurnFacts DEF Hooks!AtNext
<1> DEFINE more == top.stack \o <<"value", "copy", "traceback">>
<1>4. PICK k \in Hooks!Upcoming :
        /\ Hooks!SetTop([top EXCEPT !.stack = more, !.seen = @ \cup {k}])
        /\ broken' = broken
  BY <1>3 DEF Hooks!Turn
<1>5. k \in table /\ table' = table
  BY DEF Hooks!Upcoming, Hooks!Turn
<1>6. more \in Seq(Values) /\ InCall(more)
  <2> HIDE DEF top
  <2> QED
    BY <1>1, <1>2, TurnFacts
<1> DEFINE f == [top EXCEPT !.stack = more, !.seen = @ \cup {k}]
<1>7. /\ f \in Frames /\ f.stack = more /\ f.seen = top.seen \cup {k}
      /\ f.start = top.start /\ f.gone = top.gone /\ f.added = top.added
  <2> HIDE DEF top, more
  <2> QED
    BY <1>1, <1>5, <1>6 DEF Frames, DispatchOK
<1>8. Hooks!SetTop(f)
  BY <1>4
<1> HIDE DEF f, more
<1> QED
  BY <1>1, <1>4, <1>5, <1>6, <1>7, <1>8, TopIsGood

(* There is no key left: what stayed in the table has been met.            *)
LEMMA EndsIsGood ==
    ASSUME DispatchOK, broken = "no", Hooks!Ends
    PROVE  DispatchOK' /\ DispatchStep
<1> DEFINE n == Len(frames)
<1>1. /\ frames \in Seq(Frames) /\ n \in Nat \ {0} /\ DOMAIN frames = 1 .. n
  BY LenProperties, EmptySeq DEF Hooks!Ends, Hooks!Idle, DispatchOK
<1>2. frames' = SubSeq(frames, 1, n - 1) /\ table' = table /\ broken' = broken
  BY DEF Hooks!Ends, Hooks!Front
<1>3. n = Len(frames) /\ Hooks!Top = frames[n]
  BY DEF Hooks!Top
<1>4. Hooks!Upcoming = {} \/ Hooks!Top.added
  BY DEF Hooks!Ends
<1> HIDE DEF n
<1>5. \A i \in 1 .. n - 1 : frames[i] \in Frames
  BY <1>1, <1>3, ElementOfSeq
<1>6. /\ frames' \in Seq(Frames) /\ Len(frames') = n - 1 /\ DOMAIN frames' = 1 .. n - 1
      /\ \A i \in 1 .. n - 1 : frames'[i] = frames[i]
  BY <1>1, <1>2, <1>5, SubSeqProperties, LenProperties
<1>7. DispatchOK'
  <2>1. Len(frames') <= MaxDepth
    BY <1>1, <1>3, <1>6, DepthAssumption DEF DispatchOK
  <2>2. ASSUME NEW i \in DOMAIN frames'
        PROVE  i \in DOMAIN frames /\ frames'[i] = frames[i]
    BY <1>1, <1>6
  <2> QED
    BY <1>2, <1>6, <2>1, <2>2 DEF DispatchOK
<1>8. ~Hooks!Top.added => Hooks!Top.start \ Hooks!Top.gone \subseteq Hooks!Top.seen
  BY <1>1, <1>3, <1>4 DEF Hooks!Upcoming, DispatchOK, Keeps
<1>9. DispatchStep
  BY <1>1, <1>2, <1>3, <1>6, <1>8 DEF DispatchStep
<1> QED
  BY <1>7, <1>9

(* A function returns, or raises an error.                                 *)
LEMMA ReturnsIsGood ==
    ASSUME DispatchOK, broken = "no", CallGives = FALSE,
           Hooks!Raises \/ \E gives \in BOOLEAN : Hooks!Returns(gives)
    PROVE  DispatchOK' /\ DispatchStep
<1> DEFINE top == Hooks!Top
<1>1. Hooks!Runs
  BY DEF Hooks!Raises, Hooks!Returns
<1>2. frames # <<>> /\ top \in Frames /\ InCall(top.stack)
  <2>1. frames # <<>> /\ Len(frames) \in DOMAIN frames
    BY <1>1, LenProperties, EmptySeq DEF Hooks!Runs, Hooks!Idle, DispatchOK
  <2>2. top \in Frames /\ (AtTurn(top.stack) \/ InCall(top.stack))
    BY <2>1, ElementOfSeq, LenProperties DEF DispatchOK, Hooks!Top
  <2>3. Hooks!Last(top.stack) = "traceback"
    BY <1>1 DEF Hooks!Runs, Hooks!InFunction
  <2>4. top.stack \in Seq(Values)
    BY <2>2 DEF Frames
  <2> HIDE DEF top
  <2> QED
    BY <2>1, <2>2, <2>3, <2>4, TurnFacts
<1>3. top.stack \in Seq(Values)
  BY <1>2 DEF Frames
<1> DEFINE left == Hooks!lua_pop(top.stack, 1)
<1>4. left \in Seq(Values) /\ Hooks!TurnEnds(left) \in Seq(Values) /\ AtTurn(Hooks!TurnEnds(left))
  <2> HIDE DEF top
  <2> QED
    BY <1>2, <1>3, CallFacts
<1>5. CASE Hooks!Raises
  <2> DEFINE f == [top EXCEPT !.stack = left]
  <2>1. Hooks!SetTop(f) /\ broken' = "error" /\ table' = table
    BY <1>5 DEF Hooks!Raises
  <2>2. /\ f \in Frames /\ f.seen = top.seen
        /\ f.start = top.start /\ f.gone = top.gone /\ f.added = top.added
    <3> HIDE DEF top, left
    <3> QED
      BY <1>2, <1>4 DEF Frames
  <2> HIDE DEF f
  <2> QED
    BY <1>2, <2>1, <2>2, TopIsGood
<1>6. ASSUME NEW gives \in BOOLEAN, Hooks!Returns(gives)
      PROVE  DispatchOK' /\ DispatchStep
  <2>1. ~(top.results /\ gives)
    BY <1>6 DEF Hooks!Returns
  <2> DEFINE ends == Hooks!TurnEnds(left \o <<>>)
             f == [top EXCEPT !.stack = ends]
  <2>2. Hooks!SetTop(f) /\ broken' = broken /\ table' = table
    <3>1. (IF top.results /\ gives THEN <<"result">> ELSE <<>>) = <<>>
      BY <2>1
    <3> QED
      BY <1>6, <3>1 DEF Hooks!Returns
  <2>3. ends \in Seq(Values) /\ AtTurn(ends)
    <3> HIDE DEF left
    <3> QED
      BY <1>4, ConcatEmptySeq
  <2>4. /\ f \in Frames /\ f.stack = ends /\ f.seen = top.seen
        /\ f.start = top.start /\ f.gone = top.gone /\ f.added = top.added
    <3> HIDE DEF top, ends
    <3> QED
      BY <1>2, <2>3 DEF Frames
  <2> HIDE DEF f, ends
  <2> QED
    BY <1>2, <2>2, <2>3, <2>4, TopIsGood
<1> QED
  BY <1>5, <1>6

(* client_hook and client_unhook (client.c:502, 536), which the dispatches *)
(* under way are not told of.                                              *)
LEMMA HookIsGood ==
    ASSUME DispatchOK, broken = "no", NEW k \in Keys, Hooks!Hook(k) \/ Hooks!Unhook(k)
    PROVE  DispatchOK' /\ DispatchStep
<1>1. /\ frames \in Seq(Frames) /\ Len(frames) \in Nat /\ DOMAIN frames = 1 .. Len(frames)
      /\ \A i \in DOMAIN frames : frames[i] \in Frames
  BY LenProperties, ElementOfSeq DEF DispatchOK
<1>2. broken' = broken
  BY DEF Hooks!Hook, Hooks!Unhook
<1>3. ASSUME table' \subseteq Keys, frames' \in [DOMAIN frames -> Frames],
             \A i \in DOMAIN frames : /\ frames'[i].stack = frames[i].stack
                                      /\ frames'[i].seen = frames[i].seen
                                      /\ Keeps(frames'[i], table')
      PROVE  DispatchOK' /\ DispatchStep
  <2>1. frames' \in Seq(Frames) /\ Len(frames') = Len(frames) /\ DOMAIN frames' = DOMAIN frames
    <3>1. frames' \in [1 .. Len(frames) -> Frames]
      BY <1>1, <1>3
    <3>2. frames' \in Seq(Frames)
      BY <1>1, <3>1, SeqDef
    <3>3. DOMAIN frames' = 1 .. Len(frames) /\ DOMAIN frames' = 1 .. Len(frames')
      BY <3>1, <3>2, LenProperties
    <3>4. Len(frames') \in Nat
      BY <3>2, LenProperties
    <3> QED
      BY <1>1, <3>2, <3>3, <3>4
  <2>2. DispatchOK'
    BY <1>2, <1>3, <2>1 DEF DispatchOK
  <2>3. DispatchStep
    BY <1>1, <1>2, <1>3, <2>1 DEF DispatchStep
  <2> QED
    BY <2>2, <2>3
<1>4. CASE Hooks!Hook(k)
  <2>1. table' = table \cup {k}
    BY <1>4 DEF Hooks!Hook
  <2>2. frames' = [i \in DOMAIN frames |-> [frames[i] EXCEPT !.added = @ \/ k \notin table]]
    BY <1>4 DEF Hooks!Hook
  <2>3. ASSUME NEW i \in DOMAIN frames
        PROVE  /\ frames'[i] \in Frames
               /\ frames'[i].stack = frames[i].stack /\ frames'[i].seen = frames[i].seen
               /\ Keeps(frames'[i], table')
    <3>1. frames'[i] = [frames[i] EXCEPT !.added = @ \/ k \notin table]
      BY <2>2
    <3>2. frames[i] \in Frames /\ Keeps(frames[i], table)
      BY <1>1 DEF DispatchOK
    <3>3. /\ frames'[i] \in Frames
          /\ frames'[i].stack = frames[i].stack /\ frames'[i].seen = frames[i].seen
          /\ frames'[i].start = frames[i].start /\ frames'[i].gone = frames[i].gone
          /\ ~frames'[i].added => ~frames[i].added
      BY <3>1, <3>2 DEF Frames
    <3> QED
      BY <2>1, <3>2, <3>3 DEF Keeps
  <2>4. frames' \in [DOMAIN frames -> Frames]
    BY <2>2, <2>3
  <2> QED
    BY <1>3, <2>1, <2>3, <2>4 DEF DispatchOK
<1>5. CASE Hooks!Unhook(k)
  <2>1. table' = table \ {k}
    BY <1>5 DEF Hooks!Unhook
  <2>2. frames' = [i \in DOMAIN frames |-> [frames[i] EXCEPT !.gone = @ \cup {k}]]
    BY <1>5 DEF Hooks!Unhook
  <2>3. ASSUME NEW i \in DOMAIN frames
        PROVE  /\ frames'[i] \in Frames
               /\ frames'[i].stack = frames[i].stack /\ frames'[i].seen = frames[i].seen
               /\ Keeps(frames'[i], table')
    <3>1. frames'[i] = [frames[i] EXCEPT !.gone = @ \cup {k}]
      BY <2>2
    <3>2. frames[i] \in Frames /\ Keeps(frames[i], table)
      BY <1>1 DEF DispatchOK
    <3>3. /\ frames'[i] \in Frames
          /\ frames'[i].stack = frames[i].stack /\ frames'[i].seen = frames[i].seen
          /\ frames'[i].start = frames[i].start /\ frames'[i].gone = frames[i].gone \cup {k}
          /\ frames'[i].added = frames[i].added
      BY <3>1, <3>2 DEF Frames
    <3> QED
      BY <2>1, <3>2, <3>3 DEF Keeps
  <2>4. frames' \in [DOMAIN frames -> Frames]
    BY <2>2, <2>3
  <2> QED
    BY <1>3, <2>1, <2>3, <2>4 DEF DispatchOK
<1> QED
  BY <1>4, <1>5

(* The stack of hooks grows by OnDisconnect, or by a handler's hook from   *)
(* the loop, and shrinks by the innermost one.                             *)
LEMMA NestFacts ==
    ASSUME NEW s, Nest(s)
    PROVE  /\ LET t == Append(s, "OnDisconnect")
              IN  Nest(t) /\ t # <<>> /\ (s # <<>> => t[1] = s[1])
           /\ \A h \in HookNames :
                LET t == Append(<<>>, h) IN Nest(t) /\ t # <<>> /\ t[1] = h
           /\ s # <<>> =>
                LET t == SubSeq(s, 1, Len(s) - 1)
                IN  /\ Nest(t)
                    /\ t # <<>> => t[1] = s[1]
                    /\ t = <<>> => s[Len(s)] = s[1]
                    /\ s[Len(s)] = "OnEvent" => t = <<>> /\ s[1] = "OnEvent"
<1>1. /\ s \in Seq(HookNames) /\ Len(s) \in Nat /\ DOMAIN s = 1 .. Len(s)
      /\ \A k \in 1 .. Len(s) : s[k] \in HookNames /\ (s[k] = "OnEvent" => k = 1)
      /\ s # <<>> => Len(s) >= 1
  BY LenProperties, ElementOfSeq, EmptySeq DEF Nest
<1> DEFINE t == Append(s, "OnDisconnect")
<1>2. /\ t \in Seq(HookNames) /\ t # <<>> /\ DOMAIN t = 1 .. Len(s) + 1
      /\ \A k \in 1 .. Len(s) : t[k] = s[k]
      /\ t[Len(s) + 1] = "OnDisconnect"
  BY <1>1, AppendProperties, LenProperties DEF HookNames
<1> HIDE DEF t
<1>3. Nest(t) /\ (s # <<>> => t[1] = s[1])
  BY <1>1, <1>2 DEF Nest
<1>4. ASSUME NEW h \in HookNames
      PROVE  LET u == Append(<<>>, h) IN Nest(u) /\ u # <<>> /\ u[1] = h
  BY DEF Nest
<1>5. ASSUME s # <<>>
      PROVE  LET u == SubSeq(s, 1, Len(s) - 1)
             IN  /\ Nest(u)
                 /\ u # <<>> => u[1] = s[1]
                 /\ u = <<>> => s[Len(s)] = s[1]
                 /\ s[Len(s)] = "OnEvent" => u = <<>> /\ s[1] = "OnEvent"
  <2> DEFINE n == Len(s) - 1
             u == SubSeq(s, 1, n)
  <2>1. n \in Nat
    BY <1>1, <1>5
  <2>2. \A k \in 1 .. n : s[k] \in HookNames
    BY <1>1
  <2>3. /\ u \in Seq(HookNames) /\ Len(u) = n /\ DOMAIN u = 1 .. n
        /\ \A k \in 1 .. n : u[k] = s[k]
    <3> HIDE DEF n
    <3> QED
      BY <2>1, <2>2, SubSeqProperties, LenProperties
  <2> HIDE DEF u
  <2>4. Nest(u)
    BY <1>1, <2>1, <2>3 DEF Nest
  <2>5. n >= 1 \/ n = 0
    BY <1>1, <2>1
  <2>6. n = 0 => u = <<>> /\ Len(s) = 1
    BY <1>1, <2>3, EmptySeq
  <2>7. n >= 1 => u # <<>> /\ u[1] = s[1] /\ s[Len(s)] # "OnEvent"
    BY <1>1, <2>1, <2>3, EmptySeq
  <2> QED
    BY <2>4, <2>5, <2>6, <2>7 DEF u
<1> QED
  BY <1>2, <1>3, <1>4, <1>5 DEF t

(* The same, of the stack.                                                 *)
LEMMA TopFacts ==
    ASSUME HooksNest, Top \in HookNames
    PROVE  /\ stack # <<>> /\ Nest(Pop)
           /\ Pop # <<>> => Pop[1] = stack[1]
           /\ Pop = <<>> => Top = stack[1]
           /\ Top = "OnEvent" => Pop = <<>> /\ stack[1] = "OnEvent"
<1>1. stack # <<>>
  BY DEF Top, HookNames
<1> QED
  BY <1>1, NestFacts DEF HooksNest, Top, Pop

(* mumble_disconnect calls at most one hook more.                          *)
LEMMA DisconnectNests ==
    ASSUME HooksNest, Disconnect \/ Disconnected
    PROVE  self' \in BOOLEAN /\ stack' \in {stack, Append(stack, "OnDisconnect")}
<1>1. CASE Disconnect
  BY <1>1 DEF HooksNest, Disconnect, Called, Cleanup
<1>2. CASE Disconnected /\ ~Disconnect
  BY <1>2 DEF HooksNest, Disconnected, flags
<1> QED
  BY <1>1, <1>2

(* What the calls of the script and the collector do to the stack.         *)
LEMMA ScriptNests ==
    ASSUME HooksNest, Script \/ Collect \/ FreeMemory \/ Reached
    PROVE  HooksNest' /\ (stack # <<>> => stack' # <<>> /\ stack'[1] = stack[1])
<1>1. self' \in BOOLEAN /\ stack' \in {stack, Append(stack, "OnDisconnect")}
  <2>1. CASE Connect \/ ConnectFails \/ Forget \/ Stop
    BY <2>1 DEF HooksNest, Connect, Registered, ConnectFails, Forget, Stop, flags
  <2>2. CASE ScriptDisconnects
    BY <2>2, DisconnectNests DEF ScriptDisconnects
  <2>3. CASE Collect \/ FreeMemory \/ Reached
    BY <2>3 DEF HooksNest, Collect, Cleanup, FreeMemory, Reached, flags
  <2> QED
    BY <2>1, <2>2, <2>3 DEF Script
<1>2. LET t == Append(stack, "OnDisconnect")
      IN  Nest(t) /\ t # <<>> /\ (stack # <<>> => t[1] = stack[1])
  BY NestFacts DEF HooksNest
<1>3. stack' = stack \/ stack' = Append(stack, "OnDisconnect")
  BY <1>1
<1> QED
  BY <1>1, <1>2, <1>3 DEF HooksNest

(* A handler begins in the loop.                                           *)
LEMMA HandlerNests ==
    ASSUME HooksNest, HandlerBegins
    PROVE  HooksNest' /\ stack = <<>>
<1>1. stack = <<>>
  BY DEF HandlerBegins, Loop, TcpConnected, TcpFails, Handshake, HandshakeFails,
         SocketFails, Event, Closed
<1>2. /\ self' \in BOOLEAN
      /\ stack' = stack \/ stack' = Append(stack, "OnDisconnect")
         \/ stack' = Append(<<>>, "OnConnect") \/ stack' = Append(<<>>, "OnEvent")
  <2>1. CASE TcpConnected \/ HandshakeFails \/ \E h \in Handles : Closed(h)
    BY <2>1 DEF HooksNest, TcpConnected, HandshakeFails, Closed, Cleanup, flags
  <2>2. CASE TcpFails \/ SocketFails
    BY <2>2, DisconnectNests DEF TcpFails, SocketFails
  <2>3. CASE Handshake
    BY <1>1, <2>3 DEF HooksNest, Handshake, Called
  <2>4. CASE \E h \in Handles, syncs \in BOOLEAN : Event(h, syncs)
    BY <1>1, <2>4 DEF HooksNest, Event, Called, flags
  <2> QED
    BY <2>1, <2>2, <2>3, <2>4 DEF HandlerBegins
<1> QED
  BY <1>1, <1>2, NestFacts DEF HooksNest, HookNames

-----------------------------------------------------------------------------
HookInv == HooksNest /\ DispatchOK /\ InHookOnly

(* Before the first call nothing is dispatched.                            *)
LEMMA HookInitIsGood == LoopInit => HookInv
<1> SUFFICES ASSUME LoopInit PROVE HookInv
  OBVIOUS
<1>1. stack = <<>> /\ self = FALSE /\ frames = <<>> /\ broken = "no" /\ table \subseteq Keys
  BY DEF LoopInit, Init, Hooks!NoDispatch
<1>2. HooksNest
  <2>1. Nest(<<>>)
    BY DEF Nest
  <2> QED
    BY <1>1, <2>1 DEF HooksNest
<1>3. DispatchOK
  <2>1. frames \in Seq(Frames) /\ Len(frames) = 0 /\ DOMAIN frames = {}
    BY <1>1
  <2> QED
    BY <1>1, <2>1, DepthAssumption DEF DispatchOK
<1> QED
  BY <1>1, <1>2, <1>3 DEF HookInv, InHookOnly

(* What leaves table, frames and the part of Lua's stack alone.            *)
LEMMA NoDispatchIsGood ==
    ASSUME DispatchOK, table' = table, frames' = frames, broken' = broken
    PROVE  DispatchOK' /\ DispatchStep
BY DEF DispatchOK, DispatchStep

(* A dispatch in the hook OnEvent, and no other under way.                 *)
LEMMA FirstBegins ==
    ASSUME DispatchOK, broken = "no", frames = <<>>, Hooks!Begins(FALSE),
           table' = table, broken' = broken
    PROVE  DispatchOK' /\ DispatchStep
<1>1. Len(frames) < MaxDepth
  BY DepthAssumption
<1> QED
  BY <1>1, BeginsIsGood

(* A handler of the client runs, and calls a hook or not.                  *)
LEMMA ClientRunsIsGood ==
    ASSUME HookInv, broken = "no", ClientRuns
    PROVE  HookInv' /\ DispatchStep
<1>1. table' = table /\ broken' = broken
  BY DEF ClientRuns
<1>2. CASE HandlerBegins /\ Dispatches
  <2>1. HooksNest' /\ stack = <<>> /\ frames = <<>>
    BY <1>2, HandlerNests DEF HookInv, InHookOnly
  <2>2. CASE \E k \in DOMAIN stack' : k > Len(stack) /\ stack'[k] = "OnEvent"
    <3>1. Hooks!Begins(FALSE)
      BY <1>2, <2>2 DEF Dispatches
    <3>2. DispatchOK' /\ DispatchStep
      BY <1>1, <2>1, <3>1, FirstBegins DEF HookInv
    <3>3. stack' # <<>> /\ stack'[1] = "OnEvent"
      BY <2>1, <2>2 DEF HooksNest, Nest
    <3> QED
      BY <2>1, <3>2, <3>3 DEF HookInv, InHookOnly
  <2>3. CASE ~(\E k \in DOMAIN stack' : k > Len(stack) /\ stack'[k] = "OnEvent")
    <3>1. frames' = frames
      BY <1>2, <2>3 DEF Dispatches
    <3> QED
      BY <1>1, <2>1, <3>1, NoDispatchIsGood DEF HookInv, InHookOnly
  <2> QED
    BY <2>2, <2>3
<1>3. CASE HandlerGoesOn /\ UNCHANGED frames
  <2>1. stack' = Pop /\ self' \in BOOLEAN /\ Top \in HookNames
    BY <1>3 DEF HandlerGoesOn, ConnectReturn, DisconnectReturn, EventContinues, flags,
           Cleanup, HookNames, HookInv, HooksNest
  <2>2. Nest(Pop) /\ (Pop # <<>> => Pop[1] = stack[1]) /\ (Pop = <<>> => Top = stack[1])
    BY <2>1, TopFacts DEF HookInv
  <2>3. frames # <<>> => Top # "OnEvent"
    BY <1>3 DEF HandlerGoesOn, ConnectReturn, DisconnectReturn, Hooks!Idle
  <2>4. InHookOnly'
    BY <1>3, <2>1, <2>2, <2>3 DEF HookInv, InHookOnly
  <2> QED
    BY <1>1, <1>3, <2>1, <2>2, <2>4, NoDispatchIsGood DEF HookInv, HooksNest
<1> QED
  BY <1>2, <1>3 DEF ClientRuns

(* A handler that calls its second hook begins a new dispatch.             *)
LEMMA CallsAgainIsGood ==
    ASSUME HookInv, broken = "no", HandlerCallsAgain
    PROVE  HookInv' /\ DispatchStep
<1>1. /\ table' = table /\ broken' = broken /\ frames = <<>>
      /\ Hooks!Begins(FALSE) /\ Top = "OnEvent" /\ Called(Pop, "OnEvent") /\ self' = self
  BY DEF HandlerCallsAgain, EventCallsAgain, Hooks!Idle, flags
<1>2. Pop = <<>>
  BY <1>1, TopFacts DEF HookInv, HookNames
<1>3. DispatchOK' /\ DispatchStep
  BY <1>1, FirstBegins DEF HookInv
<1>4. Nest(<<>>)
  BY DEF Nest
<1>5. HooksNest' /\ InHookOnly'
  <2>1. CASE self
    <3>1. stack' = Append(<<>>, "OnEvent")
      BY <1>1, <1>2, <2>1 DEF Called
    <3> QED
      BY <1>1, <1>4, <3>1, NestFacts DEF HookInv, HooksNest, InHookOnly, HookNames
  <2>2. CASE ~self
    <3>1. stack' = <<>> /\ frames' = <<>>
      BY <1>1, <1>2, <2>2 DEF Called, Hooks!Begins
    <3> QED
      BY <1>1, <1>4, <3>1 DEF HookInv, HooksNest, InHookOnly
  <2> QED
    BY <2>1, <2>2
<1> QED
  BY <1>3, <1>5 DEF HookInv

(* The dispatch goes on, or a function adds and removes functions.         *)
LEMMA HookRunsIsGood ==
    ASSUME HookInv, broken = "no", CallGives = FALSE, HookRuns \/ ScriptHooks
    PROVE  HookInv' /\ DispatchStep
<1>1. stack' = stack /\ self' = self
  BY DEF HookRuns, ScriptHooks, vars, flags
<1>2. HooksNest'
  BY <1>1 DEF HookInv, HooksNest
<1>3. CASE HookRuns
  <2>1. stack # <<>> /\ stack[1] = "OnEvent"
    BY <1>3, TopFacts DEF HookRuns, HookInv, HookNames
  <2>2. CASE Hooks!Call
    <3>1. Len(frames) < MaxDepth /\ Hooks!Begins(TRUE) /\ table' = table /\ broken' = broken
      BY <2>2 DEF Hooks!Call
    <3>2. DispatchOK' /\ DispatchStep
      BY <3>1, BeginsIsGood DEF HookInv
    <3> QED
      BY <1>1, <1>2, <2>1, <3>2 DEF HookInv, InHookOnly
  <2>3. CASE Hooks!Turn \/ Hooks!Ends \/ Hooks!Raises \/ \E gives \in BOOLEAN : Hooks!Returns(gives)
    <3>1. DispatchOK' /\ DispatchStep
      BY <2>3, TurnIsGood, EndsIsGood, ReturnsIsGood, Zenon DEF HookInv
    <3> QED
      BY <1>1, <1>2, <2>1, <3>1 DEF HookInv, InHookOnly
  <2> QED
    BY <1>3, <2>2, <2>3, Zenon DEF HookRuns
<1>4. CASE ScriptHooks
  <2>1. PICK k \in Keys : Hooks!Hook(k) \/ Hooks!Unhook(k)
    BY <1>4, Zenon DEF ScriptHooks
  <2>2. DispatchOK' /\ DispatchStep
    BY <2>1, HookIsGood DEF HookInv
  <2>3. frames = <<>> => frames' = <<>>
    <3>1. DOMAIN frames' = DOMAIN frames
      BY <2>1 DEF Hooks!Hook, Hooks!Unhook
    <3>2. frames' \in Seq(Frames) /\ DOMAIN frames' = 1 .. Len(frames') /\ Len(frames') \in Nat
      BY <2>2, LenProperties DEF DispatchOK
    <3>3. frames = <<>> => Len(frames') = 0
      <4>1. frames = <<>> => 1 \notin DOMAIN frames
        OBVIOUS
      <4> QED
        BY <3>1, <3>2, <4>1
    <3> QED
      BY <3>2, <3>3, EmptySeq
  <2> QED
    BY <1>1, <1>2, <2>2, <2>3 DEF HookInv, InHookOnly
<1> QED
  BY <1>3, <1>4

(* The rest of the loop, which begins no dispatch.                         *)
LEMMA OthersDispatchNothing ==
    ASSUME HookInv, table' = table, frames' = frames, broken' = broken,
           \/ ClientAlone \/ StopAll \/ UNCHANGED vars
    PROVE  HookInv' /\ DispatchStep
<1>1. HooksNest' /\ (stack # <<>> => stack' # <<>> /\ stack'[1] = stack[1])
  <2>1. CASE Script \/ Collect \/ FreeMemory \/ Reached
    BY <2>1, ScriptNests DEF HookInv
  <2>2. CASE UNCHANGED vars
    BY <2>2 DEF vars, flags, HookInv, HooksNest
  <2>3. ClientAlone => Script \/ Collect \/ FreeMemory \/ Reached
    BY Zenon DEF ClientAlone, CallsClient, Script
  <2>4. StopAll => Script \/ UNCHANGED vars
    BY Zenon DEF StopAll, Script
  <2> QED
    BY <2>1, <2>2, <2>3, <2>4
<1> QED
  BY <1>1, NoDispatchIsGood DEF HookInv, InHookOnly

(* Every step of the loop: the invariant, and what DispatchMeetsAll says.  *)
LEMMA HookStepIsGood ==
    ASSUME CallGives = FALSE
    PROVE  HookInv /\ [LoopNext]_allVars => HookInv' /\ [DispatchStep]_allVars
<1> SUFFICES ASSUME HookInv, [LoopNext]_allVars PROVE HookInv' /\ DispatchStep
  OBVIOUS
<1>1. CASE LoopNext
  <2>1. broken = "no"
    BY <1>1 DEF LoopNext
  <2>2. CASE ClientRuns \/ HandlerCallsAgain \/ HookRuns \/ ScriptHooks
    BY <2>1, <2>2, ClientRunsIsGood, CallsAgainIsGood, HookRunsIsGood, Zenon
  <2>3. CASE ClientAlone \/ StopAll
    <3>1. UNCHANGED hookVars
      BY <2>3, Zenon DEF ClientAlone, StopAll
    <3> QED
      BY <2>3, <3>1, OthersDispatchNothing DEF hookVars
  <2>4. CASE PipeReturns \/ \E p \in Pipes : PipeRuns(p) \/ PipeAlone(p)
    <3>1. UNCHANGED hookVars /\ UNCHANGED vars
      BY <2>4, Zenon DEF PipeReturns, PipeRuns, PipeAlone
    <3> QED
      BY <3>1, OthersDispatchNothing DEF hookVars
  <2> QED
    BY <1>1, <2>2, <2>3, <2>4, Zenon DEF LoopNext
<1>2. CASE UNCHANGED allVars
  BY <1>2, OthersDispatchNothing DEF allVars, hookVars
<1> QED
  BY <1>1, <1>2

(* Whatever the functions of a hook remove, call and disconnect, and       *)
(* whatever pipes and the client do meanwhile: every function that was     *)
(* registered when the hook was called and stays so is called, none is     *)
(* called that is not registered, and lua_next finds its key where a turn  *)
(* of the loop has left it (mumble.c:1079, 1143, client.c:536); unless a   *)
(* function that client:call calls returns a value.                        *)
THEOREM DispatchMeetsAll ==
    ASSUME CallGives = FALSE
    PROVE  LoopSpec => HookDispatch
<1>1. HookInv => Hooks!TypeOK
  <2> SUFFICES ASSUME HookInv PROVE Hooks!TypeOK
    OBVIOUS
  <2>1. \A i \in DOMAIN frames : frames[i] \in Frames
    BY LenProperties, ElementOfSeq DEF HookInv, DispatchOK
  <2>2. \A i \in DOMAIN frames : frames[i].seen \cup frames[i].start \cup frames[i].gone \subseteq Keys
    BY <2>1 DEF Frames
  <2> QED
    BY <2>2 DEF HookInv, DispatchOK, HooksNest, Hooks!TypeOK
<1>2. HookInv /\ [LoopNext]_allVars => HookInv' /\ [DispatchStep]_allVars
  BY HookStepIsGood
<1>3. LoopSpec => []HookInv /\ [][DispatchStep]_allVars
  BY <1>2, HookInitIsGood, PTL DEF LoopSpec
<1> QED
  BY <1>1, <1>3, PTL DEF HookDispatch, DispatchStep
=============================================================================
