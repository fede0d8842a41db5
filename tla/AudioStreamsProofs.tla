------------------------- MODULE AudioStreamsProofs -------------------------
(***************************************************************************)
(* Theorems about AudioStreams, for any set of streams, any size of the    *)
(* registry and every script.                                              *)
(***************************************************************************)
EXTENDS AudioStreams, ListAndModTheorems

-----------------------------------------------------------------------------
(* The inductive invariant.                                                *)

ReferenceLabels   == {"revive", "retake", "dequeue", "enlist"}
UnreferenceLabels == {"lock", "unlist", "mark", "transfer", "check", "queue"}

(* TypeOK in three parts, except that usecount is only known to be an      *)
(* integer.                                                                *)
StreamsTyped ==
    /\ life \in [Streams -> {"unopened", "live", "freed"}]
    /\ refrence \in [Streams -> Refs \cup {NoRef}]
    /\ reclaim_ref \in [Streams -> Refs \cup {NoRef}]
    /\ reclaimed \in [Streams -> BOOLEAN]
    /\ usecount \in [Streams -> Int]
    /\ playing \in [Streams -> BOOLEAN]
    /\ end \in [Streams -> BOOLEAN]
    /\ held \in [Streams -> BOOLEAN]
    /\ registry \in [Refs -> Streams \cup {None}]
    /\ asked \in [Streams -> {"none", "play", "pause", "stop"}]
    /\ connected \in BOOLEAN
    /\ smutex \in [Streams -> {"free", "main"}]

ListsTyped ==
    /\ stream_list \in Seq([index : Refs, data : Streams])
    /\ reclaim_list \in Seq([index : Refs \cup {NoRef}, data : Streams])

ControlTyped ==
    /\ inner \in {"free", "buffer"}
    /\ mpc \in MainLabels /\ bpc \in BufferLabels
    /\ msnd \in Streams \cup {None} /\ mret \in {"lua", "hook", "unpin"}
    /\ loop \in {"encode", "warn"}
    /\ esnd \in Streams \cup {None} /\ enext \in Streams \cup {None, Dangling}
    /\ bsnd \in Streams \cup {None} /\ bcur \in Streams \cup {None}
    /\ fault \in BOOLEAN

Typed == StreamsTyped /\ ListsTyped /\ ControlTyped

(* A call in progress has a stream to work on and a place to return to.    *)
CallsOK ==
    /\ mpc \in ReferenceLabels \cup UnreferenceLabels => msnd \in Streams
    /\ mpc \in ReferenceLabels => mret # "unpin"
    /\ mpc \notin ReferenceLabels \cup UnreferenceLabels => mret = "lua"
    /\ mpc \in {"read", "hook", "unpin", "unpinQueue"} => esnd \in Streams
    /\ mret \in {"hook", "unpin"} => esnd \in Streams
    /\ mret = "unpin" => esnd = msnd
    /\ bpc \notin {"sleep", "walk"} => bsnd \in Streams

(* The two references of a stream: at most one is held, it is the stream's *)
(* own slot of the registry, and a stream with reclaim_ref is reclaimed    *)
(* until play takes the reference back.                                    *)
RefsOK ==
    \A s \in Streams :
        /\ refrence[s] # NoRef =>
             registry[refrence[s]] = s /\ life[s] = "live" /\ reclaim_ref[s] = NoRef
        /\ reclaim_ref[s] # NoRef => registry[reclaim_ref[s]] = s /\ life[s] = "live"
        /\ reclaim_ref[s] # NoRef /\ ~reclaimed[s] => mpc = "retake" /\ msnd = s

(* A linked stream is referenced by the index of its node and not          *)
(* reclaimed, and no index is linked twice.                                *)
ListOK ==
    /\ \A n \in NodesOf(stream_list) : n.index = refrence[n.data] /\ ~reclaimed[n.data]
    /\ IndexedOnce(stream_list)

(* Where the main thread is in play or stop.                               *)
PhaseOK ==
    /\ mpc \in ReferenceLabels \cup {"mark", "transfer", "check", "queue"} =>
         \A n \in NodesOf(stream_list) : n.data # msnd
    /\ mpc \in ReferenceLabels => life[msnd] = "live"
    /\ mpc \in {"revive", "retake"} => refrence[msnd] = NoRef
    /\ mpc = "retake" => reclaim_ref[msnd] # NoRef
    /\ mpc \in {"retake", "dequeue", "enlist"} => ~reclaimed[msnd]
    /\ mpc = "dequeue" => refrence[msnd] # NoRef
    /\ mpc \in {"transfer", "check", "queue"} => reclaimed[msnd]
    /\ mpc = "queue" => reclaim_ref[msnd] # NoRef

IInv == Typed /\ CallsOK /\ RefsOK /\ ListOK /\ PhaseOK


-----------------------------------------------------------------------------
(* The initial state satisfies the invariant.                              *)
LEMMA InitInv == Init => IInv
<1> SUFFICES ASSUME Init PROVE IInv
  OBVIOUS
<1> USE StreamsAssumption
<1>1. Typed
  <2>1. /\ <<>> \in Seq([index : Refs, data : Streams])
        /\ <<>> \in Seq([index : Refs \cup {NoRef}, data : Streams])
    OBVIOUS
  <2>2. StreamsTyped
    <3>1. connected \in BOOLEAN
      BY DEF Init
    <3>2. /\ life \in [Streams -> {"unopened", "live", "freed"}]
          /\ refrence \in [Streams -> Refs \cup {NoRef}]
          /\ reclaim_ref \in [Streams -> Refs \cup {NoRef}]
          /\ reclaimed \in [Streams -> BOOLEAN]
          /\ usecount \in [Streams -> Int]
      BY DEF Init, NoRef, Refs
    <3>3. /\ playing \in [Streams -> BOOLEAN]
          /\ end \in [Streams -> BOOLEAN]
          /\ held \in [Streams -> BOOLEAN]
          /\ registry \in [Refs -> Streams \cup {None}]
          /\ asked \in [Streams -> {"none", "play", "pause", "stop"}]
          /\ smutex \in [Streams -> {"free", "main"}]
      BY DEF Init
    <3> QED
      BY <3>1, <3>2, <3>3 DEF StreamsTyped
  <2>3. ListsTyped
    BY <2>1 DEF Init, ListsTyped
  <2>4. ControlTyped
    BY DEF Init, ControlTyped, MainLabels, BufferLabels
  <2> QED
    BY <2>2, <2>3, <2>4 DEF Typed
<1>2. CallsOK /\ RefsOK /\ ListOK /\ PhaseOK
  BY DEF Init, CallsOK, RefsOK, ListOK, PhaseOK, NodesOf, IndexedOnce, ReferenceLabels, UnreferenceLabels
<1> QED
  BY <1>1, <1>2 DEF IInv

(* What the typed, consistent stream_list tells of its nodes.              *)
LEMMA ListFacts ==
    ASSUME Typed, ListOK
    PROVE  /\ NodesOf(stream_list) \subseteq [index : Refs, data : Streams]
           /\ DataOf(stream_list) = {n.data : n \in NodesOf(stream_list)}
           /\ \A n \in NodesOf(stream_list) :
                 n.data \in Streams /\ n.index = refrence[n.data] /\ refrence[n.data] \in Refs
           /\ \A j, k \in DOMAIN stream_list :
                 stream_list[j].data = stream_list[k].data => j = k
           /\ HeadData(stream_list, None) \in DataOf(stream_list) \cup {None}
           /\ \A d : NextData(stream_list, d, None) \in DataOf(stream_list) \cup {None}
           /\ DataOf(stream_list) \subseteq Streams
<1> DEFINE T == [index : Refs, data : Streams]
<1>1. stream_list \in Seq(T)
  BY DEF Typed, StreamsTyped, ListsTyped, ControlTyped
<1>3. NodesOf(stream_list) \subseteq T
  BY <1>1, NodesTyped
<1>4. DataOf(stream_list) = {n.data : n \in NodesOf(stream_list)}
  BY DEF DataOf, NodesOf
<1>5. \A n \in NodesOf(stream_list) :
        n.data \in Streams /\ n.index = refrence[n.data] /\ refrence[n.data] \in Refs
  BY <1>3 DEF ListOK
<1>6. \A j, k \in DOMAIN stream_list : stream_list[j].data = stream_list[k].data => j = k
  <2>1. \A k \in DOMAIN stream_list : stream_list[k].index = refrence[stream_list[k].data]
    BY DEF ListOK, NodesOf
  <2> QED
    BY <2>1 DEF ListOK, IndexedOnce
<1> HIDE DEF T
<1>7. HeadData(stream_list, None) \in DataOf(stream_list) \cup {None}
  <2>1. \A j, k \in DOMAIN stream_list :
          stream_list[j].data = None /\ stream_list[k].data = None => j = k
    BY <1>6
  <2> QED
    BY <1>1, <2>1, PointersInList
<1>8. \A d : NextData(stream_list, d, None) \in DataOf(stream_list) \cup {None}
  <2> TAKE d
  <2>1. \A j, k \in DOMAIN stream_list :
          stream_list[j].data = d /\ stream_list[k].data = d => j = k
    BY <1>6
  <2> QED
    BY <1>1, <2>1, PointersInList
<1>9. DataOf(stream_list) \subseteq Streams
  BY <1>4, <1>5
<1> QED
  BY <1>3, <1>4, <1>5, <1>6, <1>7, <1>8, <1>9 DEF T

(* The lists stay lists of nodes when a node is added or removed.          *)
LEMMA ListsStayTyped ==
    ASSUME ListsTyped
    PROVE  /\ \A i : list_remove(stream_list, i) \in Seq([index : Refs, data : Streams])
           /\ \A i \in Refs, s \in Streams :
                 list_add(stream_list, i, s) \in Seq([index : Refs, data : Streams])
           /\ \A i : list_remove(reclaim_list, i)
                        \in Seq([index : Refs \cup {NoRef}, data : Streams])
           /\ \A i \in Refs \cup {NoRef}, s \in Streams :
                 list_add(reclaim_list, i, s) \in Seq([index : Refs \cup {NoRef}, data : Streams])
<1> DEFINE S == [index : Refs, data : Streams]
           R == [index : Refs \cup {NoRef}, data : Streams]
<1>1. stream_list \in Seq(S) /\ reclaim_list \in Seq(R)
  BY DEF ListsTyped
<1>2. /\ \A i \in Refs, s \in Streams : Node(i, s) \in S
      /\ \A i \in Refs \cup {NoRef}, s \in Streams : Node(i, s) \in R
  BY DEF Node
<1> HIDE DEF S, R
<1>3. \A i : list_remove(stream_list, i) \in Seq(S) /\ list_remove(reclaim_list, i) \in Seq(R)
  BY <1>1, RemoveSubset
<1>4. \A i \in Refs, s \in Streams : list_add(stream_list, i, s) \in Seq(S)
  BY <1>1, <1>2, AddNodes
<1>5. \A i \in Refs \cup {NoRef}, s \in Streams : list_add(reclaim_list, i, s) \in Seq(R)
  BY <1>1, <1>2, AddNodes
<1> QED
  BY <1>3, <1>4, <1>5 DEF S, R

(* Every step preserves the invariant.                                     *)
LEMMA NextInv == IInv /\ [Next]_vars => IInv'
<1> SUFFICES ASSUME IInv, [Next]_vars PROVE IInv'
  OBVIOUS
<1> USE StreamsAssumption
    DEF IInv, Typed, StreamsTyped, ListsTyped, ControlTyped, CallsOK,
        ReferenceLabels, UnreferenceLabels, MainLabels, BufferLabels, NoRef, Refs,
        fields, lua, lists, locks, main, buffer,
        Main, Call, Return, BufferThread, BufferReads
<1>list. /\ NodesOf(stream_list) \subseteq [index : Refs, data : Streams]
         /\ \A n \in NodesOf(stream_list) :
              n.data \in Streams /\ n.index = refrence[n.data] /\ refrence[n.data] \in Refs
         /\ HeadData(stream_list, None) \in Streams \cup {None}
         /\ \A d : NextData(stream_list, d, None) \in Streams \cup {None}
  BY ListFacts
<1>1. ASSUME NEW s \in Streams, Open(s) PROVE IInv'
  BY <1>1, <1>list DEF Open, RefsOK, ListOK, PhaseOK
<1>2. ASSUME NEW s \in Streams, Play(s) PROVE IInv'
  <2>1. StreamsTyped'
    BY <1>2, <1>list DEF Play, MayCall, Registered
  <2>2. ListsTyped'
    BY <1>2, <1>list DEF Play, MayCall, Registered
  <2>3. ControlTyped'
    BY <1>2, <1>list DEF Play, MayCall, Registered
  <2>4. CallsOK'
    BY <1>2, <1>list DEF Play, MayCall, Registered
  <2>5. RefsOK'
    BY <1>2, <1>list DEF Play, MayCall, Registered, RefsOK, PhaseOK
  <2>6. ListOK'
    BY <1>2, <1>list DEF Play, MayCall, Registered, ListOK, RefsOK, PhaseOK
  <2>7. PhaseOK'
    BY <1>2, <1>list DEF Play, MayCall, Registered, PhaseOK, RefsOK, ListOK
  <2> QED
    BY <2>1, <2>2, <2>3, <2>4, <2>5, <2>6, <2>7
<1>3. ASSUME NEW s \in Streams, Pause(s) PROVE IInv'
  BY <1>3, <1>list DEF Pause, RefsOK, ListOK, PhaseOK
<1>4. ASSUME NEW s \in Streams, Stop(s) PROVE IInv'
  <2>1. StreamsTyped'
    BY <1>4, <1>list DEF Stop, MayCall
  <2>2. ListsTyped'
    BY <1>4, <1>list DEF Stop, MayCall
  <2>3. ControlTyped'
    BY <1>4, <1>list DEF Stop, MayCall
  <2>4. CallsOK'
    BY <1>4, <1>list DEF Stop, MayCall
  <2>5. RefsOK'
    BY <1>4, <1>list DEF Stop, MayCall, RefsOK, PhaseOK
  <2>6. ListOK'
    BY <1>4, <1>list DEF Stop, MayCall, ListOK, RefsOK, PhaseOK
  <2>7. PhaseOK'
    BY <1>4, <1>list DEF Stop, MayCall, PhaseOK, RefsOK, ListOK
  <2> QED
    BY <2>1, <2>2, <2>3, <2>4, <2>5, <2>6, <2>7
<1>5. ASSUME NEW s \in Streams, Forget(s) PROVE IInv'
  BY <1>5, <1>list DEF Forget, RefsOK, ListOK, PhaseOK
<1>6. ASSUME NEW s \in Streams, Collect(s) PROVE IInv'
  BY <1>6, <1>list DEF Collect, Registered, RefsOK, ListOK, PhaseOK
<1>7. CASE Async
  BY <1>7, <1>list DEF Async, RefsOK, ListOK, PhaseOK
<1>7c. CASE Connect
  BY <1>7c, <1>list DEF Connect, RefsOK, ListOK, PhaseOK
<1>8. CASE Revive
  BY <1>8, <1>list DEF Revive, RefsOK, ListOK, PhaseOK
<1>9. CASE Retake
  BY <1>9, <1>list DEF Retake, RefsOK, ListOK, PhaseOK
<1>10. CASE Dequeue
  <2>1. StreamsTyped'
    BY <1>10, <1>list DEF Dequeue
  <2>2. ListsTyped'
    BY <1>10, ListsStayTyped DEF Dequeue
  <2>3. ControlTyped'
    BY <1>10, <1>list DEF Dequeue
  <2>4. CallsOK'
    BY <1>10, <1>list DEF Dequeue
  <2>5. RefsOK'
    BY <1>10, <1>list DEF Dequeue, RefsOK, PhaseOK
  <2>6. ListOK'
    BY <1>10, <1>list DEF Dequeue, ListOK, RefsOK, PhaseOK
  <2>7. PhaseOK'
    BY <1>10, <1>list DEF Dequeue, PhaseOK, RefsOK, ListOK
  <2> QED
    BY <2>1, <2>2, <2>3, <2>4, <2>5, <2>6, <2>7
<1>11. CASE Enlist
  <2>1. StreamsTyped'
    <3>1. msnd \in Streams
      BY <1>11 DEF Enlist
    <3>2. refrence' \in [Streams -> Refs \cup {NoRef}] /\ registry' \in [Refs -> Streams \cup {None}]
      <4>1. CASE refrence[msnd] > NoRef
        BY <4>1, <1>11 DEF Enlist, Register
      <4>2. CASE ~(refrence[msnd] > NoRef)
        <5>1. PICK r \in Refs : /\ registry' = [registry EXCEPT ![r] = msnd]
                               /\ refrence' = [refrence EXCEPT ![msnd] = r]
          BY <4>2, <1>11 DEF Enlist, Register
        <5>2. refrence' \in [Streams -> Refs \cup {NoRef}]
          BY <5>1
        <5>3. registry' \in [Refs -> Streams \cup {None}]
          BY <3>1, <5>1
        <5> QED
          BY <5>2, <5>3
      <4> QED
        BY <4>1, <4>2
    <3> QED
      BY <3>2, <1>11 DEF Enlist
  <2>2. ListsTyped'
    <3>1. msnd \in Streams /\ refrence'[msnd] \in Refs
      BY <1>11 DEF Enlist, Register, PhaseOK
    <3> QED
      BY <3>1, <1>11, ListsStayTyped DEF Enlist
  <2>3. ControlTyped'
    BY <1>11, <1>list DEF Enlist, Register
  <2>4. CallsOK'
    BY <1>11, <1>list DEF Enlist, Register
  <2>5. RefsOK'
    BY <1>11, <1>list DEF Enlist, Register, RefsOK, PhaseOK
  <2>6. ListOK'
    <3> DEFINE r == refrence'[msnd]
    <3>1. /\ msnd \in Streams /\ mpc = "enlist" /\ ~reclaimed[msnd] /\ reclaimed' = reclaimed
          /\ stream_list' = list_add(stream_list, r, msnd)
          /\ \A n \in NodesOf(stream_list) : n.data # msnd
      BY <1>11 DEF Enlist, PhaseOK
    <3>2. r \in Refs /\ \A s \in Streams \ {msnd} : refrence'[s] = refrence[s]
      BY <3>1, <1>11 DEF Enlist, Register
    <3>3. \A n \in NodesOf(stream_list) : n.index # r
      <4> SUFFICES ASSUME NEW n \in NodesOf(stream_list) PROVE refrence[n.data] # r
        BY <1>list
      <4>1. n.data \in Streams /\ n.data # msnd /\ refrence[n.data] \in Refs
        BY <3>1, <1>list
      <4>2. registry[refrence[n.data]] = n.data
        BY <4>1 DEF RefsOK
      <4>3. registry[r] = msnd \/ registry[r] = None
        BY <3>1, <1>11 DEF Enlist, Register, RefsOK
      <4> QED
        BY <4>1, <4>2, <4>3
    <3>4. Node(r, msnd) \in [index : Refs, data : Streams]
      BY <3>1, <3>2 DEF Node
    <3> HIDE DEF r
    <3>5. IndexedOnce(stream_list')
      BY <3>1, <3>3, <3>4, AddIndexedOnce DEF ListOK
    <3>6. NodesOf(stream_list') = NodesOf(stream_list) \cup {Node(r, msnd)}
      <4> DEFINE T == [index : Refs, data : Streams]
      <4>1. stream_list \in Seq(T) /\ Node(r, msnd) \in T
        BY <3>4
      <4> HIDE DEF T
      <4> QED
        BY <3>1, <4>1, AddNodes
    <3>7. \A n \in NodesOf(stream_list)' : n.index = refrence'[n.data] /\ ~reclaimed'[n.data]
      BY <3>1, <3>2, <3>6, <1>list DEF ListOK, Node, r
    <3> QED
      BY <3>5, <3>7 DEF ListOK
  <2>7. PhaseOK'
    BY <1>11, <1>list DEF Enlist, Register, PhaseOK, RefsOK, ListOK
  <2> QED
    BY <2>1, <2>2, <2>3, <2>4, <2>5, <2>6, <2>7
<1>12. CASE Lock
  BY <1>12, <1>list DEF Lock, RefsOK, ListOK, PhaseOK
<1>13. CASE Unlist
  <2>1. StreamsTyped'
    BY <1>13, <1>list DEF Unlist
  <2>2. ListsTyped'
    <3>1. list_remove(stream_list, refrence[msnd]) \in Seq([index : Refs, data : Streams])
      BY ListsStayTyped
    <3>2. /\ stream_list' = stream_list \/ stream_list' = list_remove(stream_list, refrence[msnd])
          /\ reclaim_list' = reclaim_list
      BY <1>13 DEF Unlist
    <3> QED
      BY <3>1, <3>2
  <2>3. ControlTyped'
    BY <1>13, <1>list DEF Unlist
  <2>4. CallsOK'
    BY <1>13, <1>list DEF Unlist
  <2>5. RefsOK'
    BY <1>13, <1>list DEF Unlist, RefsOK, PhaseOK
  <2>6. ListOK'
    <3>1. IndexedOnce(list_remove(stream_list, refrence[msnd]))
      BY RemoveOnce DEF ListOK
    <3>2. NodesOf(list_remove(stream_list, refrence[msnd])) \subseteq NodesOf(stream_list)
      BY RemoveSubset
    <3> QED
      BY <3>1, <3>2, <1>13 DEF Unlist, ListOK
  <2>7. PhaseOK'
    <3>1. msnd \in Streams
      BY <1>13 DEF Unlist
    <3>2. CASE refrence[msnd] > NoRef
      <4>1. NodesOf(list_remove(stream_list, refrence[msnd]))
              = {n \in NodesOf(stream_list) : n.index # refrence[msnd]}
        BY RemoveOnce DEF ListOK
      <4>2. \A n \in NodesOf(stream_list') : n.data # msnd
        BY <4>1, <3>2, <1>13, <1>list DEF Unlist
      <4> QED
        BY <4>2, <1>13 DEF Unlist, PhaseOK
    <3>3. CASE ~(refrence[msnd] > NoRef)
      BY <3>1, <3>3, <1>13, <1>list DEF Unlist, PhaseOK
    <3> QED
      BY <3>2, <3>3
  <2> QED
    BY <2>1, <2>2, <2>3, <2>4, <2>5, <2>6, <2>7
<1>14. CASE MarkReclaimed
  BY <1>14, <1>list DEF MarkReclaimed, RefsOK, ListOK, PhaseOK
<1>15. CASE Transfer
  <2>1. StreamsTyped'
    <3>1. msnd \in Streams /\ refrence[msnd] \in Refs \cup {NoRef}
      BY <1>15 DEF Transfer
    <3>2. refrence' \in [Streams -> Refs \cup {NoRef}] /\ reclaim_ref' \in [Streams -> Refs \cup {NoRef}]
      BY <3>1, <1>15 DEF Transfer
    <3>3. playing' \in [Streams -> BOOLEAN] /\ end' \in [Streams -> BOOLEAN]
      BY <3>1, <1>15 DEF Transfer
    <3> QED
      BY <3>2, <3>3, <1>15 DEF Transfer
  <2>2. ListsTyped'
    BY <1>15, <1>list DEF Transfer
  <2>3. ControlTyped'
    BY <1>15, <1>list DEF Transfer
  <2>4. CallsOK'
    BY <1>15, <1>list DEF Transfer
  <2>5. RefsOK'
    BY <1>15, <1>list DEF Transfer, RefsOK, PhaseOK
  <2>6. ListOK'
    BY <1>15, <1>list DEF Transfer, ListOK, RefsOK, PhaseOK
  <2>7. PhaseOK'
    BY <1>15, <1>list DEF Transfer, PhaseOK, RefsOK, ListOK
  <2> QED
    BY <2>1, <2>2, <2>3, <2>4, <2>5, <2>6, <2>7
<1>16. CASE CheckPins
  <2>1. StreamsTyped'
    BY <1>16, <1>list DEF CheckPins, Unpinned, Unlock
  <2>2. ListsTyped'
    BY <1>16, <1>list DEF CheckPins, Unpinned, Unlock
  <2>3. ControlTyped'
    BY <1>16, <1>list DEF CheckPins, Unpinned, Unlock
  <2>4. CallsOK'
    BY <1>16, <1>list DEF CheckPins, Unpinned, Unlock
  <2>5. RefsOK'
    BY <1>16, <1>list DEF CheckPins, Unpinned, Unlock, RefsOK, PhaseOK
  <2>6. ListOK'
    BY <1>16, <1>list DEF CheckPins, Unpinned, Unlock, ListOK, RefsOK, PhaseOK
  <2>7. PhaseOK'
    BY <1>16, <1>list DEF CheckPins, Unpinned, Unlock, PhaseOK, RefsOK, ListOK
  <2> QED
    BY <2>1, <2>2, <2>3, <2>4, <2>5, <2>6, <2>7
<1>17. CASE QueueReclaim
  <2>1. StreamsTyped'
    BY <1>17, <1>list DEF QueueReclaim, Unlock
  <2>2. ListsTyped'
    BY <1>17, ListsStayTyped DEF QueueReclaim, Unlock
  <2>3. ControlTyped'
    BY <1>17, <1>list DEF QueueReclaim, Unlock
  <2>4. CallsOK'
    BY <1>17, <1>list DEF QueueReclaim, Unlock
  <2>5. RefsOK'
    BY <1>17, <1>list DEF QueueReclaim, Unlock, RefsOK, PhaseOK
  <2>6. ListOK'
    BY <1>17, <1>list DEF QueueReclaim, Unlock, ListOK, RefsOK, PhaseOK
  <2>7. PhaseOK'
    BY <1>17, <1>list DEF QueueReclaim, Unlock, PhaseOK, RefsOK, ListOK
  <2> QED
    BY <2>1, <2>2, <2>3, <2>4, <2>5, <2>6, <2>7
<1>18. CASE CleanOne
  <2>1. StreamsTyped'
    BY <1>18, <1>list DEF CleanOne
  <2>2. ListsTyped'
    BY <1>18, ListsStayTyped DEF CleanOne
  <2>3. ControlTyped'
    BY <1>18, <1>list DEF CleanOne
  <2>4. CallsOK'
    BY <1>18, <1>list DEF CleanOne
  <2>5. RefsOK'
    <3> DEFINE d == Head(reclaim_list).data
    <3>1. d \in Streams
      <4> DEFINE R == [index : Refs \cup {NoRef}, data : Streams]
      <4>1. reclaim_list \in Seq(R) /\ reclaim_list # <<>>
        BY <1>18 DEF CleanOne
      <4>2. \A n \in R : n.data \in Streams
        OBVIOUS
      <4> HIDE DEF R
      <4>3. Head(reclaim_list) \in R
        BY <4>1
      <4> QED
        BY <4>2, <4>3
    <3>2. CASE life[d] # "freed" /\ reclaim_ref[d] > NoRef
      <4>1. /\ registry' = [registry EXCEPT ![reclaim_ref[d]] = None]
            /\ reclaim_ref' = [reclaim_ref EXCEPT ![d] = NoRef]
        BY <3>2, <1>18 DEF CleanOne
      <4> QED
        BY <3>1, <3>2, <4>1, <1>18 DEF CleanOne, RefsOK
    <3>3. CASE ~(life[d] # "freed" /\ reclaim_ref[d] > NoRef)
      BY <3>3, <1>18 DEF CleanOne, RefsOK
    <3> QED
      BY <3>2, <3>3
  <2>6. ListOK'
    BY <1>18, <1>list DEF CleanOne, ListOK, RefsOK, PhaseOK
  <2>7. PhaseOK'
    BY <1>18, <1>list DEF CleanOne, PhaseOK, RefsOK, ListOK
  <2> QED
    BY <2>1, <2>2, <2>3, <2>4, <2>5, <2>6, <2>7
<1>19. CASE CleanDone
  <2>1. StreamsTyped'
    BY <1>19, <1>list DEF CleanDone
  <2>2. ListsTyped'
    BY <1>19, <1>list DEF CleanDone
  <2>3. ControlTyped'
    BY <1>19, <1>list DEF CleanDone
  <2>4. CallsOK'
    BY <1>19, <1>list DEF CleanDone
  <2>5. RefsOK'
    BY <1>19, <1>list DEF CleanDone, RefsOK, PhaseOK
  <2>6. ListOK'
    BY <1>19, <1>list DEF CleanDone, ListOK, RefsOK, PhaseOK
  <2>7. PhaseOK'
    BY <1>19, <1>list DEF CleanDone, PhaseOK, RefsOK, ListOK
  <2> QED
    BY <2>1, <2>2, <2>3, <2>4, <2>5, <2>6, <2>7
<1>20. CASE WalkOne
  <2>1. StreamsTyped'
    <3>1. enext \in Streams
      BY <1>20 DEF WalkOne
    <3>2. usecount' \in [Streams -> Int]
      BY <3>1, <1>20 DEF WalkOne
    <3>3. asked' \in [Streams -> {"none", "play", "pause", "stop"}]
      BY <3>1, <1>20 DEF WalkOne
    <3> QED
      BY <3>2, <3>3, <1>20 DEF WalkOne
  <2>2. ListsTyped'
    BY <1>20, <1>list DEF WalkOne, Successor
  <2>3. ControlTyped'
    BY <1>20, <1>list DEF WalkOne, Successor
  <2>4. CallsOK'
    BY <1>20, <1>list DEF WalkOne, Successor
  <2>5. RefsOK'
    BY <1>20, <1>list DEF WalkOne, Successor, RefsOK, PhaseOK
  <2>6. ListOK'
    BY <1>20, <1>list DEF WalkOne, Successor, ListOK, RefsOK, PhaseOK
  <2>7. PhaseOK'
    BY <1>20, <1>list DEF WalkOne, Successor, PhaseOK, RefsOK, ListOK
  <2> QED
    BY <2>1, <2>2, <2>3, <2>4, <2>5, <2>6, <2>7
<1>21. CASE WalkFault
  BY <1>21, <1>list DEF WalkFault, RefsOK, ListOK, PhaseOK
<1>22. CASE WalkDone
  BY <1>22, <1>list DEF WalkDone, RefsOK, ListOK, PhaseOK
<1>23. CASE ReadFrame
  <2>1. StreamsTyped'
    <3>1. esnd \in Streams
      BY <1>23 DEF ReadFrame
    <3>2. end' \in [Streams -> BOOLEAN]
      BY <3>1, <1>23 DEF ReadFrame
    <3>3. smutex' \in [Streams -> {"free", "main"}]
      BY <3>1, <1>23 DEF ReadFrame
    <3>4. asked' \in [Streams -> {"none", "play", "pause", "stop"}]
      BY <3>1, <1>23 DEF ReadFrame
    <3> QED
      BY <3>2, <3>3, <3>4, <1>23 DEF ReadFrame
  <2>2. ListsTyped'
    BY <1>23, <1>list DEF ReadFrame
  <2>3. ControlTyped'
    BY <1>23, <1>list DEF ReadFrame
  <2>4. CallsOK'
    BY <1>23, <1>list DEF ReadFrame
  <2>5. RefsOK'
    BY <1>23, <1>list DEF ReadFrame, RefsOK, PhaseOK
  <2>6. ListOK'
    BY <1>23, <1>list DEF ReadFrame, ListOK, RefsOK, PhaseOK
  <2>7. PhaseOK'
    BY <1>23, <1>list DEF ReadFrame, PhaseOK, RefsOK, ListOK
  <2> QED
    BY <2>1, <2>2, <2>3, <2>4, <2>5, <2>6, <2>7
<1>24. CASE HookReturn
  BY <1>24, <1>list DEF HookReturn, RefsOK, ListOK, PhaseOK
<1>25. CASE MainUnpin
  <2>1. StreamsTyped'
    BY <1>25, <1>list DEF MainUnpin, Released
  <2>2. ListsTyped'
    BY <1>25, <1>list DEF MainUnpin, Released
  <2>3. ControlTyped'
    BY <1>25, <1>list DEF MainUnpin, Released
  <2>4. CallsOK'
    BY <1>25, <1>list DEF MainUnpin, Released
  <2>5. RefsOK'
    BY <1>25, <1>list DEF MainUnpin, Released, RefsOK, PhaseOK
  <2>6. ListOK'
    BY <1>25, <1>list DEF MainUnpin, Released, ListOK, RefsOK, PhaseOK
  <2>7. PhaseOK'
    BY <1>25, <1>list DEF MainUnpin, Released, PhaseOK, RefsOK, ListOK
  <2> QED
    BY <2>1, <2>2, <2>3, <2>4, <2>5, <2>6, <2>7
<1>26. CASE MainUnpinQueue
  <2>1. StreamsTyped'
    BY <1>26, <1>list DEF MainUnpinQueue
  <2>2. ListsTyped'
    BY <1>26, ListsStayTyped DEF MainUnpinQueue
  <2>3. ControlTyped'
    BY <1>26, <1>list DEF MainUnpinQueue
  <2>4. CallsOK'
    BY <1>26, <1>list DEF MainUnpinQueue
  <2>5. RefsOK'
    BY <1>26, <1>list DEF MainUnpinQueue, RefsOK, PhaseOK
  <2>6. ListOK'
    BY <1>26, <1>list DEF MainUnpinQueue, ListOK, RefsOK, PhaseOK
  <2>7. PhaseOK'
    BY <1>26, <1>list DEF MainUnpinQueue, PhaseOK, RefsOK, ListOK
  <2> QED
    BY <2>1, <2>2, <2>3, <2>4, <2>5, <2>6, <2>7
<1>27. CASE BufferWake
  BY <1>27, <1>list DEF BufferWake, RefsOK, ListOK, PhaseOK
<1>28. CASE BufferWalk
  BY <1>28, <1>list DEF BufferWalk, RefsOK, ListOK, PhaseOK
<1>29. CASE BufferPinAdd
  BY <1>29, <1>list DEF BufferPinAdd, RefsOK, ListOK, PhaseOK
<1>30. CASE BufferPinCheck
  BY <1>30, <1>list DEF BufferPinCheck, RefsOK, ListOK, PhaseOK
<1>31. CASE BufferFault
  BY <1>31, <1>list DEF BufferFault, RefsOK, ListOK, PhaseOK
<1>32. CASE BufferFlags
  BY <1>32, <1>list DEF BufferFlags, RefsOK, ListOK, PhaseOK
<1>33. CASE BufferFill
  BY <1>33, <1>list DEF BufferFill, RefsOK, ListOK, PhaseOK
<1>34. CASE BufferEof
  BY <1>34, <1>list DEF BufferEof, RefsOK, ListOK, PhaseOK
<1>35. CASE BufferUnpin
  BY <1>35, <1>list DEF BufferUnpin, RefsOK, ListOK, PhaseOK
<1>36. CASE BufferLoadReclaimed
  BY <1>36, <1>list DEF BufferLoadReclaimed, RefsOK, ListOK, PhaseOK
<1>37. CASE BufferReadRef
  BY <1>37, <1>list DEF BufferReadRef, RefsOK, ListOK, PhaseOK
<1>38. CASE BufferQueue
  <2>1. StreamsTyped'
    BY <1>38, <1>list DEF BufferQueue
  <2>2. ListsTyped'
    BY <1>38, ListsStayTyped DEF BufferQueue
  <2>3. ControlTyped'
    BY <1>38, <1>list DEF BufferQueue
  <2>4. CallsOK'
    BY <1>38, <1>list DEF BufferQueue
  <2>5. RefsOK'
    BY <1>38, <1>list DEF BufferQueue, RefsOK, PhaseOK
  <2>6. ListOK'
    BY <1>38, <1>list DEF BufferQueue, ListOK, RefsOK, PhaseOK
  <2>7. PhaseOK'
    BY <1>38, <1>list DEF BufferQueue, PhaseOK, RefsOK, ListOK
  <2> QED
    BY <2>1, <2>2, <2>3, <2>4, <2>5, <2>6, <2>7
<1>39. CASE BufferResume
  BY <1>39, <1>list DEF BufferResume, RefsOK, ListOK, PhaseOK
<1>40. CASE UNCHANGED vars
  BY <1>40 DEF vars, RefsOK, ListOK, PhaseOK
<1> QED
  BY <1>1, <1>2, <1>3, <1>4, <1>5, <1>6, <1>7, <1>7c, <1>8, <1>9, <1>10, <1>11, <1>12, <1>13, <1>14, <1>15, <1>16, <1>17, <1>18, <1>19, <1>20, <1>21, <1>22, <1>23, <1>24, <1>25, <1>26, <1>27, <1>28, <1>29, <1>30, <1>31, <1>32, <1>33, <1>34, <1>35, <1>36, <1>37, <1>38, <1>39, <1>40
     DEF Next, Script, Reference, Unreference, Frame, Buffer

(* The invariant holds throughout every execution.                         *)
THEOREM Invariance == Spec => []IInv
<1>1. Init => IInv
  BY InitInv
<1>2. IInv /\ [Next]_vars => IInv'
  BY NextInv
<1> QED
  BY <1>1, <1>2, PTL DEF Spec

(* What either thread meets in stream_list can be pinned, for any number   *)
(* of streams: the walks of audio.c:539 and audio.c:985 read only live,    *)
(* referenced, unreclaimed streams under inner_mutex.                      *)
THEOREM ListIsPinnable == Spec => []ListedIsPinnable
<1>1. IInv => ListedIsPinnable
  <2> SUFFICES ASSUME IInv PROVE ListedIsPinnable
    OBVIOUS
  <2> USE DEF IInv
  <2>1. \A j, k \in DOMAIN stream_list : stream_list[j].data = stream_list[k].data => j = k
    BY ListFacts
  <2>2. ASSUME NEW k \in DOMAIN stream_list
        PROVE  LET s == stream_list[k].data
               IN  /\ life[s] = "live" /\ ~reclaimed[s]
                   /\ stream_list[k].index = refrence[s]
                   /\ registry[refrence[s]] = s
    <3> DEFINE n == stream_list[k]
    <3>1. n \in NodesOf(stream_list)
      BY DEF NodesOf
    <3>2. n.data \in Streams /\ n.index = refrence[n.data] /\ refrence[n.data] \in Refs
      BY <3>1, ListFacts
    <3>3. refrence[n.data] # NoRef
      BY <3>2, StreamsAssumption DEF Refs, NoRef
    <3> QED
      BY <3>1, <3>2, <3>3 DEF ListOK, RefsOK
  <2> QED
    BY <2>1, <2>2 DEF ListedIsPinnable
<1> QED
  BY <1>1, Invariance, PTL

(* The number of pins a step leaves behind is the number usecount has.     *)
LEMMA PinsInv == IInv /\ UsecountIsPins /\ [Next]_vars => UsecountIsPins'
<1> SUFFICES ASSUME IInv, UsecountIsPins, [Next]_vars PROVE UsecountIsPins'
  OBVIOUS
<1> USE DEF IInv, Typed, StreamsTyped, ControlTyped, CallsOK, ReferenceLabels, UnreferenceLabels,
            MainLabels, BufferLabels, fields, lua, lists, locks, main, buffer,
            Main, Call, Return, BufferThread, BufferReads, UsecountIsPins, BufferPins, MainPins
<1>1. ASSUME NEW s \in Streams, Open(s) PROVE UsecountIsPins'
  BY <1>1 DEF Open
<1>2. ASSUME NEW s \in Streams, Play(s) PROVE UsecountIsPins'
  BY <1>2 DEF Play, MayCall
<1>3. ASSUME NEW s \in Streams, Pause(s) PROVE UsecountIsPins'
  BY <1>3 DEF Pause
<1>4. ASSUME NEW s \in Streams, Stop(s) PROVE UsecountIsPins'
  BY <1>4 DEF Stop, MayCall
<1>5. ASSUME NEW s \in Streams, Forget(s) PROVE UsecountIsPins'
  BY <1>5 DEF Forget
<1>6. ASSUME NEW s \in Streams, Collect(s) PROVE UsecountIsPins'
  BY <1>6 DEF Collect
<1>7. CASE Async
  BY <1>7 DEF Async
<1>7c. CASE Connect
  BY <1>7c DEF Connect
<1>8. CASE Revive
  BY <1>8 DEF Revive
<1>9. CASE Retake
  BY <1>9 DEF Retake
<1>10. CASE Dequeue
  BY <1>10 DEF Dequeue
<1>11. CASE Enlist
  BY <1>11 DEF Enlist, Register
<1>12. CASE Lock
  BY <1>12 DEF Lock
<1>13. CASE Unlist
  BY <1>13 DEF Unlist
<1>14. CASE MarkReclaimed
  BY <1>14 DEF MarkReclaimed
<1>15. CASE Transfer
  BY <1>15 DEF Transfer
<1>16. CASE CheckPins
  BY <1>16 DEF CheckPins, Unpinned, Unlock
<1>17. CASE QueueReclaim
  BY <1>17 DEF QueueReclaim, Unlock
<1>18. CASE CleanOne
  BY <1>18 DEF CleanOne
<1>19. CASE CleanDone
  BY <1>19 DEF CleanDone
<1>20. CASE WalkOne
  BY <1>20 DEF WalkOne, Successor
<1>21. CASE WalkFault
  BY <1>21 DEF WalkFault
<1>22. CASE WalkDone
  BY <1>22 DEF WalkDone
<1>23. CASE ReadFrame
  BY <1>23 DEF ReadFrame
<1>24. CASE HookReturn
  BY <1>24 DEF HookReturn
<1>25. CASE MainUnpin
  BY <1>25 DEF MainUnpin, Released
<1>26. CASE MainUnpinQueue
  BY <1>26 DEF MainUnpinQueue
<1>27. CASE BufferWake
  BY <1>27 DEF BufferWake
<1>28. CASE BufferWalk
  BY <1>28 DEF BufferWalk
<1>29. CASE BufferPinAdd
  BY <1>29 DEF BufferPinAdd
<1>30. CASE BufferPinCheck
  <2>1. bsnd \in Streams
    BY <1>30 DEF BufferPinCheck
  <2>2. CASE reclaimed[bsnd]
    <3>1. /\ usecount' = [usecount EXCEPT ![bsnd] = @ - 1]
          /\ bpc = "pinCheck" /\ bpc' = "walk" /\ bsnd' = bsnd
          /\ UNCHANGED <<esnd, mpc, mret>>
      BY <2>2, <1>30 DEF BufferPinCheck
    <3> QED
      BY <2>1, <3>1
  <2>3. CASE ~reclaimed[bsnd]
    BY <2>3, <1>30 DEF BufferPinCheck
  <2> QED
    BY <2>2, <2>3
<1>31. CASE BufferFault
  BY <1>31 DEF BufferFault
<1>32. CASE BufferFlags
  BY <1>32 DEF BufferFlags
<1>33. CASE BufferFill
  BY <1>33 DEF BufferFill
<1>34. CASE BufferEof
  BY <1>34 DEF BufferEof
<1>35. CASE BufferUnpin
  BY <1>35 DEF BufferUnpin
<1>36. CASE BufferLoadReclaimed
  BY <1>36 DEF BufferLoadReclaimed
<1>37. CASE BufferReadRef
  BY <1>37 DEF BufferReadRef
<1>38. CASE BufferQueue
  BY <1>38 DEF BufferQueue
<1>39. CASE BufferResume
  BY <1>39 DEF BufferResume
<1>40. CASE UNCHANGED vars
  BY <1>40 DEF vars
<1> QED
  BY <1>1, <1>2, <1>3, <1>4, <1>5, <1>6, <1>7, <1>7c, <1>8, <1>9, <1>10, <1>11, <1>12, <1>13, <1>14, <1>15, <1>16, <1>17, <1>18, <1>19, <1>20, <1>21, <1>22, <1>23, <1>24, <1>25, <1>26, <1>27, <1>28, <1>29, <1>30, <1>31, <1>32, <1>33, <1>34, <1>35, <1>36, <1>37, <1>38, <1>39, <1>40
     DEF Next, Script, Reference, Unreference, Frame, Buffer

(* usecount (audio.c:12, audio.c:47) counts the pins: no interleaving of   *)
(* the two loops loses or invents one.                                     *)
THEOREM UsecountCounts == Spec => []UsecountIsPins
<1>1. Init => UsecountIsPins
  BY DEF Init, UsecountIsPins, BufferPins, MainPins
<1>2. IInv /\ UsecountIsPins /\ [Next]_vars => UsecountIsPins'
  BY PinsInv
<1> QED
  BY <1>1, <1>2, Invariance, PTL DEF Spec

(* Type correctness: in particular usecount, decremented in four places,   *)
(* never falls below zero.                                                 *)
THEOREM TypeCorrect == Spec => []TypeOK
<1>1. IInv /\ UsecountIsPins => TypeOK
  <2> SUFFICES ASSUME IInv, UsecountIsPins PROVE TypeOK
    OBVIOUS
  <2>1. usecount \in [Streams -> Nat]
    <3>1. usecount \in [Streams -> Int] /\ \A s \in Streams : usecount[s] \in Nat
      BY DEF IInv, Typed, StreamsTyped, UsecountIsPins
    <3> QED
      BY <3>1
  <2> QED
    BY <2>1 DEF TypeOK, IInv, Typed, StreamsTyped, ListsTyped, ControlTyped
<1> QED
  BY <1>1, Invariance, UsecountCounts, PTL

-----------------------------------------------------------------------------
(* A pin protects, provided no stream is played again once stopped.        *)

(* What the walks are at is linked: the buffer thread holds inner_mutex    *)
(* from finding a stream to having pinned it, and Unlist repairs the       *)
(* pointer the main thread saved.                                          *)
WalkOK ==
    /\ inner = "buffer" <=> bpc \in {"walk", "pinAdd", "pinCheck"}
    /\ bpc = "walk" => bcur \in DataOf(stream_list) \cup {None}
    /\ bpc \in {"pinAdd", "pinCheck"} => bsnd \in DataOf(stream_list)
    /\ enext \in DataOf(stream_list) \cup {None, Dangling}

(* A pinned stream has one of its two references.                          *)
HeldOK ==
    \A s \in Streams :
        BufferPins(s) \/ MainPins(s) => refrence[s] # NoRef \/ reclaim_ref[s] # NoRef

(* What is queued for release, or about to be, stays reclaimed for good;   *)
(* and while its reclaim_ref is still there the buffer thread has no pin.  *)
QueueOK ==
    /\ mpc \notin {"revive", "retake", "dequeue"}
    /\ \A s \in DataOf(reclaim_list) :
         /\ s \in Streams => refrence[s] = NoRef /\ reclaimed[s]
         /\ s \in Streams /\ reclaim_ref[s] # NoRef => ~BufferPins(s)
    /\ mpc = "queue" => ~BufferPins(msnd)
    /\ mpc = "unpinQueue" => ~BufferPins(esnd) /\ reclaimed[esnd] /\ reclaim_ref[esnd] # NoRef
    /\ bpc \in {"readRef", "queue"} => reclaimed[bsnd]
    /\ bpc = "queue" => refrence[bsnd] = NoRef

PinInv == WalkOK /\ HeldOK /\ QueueOK

(* The streams in the two lists, and the lists after an addition or a      *)
(* removal.                                                                *)
LEMMA DataFacts ==
    ASSUME IInv
    PROVE  /\ \A s \in DataOf(stream_list) :
                s \in Streams /\ refrence[s] \in Refs /\ refrence[s] # NoRef
                /\ ~reclaimed[s] /\ reclaim_ref[s] = NoRef
           /\ HeadData(stream_list, None) \in DataOf(stream_list) \cup {None}
           /\ \A d : NextData(stream_list, d, None) \in DataOf(stream_list) \cup {None}
           /\ DataOf(reclaim_list) \subseteq Streams
           /\ \A i \in Refs, s \in Streams :
                DataOf(list_add(stream_list, i, s)) = DataOf(stream_list) \cup {s}
           /\ \A i \in Refs \cup {NoRef}, s \in Streams :
                DataOf(list_add(reclaim_list, i, s)) = DataOf(reclaim_list) \cup {s}
           /\ \A i : DataOf(list_remove(reclaim_list, i)) \subseteq DataOf(reclaim_list)
           /\ \A s \in Streams : refrence[s] # NoRef =>
                DataOf(stream_list) \ {s} \subseteq DataOf(list_remove(stream_list, refrence[s]))
<1> USE DEF IInv
<1> DEFINE S == [index : Refs, data : Streams]
           R == [index : Refs \cup {NoRef}, data : Streams]
<1>1. stream_list \in Seq(S) /\ reclaim_list \in Seq(R)
  BY DEF Typed, ListsTyped
<1>2. /\ \A i \in Refs, s \in Streams : Node(i, s) \in S
      /\ \A i \in Refs \cup {NoRef}, s \in Streams : Node(i, s) \in R
  BY DEF Node
<1>3. \A s \in DataOf(stream_list) :
        s \in Streams /\ refrence[s] \in Refs /\ refrence[s] # NoRef
        /\ ~reclaimed[s] /\ reclaim_ref[s] = NoRef
  <2> SUFFICES ASSUME NEW n \in NodesOf(stream_list)
               PROVE  LET s == n.data IN
                      s \in Streams /\ refrence[s] \in Refs /\ refrence[s] # NoRef
                      /\ ~reclaimed[s] /\ reclaim_ref[s] = NoRef
    BY ListFacts
  <2>1. n.data \in Streams /\ refrence[n.data] \in Refs /\ ~reclaimed[n.data]
    BY ListFacts DEF ListOK
  <2>2. refrence[n.data] # NoRef
    BY <2>1, StreamsAssumption DEF Refs, NoRef
  <2> QED
    BY <2>1, <2>2 DEF RefsOK
<1>4. /\ HeadData(stream_list, None) \in DataOf(stream_list) \cup {None}
      /\ \A d : NextData(stream_list, d, None) \in DataOf(stream_list) \cup {None}
  BY ListFacts
<1>5. DataOf(reclaim_list) \subseteq Streams
  <2>1. \A n \in R : n.data \in Streams
    OBVIOUS
  <2> HIDE DEF R
  <2> QED
    BY <1>1, <2>1 DEF DataOf
<1>6. \A s \in Streams : refrence[s] # NoRef =>
        DataOf(stream_list) \ {s} \subseteq DataOf(list_remove(stream_list, refrence[s]))
  <2> SUFFICES ASSUME NEW s \in Streams, refrence[s] # NoRef,
                      NEW d \in DataOf(stream_list), d # s
               PROVE  d \in DataOf(list_remove(stream_list, refrence[s]))
    OBVIOUS
  <2>1. PICK n \in NodesOf(stream_list) : n.data = d
    BY ListFacts
  <2>2. n.index = refrence[d] /\ d \in Streams /\ refrence[d] # NoRef
    BY <2>1, <1>3, ListFacts
  <2>3. n.index # refrence[s]
    BY <2>2 DEF RefsOK
  <2> HIDE DEF S
  <2>4. n \in NodesOf(list_remove(stream_list, refrence[s]))
    BY <1>1, <2>3, RemoveOnce DEF ListOK
  <2> QED
    BY <2>1, <2>4 DEF NodesOf, DataOf
<1> HIDE DEF S, R
<1>7. \A i \in Refs, s \in Streams :
        DataOf(list_add(stream_list, i, s)) = DataOf(stream_list) \cup {s}
  BY <1>1, <1>2, AddNodes
<1>8. \A i \in Refs \cup {NoRef}, s \in Streams :
        DataOf(list_add(reclaim_list, i, s)) = DataOf(reclaim_list) \cup {s}
  BY <1>1, <1>2, AddNodes
<1>9. \A i : DataOf(list_remove(reclaim_list, i)) \subseteq DataOf(reclaim_list)
  BY <1>1, RemoveSubset
<1> QED
  BY <1>3, <1>4, <1>5, <1>6, <1>7, <1>8, <1>9

(* The walks stay on the list, whatever scripts do.                        *)
LEMMA WalkNext ==
    ASSUME IInv, WalkOK, [Next]_vars
    PROVE  WalkOK'
<1> USE StreamsAssumption
    DEF IInv, Typed, StreamsTyped, ControlTyped, CallsOK, ReferenceLabels, UnreferenceLabels,
        MainLabels, BufferLabels, NoRef, fields, lua, lists, locks, main, buffer,
        Main, Call, Return, BufferThread, BufferReads
<1>1. ASSUME NEW s \in Streams, Open(s) PROVE WalkOK'
  BY <1>1, DataFacts DEF Open, WalkOK
<1>2. ASSUME NEW s \in Streams, Play(s) PROVE WalkOK'
  BY <1>2, DataFacts DEF Play, MayCall, WalkOK
<1>3. ASSUME NEW s \in Streams, Pause(s) PROVE WalkOK'
  BY <1>3, DataFacts DEF Pause, WalkOK
<1>4. ASSUME NEW s \in Streams, Stop(s) PROVE WalkOK'
  BY <1>4, DataFacts DEF Stop, MayCall, WalkOK
<1>5. ASSUME NEW s \in Streams, Forget(s) PROVE WalkOK'
  BY <1>5, DataFacts DEF Forget, WalkOK
<1>6. ASSUME NEW s \in Streams, Collect(s) PROVE WalkOK'
  BY <1>6, DataFacts DEF Collect, WalkOK
<1>7. CASE Async
  BY <1>7, DataFacts DEF Async, WalkOK
<1>7c. CASE Connect
  BY <1>7c, DataFacts DEF Connect, WalkOK
<1>8. CASE Revive
  BY <1>8, DataFacts DEF Revive, WalkOK
<1>9. CASE Retake
  BY <1>9, DataFacts DEF Retake, WalkOK
<1>10. CASE Dequeue
  BY <1>10, DataFacts DEF Dequeue, WalkOK
<1>11. CASE Enlist
  BY <1>11, DataFacts DEF Enlist, Register, WalkOK
<1>12. CASE Lock
  BY <1>12, DataFacts DEF Lock, WalkOK
<1>13. CASE Unlist
  BY <1>13, DataFacts DEF Unlist, WalkOK
<1>14. CASE MarkReclaimed
  BY <1>14, DataFacts DEF MarkReclaimed, WalkOK
<1>15. CASE Transfer
  BY <1>15, DataFacts DEF Transfer, WalkOK
<1>16. CASE CheckPins
  BY <1>16, DataFacts DEF CheckPins, Unpinned, Unlock, WalkOK
<1>17. CASE QueueReclaim
  BY <1>17, DataFacts DEF QueueReclaim, Unlock, WalkOK
<1>18. CASE CleanOne
  BY <1>18, DataFacts DEF CleanOne, WalkOK
<1>19. CASE CleanDone
  BY <1>19, DataFacts DEF CleanDone, WalkOK
<1>20. CASE WalkOne
  BY <1>20, DataFacts DEF WalkOne, Successor, WalkOK
<1>21. CASE WalkFault
  BY <1>21, DataFacts DEF WalkFault, WalkOK
<1>22. CASE WalkDone
  BY <1>22, DataFacts DEF WalkDone, WalkOK
<1>23. CASE ReadFrame
  BY <1>23, DataFacts DEF ReadFrame, WalkOK
<1>24. CASE HookReturn
  BY <1>24, DataFacts DEF HookReturn, WalkOK
<1>25. CASE MainUnpin
  BY <1>25, DataFacts DEF MainUnpin, Released, WalkOK
<1>26. CASE MainUnpinQueue
  BY <1>26, DataFacts DEF MainUnpinQueue, WalkOK
<1>27. CASE BufferWake
  BY <1>27, DataFacts DEF BufferWake, WalkOK
<1>28. CASE BufferWalk
  BY <1>28, DataFacts DEF BufferWalk, WalkOK
<1>29. CASE BufferPinAdd
  BY <1>29, DataFacts DEF BufferPinAdd, WalkOK
<1>30. CASE BufferPinCheck
  BY <1>30, DataFacts DEF BufferPinCheck, WalkOK
<1>31. CASE BufferFault
  BY <1>31, DataFacts DEF BufferFault, WalkOK
<1>32. CASE BufferFlags
  BY <1>32, DataFacts DEF BufferFlags, WalkOK
<1>33. CASE BufferFill
  BY <1>33, DataFacts DEF BufferFill, WalkOK
<1>34. CASE BufferEof
  BY <1>34, DataFacts DEF BufferEof, WalkOK
<1>35. CASE BufferUnpin
  BY <1>35, DataFacts DEF BufferUnpin, WalkOK
<1>36. CASE BufferLoadReclaimed
  BY <1>36, DataFacts DEF BufferLoadReclaimed, WalkOK
<1>37. CASE BufferReadRef
  BY <1>37, DataFacts DEF BufferReadRef, WalkOK
<1>38. CASE BufferQueue
  BY <1>38, DataFacts DEF BufferQueue, WalkOK
<1>39. CASE BufferResume
  BY <1>39, DataFacts DEF BufferResume, WalkOK
<1>40. CASE UNCHANGED vars
  BY <1>40, DataFacts DEF vars, WalkOK
<1> QED
  BY <1>1, <1>2, <1>3, <1>4, <1>5, <1>6, <1>7, <1>7c, <1>8, <1>9, <1>10, <1>11, <1>12, <1>13, <1>14, <1>15, <1>16, <1>17, <1>18, <1>19, <1>20, <1>21, <1>22, <1>23, <1>24, <1>25, <1>26, <1>27, <1>28, <1>29, <1>30, <1>31, <1>32, <1>33, <1>34, <1>35, <1>36, <1>37, <1>38, <1>39, <1>40
     DEF Next, Script, Reference, Unreference, Frame, Buffer

(* Every step keeps the pinned, queued and walked streams in order.        *)
LEMMA PinNext ==
    ASSUME ~Replays, IInv, UsecountIsPins, PinInv, [Next]_vars
    PROVE  PinInv'
<1> USE StreamsAssumption
    DEF IInv, Typed, StreamsTyped, ControlTyped, CallsOK, ReferenceLabels, UnreferenceLabels,
        MainLabels, BufferLabels, NoRef, fields, lua, lists, locks, main, buffer,
        Main, Call, Return, BufferThread, BufferReads, BufferPins, MainPins, PinInv
<1>walk. WalkOK'
  BY WalkNext
<1>1. ASSUME NEW s \in Streams, Open(s) PROVE PinInv'
  <2>1. HeldOK'
    BY <1>1, DataFacts DEF Open, HeldOK, RefsOK
  <2>2. QueueOK'
    BY <1>1, DataFacts DEF Open, QueueOK, RefsOK, PhaseOK
  <2> QED
    BY <1>walk, <2>1, <2>2
<1>2. ASSUME NEW s \in Streams, Play(s) PROVE PinInv'
  <2>1. HeldOK'
    BY <1>2, DataFacts DEF Play, MayCall, HeldOK, RefsOK
  <2>2. QueueOK'
    BY <1>2, DataFacts DEF Play, MayCall, QueueOK, RefsOK, PhaseOK
  <2> QED
    BY <1>walk, <2>1, <2>2
<1>3. ASSUME NEW s \in Streams, Pause(s) PROVE PinInv'
  <2>1. HeldOK'
    BY <1>3, DataFacts DEF Pause, HeldOK, RefsOK
  <2>2. QueueOK'
    BY <1>3, DataFacts DEF Pause, QueueOK, RefsOK, PhaseOK
  <2> QED
    BY <1>walk, <2>1, <2>2
<1>4. ASSUME NEW s \in Streams, Stop(s) PROVE PinInv'
  <2>1. HeldOK'
    BY <1>4, DataFacts DEF Stop, MayCall, HeldOK, RefsOK
  <2>2. QueueOK'
    BY <1>4, DataFacts DEF Stop, MayCall, QueueOK, RefsOK, PhaseOK
  <2> QED
    BY <1>walk, <2>1, <2>2
<1>5. ASSUME NEW s \in Streams, Forget(s) PROVE PinInv'
  <2>1. HeldOK'
    BY <1>5, DataFacts DEF Forget, HeldOK, RefsOK
  <2>2. QueueOK'
    BY <1>5, DataFacts DEF Forget, QueueOK, RefsOK, PhaseOK
  <2> QED
    BY <1>walk, <2>1, <2>2
<1>6. ASSUME NEW s \in Streams, Collect(s) PROVE PinInv'
  <2>1. HeldOK'
    BY <1>6, DataFacts DEF Collect, HeldOK, RefsOK
  <2>2. QueueOK'
    BY <1>6, DataFacts DEF Collect, QueueOK, RefsOK, PhaseOK
  <2> QED
    BY <1>walk, <2>1, <2>2
<1>7. CASE Async
  <2>1. HeldOK'
    BY <1>7, DataFacts DEF Async, HeldOK, RefsOK
  <2>2. QueueOK'
    BY <1>7, DataFacts DEF Async, QueueOK, RefsOK, PhaseOK
  <2> QED
    BY <1>walk, <2>1, <2>2
<1>7c. CASE Connect
  <2>1. HeldOK'
    BY <1>7c, DataFacts DEF Connect, HeldOK, RefsOK
  <2>2. QueueOK'
    BY <1>7c, DataFacts DEF Connect, QueueOK, RefsOK, PhaseOK
  <2> QED
    BY <1>walk, <2>1, <2>2
<1>8. CASE Revive
  <2>1. HeldOK'
    BY <1>8, DataFacts DEF Revive, HeldOK, RefsOK
  <2>2. QueueOK'
    BY <1>8, DataFacts DEF Revive, QueueOK, RefsOK, PhaseOK
  <2> QED
    BY <1>walk, <2>1, <2>2
<1>9. CASE Retake
  <2>1. HeldOK'
    BY <1>9 DEF Retake, QueueOK
  <2>2. QueueOK'
    BY <1>9, DataFacts DEF Retake, QueueOK, RefsOK, PhaseOK
  <2> QED
    BY <1>walk, <2>1, <2>2
<1>10. CASE Dequeue
  <2>1. HeldOK'
    BY <1>10, DataFacts DEF Dequeue, HeldOK, RefsOK
  <2>2. QueueOK'
    BY <1>10, DataFacts DEF Dequeue, QueueOK, RefsOK, PhaseOK
  <2> QED
    BY <1>walk, <2>1, <2>2
<1>11. CASE Enlist
  <2>1. HeldOK'
    <3>1. msnd \in Streams /\ refrence'[msnd] # NoRef /\ reclaim_ref' = reclaim_ref
      BY <1>11 DEF Enlist, Register, Refs
    <3>2. \A s \in Streams \ {msnd} : refrence'[s] = refrence[s]
      BY <1>11 DEF Enlist, Register
    <3>3. \A s : (BufferPins(s) \/ MainPins(s))' => BufferPins(s) \/ MainPins(s)
      BY <1>11 DEF Enlist
    <3> QED
      BY <3>1, <3>2, <3>3 DEF HeldOK
  <2>2. QueueOK'
    BY <1>11, DataFacts DEF Enlist, Register, QueueOK, RefsOK, PhaseOK
  <2> QED
    BY <1>walk, <2>1, <2>2
<1>12. CASE Lock
  <2>1. HeldOK'
    BY <1>12, DataFacts DEF Lock, HeldOK, RefsOK
  <2>2. QueueOK'
    BY <1>12, DataFacts DEF Lock, QueueOK, RefsOK, PhaseOK
  <2> QED
    BY <1>walk, <2>1, <2>2
<1>13. CASE Unlist
  <2>1. HeldOK'
    BY <1>13, DataFacts DEF Unlist, HeldOK, RefsOK
  <2>2. QueueOK'
    BY <1>13, DataFacts DEF Unlist, QueueOK, RefsOK, PhaseOK
  <2> QED
    BY <1>walk, <2>1, <2>2
<1>14. CASE MarkReclaimed
  <2>1. HeldOK'
    BY <1>14, DataFacts DEF MarkReclaimed, HeldOK, RefsOK
  <2>2. QueueOK'
    BY <1>14, DataFacts DEF MarkReclaimed, QueueOK, RefsOK, PhaseOK
  <2> QED
    BY <1>walk, <2>1, <2>2
<1>15. CASE Transfer
  <2>1. HeldOK'
    BY <1>15, DataFacts DEF Transfer, HeldOK, RefsOK
  <2>2. QueueOK'
    BY <1>15, DataFacts DEF Transfer, QueueOK, RefsOK, PhaseOK
  <2> QED
    BY <1>walk, <2>1, <2>2
<1>16. CASE CheckPins
  <2>1. HeldOK'
    BY <1>16, DataFacts DEF CheckPins, Unpinned, Unlock, HeldOK, RefsOK
  <2>2. QueueOK'
    <3>1. msnd \in Streams /\ (mpc' = "queue" => usecount[msnd] = 0)
      BY <1>16 DEF CheckPins, Unpinned
    <3>2. mpc' = "queue" => ~BufferPins(msnd)
      BY <3>1 DEF UsecountIsPins
    <3> QED
      BY <3>2, <1>16, DataFacts DEF CheckPins, Unlock, QueueOK
  <2> QED
    BY <1>walk, <2>1, <2>2
<1>17. CASE QueueReclaim
  <2>1. HeldOK'
    BY <1>17, DataFacts DEF QueueReclaim, Unlock, HeldOK, RefsOK
  <2>2. QueueOK'
    BY <1>17, DataFacts DEF QueueReclaim, Unlock, QueueOK, RefsOK, PhaseOK
  <2> QED
    BY <1>walk, <2>1, <2>2
<1>18. CASE CleanOne
  <2>1. HeldOK'
    <3> DEFINE d == Head(reclaim_list).data
    <3>1. d \in DataOf(reclaim_list)
      BY <1>18 DEF CleanOne, DataOf, ListsTyped
    <3>2. d \in Streams
      BY <3>1, DataFacts
    <3>3. /\ reclaim_ref' = reclaim_ref \/
               (reclaim_ref[d] > NoRef /\ reclaim_ref' = [reclaim_ref EXCEPT ![d] = NoRef])
          /\ refrence' = refrence /\ mpc = "clean" /\ mret = "lua"
          /\ UNCHANGED <<main, buffer>>
      BY <1>18 DEF CleanOne
    <3>4. reclaim_ref[d] > NoRef => ~BufferPins(d)
      BY <3>1, <3>2 DEF QueueOK
    <3> QED
      BY <3>2, <3>3, <3>4 DEF HeldOK
  <2>2. QueueOK'
    BY <1>18, DataFacts DEF CleanOne, QueueOK, RefsOK, PhaseOK
  <2> QED
    BY <1>walk, <2>1, <2>2
<1>19. CASE CleanDone
  <2>1. HeldOK'
    BY <1>19, DataFacts DEF CleanDone, HeldOK, RefsOK
  <2>2. QueueOK'
    BY <1>19, DataFacts DEF CleanDone, QueueOK, RefsOK, PhaseOK
  <2> QED
    BY <1>walk, <2>1, <2>2
<1>20. CASE WalkOne
  <2>1. HeldOK'
    <3>1. enext \in Streams /\ refrence[enext] # NoRef
      BY <1>20, DataFacts DEF WalkOne, WalkOK
    <3>2. /\ UNCHANGED <<refrence, reclaim_ref, bpc, bsnd>> /\ mpc = "walk"
          /\ \/ mpc' = "walk" /\ mret' = mret
             \/ esnd' = enext
      BY <1>20 DEF WalkOne
    <3> QED
      BY <3>1, <3>2 DEF HeldOK
  <2>2. QueueOK'
    BY <1>20, DataFacts DEF WalkOne, Successor, QueueOK, RefsOK, PhaseOK
  <2> QED
    BY <1>walk, <2>1, <2>2
<1>21. CASE WalkFault
  <2>1. HeldOK'
    BY <1>21, DataFacts DEF WalkFault, HeldOK, RefsOK
  <2>2. QueueOK'
    BY <1>21, DataFacts DEF WalkFault, QueueOK, RefsOK, PhaseOK
  <2> QED
    BY <1>walk, <2>1, <2>2
<1>22. CASE WalkDone
  <2>1. HeldOK'
    BY <1>22, DataFacts DEF WalkDone, HeldOK, RefsOK
  <2>2. QueueOK'
    BY <1>22, DataFacts DEF WalkDone, QueueOK, RefsOK, PhaseOK
  <2> QED
    BY <1>walk, <2>1, <2>2
<1>23. CASE ReadFrame
  <2>1. HeldOK'
    BY <1>23, DataFacts DEF ReadFrame, HeldOK, RefsOK
  <2>2. QueueOK'
    BY <1>23, DataFacts DEF ReadFrame, QueueOK, RefsOK, PhaseOK
  <2> QED
    BY <1>walk, <2>1, <2>2
<1>24. CASE HookReturn
  <2>1. HeldOK'
    BY <1>24, DataFacts DEF HookReturn, HeldOK, RefsOK
  <2>2. QueueOK'
    BY <1>24, DataFacts DEF HookReturn, QueueOK, RefsOK, PhaseOK
  <2> QED
    BY <1>walk, <2>1, <2>2
<1>25. CASE MainUnpin
  <2>1. HeldOK'
    BY <1>25, DataFacts DEF MainUnpin, Released, HeldOK, RefsOK
  <2>2. QueueOK'
    <3>1. /\ esnd \in Streams /\ MainPins(esnd)
          /\ mpc' = "unpinQueue" =>
               usecount[esnd] = 1 /\ reclaimed[esnd] /\ reclaim_ref[esnd] # NoRef
      BY <1>25 DEF MainUnpin
    <3>2. mpc' = "unpinQueue" => ~BufferPins(esnd)
      BY <3>1 DEF UsecountIsPins
    <3> QED
      BY <3>1, <3>2, <1>25, DataFacts DEF MainUnpin, QueueOK
  <2> QED
    BY <1>walk, <2>1, <2>2
<1>26. CASE MainUnpinQueue
  <2>1. HeldOK'
    BY <1>26, DataFacts DEF MainUnpinQueue, HeldOK, RefsOK
  <2>2. QueueOK'
    BY <1>26, DataFacts DEF MainUnpinQueue, QueueOK, RefsOK, PhaseOK
  <2> QED
    BY <1>walk, <2>1, <2>2
<1>27. CASE BufferWake
  <2>1. HeldOK'
    BY <1>27, DataFacts DEF BufferWake, HeldOK, RefsOK
  <2>2. QueueOK'
    BY <1>27, DataFacts DEF BufferWake, QueueOK, RefsOK, PhaseOK
  <2> QED
    BY <1>walk, <2>1, <2>2
<1>28. CASE BufferWalk
  <2>1. HeldOK'
    BY <1>28, DataFacts DEF BufferWalk, HeldOK, RefsOK
  <2>2. QueueOK'
    BY <1>28, DataFacts DEF BufferWalk, QueueOK, RefsOK, PhaseOK
  <2> QED
    BY <1>walk, <2>1, <2>2
<1>29. CASE BufferPinAdd
  <2>1. HeldOK'
    <3>1. bsnd \in Streams /\ refrence[bsnd] # NoRef
      BY <1>29, DataFacts DEF BufferPinAdd, WalkOK
    <3> QED
      BY <3>1, <1>29 DEF BufferPinAdd, HeldOK
  <2>2. QueueOK'
    <3>1. /\ bsnd \in Streams /\ refrence[bsnd] # NoRef /\ reclaim_ref[bsnd] = NoRef
          /\ ~reclaimed[bsnd] /\ bsnd \in DataOf(stream_list)
      BY <1>29, DataFacts DEF BufferPinAdd, WalkOK
    <3>2. mpc = "queue" => msnd # bsnd
      BY <3>1 DEF PhaseOK
    <3>3. mpc = "unpinQueue" => esnd # bsnd
      BY <3>1 DEF QueueOK
    <3> QED
      BY <3>1, <3>2, <3>3, <1>29, DataFacts DEF BufferPinAdd, QueueOK
  <2> QED
    BY <1>walk, <2>1, <2>2
<1>30. CASE BufferPinCheck
  <2>1. HeldOK'
    BY <1>30, DataFacts DEF BufferPinCheck, HeldOK, RefsOK
  <2>2. QueueOK'
    BY <1>30, DataFacts DEF BufferPinCheck, QueueOK, RefsOK, PhaseOK
  <2> QED
    BY <1>walk, <2>1, <2>2
<1>31. CASE BufferFault
  <2>1. HeldOK'
    BY <1>31, DataFacts DEF BufferFault, HeldOK, RefsOK
  <2>2. QueueOK'
    BY <1>31, DataFacts DEF BufferFault, QueueOK, RefsOK, PhaseOK
  <2> QED
    BY <1>walk, <2>1, <2>2
<1>32. CASE BufferFlags
  <2>1. HeldOK'
    BY <1>32, DataFacts DEF BufferFlags, HeldOK, RefsOK
  <2>2. QueueOK'
    BY <1>32, DataFacts DEF BufferFlags, QueueOK, RefsOK, PhaseOK
  <2> QED
    BY <1>walk, <2>1, <2>2
<1>33. CASE BufferFill
  <2>1. HeldOK'
    BY <1>33, DataFacts DEF BufferFill, HeldOK, RefsOK
  <2>2. QueueOK'
    BY <1>33, DataFacts DEF BufferFill, QueueOK, RefsOK, PhaseOK
  <2> QED
    BY <1>walk, <2>1, <2>2
<1>34. CASE BufferEof
  <2>1. HeldOK'
    BY <1>34, DataFacts DEF BufferEof, HeldOK, RefsOK
  <2>2. QueueOK'
    BY <1>34, DataFacts DEF BufferEof, QueueOK, RefsOK, PhaseOK
  <2> QED
    BY <1>walk, <2>1, <2>2
<1>35. CASE BufferUnpin
  <2>1. HeldOK'
    BY <1>35, DataFacts DEF BufferUnpin, HeldOK, RefsOK
  <2>2. QueueOK'
    BY <1>35, DataFacts DEF BufferUnpin, QueueOK, RefsOK, PhaseOK
  <2> QED
    BY <1>walk, <2>1, <2>2
<1>36. CASE BufferLoadReclaimed
  <2>1. HeldOK'
    BY <1>36, DataFacts DEF BufferLoadReclaimed, HeldOK, RefsOK
  <2>2. QueueOK'
    BY <1>36, DataFacts DEF BufferLoadReclaimed, QueueOK, RefsOK, PhaseOK
  <2> QED
    BY <1>walk, <2>1, <2>2
<1>37. CASE BufferReadRef
  <2>1. HeldOK'
    BY <1>37, DataFacts DEF BufferReadRef, HeldOK, RefsOK
  <2>2. QueueOK'
    BY <1>37, DataFacts DEF BufferReadRef, QueueOK, RefsOK, PhaseOK
  <2> QED
    BY <1>walk, <2>1, <2>2
<1>38. CASE BufferQueue
  <2>1. HeldOK'
    BY <1>38, DataFacts DEF BufferQueue, HeldOK, RefsOK
  <2>2. QueueOK'
    <3>1. /\ bsnd \in Streams /\ bpc = "queue" /\ bpc' = "resume"
          /\ reclaim_list' = list_add(reclaim_list, reclaim_ref[bsnd], bsnd)
          /\ UNCHANGED <<refrence, reclaim_ref, reclaimed, bsnd, main>>
      BY <1>38 DEF BufferQueue
    <3>2. DataOf(reclaim_list') = DataOf(reclaim_list) \cup {bsnd}
      BY <3>1, DataFacts
    <3>3. refrence[bsnd] = NoRef /\ reclaimed[bsnd]
      BY <3>1 DEF QueueOK
    <3> QED
      BY <3>1, <3>2, <3>3 DEF QueueOK
  <2> QED
    BY <1>walk, <2>1, <2>2
<1>39. CASE BufferResume
  <2>1. HeldOK'
    BY <1>39, DataFacts DEF BufferResume, HeldOK, RefsOK
  <2>2. QueueOK'
    BY <1>39, DataFacts DEF BufferResume, QueueOK, RefsOK, PhaseOK
  <2> QED
    BY <1>walk, <2>1, <2>2
<1>40. CASE UNCHANGED vars
  <2>1. HeldOK'
    BY <1>40, DataFacts DEF vars, HeldOK, RefsOK
  <2>2. QueueOK'
    BY <1>40, DataFacts DEF vars, QueueOK, RefsOK, PhaseOK
  <2> QED
    BY <1>walk, <2>1, <2>2
<1> QED
  BY <1>1, <1>2, <1>3, <1>4, <1>5, <1>6, <1>7, <1>7c, <1>8, <1>9, <1>10, <1>11, <1>12, <1>13, <1>14, <1>15, <1>16, <1>17, <1>18, <1>19, <1>20, <1>21, <1>22, <1>23, <1>24, <1>25, <1>26, <1>27, <1>28, <1>29, <1>30, <1>31, <1>32, <1>33, <1>34, <1>35, <1>36, <1>37, <1>38, <1>39, <1>40
     DEF Next, Script, Reference, Unreference, Frame, Buffer

(* A pinned stream is neither collected nor dropped from the registry      *)
(* while scripts start each stream at most once (Replays = FALSE): the     *)
(* reference an unreference moves to reclaim_ref outlives every pin        *)
(* (audio.c:338).                                                          *)
THEOREM PinsProtect == ASSUME ~Replays PROVE Spec => []PinProtects
<1>1. Init => PinInv
  BY StreamsAssumption
     DEF Init, PinInv, WalkOK, HeldOK, QueueOK, BufferPins, MainPins, DataOf, NoRef
<1>2. IInv /\ UsecountIsPins /\ PinInv /\ [Next]_vars => PinInv'
  BY PinNext
<1>3. IInv /\ PinInv => PinProtects
  <2> SUFFICES ASSUME IInv, PinInv, NEW s \in Streams, BufferPins(s) \/ MainPins(s)
               PROVE  life[s] = "live" /\ Registered(s)
    BY DEF PinProtects
  <2>1. refrence[s] # NoRef \/ reclaim_ref[s] # NoRef
    BY DEF PinInv, HeldOK
  <2> QED
    BY <2>1 DEF IInv, Typed, StreamsTyped, RefsOK, Registered
<1> QED
  BY <1>1, <1>2, <1>3, Invariance, UsecountCounts, PTL DEF Spec

-----------------------------------------------------------------------------
(* No reclaimed stream is forgotten, whatever scripts do.                  *)

(* A thread is at a point from which it queues s, or finds that the other  *)
(* one has s pinned and will.                                              *)
Handled(s) ==
    \/ msnd = s /\ mpc \in {"check", "queue", "retake"}
    \/ esnd = s /\ mpc = "unpinQueue"
    \/ MainPins(s)
    \/ bsnd = s /\ bpc \in Reading

(* Whoever has a reclaim_ref is queued under this very slot, or about to.  *)
ReclaimOK ==
    \A s \in Streams : reclaim_ref[s] # NoRef =>
        Node(reclaim_ref[s], s) \in NodesOf(reclaim_list) \/ Handled(s)

(* What is queued stays queued when another node is added or removed.      *)
LEMMA QueueFacts ==
    ASSUME IInv
    PROVE  /\ \A i \in Refs \cup {NoRef}, s \in Streams :
                NodesOf(list_add(reclaim_list, i, s)) = NodesOf(reclaim_list) \cup {Node(i, s)}
           /\ \A i, n : n \in NodesOf(reclaim_list) /\ n.index # i =>
                n \in NodesOf(list_remove(reclaim_list, i))
           /\ reclaim_list # <<>> =>
                /\ Head(reclaim_list).data \in Streams
                /\ NodesOf(reclaim_list) \ {Head(reclaim_list)}
                     \subseteq NodesOf(list_remove(reclaim_list, Head(reclaim_list).index))
<1> DEFINE R == [index : Refs \cup {NoRef}, data : Streams]
<1>1. reclaim_list \in Seq(R)
  BY DEF IInv, Typed, ListsTyped
<1>2. \A i \in Refs \cup {NoRef}, s \in Streams : Node(i, s) \in R
  BY DEF Node
<1>3. \A n \in R : n.data \in Streams
  OBVIOUS
<1> HIDE DEF R
<1>4. \A i \in Refs \cup {NoRef}, s \in Streams :
        NodesOf(list_add(reclaim_list, i, s)) = NodesOf(reclaim_list) \cup {Node(i, s)}
  BY <1>1, <1>2, AddNodes
<1>5. \A i, n : n \in NodesOf(reclaim_list) /\ n.index # i =>
        n \in NodesOf(list_remove(reclaim_list, i))
  BY <1>1, RemoveKeeps
<1>6. reclaim_list # <<>> =>
        /\ Head(reclaim_list).data \in Streams
        /\ NodesOf(reclaim_list) \ {Head(reclaim_list)}
             \subseteq NodesOf(list_remove(reclaim_list, Head(reclaim_list).index))
  BY <1>1, <1>3, RemoveKeeps
<1> QED
  BY <1>4, <1>5, <1>6

(* Every step keeps each reclaimed stream in somebody's hands.             *)
LEMMA ReclaimNext ==
    ASSUME IInv, UsecountIsPins, WalkOK, ReclaimOK, [Next]_vars
    PROVE  ReclaimOK'
<1> USE StreamsAssumption
    DEF IInv, Typed, StreamsTyped, ControlTyped, CallsOK, ReferenceLabels, UnreferenceLabels,
        MainLabels, BufferLabels, NoRef, fields, lua, lists, locks, main, buffer,
        Main, Call, Return, BufferThread, BufferReads
<1>1. ASSUME NEW s \in Streams, Open(s) PROVE ReclaimOK'
  BY <1>1, DataFacts DEF Open, ReclaimOK, Handled, MainPins, Reading, RefsOK
<1>2. ASSUME NEW s \in Streams, Play(s) PROVE ReclaimOK'
  BY <1>2, DataFacts DEF Play, MayCall, ReclaimOK, Handled, MainPins, Reading, RefsOK
<1>3. ASSUME NEW s \in Streams, Pause(s) PROVE ReclaimOK'
  BY <1>3, DataFacts DEF Pause, ReclaimOK, Handled, MainPins, Reading, RefsOK
<1>4. ASSUME NEW s \in Streams, Stop(s) PROVE ReclaimOK'
  BY <1>4, DataFacts DEF Stop, MayCall, ReclaimOK, Handled, MainPins, Reading, RefsOK
<1>5. ASSUME NEW s \in Streams, Forget(s) PROVE ReclaimOK'
  BY <1>5, DataFacts DEF Forget, ReclaimOK, Handled, MainPins, Reading, RefsOK
<1>6. ASSUME NEW s \in Streams, Collect(s) PROVE ReclaimOK'
  BY <1>6, DataFacts DEF Collect, ReclaimOK, Handled, MainPins, Reading, RefsOK
<1>7. CASE Async
  BY <1>7, DataFacts DEF Async, ReclaimOK, Handled, MainPins, Reading, RefsOK
<1>7c. CASE Connect
  BY <1>7c, DataFacts DEF Connect, ReclaimOK, Handled, MainPins, Reading, RefsOK
<1>8. CASE Revive
  BY <1>8, DataFacts DEF Revive, ReclaimOK, Handled, MainPins, Reading, RefsOK
<1>9. CASE Retake
  BY <1>9, DataFacts DEF Retake, ReclaimOK, Handled, MainPins, Reading, RefsOK
<1>10. CASE Dequeue
  <2>1. /\ msnd \in Streams /\ refrence[msnd] # NoRef /\ mpc = "dequeue" /\ mpc' = "enlist"
        /\ reclaim_list' = list_remove(reclaim_list, refrence[msnd])
        /\ UNCHANGED <<reclaim_ref, msnd, mret, esnd, bsnd, bpc>>
    BY <1>10 DEF Dequeue, PhaseOK
  <2>2. ASSUME NEW s \in Streams, reclaim_ref[s] # NoRef
        PROVE  reclaim_ref[s] # refrence[msnd]
    BY <2>1, <2>2 DEF RefsOK
  <2>3. \A s \in Streams : Node(reclaim_ref[s], s).index = reclaim_ref[s]
    BY DEF Node
  <2>4. ASSUME NEW s \in Streams, Handled(s) PROVE Handled(s)'
    BY <2>1, <2>4 DEF Handled, MainPins
  <2>5. ASSUME NEW s \in Streams, reclaim_ref[s] # NoRef,
               Node(reclaim_ref[s], s) \in NodesOf(reclaim_list)
        PROVE  Node(reclaim_ref[s], s) \in NodesOf(reclaim_list')
    BY <2>1, <2>2, <2>3, <2>5, QueueFacts
  <2> QED
    BY <2>1, <2>4, <2>5 DEF ReclaimOK
<1>11. CASE Enlist
  <2>1. UNCHANGED <<reclaim_ref, reclaim_list, bsnd, bpc, esnd>> /\ mpc = "enlist" /\ mpc' = mret
    BY <1>11 DEF Enlist
  <2> QED
    BY <2>1 DEF ReclaimOK, Handled, MainPins
<1>12. CASE Lock
  BY <1>12, DataFacts DEF Lock, ReclaimOK, Handled, MainPins, Reading, RefsOK
<1>13. CASE Unlist
  BY <1>13, DataFacts DEF Unlist, ReclaimOK, Handled, MainPins, Reading, RefsOK
<1>14. CASE MarkReclaimed
  BY <1>14, DataFacts DEF MarkReclaimed, ReclaimOK, Handled, MainPins, Reading, RefsOK
<1>15. CASE Transfer
  BY <1>15, DataFacts DEF Transfer, ReclaimOK, Handled, MainPins, Reading, RefsOK
<1>16. CASE CheckPins
  <2>1. \A s : MainPins(s) => MainPins(s)'
    BY <1>16 DEF CheckPins, MainPins
  <2>2. msnd \in Streams /\ msnd \notin DataOf(stream_list) /\ UNCHANGED <<reclaim_list, reclaim_ref, buffer>>
    BY <1>16, ListFacts DEF CheckPins, PhaseOK
  <2>3. reclaim_ref[msnd] # NoRef => (mpc' = "queue" /\ msnd' = msnd) \/ BufferPins(msnd) \/ MainPins(msnd)
    BY <1>16, <2>2 DEF CheckPins, Unpinned, UsecountIsPins, Refs
  <2>4. BufferPins(msnd) => bsnd = msnd /\ bpc \in Reading
    BY <2>2 DEF BufferPins, WalkOK, Reading
  <2>5. \A s \in Streams : reclaim_ref[s] # NoRef /\ Handled(s) => Handled(s)'
    BY <2>1, <2>2, <2>3, <2>4, <1>16 DEF CheckPins, Handled, Reading
  <2> QED
    BY <2>2, <2>5 DEF ReclaimOK
<1>17. CASE QueueReclaim
  <2>1. NodesOf(reclaim_list') = NodesOf(reclaim_list) \cup {Node(reclaim_ref[msnd], msnd)}
    BY <1>17, QueueFacts DEF QueueReclaim
  <2> QED
    BY <2>1, <1>17 DEF QueueReclaim, Unlock, ReclaimOK, Handled, MainPins, Reading, PhaseOK
<1>18. CASE CleanOne
  <2> DEFINE d == Head(reclaim_list).data
  <2>1. /\ reclaim_list # <<>> /\ d \in Streams
        /\ reclaim_list' = list_remove(reclaim_list, Head(reclaim_list).index)
        /\ NodesOf(reclaim_list) \ {Head(reclaim_list)} \subseteq NodesOf(reclaim_list')
    BY <1>18, QueueFacts DEF CleanOne
  <2>2. /\ \A s \in Streams : reclaim_ref'[s] # NoRef => reclaim_ref'[s] = reclaim_ref[s]
        /\ reclaim_ref'[d] = NoRef
        /\ UNCHANGED <<main, buffer>>
    BY <2>1, <1>18 DEF CleanOne, RefsOK, Refs
  <2>3. ASSUME NEW s \in Streams, Handled(s) PROVE Handled(s)'
    BY <2>2, <2>3 DEF Handled, MainPins
  <2>4. \A s \in Streams \ {d} : Node(reclaim_ref[s], s) # Head(reclaim_list)
    BY DEF Node
  <2>5. ASSUME NEW s \in Streams, reclaim_ref'[s] # NoRef
        PROVE  (Node(reclaim_ref[s], s) \in NodesOf(reclaim_list) \/ Handled(s))'
    BY <2>1, <2>2, <2>3, <2>4, <2>5 DEF ReclaimOK
  <2> QED
    BY <2>5 DEF ReclaimOK
<1>19. CASE CleanDone
  BY <1>19, DataFacts DEF CleanDone, ReclaimOK, Handled, MainPins, Reading, RefsOK
<1>20. CASE WalkOne
  BY <1>20, DataFacts DEF WalkOne, Successor, ReclaimOK, Handled, MainPins, Reading, RefsOK
<1>21. CASE WalkFault
  BY <1>21, DataFacts DEF WalkFault, ReclaimOK, Handled, MainPins, Reading, RefsOK
<1>22. CASE WalkDone
  BY <1>22, DataFacts DEF WalkDone, ReclaimOK, Handled, MainPins, Reading, RefsOK
<1>23. CASE ReadFrame
  BY <1>23, DataFacts DEF ReadFrame, ReclaimOK, Handled, MainPins, Reading, RefsOK
<1>24. CASE HookReturn
  BY <1>24, DataFacts DEF HookReturn, ReclaimOK, Handled, MainPins, Reading, RefsOK
<1>25. CASE MainUnpin
  <2>1. /\ esnd \in Streams /\ MainPins(esnd) /\ mret = "lua"
        /\ mpc = "unpin" /\ mpc' \in {"unpinQueue", "walk"}
        /\ UNCHANGED <<reclaim_list, reclaim_ref, esnd, buffer>>
    BY <1>25 DEF MainUnpin, MainPins
  <2>2. reclaim_ref[esnd] # NoRef => reclaimed[esnd] /\ refrence[esnd] = NoRef
    BY <2>1 DEF RefsOK
  <2>3. reclaim_ref[esnd] # NoRef => mpc' = "unpinQueue" \/ BufferPins(esnd)
    BY <2>1, <2>2, <1>25 DEF MainUnpin, UsecountIsPins, Refs
  <2>4. BufferPins(esnd) /\ reclaim_ref[esnd] # NoRef => bsnd = esnd /\ bpc \in Reading
    BY <2>1, <2>2, DataFacts DEF BufferPins, WalkOK, Reading
  <2>5. \A s \in Streams : reclaim_ref[s] # NoRef /\ Handled(s) => Handled(s)'
    BY <2>1, <2>3, <2>4 DEF Handled, MainPins, Reading
  <2> QED
    BY <2>1, <2>5 DEF ReclaimOK
<1>26. CASE MainUnpinQueue
  <2>1. NodesOf(reclaim_list') = NodesOf(reclaim_list) \cup {Node(reclaim_ref[esnd], esnd)}
    BY <1>26, QueueFacts DEF MainUnpinQueue
  <2> QED
    BY <2>1, <1>26 DEF MainUnpinQueue, Unlock, ReclaimOK, Handled, MainPins, Reading, PhaseOK
<1>27. CASE BufferWake
  BY <1>27, DataFacts DEF BufferWake, ReclaimOK, Handled, MainPins, Reading, RefsOK
<1>28. CASE BufferWalk
  BY <1>28, DataFacts DEF BufferWalk, ReclaimOK, Handled, MainPins, Reading, RefsOK
<1>29. CASE BufferPinAdd
  BY <1>29, DataFacts DEF BufferPinAdd, ReclaimOK, Handled, MainPins, Reading, RefsOK
<1>30. CASE BufferPinCheck
  BY <1>30, DataFacts DEF BufferPinCheck, ReclaimOK, Handled, MainPins, Reading, RefsOK
<1>31. CASE BufferFault
  BY <1>31, DataFacts DEF BufferFault, ReclaimOK, Handled, MainPins, Reading, RefsOK
<1>32. CASE BufferFlags
  BY <1>32, DataFacts DEF BufferFlags, ReclaimOK, Handled, MainPins, Reading, RefsOK
<1>33. CASE BufferFill
  BY <1>33, DataFacts DEF BufferFill, ReclaimOK, Handled, MainPins, Reading, RefsOK
<1>34. CASE BufferEof
  BY <1>34, DataFacts DEF BufferEof, ReclaimOK, Handled, MainPins, Reading, RefsOK
<1>35. CASE BufferUnpin
  <2>1. /\ bsnd \in Streams /\ BufferPins(bsnd)
        /\ bpc = "unpin" /\ bpc' \in {"loadReclaimed", "resume"}
        /\ UNCHANGED <<reclaim_list, reclaim_ref, bsnd, main>>
    BY <1>35 DEF BufferUnpin, BufferPins
  <2>2. bpc' = "loadReclaimed" \/ MainPins(bsnd)
    BY <2>1, <1>35 DEF BufferUnpin, UsecountIsPins
  <2>3. \A s \in Streams : Handled(s) => Handled(s)'
    BY <2>1, <2>2 DEF Handled, MainPins, Reading
  <2> QED
    BY <2>1, <2>3 DEF ReclaimOK
<1>36. CASE BufferLoadReclaimed
  BY <1>36, DataFacts DEF BufferLoadReclaimed, ReclaimOK, Handled, MainPins, Reading, RefsOK
<1>37. CASE BufferReadRef
  BY <1>37, DataFacts DEF BufferReadRef, ReclaimOK, Handled, MainPins, Reading, RefsOK, Refs
<1>38. CASE BufferQueue
  <2>1. NodesOf(reclaim_list') = NodesOf(reclaim_list) \cup {Node(reclaim_ref[bsnd], bsnd)}
    BY <1>38, QueueFacts DEF BufferQueue
  <2> QED
    BY <2>1, <1>38 DEF BufferQueue, Unlock, ReclaimOK, Handled, MainPins, Reading, PhaseOK
<1>39. CASE BufferResume
  BY <1>39, DataFacts DEF BufferResume, ReclaimOK, Handled, MainPins, Reading, RefsOK
<1>40. CASE UNCHANGED vars
  BY <1>40, DataFacts DEF vars, ReclaimOK, Handled, MainPins, Reading, RefsOK
<1> QED
  BY <1>1, <1>2, <1>3, <1>4, <1>5, <1>6, <1>7, <1>7c, <1>8, <1>9, <1>10, <1>11, <1>12, <1>13, <1>14, <1>15, <1>16, <1>17, <1>18, <1>19, <1>20, <1>21, <1>22, <1>23, <1>24, <1>25, <1>26, <1>27, <1>28, <1>29, <1>30, <1>31, <1>32, <1>33, <1>34, <1>35, <1>36, <1>37, <1>38, <1>39, <1>40
     DEF Next, Script, Reference, Unreference, Frame, Buffer

(* A stream that was stopped or ended, and that no thread is at work on,   *)
(* waits in reclaim_list for its release (audio.c:37, audio.c:346): no     *)
(* order in which the two threads unpin it, and no script, makes both      *)
(* leave the queueing to the other.                                        *)
THEOREM NothingIsForgotten == Spec => []NoLostReclaim
<1>1. Init => WalkOK /\ ReclaimOK
  BY StreamsAssumption DEF Init, WalkOK, ReclaimOK, DataOf, NoRef
<1>2. IInv /\ WalkOK /\ [Next]_vars => WalkOK'
  BY WalkNext
<1>3. IInv /\ UsecountIsPins /\ WalkOK /\ ReclaimOK /\ [Next]_vars => ReclaimOK'
  BY ReclaimNext
<1>4. IInv /\ ReclaimOK => NoLostReclaim
  <2> SUFFICES ASSUME IInv, ReclaimOK, NEW s \in Streams, reclaim_ref[s] > NoRef,
                      mpc = "lua", bpc = "sleep"
               PROVE  s \in DataOf(reclaim_list)
    BY DEF NoLostReclaim
  <2>1. ~Handled(s) /\ reclaim_ref[s] # NoRef
    BY DEF IInv, CallsOK, ReferenceLabels, UnreferenceLabels, Handled, MainPins, Reading, NoRef
  <2>2. Node(reclaim_ref[s], s) \in NodesOf(reclaim_list)
    BY <2>1 DEF ReclaimOK
  <2> QED
    BY <2>2 DEF NodesOf, DataOf, Node
<1> QED
  BY <1>1, <1>2, <1>3, <1>4, Invariance, UsecountCounts, PTL DEF Spec

-----------------------------------------------------------------------------
(* A stream that was started goes on.                                      *)

(* A referenced stream is linked but for the steps between the two; what   *)
(* plays on request is linked or on its way into the list; and what is     *)
(* unreferenced, or has come to its end, was not asked to play since.      *)
PlayOK ==
    /\ \A s \in Streams : refrence[s] # NoRef =>
         \/ s \in DataOf(stream_list)
         \/ msnd = s /\ mpc \in {"dequeue", "enlist", "mark", "transfer"}
    /\ \A s \in Streams : asked[s] = "play" =>
         /\ playing[s]
         /\ s \in DataOf(stream_list) \/ (msnd = s /\ mpc \in ReferenceLabels)
    /\ mpc \in UnreferenceLabels => asked[msnd] # "play"
    /\ mpc = "hook" \/ mret = "hook" => asked[esnd] # "play"

(* Every step keeps what was asked to play linked and playing.             *)
LEMMA PlayNext ==
    ASSUME "replay" \notin HookCalls, IInv, PlayOK, [Next]_vars
    PROVE  PlayOK'
<1> USE StreamsAssumption
    DEF IInv, Typed, StreamsTyped, ControlTyped, CallsOK, ReferenceLabels, UnreferenceLabels,
        MainLabels, BufferLabels, NoRef, fields, lua, lists, locks, main, buffer,
        Main, Call, Return, BufferThread, BufferReads
<1>1. ASSUME NEW s \in Streams, Open(s) PROVE PlayOK'
  BY <1>1, DataFacts DEF Open, PlayOK
<1>2. ASSUME NEW s \in Streams, Play(s) PROVE PlayOK'
  <2>1. /\ mpc \in {"lua", "hook"} /\ mret = "lua" /\ (mpc = "hook" => s # esnd)
        /\ playing' = [playing EXCEPT ![s] = TRUE] /\ asked' = [asked EXCEPT ![s] = "play"]
        /\ UNCHANGED <<refrence, stream_list, esnd>>
        /\ \/ refrence[s] # NoRef /\ UNCHANGED <<mpc, msnd, mret>>
           \/ mpc' \in {"revive", "enlist"} /\ msnd' = s /\ mret' = mpc
    BY <1>2 DEF Play, MayCall
  <2>2. refrence[s] # NoRef => s \in DataOf(stream_list)
    BY <2>1 DEF PlayOK
  <2> QED
    BY <2>1, <2>2 DEF PlayOK
<1>3. ASSUME NEW s \in Streams, Pause(s) PROVE PlayOK'
  BY <1>3, DataFacts DEF Pause, PlayOK
<1>4. ASSUME NEW s \in Streams, Stop(s) PROVE PlayOK'
  BY <1>4, DataFacts DEF Stop, MayCall, PlayOK
<1>5. ASSUME NEW s \in Streams, Forget(s) PROVE PlayOK'
  BY <1>5, DataFacts DEF Forget, PlayOK
<1>6. ASSUME NEW s \in Streams, Collect(s) PROVE PlayOK'
  BY <1>6, DataFacts DEF Collect, PlayOK
<1>7. CASE Async
  BY <1>7, DataFacts DEF Async, PlayOK
<1>7c. CASE Connect
  BY <1>7c, DataFacts DEF Connect, PlayOK
<1>8. CASE Revive
  BY <1>8, DataFacts DEF Revive, PlayOK
<1>9. CASE Retake
  BY <1>9, DataFacts DEF Retake, PlayOK
<1>10. CASE Dequeue
  BY <1>10, DataFacts DEF Dequeue, PlayOK
<1>11. CASE Enlist
  <2>1. /\ msnd \in Streams /\ mpc = "enlist" /\ mpc' = mret /\ mret \in {"lua", "hook"}
        /\ UNCHANGED <<playing, asked, esnd>> /\ mret' = "lua"
    BY <1>11 DEF Enlist
  <2>2. \A s \in Streams \ {msnd} : refrence'[s] = refrence[s]
    BY <1>11 DEF Enlist, Register
  <2>3. DataOf(stream_list') = DataOf(stream_list) \cup {msnd}
    <3>1. refrence'[msnd] \in Refs /\ stream_list' = list_add(stream_list, refrence'[msnd], msnd)
      BY <2>1, <1>11 DEF Enlist, Register, Refs
    <3> QED
      BY <2>1, <3>1, DataFacts
  <2> QED
    BY <2>1, <2>2, <2>3 DEF PlayOK
<1>12. CASE Lock
  BY <1>12, DataFacts DEF Lock, PlayOK
<1>13. CASE Unlist
  <2>1. /\ msnd \in Streams /\ asked[msnd] # "play" /\ mpc = "unlist" /\ mpc' = "mark"
        /\ UNCHANGED <<refrence, playing, asked, msnd, mret, esnd>>
    BY <1>13 DEF Unlist, PlayOK
  <2>2. DataOf(stream_list) \ {msnd} \subseteq DataOf(stream_list')
    BY <2>1, <1>13, DataFacts DEF Unlist
  <2> QED
    BY <2>1, <2>2 DEF PlayOK
<1>14. CASE MarkReclaimed
  BY <1>14, DataFacts DEF MarkReclaimed, PlayOK
<1>15. CASE Transfer
  <2>1. /\ msnd \in Streams /\ asked[msnd] # "play" /\ mpc = "transfer" /\ mpc' = "check"
        /\ UNCHANGED <<stream_list, asked, msnd, mret, esnd>>
        /\ playing' = [playing EXCEPT ![msnd] = FALSE]
    BY <1>15 DEF Transfer, PlayOK
  <2>2. refrence'[msnd] = NoRef /\ \A s \in Streams \ {msnd} : refrence'[s] = refrence[s]
    BY <2>1, <1>15 DEF Transfer, Refs
  <2> QED
    BY <2>1, <2>2 DEF PlayOK
<1>16. CASE CheckPins
  BY <1>16, DataFacts DEF CheckPins, Unpinned, Unlock, PlayOK
<1>17. CASE QueueReclaim
  BY <1>17, DataFacts DEF QueueReclaim, Unlock, PlayOK
<1>18. CASE CleanOne
  BY <1>18, DataFacts DEF CleanOne, PlayOK
<1>19. CASE CleanDone
  BY <1>19, DataFacts DEF CleanDone, PlayOK
<1>20. CASE WalkOne
  BY <1>20, DataFacts DEF WalkOne, Successor, PlayOK
<1>21. CASE WalkFault
  BY <1>21, DataFacts DEF WalkFault, PlayOK
<1>22. CASE WalkDone
  BY <1>22, DataFacts DEF WalkDone, PlayOK
<1>23. CASE ReadFrame
  BY <1>23, DataFacts DEF ReadFrame, PlayOK
<1>24. CASE HookReturn
  BY <1>24, DataFacts DEF HookReturn, PlayOK
<1>25. CASE MainUnpin
  BY <1>25, DataFacts DEF MainUnpin, Released, PlayOK
<1>26. CASE MainUnpinQueue
  BY <1>26, DataFacts DEF MainUnpinQueue, PlayOK
<1>27. CASE BufferWake
  BY <1>27, DataFacts DEF BufferWake, PlayOK
<1>28. CASE BufferWalk
  BY <1>28, DataFacts DEF BufferWalk, PlayOK
<1>29. CASE BufferPinAdd
  BY <1>29, DataFacts DEF BufferPinAdd, PlayOK
<1>30. CASE BufferPinCheck
  BY <1>30, DataFacts DEF BufferPinCheck, PlayOK
<1>31. CASE BufferFault
  BY <1>31, DataFacts DEF BufferFault, PlayOK
<1>32. CASE BufferFlags
  BY <1>32, DataFacts DEF BufferFlags, PlayOK
<1>33. CASE BufferFill
  BY <1>33, DataFacts DEF BufferFill, PlayOK
<1>34. CASE BufferEof
  BY <1>34, DataFacts DEF BufferEof, PlayOK
<1>35. CASE BufferUnpin
  BY <1>35, DataFacts DEF BufferUnpin, PlayOK
<1>36. CASE BufferLoadReclaimed
  BY <1>36, DataFacts DEF BufferLoadReclaimed, PlayOK
<1>37. CASE BufferReadRef
  BY <1>37, DataFacts DEF BufferReadRef, PlayOK
<1>38. CASE BufferQueue
  BY <1>38, DataFacts DEF BufferQueue, PlayOK
<1>39. CASE BufferResume
  BY <1>39, DataFacts DEF BufferResume, PlayOK
<1>40. CASE UNCHANGED vars
  BY <1>40, DataFacts DEF vars, PlayOK
<1> QED
  BY <1>1, <1>2, <1>3, <1>4, <1>5, <1>6, <1>7, <1>7c, <1>8, <1>9, <1>10, <1>11, <1>12, <1>13, <1>14, <1>15, <1>16, <1>17, <1>18, <1>19, <1>20, <1>21, <1>22, <1>23, <1>24, <1>25, <1>26, <1>27, <1>28, <1>29, <1>30, <1>31, <1>32, <1>33, <1>34, <1>35, <1>36, <1>37, <1>38, <1>39, <1>40
     DEF Next, Script, Reference, Unreference, Frame, Buffer

(* play is never undone by what either thread had begun (audio.c:269,      *)
(* audiostream.c:35): a stream that a script started plays on and is       *)
(* linked until it ends or a later request stops it.  A script that        *)
(* restarts the stream from within its own OnAudioStreamEnd, which is      *)
(* undone by the end, is left out.                                         *)
THEOREM StartedPlaysOn == ASSUME "replay" \notin HookCalls PROVE Spec => []PlayHonoured
<1>1. Init => PlayOK
  BY StreamsAssumption DEF Init, PlayOK, NoRef, UnreferenceLabels
<1>2. IInv /\ PlayOK /\ [Next]_vars => PlayOK'
  BY PlayNext
<1>3. IInv /\ PlayOK => PlayHonoured
  BY DEF PlayOK, PlayHonoured, ReferenceLabels
<1> QED
  BY <1>1, <1>2, <1>3, Invariance, PTL DEF Spec

-----------------------------------------------------------------------------
(* The loops over stream_list and the mutex of a stream, as long as no     *)
(* stream is stopped from within OnAudioStreamEnd.                         *)

(* The node a loop saved is never that of the stream it handles, the only  *)
(* one that is unlinked before it goes on.                                 *)
SavedOK ==
    /\ mret = "hook" => mpc \notin UnreferenceLabels
    /\ enext # Dangling
    /\ \/ mpc \in {"lua", "clean"}
       \/ mret = "lua" /\ mpc \in ReferenceLabels \cup UnreferenceLabels
       => enext = None
    /\ mpc \in {"read", "hook"} \/ mret \in {"hook", "unpin"} => enext # esnd

(* The main thread holds the mutex of the stream that ends, or of the one  *)
(* it unreferences, and no other.                                          *)
MutexOK ==
    \A s \in Streams : smutex[s] = "main" =>
        \/ esnd = s /\ (mpc = "hook" \/ mret = "hook")
        \/ msnd = s /\ mpc \in UnreferenceLabels \ {"lock"}

(* Every step keeps the saved node and the mutexes in order.               *)
LEMMA SavedNext ==
    ASSUME "stop" \notin HookCalls, IInv, SavedOK, MutexOK, [Next]_vars
    PROVE  (SavedOK /\ MutexOK)'
<1> USE StreamsAssumption
    DEF IInv, Typed, StreamsTyped, ControlTyped, CallsOK, ReferenceLabels, UnreferenceLabels,
        MainLabels, BufferLabels, NoRef, fields, lua, lists, locks, main, buffer,
        Main, Call, Return, BufferThread, BufferReads
<1>next. \A d \in Streams : NextData(stream_list, d, None) # d
  <2>1. stream_list \in Seq([index : Refs, data : Streams])
    BY DEF ListsTyped
  <2>2. \A j, k \in DOMAIN stream_list : stream_list[j].data = stream_list[k].data => j = k
    BY ListFacts
  <2> QED
    BY <2>1, <2>2, NextDiffers
<1>data. /\ HeadData(stream_list, None) \in Streams \cup {None}
         /\ \A d : NextData(stream_list, d, None) \in Streams \cup {None}
  BY DataFacts
<1>1. ASSUME NEW s \in Streams, Open(s) PROVE (SavedOK /\ MutexOK)'
  BY <1>1, <1>next, <1>data DEF Open, SavedOK, MutexOK
<1>2. ASSUME NEW s \in Streams, Play(s) PROVE (SavedOK /\ MutexOK)'
  BY <1>2, <1>next, <1>data DEF Play, MayCall, SavedOK, MutexOK
<1>3. ASSUME NEW s \in Streams, Pause(s) PROVE (SavedOK /\ MutexOK)'
  BY <1>3, <1>next, <1>data DEF Pause, SavedOK, MutexOK
<1>4. ASSUME NEW s \in Streams, Stop(s) PROVE (SavedOK /\ MutexOK)'
  BY <1>4, <1>next, <1>data DEF Stop, MayCall, SavedOK, MutexOK
<1>5. ASSUME NEW s \in Streams, Forget(s) PROVE (SavedOK /\ MutexOK)'
  BY <1>5, <1>next, <1>data DEF Forget, SavedOK, MutexOK
<1>6. ASSUME NEW s \in Streams, Collect(s) PROVE (SavedOK /\ MutexOK)'
  BY <1>6, <1>next, <1>data DEF Collect, SavedOK, MutexOK
<1>7. CASE Async
  BY <1>7, <1>next, <1>data DEF Async, SavedOK, MutexOK
<1>7c. CASE Connect
  BY <1>7c, <1>next, <1>data DEF Connect, SavedOK, MutexOK
<1>8. CASE Revive
  BY <1>8, <1>next, <1>data DEF Revive, SavedOK, MutexOK
<1>9. CASE Retake
  BY <1>9, <1>next, <1>data DEF Retake, SavedOK, MutexOK
<1>10. CASE Dequeue
  BY <1>10, <1>next, <1>data DEF Dequeue, SavedOK, MutexOK
<1>11. CASE Enlist
  BY <1>11, <1>next, <1>data DEF Enlist, Register, SavedOK, MutexOK
<1>12. CASE Lock
  BY <1>12, <1>next, <1>data DEF Lock, SavedOK, MutexOK
<1>13. CASE Unlist
  BY <1>13, <1>next, <1>data DEF Unlist, SavedOK, MutexOK
<1>14. CASE MarkReclaimed
  BY <1>14, <1>next, <1>data DEF MarkReclaimed, SavedOK, MutexOK
<1>15. CASE Transfer
  BY <1>15, <1>next, <1>data DEF Transfer, SavedOK, MutexOK
<1>16. CASE CheckPins
  BY <1>16, <1>next, <1>data DEF CheckPins, Unpinned, Unlock, SavedOK, MutexOK
<1>17. CASE QueueReclaim
  BY <1>17, <1>next, <1>data DEF QueueReclaim, Unlock, SavedOK, MutexOK
<1>18. CASE CleanOne
  BY <1>18, <1>next, <1>data DEF CleanOne, SavedOK, MutexOK
<1>19. CASE CleanDone
  BY <1>19, <1>next, <1>data DEF CleanDone, SavedOK, MutexOK
<1>20. CASE WalkOne
  BY <1>20, <1>next, <1>data DEF WalkOne, Successor, SavedOK, MutexOK
<1>21. CASE WalkFault
  BY <1>21, <1>next, <1>data DEF WalkFault, SavedOK, MutexOK
<1>22. CASE WalkDone
  BY <1>22, <1>next, <1>data DEF WalkDone, SavedOK, MutexOK
<1>23. CASE ReadFrame
  BY <1>23, <1>next, <1>data DEF ReadFrame, SavedOK, MutexOK
<1>24. CASE HookReturn
  BY <1>24, <1>next, <1>data DEF HookReturn, SavedOK, MutexOK
<1>25. CASE MainUnpin
  BY <1>25, <1>next, <1>data DEF MainUnpin, Released, SavedOK, MutexOK
<1>26. CASE MainUnpinQueue
  BY <1>26, <1>next, <1>data DEF MainUnpinQueue, SavedOK, MutexOK
<1>27. CASE BufferWake
  BY <1>27, <1>next, <1>data DEF BufferWake, SavedOK, MutexOK
<1>28. CASE BufferWalk
  BY <1>28, <1>next, <1>data DEF BufferWalk, SavedOK, MutexOK
<1>29. CASE BufferPinAdd
  BY <1>29, <1>next, <1>data DEF BufferPinAdd, SavedOK, MutexOK
<1>30. CASE BufferPinCheck
  BY <1>30, <1>next, <1>data DEF BufferPinCheck, SavedOK, MutexOK
<1>31. CASE BufferFault
  BY <1>31, <1>next, <1>data DEF BufferFault, SavedOK, MutexOK
<1>32. CASE BufferFlags
  BY <1>32, <1>next, <1>data DEF BufferFlags, SavedOK, MutexOK
<1>33. CASE BufferFill
  BY <1>33, <1>next, <1>data DEF BufferFill, SavedOK, MutexOK
<1>34. CASE BufferEof
  BY <1>34, <1>next, <1>data DEF BufferEof, SavedOK, MutexOK
<1>35. CASE BufferUnpin
  BY <1>35, <1>next, <1>data DEF BufferUnpin, SavedOK, MutexOK
<1>36. CASE BufferLoadReclaimed
  BY <1>36, <1>next, <1>data DEF BufferLoadReclaimed, SavedOK, MutexOK
<1>37. CASE BufferReadRef
  BY <1>37, <1>next, <1>data DEF BufferReadRef, SavedOK, MutexOK
<1>38. CASE BufferQueue
  BY <1>38, <1>next, <1>data DEF BufferQueue, SavedOK, MutexOK
<1>39. CASE BufferResume
  BY <1>39, <1>next, <1>data DEF BufferResume, SavedOK, MutexOK
<1>40. CASE UNCHANGED vars
  BY <1>40, <1>next, <1>data DEF vars, SavedOK, MutexOK
<1> QED
  BY <1>1, <1>2, <1>3, <1>4, <1>5, <1>6, <1>7, <1>7c, <1>8, <1>9, <1>10, <1>11, <1>12, <1>13, <1>14, <1>15, <1>16, <1>17, <1>18, <1>19, <1>20, <1>21, <1>22, <1>23, <1>24, <1>25, <1>26, <1>27, <1>28, <1>29, <1>30, <1>31, <1>32, <1>33, <1>34, <1>35, <1>36, <1>37, <1>38, <1>39, <1>40
     DEF Next, Script, Reference, Unreference, Frame, Buffer

(* Neither the mixing loop nor bitrate_warning goes on from a node that    *)
(* was freed while inner_mutex was released (audio.c:988, audio.c:725).    *)
THEOREM LoopsGoOnLinked == ASSUME "stop" \notin HookCalls PROVE Spec => []NoDanglingNext
<1>1. Init => SavedOK /\ MutexOK
  BY StreamsAssumption DEF Init, SavedOK, MutexOK, UnreferenceLabels, ReferenceLabels
<1>2. IInv /\ SavedOK /\ MutexOK /\ [Next]_vars => SavedOK' /\ MutexOK'
  BY SavedNext
<1>3. SavedOK => NoDanglingNext
  BY DEF SavedOK, NoDanglingNext
<1> QED
  BY <1>1, <1>2, <1>3, Invariance, PTL DEF Spec
=============================================================================
