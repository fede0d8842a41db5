-------------------------- MODULE ServerStateProofs --------------------------
(***************************************************************************)
(* The proofs about ServerState: that lists and tables agree, that the     *)
(* client's state follows the server's, and that the hooks tell the truth, *)
(* for any users and channels and any number of changes and packets.       *)
(*                                                                         *)
(* The invariant of ServerState says that the packets on the way lead from *)
(* what the client knows to what the server is: there is a sequence of     *)
(* views, the first the client's, the last the server's, each the one      *)
(* before it with one packet handled.  What a handler or the server does   *)
(* is then to take the first view away or to add some at the end.          *)
(***************************************************************************)
EXTENDS ServerState, SequenceTheorems, ListAndModTheorems

-----------------------------------------------------------------------------
(* The packets of the server, and what a handler has in hand.              *)
UserStates   == [type : {"UserState"}, user : Users, channel : Channels \cup {None},
                 adjusts : SUBSET Channels]
UserRemoves  == [type : {"UserRemove"}, user : Users, actor : Users \cup {None}]
ChannelPackets == [type : {"ChannelState", "ChannelRemove", "PermissionQuery"}, channel : Channels]
Packets      == UserStates \cup UserRemoves \cup ChannelPackets \cup [type : {"ServerSync"}]
AudioPackets == [type : {"Audio"}, user : Users, speaking : BOOLEAN]

OfUser    == {"assign", "state"}
OfAudio   == {"speak", "speakAndStop", "stop", "lastSpoke"}
OfChannel == {"removeChannel"}

(* A user's own state comes without a channel to listen to, unless it      *)
(* leaves the user's channel alone (Updates).                              *)
AdjustsAlone(p) == p.type = "UserState" /\ p.channel # None => p.adjusts = {}

Shape ==
    /\ net \in Seq(Packets) /\ audio \subseteq AudioPackets
    /\ hook \in {"none", "OnUserChannel", "OnUserConnect", "OnUserState", "OnUserRemove",
                 "OnChannelState", "OnPermissionQuery", "OnChannelRemove", "OnServerSync",
                 "OnUserStartSpeaking", "OnUserSpeak", "OnUserStopSpeaking"}
    /\ \/ pc = "idle" /\ hook = "none"
       \/ pc \in OfUser /\ packet \in UserStates /\ AdjustsAlone(packet)
       \/ pc \in OfAudio /\ packet \in AudioPackets
       \/ pc = "removeUser" /\ packet \in UserRemoves
       \/ pc = "removeChannel" /\ packet \in ChannelPackets /\ packet.type = "ChannelRemove"
       \/ pc = "end" /\ packet \in Packets \cup AudioPackets
    /\ pc = "assign" /\ (hook # "none" \/ ~online) => packet.channel # None

(* A handler of a user points to one: in the table, or out of it.          *)
Pointed ==
    /\ online => orphan = None
    /\ pc \in OfUser \cup OfAudio => IF online THEN users[packet.user] # None ELSE orphan # None

Known == {s \in Users : users[s] # None}

ListsFit ==
    /\ IndexedOnce(user_list) /\ {n.index : n \in NodesOf(user_list)} = Known
    /\ IndexedOnce(channel_list) /\ {n.index : n \in NodesOf(channel_list)} = channels

-----------------------------------------------------------------------------
(* What the client knows, or will when it has handled some packets more.   *)
View == [rooms : SUBSET Channels, place : [Users -> Channels \cup {None}],
         synced : BOOLEAN, met : SUBSET Users, named : SUBSET Users]

ClientView ==
    [rooms |-> channels,
     place |-> [s \in Users |-> IF users[s] # None /\ users[s].connected
                                THEN users[s].channel_id ELSE None],
     synced |-> synced, met |-> present, named |-> announced]

Present(v) == {s \in Users : v.place[s] # None}

Placed(v, s, c, adjusts) ==
    [rooms |-> v.rooms \cup adjusts,
     place |-> [v.place EXCEPT ![s] = IF c # None THEN c ELSE IF @ = None THEN Root ELSE @],
     synced |-> v.synced, met |-> v.met,
     named |-> IF v.synced /\ v.place[s] = None THEN v.named \cup {s} ELSE v.named]

Without(v, s) ==
    [rooms |-> v.rooms, place |-> [v.place EXCEPT ![s] = None], synced |-> v.synced,
     met |-> v.met \ {s}, named |-> v.named \ {s}]

WithRooms(v, rooms, now) ==
    [rooms |-> rooms, place |-> v.place, synced |-> now, met |-> v.met, named |-> v.named]

(* The view after a packet.                                                *)
Told(v, m) ==
    CASE m.type = "UserState"     -> Placed(v, m.user, m.channel, m.adjusts)
      [] m.type = "UserRemove"    -> Without(v, m.user)
      [] m.type = "ChannelRemove" -> WithRooms(v, v.rooms \ {m.channel}, v.synced)
      [] m.type = "ServerSync"    -> WithRooms(v, v.rooms \cup {Root}, TRUE)
      [] OTHER                    -> WithRooms(v, v.rooms \cup {m.channel}, v.synced)

(* ... and after the packet in hand, if that is still to be recorded.      *)
Upcoming ==
    IF pc \in {"assign", "removeUser", "removeChannel"} THEN Told(ClientView, packet)
    ELSE ClientView

(* Users are in channels that are known.  Once the client is synced, it    *)
(* knows all it met, and has named the others.                             *)
Fine(v) ==
    /\ \A s \in Present(v) : v.place[s] \in v.rooms
    /\ v.synced => Root \in v.rooms /\ v.met \subseteq Present(v) /\ v.named = Present(v) \ v.met
    /\ ~v.synced => v.named = {} /\ Present(v) \subseteq v.met

(* One view for each packet, and one after the last.                       *)
Chain(v, q) ==
    /\ v \in Seq(View) /\ q \in Seq(Packets) /\ Len(v) = Len(q) + 1
    /\ \A k \in DOMAIN q : v[k + 1] = Told(v[k], q[k]) /\ AdjustsAlone(q[k])
    /\ \A k \in DOMAIN v : Fine(v[k])

(* Views for some packets more, after the view u.                          *)
More(u, ms, ws) ==
    /\ ws \in Seq(View) /\ ms \in Seq(Packets) /\ ms # <<>> /\ Len(ws) = Len(ms)
    /\ ws[1] = Told(u, ms[1])
    /\ \A k \in 1 .. Len(ms) - 1 : ws[k + 1] = Told(ws[k], ms[k + 1])
    /\ \A k \in DOMAIN ms : Fine(ws[k]) /\ AdjustsAlone(ms[k])

(* The views lead from the client's to the server's, packet by packet.     *)
Agrees(v) == v.synced /\ v.rooms = there /\ v.place = where

Leads(v) == Chain(v, net) /\ v[1] = Upcoming /\ Agrees(v[Len(v)])

UpToDate == online => \E v : Leads(v)

-----------------------------------------------------------------------------
RootIsDefault == \A s \in Known : ~users[s].connected => users[s].channel_id = Root

Speaking == {s \in Users : users[s] # None /\ users[s].speaking}

(* Who has ended is not speaking any more when the hook tells of it.       *)
Talking ==
    online =>
        /\ talking = Speaking \cup (IF pc \in {"speakAndStop", "stop"} THEN {packet.user} ELSE {})
        /\ pc \in {"speakAndStop", "stop"} => packet.user \notin Speaking

MoveIsKnown ==
    online /\ hook = "OnUserChannel" =>
        /\ move.from # move.to /\ {move.from, move.to} \subseteq channels
        /\ move.user \in announced \cup present
        /\ pc = "assign"

ServerInv ==
    /\ TypeOK /\ Shape /\ Pointed /\ ListsFit /\ UpToDate
    /\ RootIsDefault /\ Talking /\ MoveIsKnown

-----------------------------------------------------------------------------
(* A set that is finite is listed by the sequences of SetToSeqs.           *)
LEMMA OrderOf ==
    ASSUME NEW S, IsFiniteSet(S), NEW f \in SetToSeqs(S)
    PROVE  /\ f \in Seq(S) /\ Len(f) = Cardinality(S) /\ Len(f) \in Nat
           /\ \A i, j \in DOMAIN f : f[i] = f[j] => i = j
           /\ {f[k] : k \in DOMAIN f} = S
<1> DEFINE n == Cardinality(S)
<1>1. n \in Nat
  BY FS_CardinalityType
<1>2. f \in [1 .. n -> S] /\ \A i, j \in 1 .. n : i # j => f[i] # f[j]
  BY DEF SetToSeqs
<1>3. IsFiniteSet(1 .. n) /\ Cardinality(1 .. n) = n
  BY <1>1, FS_Interval
<1>4. f \in Injection(1 .. n, S)
  BY <1>2 DEF Injection, IsInjective
<1>5. f \in Surjection(1 .. n, S)
  BY <1>3, <1>4, FS_Injection, Zenon
<1>6. \A s \in S : \E k \in 1 .. n : f[k] = s
  BY <1>5 DEF Surjection
<1>7. f \in Seq(S) /\ Len(f) = n
  BY <1>1, <1>2
<1> QED
  BY <1>1, <1>2, <1>6, <1>7

(* ... and so by the one that SetToSeq takes.                              *)
LEMMA OneOrderOf ==
    ASSUME NEW S, IsFiniteSet(S)
    PROVE  SetToSeq(S) \in SetToSeqs(S)
<1> DEFINE n == Cardinality(S)
<1>1. PICK b \in Bijection(1 .. n, S) : TRUE
  BY FS_CardinalityType DEF ExistsBijection
<1>2. \E f \in [1 .. n -> S] : IsInjective(f)
  BY <1>1 DEF Bijection, Injection
<1>3. SetToSeq(S) \in [1 .. n -> S] /\ IsInjective(SetToSeq(S))
  BY <1>2, Zenon DEF SetToSeq
<1> QED
  BY <1>3 DEF IsInjective, SetToSeqs

-----------------------------------------------------------------------------
(* A list fits a set if it holds each of its elements once.                *)
Fits(list, T, I) ==
    /\ list \in Seq([index : T, data : T]) /\ IndexedOnce(list)
    /\ {n.index : n \in NodesOf(list)} = I

(* What list_add (util.c:295) does to a list that fits.                    *)
LEMMA AddFits ==
    ASSUME NEW T, NEW I, NEW list, Fits(list, T, I), NEW i \in T, i \notin I
    PROVE  Fits(list_add(list, i, i), T, I \cup {i})
<1> DEFINE R == [index : T, data : T]
<1>1. Node(i, i) \in R /\ Node(i, i).index = i
  BY DEF Node
<1>2. \A n \in NodesOf(list) : n.index # i
  BY DEF Fits
<1>3. list \in Seq(R) /\ IndexedOnce(list)
  BY DEF Fits
<1>4. IndexedOnce(list_add(list, i, i))
  BY <1>1, <1>2, <1>3, AddIndexedOnce, Zenon
<1>5. /\ list_add(list, i, i) \in Seq(R)
      /\ NodesOf(list_add(list, i, i)) = NodesOf(list) \cup {Node(i, i)}
  <2> HIDE DEF R
  <2> QED
    BY <1>1, <1>3, AddNodes
<1> QED
  BY <1>1, <1>4, <1>5 DEF Fits

(* ... and list_remove (util.c:312).                                       *)
LEMMA RemoveFits ==
    ASSUME NEW T, NEW I, NEW list, Fits(list, T, I), NEW i
    PROVE  Fits(list_remove(list, i), T, I \ {i})
<1> DEFINE R == [index : T, data : T]
<1>1. list \in Seq(R) /\ IndexedOnce(list)
  BY DEF Fits
<1>2. /\ IndexedOnce(list_remove(list, i))
      /\ NodesOf(list_remove(list, i)) = {n \in NodesOf(list) : n.index # i}
  BY <1>1, RemoveOnce, Zenon
<1>3. list_remove(list, i) \in Seq(R)
  BY <1>1, RemoveSubset, Zenon
<1> QED
  BY <1>2, <1>3 DEF Fits

(* ... and the nodes that mumble_channel_get (channel.c) puts before it.   *)
LEMMA PrependFits ==
    ASSUME NEW T, IsFiniteSet(T), NEW I, NEW list, Fits(list, T, I), I \subseteq T,
           NEW cs \in SUBSET T, NEW new \in SetToSeqs(cs \ I)
    PROVE  Fits([k \in DOMAIN new |-> Node(new[k], new[k])] \o list, T, I \cup cs)
<1> DEFINE R == [index : T, data : T]
           first == [k \in DOMAIN new |-> Node(new[k], new[k])]
           l == first \o list
<1>1. IsFiniteSet(cs \ I)
  BY FS_Subset, cs \ I \in SUBSET T
<1>2. /\ new \in Seq(cs \ I) /\ Len(new) \in Nat
      /\ \A i, j \in DOMAIN new : new[i] = new[j] => i = j
      /\ {new[k] : k \in DOMAIN new} = cs \ I
  BY <1>1, OrderOf, Zenon
<1>3. /\ DOMAIN new = 1 .. Len(new)
      /\ \A k \in 1 .. Len(new) : new[k] \in cs \ I
  BY <1>2
<1>4. /\ first \in Seq(R) /\ Len(first) = Len(new)
      /\ \A k \in 1 .. Len(new) : first[k].index = new[k]
  BY <1>2, <1>3 DEF Node
<1>5. list \in Seq(R) /\ Len(list) \in Nat
  BY DEF Fits
<1> HIDE DEF first
<1>6. /\ l \in Seq(R) /\ Len(l) = Len(new) + Len(list) /\ DOMAIN l = 1 .. Len(l)
      /\ \A k \in 1 .. Len(new) : l[k].index = new[k]
      /\ \A k \in 1 .. Len(list) : l[Len(new) + k] = list[k]
  <2> HIDE DEF R
  <2>1. /\ l \in Seq(R) /\ Len(l) = Len(first) + Len(list) /\ DOMAIN l = 1 .. Len(l)
        /\ \A k \in 1 .. Len(first) + Len(list) :
              l[k] = IF k <= Len(first) THEN first[k] ELSE list[k - Len(first)]
    <3>1. /\ l \in Seq(R) /\ Len(l) = Len(first) + Len(list)
          /\ \A k \in 1 .. Len(first) + Len(list) :
                l[k] = IF k <= Len(first) THEN first[k] ELSE list[k - Len(first)]
      BY <1>4, <1>5, ConcatProperties, Zenon
    <3> QED
      BY <3>1, LenProperties
  <2>2. ASSUME NEW k \in 1 .. Len(new) PROVE l[k].index = new[k]
    BY <1>2, <1>4, <1>5, <2>1
  <2>3. ASSUME NEW k \in 1 .. Len(list) PROVE l[Len(new) + k] = list[k]
    <3>1. /\ Len(new) + k \in 1 .. Len(first) + Len(list)
          /\ ~(Len(new) + k <= Len(first)) /\ Len(new) + k - Len(first) = k
      BY <1>2, <1>4, <1>5
    <3> QED
      BY <2>1, <3>1
  <2> QED
    BY <1>4, <2>1, <2>2, <2>3
<1> HIDE DEF l
<1>7. \A k \in 1 .. Len(list) : list[k].index \in I
  BY <1>5 DEF Fits, NodesOf
<1>8. IndexedOnce(l)
  <2> SUFFICES ASSUME NEW j \in 1 .. Len(l), NEW k \in 1 .. Len(l), l[j].index = l[k].index
               PROVE  j = k
    BY <1>6 DEF IndexedOnce
  <2>1. \A i \in 1 .. Len(l) : i > Len(new) =>
            i - Len(new) \in 1 .. Len(list) /\ l[i] = list[i - Len(new)] /\ l[i].index \in I
    <3> TAKE i \in 1 .. Len(l)
    <3> HAVE i > Len(new)
    <3>1. i - Len(new) \in 1 .. Len(list) /\ Len(new) + (i - Len(new)) = i
      BY <1>2, <1>5, <1>6
    <3> QED
      BY <1>6, <1>7, <3>1
  <2>2. \A i \in 1 .. Len(l) : i <= Len(new) =>
            i \in DOMAIN new /\ l[i].index = new[i] /\ l[i].index \notin I
    BY <1>2, <1>3, <1>5, <1>6
  <2>3. CASE j <= Len(new) /\ k <= Len(new)
    BY <1>2, <2>2, <2>3
  <2>4. CASE j > Len(new) /\ k > Len(new)
    <3>1. /\ j - Len(new) \in DOMAIN list /\ k - Len(new) \in DOMAIN list
          /\ list[j - Len(new)].index = list[k - Len(new)].index
      <4>1. /\ j - Len(new) \in 1 .. Len(list) /\ k - Len(new) \in 1 .. Len(list)
            /\ l[j] = list[j - Len(new)] /\ l[k] = list[k - Len(new)]
        BY <2>1, <2>4
      <4>2. DOMAIN list = 1 .. Len(list)
        BY <1>5
      <4> QED
        BY <4>1, <4>2
    <3>2. j - Len(new) = k - Len(new)
      BY <3>1, Zenon DEF Fits, IndexedOnce
    <3> QED
      BY <1>2, <3>2
  <2> QED
    BY <1>2, <2>1, <2>2, <2>3, <2>4
<1>9. {n.index : n \in NodesOf(l)} = I \cup cs
  <2>1. {n.index : n \in NodesOf(l)} = {l[k].index : k \in 1 .. Len(l)}
    BY <1>6 DEF NodesOf
  <2>2. I = {list[k].index : k \in 1 .. Len(list)}
    BY <1>5 DEF Fits, NodesOf
  <2>3. ASSUME NEW i \in I \cup cs PROVE \E k \in 1 .. Len(l) : l[k].index = i
    <3>1. CASE i \in I
      <4>1. PICK k \in 1 .. Len(list) : list[k].index = i
        BY <2>2, <3>1
      <4>2. Len(new) + k \in 1 .. Len(l) /\ l[Len(new) + k].index = i
        BY <1>2, <1>5, <1>6, <4>1
      <4> QED
        BY <4>2
    <3>2. CASE i \in cs \ I
      <4>1. PICK k \in 1 .. Len(new) : new[k] = i
        BY <1>2, <1>3, <3>2
      <4>2. k \in 1 .. Len(l) /\ l[k].index = i
        BY <1>2, <1>5, <1>6, <4>1
      <4> QED
        BY <4>2
    <3> QED
      BY <3>1, <3>2
  <2>4. ASSUME NEW k \in 1 .. Len(l) PROVE l[k].index \in I \cup cs
    <3>1. CASE k <= Len(new)
      BY <1>2, <1>3, <1>6, <3>1
    <3>2. CASE k > Len(new)
      <4>1. k - Len(new) \in 1 .. Len(list) /\ l[k] = list[k - Len(new)]
        BY <1>2, <1>5, <1>6, <3>2
      <4> QED
        BY <1>7, <4>1
    <3> QED
      BY <1>2, <3>1, <3>2
  <2> QED
    BY <2>1, <2>3, <2>4
<1> QED
  BY <1>6, <1>8, <1>9 DEF Fits, l, first

(* A list that fits is as long as the set is large.                        *)
LEMMA FitsLists ==
    ASSUME NEW T, IsFiniteSet(T), NEW I \in SUBSET T, NEW list, Fits(list, T, I)
    PROVE  Lists(list, I)
<1> DEFINE f == [k \in 1 .. Len(list) |-> list[k].index]
<1>1. list \in Seq([index : T, data : T]) /\ Len(list) \in Nat /\ DOMAIN list = 1 .. Len(list)
  BY DEF Fits
<1>2. {list[k].index : k \in DOMAIN list} = I
  BY DEF Fits, NodesOf
<1>3. f \in Injection(1 .. Len(list), I)
  BY <1>1, <1>2 DEF Injection, IsInjective, Fits, IndexedOnce
<1>4. f \in Surjection(1 .. Len(list), I)
  BY <1>1, <1>2 DEF Surjection
<1>5. IsFiniteSet(1 .. Len(list)) /\ Cardinality(1 .. Len(list)) = Len(list)
  <2>1. 1 \in Int /\ Len(list) \in Int /\ Len(list) - 1 + 1 = Len(list)
    BY <1>1
  <2>2. 1 > Len(list) => 1 .. Len(list) = {} /\ Len(list) = 0
    BY <1>1
  <2> QED
    BY <2>1, <2>2, FS_Interval, FS_EmptySet
<1>6. Cardinality(I) = Cardinality(1 .. Len(list))
  BY <1>3, <1>4, <1>5, FS_Surjection
<1> QED
  BY <1>2, <1>5, <1>6 DEF Lists

-----------------------------------------------------------------------------
(* The views that are left when the first packet is handled.               *)
LEMMA TailChain ==
    ASSUME NEW v, NEW q, Chain(v, q), q # <<>>
    PROVE  /\ Chain(Tail(v), Tail(q))
           /\ Tail(v)[1] = Told(v[1], Head(q)) /\ Tail(v)[Len(Tail(v))] = v[Len(v)]
           /\ Told(v[1], Head(q)) \in View /\ Fine(Told(v[1], Head(q)))
           /\ Head(q) \in Packets /\ AdjustsAlone(Head(q))
<1> DEFINE w == Tail(v)
           p == Tail(q)
<1>1. /\ Len(q) \in Nat \ {0} /\ DOMAIN q = 1 .. Len(q) /\ DOMAIN v = 1 .. Len(v)
      /\ Len(v) = Len(q) + 1 /\ v \in Seq(View) /\ q \in Seq(Packets)
      /\ \A k \in DOMAIN q : v[k + 1] = Told(v[k], q[k]) /\ AdjustsAlone(q[k])
      /\ \A k \in DOMAIN v : Fine(v[k])
  BY LenProperties, EmptySeq DEF Chain
<1>2. /\ w \in Seq(View) /\ Len(w) = Len(v) - 1
      /\ \A k \in 1 .. Len(w) : w[k] = v[k + 1]
  BY <1>1, HeadTailProperties
<1>3. /\ p \in Seq(Packets) /\ Len(p) = Len(q) - 1
      /\ \A k \in 1 .. Len(p) : p[k] = q[k + 1]
  BY <1>1, HeadTailProperties
<1>4. DOMAIN w = 1 .. Len(w) /\ DOMAIN p = 1 .. Len(p)
  BY <1>2, <1>3, LenProperties
<1>5. Head(q) = q[1] /\ Head(q) \in Packets /\ AdjustsAlone(Head(q))
  BY <1>1
<1> HIDE DEF w, p
<1>6. \A k \in 1 .. Len(w) : w[k] = v[k + 1] /\ k + 1 \in DOMAIN v
  BY <1>1, <1>2
<1>7. w[1] = v[2] /\ w[Len(w)] = v[Len(v)]
  BY <1>1, <1>2
<1>8. v[2] = Told(v[1], Head(q)) /\ v[2] \in View /\ Fine(v[2])
  BY <1>1, <1>5
<1>9. ASSUME NEW k \in 1 .. Len(p) PROVE w[k + 1] = Told(w[k], p[k]) /\ AdjustsAlone(p[k])
  <2>1. /\ k \in 1 .. Len(w) /\ k + 1 \in 1 .. Len(w) /\ k + 1 \in DOMAIN q
        /\ p[k] = q[k + 1]
    BY <1>1, <1>2, <1>3
  <2>2. w[k] = v[k + 1] /\ w[k + 1] = v[k + 1 + 1]
    BY <1>6, <2>1
  <2> QED
    BY <1>1, <2>1, <2>2
<1>10. \A k \in DOMAIN w : Fine(w[k])
  BY <1>1, <1>4, <1>6
<1>11. Len(w) = Len(p) + 1
  BY <1>1, <1>2, <1>3
<1>12. Chain(w, p)
  BY <1>2, <1>3, <1>4, <1>9, <1>10, <1>11 DEF Chain
<1> QED
  BY <1>5, <1>7, <1>8, <1>12 DEF w, p

(* The first and the last view.                                            *)
LEMMA LastOfChain ==
    ASSUME NEW v, NEW q, Chain(v, q)
    PROVE  /\ v[1] \in View /\ Fine(v[1])
           /\ v[Len(v)] \in View /\ Fine(v[Len(v)])
<1>1. /\ v \in Seq(View) /\ Len(v) \in Nat \ {0} /\ DOMAIN v = 1 .. Len(v)
      /\ \A k \in DOMAIN v : Fine(v[k])
  BY LenProperties DEF Chain
<1> QED
  BY <1>1

(* The views of v and then those of ws go with the packets of q.           *)
Prolongs(v, q, ws) ==
    LET w == v \o ws
    IN  Chain(w, q) /\ w[1] = v[1] /\ w[Len(w)] = ws[Len(ws)]

(* The views that are added when the server sends more.                    *)
LEMMA MoreChain ==
    ASSUME NEW v, NEW q, Chain(v, q), NEW ms, NEW ws, More(v[Len(v)], ms, ws)
    PROVE  Prolongs(v, q \o ms, ws)
<1> DEFINE w == v \o ws
           p == q \o ms
           n == Len(q)
           m == Len(ms)
<1>1. /\ n \in Nat /\ DOMAIN q = 1 .. n /\ DOMAIN v = 1 .. n + 1 /\ Len(v) = n + 1
      /\ v \in Seq(View) /\ q \in Seq(Packets)
      /\ \A k \in DOMAIN q : v[k + 1] = Told(v[k], q[k]) /\ AdjustsAlone(q[k])
      /\ \A k \in DOMAIN v : Fine(v[k])
  BY LenProperties DEF Chain
<1>2. /\ m \in Nat \ {0} /\ DOMAIN ms = 1 .. m /\ Len(ws) = m
      /\ ws \in Seq(View) /\ ms \in Seq(Packets)
      /\ ws[1] = Told(v[Len(v)], ms[1])
      /\ \A k \in 1 .. m - 1 : ws[k + 1] = Told(ws[k], ms[k + 1])
      /\ \A k \in DOMAIN ms : Fine(ws[k]) /\ AdjustsAlone(ms[k])
  BY LenProperties, EmptySeq DEF More
<1>3. /\ w \in Seq(View) /\ Len(w) = Len(v) + Len(ws)
      /\ \A k \in 1 .. Len(v) + Len(ws) : w[k] = IF k <= Len(v) THEN v[k] ELSE ws[k - Len(v)]
  <2>1. v \in Seq(View) /\ ws \in Seq(View)
    BY <1>1, <1>2
  <2> QED
    BY <2>1, ConcatProperties, Zenon
<1>4. /\ p \in Seq(Packets) /\ Len(p) = n + m
      /\ \A k \in 1 .. n + m : p[k] = IF k <= n THEN q[k] ELSE ms[k - n]
  <2>1. q \in Seq(Packets) /\ ms \in Seq(Packets)
    BY <1>1, <1>2
  <2> QED
    BY <2>1, ConcatProperties, Zenon
<1> HIDE DEF w, p
<1>5. /\ Len(w) = n + 1 + m /\ DOMAIN w = 1 .. n + 1 + m /\ DOMAIN p = 1 .. n + m
      /\ \A k \in 1 .. n + 1 + m : w[k] = IF k <= n + 1 THEN v[k] ELSE ws[k - (n + 1)]
  BY <1>1, <1>2, <1>3, <1>4, LenProperties
<1>6. w[1] = v[1] /\ w[Len(w)] = ws[Len(ws)]
  <2>1. w[Len(w)] = ws[m]
    <3>1. /\ Len(w) \in 1 .. n + 1 + m /\ ~(Len(w) <= n + 1) /\ Len(w) - (n + 1) = m
      BY <1>1, <1>2, <1>5
    <3> QED
      BY <1>5, <3>1
  <2> QED
    BY <1>1, <1>2, <1>5, <2>1
<1>7. ASSUME NEW k \in 1 .. n + m PROVE w[k + 1] = Told(w[k], p[k]) /\ AdjustsAlone(p[k])
  <2>1. k \in 1 .. n + 1 + m /\ k + 1 \in 1 .. n + 1 + m
    BY <1>1, <1>2
  <2>2. CASE k <= n
    <3>1. w[k] = v[k] /\ w[k + 1] = v[k + 1] /\ p[k] = q[k] /\ k \in DOMAIN q
      BY <1>1, <1>4, <1>5, <2>1, <2>2
    <3> QED
      BY <1>1, <3>1
  <2>3. CASE k = n + 1
    <3>1. w[k] = v[Len(v)] /\ w[k + 1] = ws[1] /\ p[k] = ms[1] /\ 1 \in DOMAIN ms
      BY <1>1, <1>2, <1>4, <1>5, <2>1, <2>3
    <3> QED
      BY <1>2, <3>1
  <2>4. CASE k > n + 1
    <3> DEFINE j == k - (n + 1)
    <3>1. /\ j \in 1 .. m - 1 /\ j + 1 \in DOMAIN ms
          /\ w[k] = ws[j] /\ w[k + 1] = ws[j + 1] /\ p[k] = ms[j + 1]
      <4>1. /\ j \in 1 .. m - 1 /\ j + 1 \in 1 .. m
            /\ k + 1 - (n + 1) = j + 1 /\ k - n = j + 1
        BY <1>1, <1>2, <2>4
      <4> QED
        BY <1>1, <1>2, <1>4, <1>5, <2>1, <2>4, <4>1
    <3> QED
      BY <1>2, <3>1
  <2> QED
    BY <1>1, <2>2, <2>3, <2>4
<1>8. ASSUME NEW k \in 1 .. n + 1 + m PROVE Fine(w[k])
  <2>1. CASE k <= n + 1
    <3>1. w[k] = v[k] /\ k \in DOMAIN v
      BY <1>1, <1>5, <2>1
    <3> QED
      BY <1>1, <3>1
  <2>2. CASE k > n + 1
    <3>1. w[k] = ws[k - (n + 1)] /\ k - (n + 1) \in DOMAIN ms
      BY <1>1, <1>2, <1>5, <2>2
    <3> QED
      BY <1>2, <3>1
  <2> QED
    BY <1>1, <2>1, <2>2
<1>9. Len(w) = Len(p) + 1
  BY <1>1, <1>2, <1>4, <1>5
<1>10. Chain(w, p)
  BY <1>3, <1>4, <1>5, <1>7, <1>8, <1>9 DEF Chain
<1> QED
  BY <1>6, <1>10 DEF w, p, Prolongs

-----------------------------------------------------------------------------
(* What the server sends to a client that joins.                           *)
LEMMA FirstPackets ==
    ASSUME Init
    PROVE  LET us == SetToSeq(Connected)
               cs == SetToSeq(there)
           IN  /\ us \in SetToSeqs(Connected) /\ cs \in SetToSeqs(there)
               /\ IsFiniteSet(Connected) /\ IsFiniteSet(there)
               /\ net \in Seq(Packets) /\ Len(net) = Len(cs) + Len(us) + 1
               /\ \A k \in DOMAIN cs : net[k] = ChannelState(cs[k])
               /\ \A k \in DOMAIN us : net[Len(cs) + k] = InChannel(us[k], where[us[k]])
               /\ net[Len(cs) + Len(us) + 1] = ServerSync
               /\ \A k \in DOMAIN net : AdjustsAlone(net[k])
<1> DEFINE us == SetToSeq(Connected)
           cs == SetToSeq(there)
           a  == Len(cs)
           b  == Len(us)
           A  == [k \in DOMAIN cs |-> ChannelState(cs[k])]
           B  == [k \in DOMAIN us |-> InChannel(us[k], where[us[k]])]
           C  == <<ServerSync>>
<1>1. /\ there \subseteq Channels /\ Root \in there /\ where \in [Users -> there \cup {None}]
      /\ net = (A \o B) \o C
  BY DEF Init
<1>2. IsFiniteSet(Connected) /\ IsFiniteSet(there)
  <2>1. Connected \in SUBSET Users /\ there \in SUBSET Channels
    BY <1>1 DEF Connected
  <2> QED
    BY <2>1, FS_Subset, ServerAssumption, Zenon
<1>3. us \in SetToSeqs(Connected) /\ cs \in SetToSeqs(there)
  BY <1>2, OneOrderOf, Zenon
<1>4. /\ us \in Seq(Connected) /\ b \in Nat /\ DOMAIN us = 1 .. b
      /\ cs \in Seq(there) /\ a \in Nat /\ DOMAIN cs = 1 .. a
  <2>1. us \in Seq(Connected) /\ cs \in Seq(there)
    BY <1>2, <1>3, OrderOf, Zenon
  <2> QED
    BY <2>1, LenProperties
<1> HIDE DEF us, cs
<1>5. \A c \in there : ChannelState(c) \in Packets /\ AdjustsAlone(ChannelState(c))
  BY <1>1 DEF ChannelState, Packets, ChannelPackets, AdjustsAlone
<1>6. \A s \in Connected : InChannel(s, where[s]) \in Packets /\ AdjustsAlone(InChannel(s, where[s]))
  BY <1>1 DEF InChannel, UserState, Packets, UserStates, AdjustsAlone, Connected
<1>7. ServerSync \in Packets /\ AdjustsAlone(ServerSync)
  BY DEF ServerSync, Packets, AdjustsAlone
<1>8. A \in Seq(Packets) /\ Len(A) = a /\ \A k \in 1 .. a : A[k] = ChannelState(cs[k])
  BY <1>4, <1>5
<1>9. B \in Seq(Packets) /\ Len(B) = b /\ \A k \in 1 .. b : B[k] = InChannel(us[k], where[us[k]])
  BY <1>4, <1>6
<1>10. C \in Seq(Packets) /\ Len(C) = 1 /\ C[1] = ServerSync
  BY <1>7
<1> HIDE DEF A, B, C
<1>11. /\ A \o B \in Seq(Packets) /\ Len(A \o B) = a + b
       /\ \A k \in 1 .. a + b : (A \o B)[k] = IF k <= a THEN A[k] ELSE B[k - a]
  <2>1. /\ A \o B \in Seq(Packets) /\ Len(A \o B) = Len(A) + Len(B)
        /\ \A k \in 1 .. Len(A) + Len(B) : (A \o B)[k] = IF k <= Len(A) THEN A[k] ELSE B[k - Len(A)]
    <3>1. A \in Seq(Packets) /\ B \in Seq(Packets)
      BY <1>8, <1>9
    <3> QED
      BY <3>1, ConcatProperties, Zenon
  <2> QED
    BY <2>1, <1>8, <1>9
<1>12. /\ net \in Seq(Packets) /\ Len(net) = a + b + 1
       /\ \A k \in 1 .. a + b + 1 : net[k] = IF k <= a + b THEN (A \o B)[k] ELSE C[k - (a + b)]
  <2> DEFINE D == A \o B
  <2>1. D \in Seq(Packets) /\ Len(D) = a + b /\ net = D \o C
    BY <1>1, <1>11
  <2> HIDE DEF D
  <2>2. /\ D \o C \in Seq(Packets) /\ Len(D \o C) = Len(D) + Len(C)
        /\ \A k \in 1 .. Len(D) + Len(C) : (D \o C)[k] = IF k <= Len(D) THEN D[k] ELSE C[k - Len(D)]
    <3>1. D \in Seq(Packets) /\ C \in Seq(Packets)
      BY <2>1, <1>10
    <3> QED
      BY <3>1, ConcatProperties, Zenon
  <2> QED
    BY <2>1, <2>2, <1>4, <1>10 DEF D
<1>13. \A k \in 1 .. a : net[k] = ChannelState(cs[k])
  <2> TAKE k \in 1 .. a
  <2>1. k \in 1 .. a + b + 1 /\ k \in 1 .. a + b /\ k <= a + b /\ k <= a
    BY <1>4
  <2> QED
    BY <1>8, <1>11, <1>12, <2>1
<1>14. \A k \in 1 .. b : net[a + k] = InChannel(us[k], where[us[k]])
  <2> TAKE k \in 1 .. b
  <2>1. /\ a + k \in 1 .. a + b + 1 /\ a + k \in 1 .. a + b /\ a + k <= a + b
        /\ ~(a + k <= a) /\ (a + k) - a = k
    BY <1>4
  <2> QED
    BY <1>9, <1>11, <1>12, <2>1
<1>15. net[a + b + 1] = ServerSync
  <2>1. a + b + 1 \in 1 .. a + b + 1 /\ ~(a + b + 1 <= a + b) /\ (a + b + 1) - (a + b) = 1
    BY <1>4
  <2> QED
    BY <1>10, <1>12, <2>1
<1>16. \A k \in DOMAIN net : AdjustsAlone(net[k])
  <2> SUFFICES ASSUME NEW k \in 1 .. a + b + 1 PROVE AdjustsAlone(net[k])
    BY <1>12
  <2>1. CASE k <= a
    BY <2>1, <1>4, <1>5, <1>13
  <2>2. CASE k > a /\ k <= a + b
    <3>1. k - a \in 1 .. b /\ a + (k - a) = k
      BY <2>2, <1>4
    <3>2. net[k] = InChannel(us[k - a], where[us[k - a]]) /\ us[k - a] \in Connected
      BY <3>1, <1>4, <1>14
    <3> QED
      BY <3>2, <1>6
  <2>3. CASE k = a + b + 1
    BY <2>3, <1>7, <1>15
  <2> QED
    BY <2>1, <2>2, <2>3, <1>4
<1> QED
  BY <1>2, <1>3, <1>4, <1>12, <1>13, <1>14, <1>15, <1>16 DEF us, cs

(* Of the numbers up to b, one more is below k + 1 than is below k.        *)
LEMMA OneFurther ==
    ASSUME NEW a \in Nat, NEW b \in Nat, NEW k \in Int, k - a \in 1 .. b
    PROVE  {i \in 1 .. b : a + i < k + 1} = {i \in 1 .. b : a + i < k} \cup {k - a}
<1>1. \A i \in 1 .. b : a + i < k + 1 <=> a + i < k \/ i = k - a
  OBVIOUS
<1> QED
  BY <1>1

(* ... leads from nothing to the server's state.                           *)
LEMMA FirstViews ==
    ASSUME Init
    PROVE  UpToDate
<1> DEFINE us == SetToSeq(Connected)
           cs == SetToSeq(there)
           a  == Len(cs)
           b  == Len(us)
<1>1. /\ there \subseteq Channels /\ Root \in there /\ where \in [Users -> there \cup {None}]
      /\ Connected = {s \in Users : where[s] # None} /\ None \notin Users \cup Channels
  BY ServerAssumption DEF Init, Connected
<1>2. /\ us \in Seq(Connected) /\ a \in Nat /\ DOMAIN us = 1 .. b
      /\ cs \in Seq(there) /\ b \in Nat /\ DOMAIN cs = 1 .. a
      /\ \A i, j \in DOMAIN us : us[i] = us[j] => i = j
      /\ {us[k] : k \in DOMAIN us} = Connected /\ {cs[k] : k \in DOMAIN cs} = there
  <2>1. /\ us \in SetToSeqs(Connected) /\ cs \in SetToSeqs(there)
        /\ IsFiniteSet(Connected) /\ IsFiniteSet(there)
    BY FirstPackets
  <2>2. /\ us \in Seq(Connected) /\ cs \in Seq(there)
        /\ \A i, j \in DOMAIN us : us[i] = us[j] => i = j
        /\ {us[k] : k \in DOMAIN us} = Connected /\ {cs[k] : k \in DOMAIN cs} = there
    BY <2>1, OrderOf, Zenon
  <2> QED
    BY <2>2, LenProperties
<1>3. /\ net \in Seq(Packets) /\ Len(net) = a + b + 1 /\ DOMAIN net = 1 .. a + b + 1
      /\ \A k \in 1 .. a : net[k] = ChannelState(cs[k])
      /\ \A k \in 1 .. b : net[a + k] = InChannel(us[k], where[us[k]])
      /\ net[a + b + 1] = ServerSync
  BY <1>2, FirstPackets, LenProperties
<1> HIDE DEF us, cs
<1> DEFINE rooms(k)  == {cs[j] : j \in {i \in 1 .. a : i < k}}
           placed(k) == {us[j] : j \in {i \in 1 .. b : a + i < k}}
           place(k)  == [s \in Users |-> IF s \in placed(k) THEN where[s] ELSE None]
           view(k)   == [rooms |-> rooms(k), place |-> place(k), synced |-> k > a + b + 1,
                         met |-> Connected, named |-> {}]
           v == [k \in 1 .. a + b + 2 |-> view(k)]
<1>4. ASSUME NEW k \in 1 .. a + b + 2
      PROVE  /\ rooms(k) \subseteq there /\ placed(k) \subseteq Connected
             /\ Present(view(k)) = placed(k) /\ view(k) \in View
  <2>1. rooms(k) \subseteq there /\ placed(k) \subseteq Connected
    BY <1>2
  <2>2. place(k) \in [Users -> Channels \cup {None}] /\ Present(view(k)) = placed(k)
    BY <1>1, <2>1 DEF Present
  <2> HIDE DEF rooms, place
  <2> QED
    BY <1>1, <2>1, <2>2 DEF View
<1>5. view(1) = Upcoming
  <2>1. /\ channels = {} /\ announced = {} /\ synced = FALSE /\ present = Connected /\ pc = "idle"
        /\ \A s \in Users : users[s] = None
    BY DEF Init
  <2>2. rooms(1) = {} /\ placed(1) = {} /\ (1 > a + b + 1) = FALSE
    BY <1>2
  <2> HIDE DEF rooms, placed
  <2> QED
    BY <2>1, <2>2 DEF Upcoming, ClientView
<1>6. ASSUME NEW k \in 1 .. a + b + 1
      PROVE  view(k + 1) = Told(view(k), net[k])
  <2>1. CASE k <= a
    <3>1. rooms(k + 1) = rooms(k) \cup {cs[k]} /\ placed(k + 1) = placed(k)
      <4>1. a \in Nat /\ b \in Nat /\ k \in Int /\ k - 0 \in 1 .. a
        BY <1>2, <2>1
      <4>2. {i \in 1 .. a : 0 + i < k + 1} = {i \in 1 .. a : 0 + i < k} \cup {k - 0}
        BY <4>1, OneFurther
      <4>3. /\ {i \in 1 .. a : i < k + 1} = {i \in 1 .. a : 0 + i < k + 1}
            /\ {i \in 1 .. a : i < k} = {i \in 1 .. a : 0 + i < k} /\ k - 0 = k
        BY <4>1
      <4>4. {i \in 1 .. a : i < k + 1} = {i \in 1 .. a : i < k} \cup {k}
        BY <4>2, <4>3
      <4>5. {i \in 1 .. b : a + i < k + 1} = {} /\ {i \in 1 .. b : a + i < k} = {}
        BY <2>1, <4>1
      <4>6. rooms(k + 1) = rooms(k) \cup {cs[k]}
        BY <4>4
      <4>7. placed(k + 1) = placed(k)
        BY <4>5
      <4> QED
        BY <4>6, <4>7
    <3>2. (k + 1 > a + b + 1) = FALSE /\ (k > a + b + 1) = FALSE
      BY <1>2, <2>1
    <3>3. net[k].type = "ChannelState" /\ net[k].channel = cs[k]
      <4>1. k \in 1 .. a
        BY <1>2, <2>1
      <4>2. net[k] = ChannelState(cs[k])
        BY <1>3, <4>1
      <4> QED
        BY <4>2 DEF ChannelState
    <3> HIDE DEF rooms, placed
    <3> QED
      BY <3>1, <3>2, <3>3 DEF Told, WithRooms
  <2>2. CASE k > a /\ k <= a + b
    <3> DEFINE s == us[k - a]
    <3>1. k - a \in 1 .. b /\ a + (k - a) = k
      BY <1>2, <2>2
    <3>2. rooms(k + 1) = rooms(k)
      BY <1>2, <2>2
    <3>3. placed(k + 1) = placed(k) \cup {s}
      <4>1. {i \in 1 .. b : a + i < k + 1} = {i \in 1 .. b : a + i < k} \cup {k - a}
        <5>1. a \in Nat /\ b \in Nat /\ k \in Int
          BY <1>2
        <5> QED
          BY <3>1, <5>1, OneFurther
      <4> QED
        BY <4>1
    <3>4. s \in Connected /\ s \notin placed(k)
      <4>1. \A i \in 1 .. b : a + i < k => i # k - a
        BY <1>2, <3>1
      <4>2. \A i \in 1 .. b : us[i] = us[k - a] => i = k - a
        BY <1>2, <3>1
      <4> QED
        BY <1>2, <3>1, <4>1, <4>2
    <3>5. (k + 1 > a + b + 1) = FALSE /\ (k > a + b + 1) = FALSE
      BY <1>2, <2>2
    <3>6. net[k] = InChannel(s, where[s])
      BY <1>3, <3>1
    <3>7. /\ net[k].type = "UserState" /\ net[k].user = s /\ net[k].adjusts = {}
          /\ net[k].channel = IF where[s] = Root THEN None ELSE where[s]
      BY <3>6 DEF InChannel, UserState
    <3> HIDE DEF rooms, placed, s
    <3>8. place(k + 1) = [place(k) EXCEPT ![s] = where[s]]
      BY <1>1, <3>3, <3>4
    <3>9. place(k)[s] = None /\ where[s] # None
      BY <1>1, <3>4
    <3> HIDE DEF place
    <3> QED
      BY <3>2, <3>5, <3>7, <3>8, <3>9 DEF Told, Placed
  <2>3. CASE k = a + b + 1
    <3>1. rooms(k) = there /\ rooms(k + 1) = there /\ placed(k + 1) = placed(k)
      BY <1>2, <2>3
    <3>2. (k + 1 > a + b + 1) = TRUE /\ net[k].type = "ServerSync"
      BY <1>2, <1>3, <2>3 DEF ServerSync
    <3> HIDE DEF rooms, placed
    <3>3. rooms(k) \cup {Root} = rooms(k + 1)
      BY <1>1, <3>1
    <3> QED
      BY <3>1, <3>2, <3>3 DEF Told, WithRooms
  <2> QED
    BY <1>2, <2>1, <2>2, <2>3
<1>7. ASSUME NEW k \in 1 .. a + b + 2
      PROVE  Fine(view(k))
  <2>1. \A s \in placed(k) : place(k)[s] \in rooms(k)
    <3> SUFFICES ASSUME NEW s \in placed(k) PROVE place(k)[s] \in rooms(k)
      OBVIOUS
    <3>1. k > a
      BY <1>2
    <3>2. rooms(k) = there
      BY <1>2, <3>1
    <3>3. s \in Connected
      BY <1>4
    <3> QED
      BY <1>1, <3>2, <3>3
  <2>2. k > a + b + 1 => rooms(k) = there /\ placed(k) = Connected
    BY <1>2
  <2>3. view(k).rooms = rooms(k) /\ view(k).place = place(k) /\ view(k).met = Connected
        /\ view(k).named = {} /\ view(k).synced = (k > a + b + 1)
    OBVIOUS
  <2>4. Present(view(k)) = placed(k) /\ Root \in there /\ placed(k) \subseteq Connected
    BY <1>1, <1>4
  <2> HIDE DEF rooms, placed, place, view
  <2>5. \A s \in Present(view(k)) : view(k).place[s] \in view(k).rooms
    BY <2>1, <2>3, <2>4
  <2>6. view(k).synced => /\ Root \in view(k).rooms /\ view(k).met \subseteq Present(view(k))
                          /\ view(k).named = Present(view(k)) \ view(k).met
    BY <2>2, <2>3, <2>4
  <2>7. ~view(k).synced => view(k).named = {} /\ Present(view(k)) \subseteq view(k).met
    BY <2>3, <2>4
  <2> QED
    BY <2>5, <2>6, <2>7 DEF Fine
<1>8. LET last == view(a + b + 2)
      IN  last.rooms = there /\ last.place = where /\ last.synced
  <2> DEFINE n == a + b + 2
  <2>1. rooms(n) = there /\ placed(n) = Connected /\ n > a + b + 1
    BY <1>2
  <2> HIDE DEF rooms, placed, n
  <2>2. place(n) = where
    BY <1>1, <2>1
  <2> HIDE DEF place
  <2> QED
    BY <2>1, <2>2 DEF n
<1> HIDE DEF view
<1>9. v \in Seq(View) /\ Len(v) = a + b + 2 /\ DOMAIN v = 1 .. a + b + 2
  BY <1>2, <1>4
<1>10. Leads(v)
  <2>1. v[1] = Upcoming
    BY <1>2, <1>5
  <2>2. \A k \in DOMAIN net : v[k + 1] = Told(v[k], net[k])
    BY <1>2, <1>3, <1>6
  <2>3. \A k \in DOMAIN v : Fine(v[k])
    BY <1>7
  <2>4. Agrees(v[Len(v)])
    BY <1>2, <1>8, <1>9 DEF Agrees
  <2>5. Len(v) = Len(net) + 1
    BY <1>2, <1>3, <1>9
  <2>6. \A k \in DOMAIN net : AdjustsAlone(net[k])
    BY FirstPackets
  <2> HIDE DEF v
  <2> QED
    BY <1>3, <1>9, <2>1, <2>2, <2>3, <2>4, <2>5, <2>6 DEF Leads, Chain
<1> HIDE DEF v
<1> QED
  BY <1>10 DEF UpToDate

(* When the client joins, what is on the way makes it know the server.     *)
LEMMA InitIsGood == Init => ServerInv
<1> SUFFICES ASSUME Init PROVE ServerInv
  OBVIOUS
<1>1. TypeOK
  <2>1. there \subseteq Channels /\ where \in [Users -> Channels \cup {None}]
    BY DEF Init
  <2>2. /\ events \in 0 .. MaxEvents /\ audios \in 0 .. MaxAudio
        /\ users \in [Users -> UserRecord \cup {None}] /\ channels \subseteq Channels
        /\ online \in BOOLEAN /\ synced \in BOOLEAN /\ fault \in BOOLEAN
        /\ orphan \in UserRecord \cup {None}
    <3>1. events = 0 /\ audios = 0 /\ users = [s \in Users |-> None] /\ channels = {}
          /\ online = TRUE /\ synced = FALSE /\ fault = FALSE /\ orphan = None
      BY DEF Init
    <3>2. events \in 0 .. MaxEvents /\ audios \in 0 .. MaxAudio
      BY <3>1, ServerAssumption
    <3> QED
      BY <3>1, <3>2
  <2>3. announced \subseteq Users /\ present \subseteq Users /\ talking \subseteq Users
    BY DEF Init, Connected
  <2>4. /\ user_list \in Seq([index : Users, data : Users])
        /\ channel_list \in Seq([index : Channels, data : Channels])
    BY DEF Init
  <2> QED
    BY <2>1, <2>2, <2>3, <2>4 DEF TypeOK
<1>2. Shape
  BY FirstPackets DEF Init, Shape
<1>3. Pointed /\ RootIsDefault /\ Talking /\ MoveIsKnown
  BY DEF Init, Pointed, RootIsDefault, Talking, MoveIsKnown, Known, Speaking, OfUser, OfAudio
<1>4. ListsFit
  BY DEF Init, ListsFit, IndexedOnce, NodesOf, Known
<1> QED
  BY <1>1, <1>2, <1>3, <1>4, FirstViews DEF ServerInv

-----------------------------------------------------------------------------
(* A view stays fine when it is told of a user in a channel it knows,      *)
LEMMA PlacedIsFine ==
    ASSUME NEW v \in View, Fine(v), v.synced, NEW s \in Users,
           NEW c \in v.rooms \cup {None}, NEW adjusts \in SUBSET Channels
    PROVE  LET w == Placed(v, s, c, adjusts) IN w \in View /\ Fine(w) /\ w.synced
<1> DEFINE w == Placed(v, s, c, adjusts)
           at == IF c # None THEN c ELSE IF v.place[s] = None THEN Root ELSE v.place[s]
<1>1. /\ v.rooms \subseteq Channels /\ v.place \in [Users -> Channels \cup {None}]
      /\ v.met \subseteq Users /\ v.named \subseteq Users /\ v.synced = TRUE
  BY DEF View
<1>2. Root \in v.rooms /\ None \notin Channels /\ None \notin v.rooms
  BY <1>1, ServerAssumption DEF Fine
<1>3. at \in v.rooms
  BY <1>1, <1>2 DEF Fine, Present
<1>4. /\ w.rooms = v.rooms \cup adjusts /\ w.place = [v.place EXCEPT ![s] = at]
      /\ w.synced = TRUE /\ w.met = v.met
      /\ w.named = IF v.place[s] = None THEN v.named \cup {s} ELSE v.named
  BY <1>1 DEF Placed
<1>5. w \in View
  BY <1>1, <1>3 DEF Placed, View
<1>6. Present(w) = Present(v) \cup {s}
  BY <1>1, <1>2, <1>3, <1>4 DEF Present
<1>7. \A u \in Present(w) : w.place[u] \in w.rooms
  BY <1>1, <1>3, <1>4 DEF Fine, Present
<1> HIDE DEF w
<1>8. w.named = Present(w) \ w.met
  <2>1. v.named = Present(v) \ v.met /\ v.met \subseteq Present(v)
    BY DEF Fine
  <2>2. CASE v.place[s] = None
    <3>1. s \notin Present(v)
      BY <2>2 DEF Present
    <3> QED
      BY <1>4, <1>6, <2>1, <2>2, <3>1
  <2>3. CASE v.place[s] # None
    <3>1. s \in Present(v)
      BY <2>3 DEF Present
    <3> QED
      BY <1>4, <1>6, <2>1, <2>3, <3>1
  <2> QED
    BY <2>2, <2>3
<1> QED
  BY <1>2, <1>4, <1>5, <1>6, <1>7, <1>8 DEF Fine, w

(* ... of a user who has left,                                             *)
LEMMA WithoutIsFine ==
    ASSUME NEW v \in View, Fine(v), v.synced, NEW s \in Users
    PROVE  LET w == Without(v, s) IN w \in View /\ Fine(w) /\ w.synced
<1> DEFINE w == Without(v, s)
<1>1. /\ v.rooms \subseteq Channels /\ v.place \in [Users -> Channels \cup {None}]
      /\ v.met \subseteq Users /\ v.named \subseteq Users /\ v.synced = TRUE
  BY DEF View
<1>2. /\ w.rooms = v.rooms /\ w.place = [v.place EXCEPT ![s] = None]
      /\ w.synced = TRUE /\ w.met = v.met \ {s} /\ w.named = v.named \ {s}
  BY <1>1 DEF Without
<1>3. w \in View
  BY <1>1 DEF Without, View
<1>4. Present(w) = Present(v) \ {s}
  BY <1>1, <1>2 DEF Present
<1>5. \A u \in Present(w) : w.place[u] \in w.rooms
  BY <1>1, <1>2, <1>4 DEF Fine, Present
<1> HIDE DEF w
<1>6. Root \in v.rooms /\ v.named = Present(v) \ v.met /\ v.met \subseteq Present(v)
  BY DEF Fine
<1> QED
  BY <1>2, <1>3, <1>4, <1>5, <1>6 DEF Fine, w

(* ... and of channels, as long as its users are in channels it knows.     *)
LEMMA WithRoomsIsFine ==
    ASSUME NEW v \in View, Fine(v), v.synced, NEW rooms \in SUBSET Channels,
           Root \in rooms, \A s \in Present(v) : v.place[s] \in rooms
    PROVE  LET w == WithRooms(v, rooms, v.synced) IN w \in View /\ Fine(w) /\ w.synced
<1> DEFINE w == WithRooms(v, rooms, v.synced)
<1>1. /\ w.rooms = rooms /\ w.place = v.place
      /\ w.synced = v.synced /\ w.met = v.met /\ w.named = v.named
  BY DEF WithRooms
<1>2. w \in View
  BY DEF WithRooms, View
<1>3. Present(w) = Present(v)
  BY <1>1 DEF Present
<1> HIDE DEF w
<1> QED
  BY <1>1, <1>2, <1>3 DEF Fine, w

-----------------------------------------------------------------------------
(* The packets ms lead from the server's view to the one after the step.   *)
Sent(ms) ==
    /\ net' = net \o ms
    /\ \A v \in View : Fine(v) /\ Agrees(v) =>
         \E ws : /\ More(v, ms, ws)
                /\ LET last == ws[Len(ws)]
                   IN  last.synced /\ last.rooms = there' /\ last.place = where'

(* A change of the server that sends one packet, for its views,            *)
LEMMA OneIsSent ==
    ASSUME NEW m \in Packets, AdjustsAlone(m), net' = net \o <<m>>,
           \A v \in View : Fine(v) /\ Agrees(v) =>
              LET w == Told(v, m)
              IN  w \in View /\ Fine(w) /\ w.synced /\ w.rooms = there' /\ w.place = where'
    PROVE  \E ms : Sent(ms)
<1> DEFINE ms == <<m>>
<1>1. ms \in Seq(Packets) /\ Len(ms) = 1 /\ ms[1] = m /\ ms # <<>> /\ DOMAIN ms = 1 .. 1
  OBVIOUS
<1>2. ASSUME NEW v \in View, Fine(v), Agrees(v)
      PROVE  \E ws : /\ More(v, ms, ws)
                     /\ LET last == ws[Len(ws)]
                        IN  last.synced /\ last.rooms = there' /\ last.place = where'
  <2> DEFINE w == Told(v, m)
             ws == <<w>>
  <2>1. w \in View /\ Fine(w) /\ w.synced /\ w.rooms = there' /\ w.place = where'
    BY <1>2
  <2> HIDE DEF w
  <2>2. ws \in Seq(View) /\ Len(ws) = 1 /\ ws[1] = w /\ DOMAIN ws = 1 .. 1
    BY <2>1
  <2> HIDE DEF ws, ms
  <2>3. More(v, ms, ws)
    BY <1>1, <2>1, <2>2 DEF w, More
  <2> QED
    BY <2>1, <2>2, <2>3
<1>3. Sent(ms)
  BY <1>1, <1>2 DEF Sent
<1> QED
  BY <1>3

(* Each change of the server's sends packets that lead to its new state.   *)
LEMMA ViewOfServer ==
    ASSUME TypeOK, NEW v \in View, Fine(v), Agrees(v)
    PROVE  /\ Present(v) = Connected /\ Root \in there /\ v.synced = TRUE
           /\ \A s \in Connected : where[s] \in there
           /\ None \notin there
BY ServerAssumption DEF Fine, Agrees, Present, Connected, TypeOK, View

(* ... which a user that joins makes,                                      *)
LEMMA JoinsSends ==
    ASSUME TypeOK, NEW s \in Users, NEW c \in Channels, Joins(s, c)
    PROVE  \E ms : Sent(ms)
<1> DEFINE m == InChannel(s, c)
<1>1. /\ where[s] = None /\ c \in there /\ there' = there
      /\ where' = [where EXCEPT ![s] = c] /\ net' = net \o <<m>>
  BY DEF Joins, Change
<1>2. /\ m \in Packets /\ AdjustsAlone(m) /\ m.type = "UserState" /\ m.user = s
      /\ m.channel = (IF c = Root THEN None ELSE c) /\ m.adjusts = {}
  BY DEF InChannel, UserState, Packets, UserStates, AdjustsAlone
<1> HIDE DEF m
<1>3. ASSUME NEW v \in View, Fine(v), Agrees(v)
      PROVE  LET w == Told(v, m)
             IN  w \in View /\ Fine(w) /\ w.synced /\ w.rooms = there' /\ w.place = where'
  <2>1. /\ v.synced /\ v.rooms = there /\ v.place = where /\ m.channel \in v.rooms \cup {None}
        /\ None \notin there
    BY <1>1, <1>2, <1>3, ViewOfServer DEF Agrees
  <2>2. Told(v, m) = Placed(v, s, m.channel, {})
    BY <1>2 DEF Told
  <2>3. LET w == Placed(v, s, m.channel, {}) IN w \in View /\ Fine(w) /\ w.synced
    BY <1>3, <2>1, PlacedIsFine
  <2>4. Placed(v, s, m.channel, {}).rooms = there
    BY <2>1 DEF Placed
  <2>5. Placed(v, s, m.channel, {}).place = where'
    BY <1>1, <1>2, <2>1 DEF Placed
  <2> QED
    BY <1>1, <2>2, <2>3, <2>4, <2>5
<1> QED
  BY <1>1, <1>2, <1>3, OneIsSent

(* ... a user that moves,                                                  *)
LEMMA MovesSends ==
    ASSUME TypeOK, NEW s \in Users, NEW c \in Channels, Moves(s, c)
    PROVE  \E ms : Sent(ms)
<1> DEFINE m == UserState(s, c, {})
<1>1. /\ c \in there /\ there' = there
      /\ where' = [where EXCEPT ![s] = c] /\ net' = net \o <<m>>
  BY DEF Moves, Change
<1>2. /\ m \in Packets /\ AdjustsAlone(m) /\ m.type = "UserState" /\ m.user = s
      /\ m.channel = c /\ m.adjusts = {}
  BY DEF UserState, Packets, UserStates, AdjustsAlone
<1> HIDE DEF m
<1>3. ASSUME NEW v \in View, Fine(v), Agrees(v)
      PROVE  LET w == Told(v, m)
             IN  w \in View /\ Fine(w) /\ w.synced /\ w.rooms = there' /\ w.place = where'
  <2>1. v.synced /\ v.rooms = there /\ v.place = where /\ None \notin there
    BY <1>3, ViewOfServer DEF Agrees
  <2>2. Told(v, m) = Placed(v, s, c, {})
    BY <1>2 DEF Told
  <2>3. LET w == Placed(v, s, c, {}) IN w \in View /\ Fine(w) /\ w.synced
    BY <1>1, <1>3, <2>1, PlacedIsFine
  <2>4. Placed(v, s, c, {}).rooms = there
    BY <2>1 DEF Placed
  <2>5. Placed(v, s, c, {}).place = where'
    BY <1>1, <2>1 DEF Placed
  <2> QED
    BY <1>1, <2>2, <2>3, <2>4, <2>5
<1> QED
  BY <1>1, <1>2, <1>3, OneIsSent

(* ... a user that changes its own state,                                  *)
LEMMA UpdatesSends ==
    ASSUME TypeOK, NEW s \in Users, Updates(s)
    PROVE  \E ms : Sent(ms)
<1>1. PICK adjusts \in {{}} \cup (IF s = Me THEN {{c} : c \in there} ELSE {}) :
        Change(<<UserState(s, None, adjusts)>>)
  BY DEF Updates
<1> DEFINE m == UserState(s, None, adjusts)
<1>2. /\ where[s] # None /\ there' = there /\ where' = where /\ net' = net \o <<m>>
      /\ adjusts \subseteq there /\ adjusts \subseteq Channels
  BY <1>1 DEF Updates, Change, TypeOK
<1>3. /\ m \in Packets /\ AdjustsAlone(m) /\ m.type = "UserState" /\ m.user = s
      /\ m.channel = None /\ m.adjusts = adjusts
  BY <1>2 DEF UserState, Packets, UserStates, AdjustsAlone
<1> HIDE DEF m
<1>4. ASSUME NEW v \in View, Fine(v), Agrees(v)
      PROVE  LET w == Told(v, m)
             IN  w \in View /\ Fine(w) /\ w.synced /\ w.rooms = there' /\ w.place = where'
  <2>1. v.synced /\ v.rooms = there /\ v.place = where
    BY <1>4 DEF Agrees
  <2>2. Told(v, m) = Placed(v, s, None, adjusts)
    BY <1>3 DEF Told
  <2>3. LET w == Placed(v, s, None, adjusts) IN w \in View /\ Fine(w) /\ w.synced
    BY <1>2, <1>4, <2>1, PlacedIsFine
  <2>4. Placed(v, s, None, adjusts).rooms = there
    BY <1>2, <2>1 DEF Placed
  <2>5. Placed(v, s, None, adjusts).place = where
    <3>1. [where EXCEPT ![s] = where[s]] = where
      BY DEF TypeOK
    <3> QED
      BY <1>2, <2>1, <3>1 DEF Placed
  <2> QED
    BY <1>2, <2>2, <2>3, <2>4, <2>5
<1> QED
  BY <1>2, <1>3, <1>4, OneIsSent

(* ... a user that leaves,                                                 *)
LEMMA LeavesSends ==
    ASSUME TypeOK, NEW s \in Users, Leaves(s)
    PROVE  \E ms : Sent(ms)
<1>0. PICK actor \in Users \cup {None} : Change(<<UserRemove(s, actor)>>)
  BY DEF Leaves, Connected
<1> DEFINE m == UserRemove(s, actor)
<1>1. /\ there' = there /\ where' = [where EXCEPT ![s] = None] /\ net' = net \o <<m>>
  BY <1>0 DEF Leaves, Change
<1>2. m \in Packets /\ AdjustsAlone(m) /\ m.type = "UserRemove" /\ m.user = s
  BY DEF UserRemove, Packets, UserRemoves, AdjustsAlone
<1> HIDE DEF m
<1>3. ASSUME NEW v \in View, Fine(v), Agrees(v)
      PROVE  LET w == Told(v, m)
             IN  w \in View /\ Fine(w) /\ w.synced /\ w.rooms = there' /\ w.place = where'
  <2>1. v.synced /\ v.rooms = there /\ v.place = where
    BY <1>3 DEF Agrees
  <2>2. Told(v, m) = Without(v, s)
    BY <1>2 DEF Told
  <2>3. LET w == Without(v, s) IN w \in View /\ Fine(w) /\ w.synced
    BY <1>3, <2>1, WithoutIsFine
  <2> QED
    BY <1>1, <2>1, <2>2, <2>3 DEF Without
<1> QED
  BY <1>1, <1>2, <1>3, OneIsSent

(* ... a channel that is made,                                             *)
LEMMA CreatesSends ==
    ASSUME TypeOK, NEW c \in Channels, Creates(c)
    PROVE  \E ms : Sent(ms)
<1> DEFINE m == ChannelState(c)
<1>1. /\ there' = there \cup {c} /\ where' = where /\ net' = net \o <<m>>
  BY DEF Creates, Change
<1>2. m \in Packets /\ AdjustsAlone(m) /\ m.type = "ChannelState" /\ m.channel = c
  BY DEF ChannelState, Packets, ChannelPackets, AdjustsAlone
<1> HIDE DEF m
<1>3. ASSUME NEW v \in View, Fine(v), Agrees(v)
      PROVE  LET w == Told(v, m)
             IN  w \in View /\ Fine(w) /\ w.synced /\ w.rooms = there' /\ w.place = where'
  <2> DEFINE rooms == there \cup {c}
  <2>1. /\ v.synced /\ v.rooms = there /\ v.place = where
        /\ Present(v) = Connected /\ Root \in there /\ \A s \in Connected : where[s] \in there
    BY <1>3, ViewOfServer DEF Agrees
  <2>2. Told(v, m) = WithRooms(v, rooms, v.synced)
    BY <1>2, <2>1 DEF Told
  <2>3. LET w == WithRooms(v, rooms, v.synced) IN w \in View /\ Fine(w) /\ w.synced
    <3>1. rooms \in SUBSET Channels /\ Root \in rooms /\ \A s \in Present(v) : v.place[s] \in rooms
      BY <2>1 DEF TypeOK
    <3> HIDE DEF rooms
    <3> QED
      BY <1>3, <2>1, <3>1, WithRoomsIsFine
  <2> QED
    BY <1>1, <2>1, <2>2, <2>3 DEF WithRooms
<1> QED
  BY <1>1, <1>2, <1>3, OneIsSent

(* ... and an answer about permissions.                                    *)
LEMMA AnswersSends ==
    ASSUME TypeOK, NEW c \in Channels, Answers(c)
    PROVE  \E ms : Sent(ms)
<1> DEFINE m == PermissionQuery(c)
<1>1. /\ c \in there /\ there' = there /\ where' = where /\ net' = net \o <<m>>
  BY DEF Answers, Change
<1>2. m \in Packets /\ AdjustsAlone(m) /\ m.type = "PermissionQuery" /\ m.channel = c
  BY DEF PermissionQuery, Packets, ChannelPackets, AdjustsAlone
<1> HIDE DEF m
<1>3. ASSUME NEW v \in View, Fine(v), Agrees(v)
      PROVE  LET w == Told(v, m)
             IN  w \in View /\ Fine(w) /\ w.synced /\ w.rooms = there' /\ w.place = where'
  <2>1. /\ v.synced /\ v.rooms = there /\ v.place = where
        /\ Present(v) = Connected /\ Root \in there /\ \A s \in Connected : where[s] \in there
    BY <1>3, ViewOfServer DEF Agrees
  <2>2. Told(v, m) = WithRooms(v, there, v.synced)
    <3>1. v.rooms \cup {c} = there
      BY <1>1, <2>1
    <3> QED
      BY <1>2, <3>1 DEF Told
  <2>3. LET w == WithRooms(v, there, v.synced) IN w \in View /\ Fine(w) /\ w.synced
    <3>1. there \in SUBSET Channels /\ \A s \in Present(v) : v.place[s] \in there
      BY <2>1 DEF TypeOK
    <3> QED
      BY <1>3, <2>1, <3>1, WithRoomsIsFine
  <2> QED
    BY <1>1, <2>1, <2>2, <2>3 DEF WithRooms
<1> QED
  BY <1>1, <1>2, <1>3, OneIsSent

(* The users of a channel are moved one by one before it is removed.       *)
LEMMA RemovesSends ==
    ASSUME TypeOK, NEW c \in Channels, Removes(c)
    PROVE  \E ms : Sent(ms)
<1> DEFINE moved == {s \in Users : where[s] = c}
<1>1. PICK us \in SetToSeqs(moved) :
        Change([k \in DOMAIN us |-> UserState(us[k], Root, {})] \o <<ChannelRemove(c)>>)
  BY DEF Removes
<1> DEFINE n  == Len(us)
           A  == [k \in DOMAIN us |-> UserState(us[k], Root, {})]
           ms == A \o <<ChannelRemove(c)>>
<1>2. /\ c \in there /\ c # Root /\ there' = there \ {c} /\ net' = net \o ms
      /\ where' = [s \in Users |-> IF s \in moved THEN Root ELSE where[s]]
      /\ there \subseteq Channels /\ where \in [Users -> Channels \cup {None}]
      /\ Root \in Channels /\ None \notin Channels
  BY <1>1, ServerAssumption DEF Removes, Change, TypeOK
<1>3. /\ us \in Seq(moved) /\ n \in Nat /\ DOMAIN us = 1 .. n
      /\ \A i, j \in DOMAIN us : us[i] = us[j] => i = j
      /\ {us[k] : k \in DOMAIN us} = moved
  <2>1. IsFiniteSet(moved)
    BY FS_Subset, ServerAssumption, moved \in SUBSET Users, Zenon
  <2> HIDE DEF moved
  <2>2. /\ us \in Seq(moved)
        /\ \A i, j \in DOMAIN us : us[i] = us[j] => i = j
        /\ {us[k] : k \in DOMAIN us} = moved
    BY <1>1, <2>1, OrderOf, Zenon
  <2> QED
    BY <2>2, LenProperties
<1>4. /\ ms \in Seq(Packets) /\ Len(ms) = n + 1 /\ DOMAIN ms = 1 .. n + 1
      /\ \A k \in 1 .. n : ms[k] = UserState(us[k], Root, {})
      /\ ms[n + 1] = ChannelRemove(c)
  <2>1. \A k \in 1 .. n : us[k] \in Users
    BY <1>3
  <2>2. /\ A \in Seq(Packets) /\ Len(A) = n
        /\ \A k \in 1 .. n : A[k] = UserState(us[k], Root, {})
    BY <1>2, <1>3, <2>1 DEF UserState, Packets, UserStates
  <2>3. <<ChannelRemove(c)>> \in Seq(Packets) /\ Len(<<ChannelRemove(c)>>) = 1
    BY DEF ChannelRemove, Packets, ChannelPackets
  <2> HIDE DEF A
  <2>4. /\ ms \in Seq(Packets) /\ Len(ms) = Len(A) + Len(<<ChannelRemove(c)>>)
        /\ \A k \in 1 .. Len(A) + Len(<<ChannelRemove(c)>>) :
              ms[k] = IF k <= Len(A) THEN A[k] ELSE <<ChannelRemove(c)>>[k - Len(A)]
    <3>1. A \in Seq(Packets) /\ <<ChannelRemove(c)>> \in Seq(Packets)
      BY <2>2, <2>3
    <3> QED
      BY <3>1, ConcatProperties, Zenon
  <2> HIDE DEF ms
  <2>5. ms[n + 1] = <<ChannelRemove(c)>>[1]
    BY <1>3, <2>2, <2>3, <2>4
  <2>6. \A k \in 1 .. n : ms[k] = A[k]
    BY <1>3, <2>2, <2>3, <2>4
  <2>7. Len(ms) = n + 1 /\ DOMAIN ms = 1 .. n + 1
    <3>1. DOMAIN ms = 1 .. Len(ms)
      BY <2>4, LenProperties, Zenon
    <3> QED
      BY <2>2, <2>3, <2>4, <3>1
  <2>8. \A k \in 1 .. n : ms[k] = UserState(us[k], Root, {})
    BY <2>2, <2>6
  <2>9. ms[n + 1] = ChannelRemove(c)
    BY <2>5
  <2> QED
    BY <2>4, <2>7, <2>8, <2>9
<1> HIDE DEF A, ms
<1>5. /\ \A k \in 1 .. n : /\ ms[k].type = "UserState" /\ ms[k].user = us[k]
                           /\ ms[k].channel = Root /\ ms[k].adjusts = {}
      /\ ms[n + 1].type = "ChannelRemove" /\ ms[n + 1].channel = c
  <2>1. ASSUME NEW k \in 1 .. n
        PROVE  /\ ms[k].type = "UserState" /\ ms[k].user = us[k]
               /\ ms[k].channel = Root /\ ms[k].adjusts = {}
    <3>1. ms[k] = UserState(us[k], Root, {})
      BY <1>4
    <3> QED
      BY <3>1 DEF UserState
  <2>2. ms[n + 1].type = "ChannelRemove" /\ ms[n + 1].channel = c
    BY <1>4 DEF ChannelRemove
  <2> QED
    BY <2>1, <2>2
<1>6. \A k \in DOMAIN ms : AdjustsAlone(ms[k])
  BY <1>3, <1>4, <1>5 DEF AdjustsAlone
<1>7. ASSUME NEW v \in View, Fine(v), Agrees(v)
      PROVE  \E ws : /\ More(v, ms, ws)
                     /\ LET last == ws[Len(ws)]
                        IN  last.synced /\ last.rooms = there' /\ last.place = where'
  <2> DEFINE first(k) == {us[j] : j \in {i \in 1 .. n : i <= k}}
             rooms(k) == IF k <= n THEN there ELSE there \ {c}
             place(k) == [s \in Users |-> IF s \in first(k) THEN Root ELSE where[s]]
             view(k)  == [rooms |-> rooms(k), place |-> place(k), synced |-> TRUE,
                          met |-> v.met, named |-> v.named]
             ws == [k \in 1 .. n + 1 |-> view(k)]
  <2>1. /\ v.rooms = there /\ v.place = where /\ v.synced = TRUE
        /\ v.met \subseteq Users /\ v.named \subseteq Users
        /\ Present(v) = Connected /\ Root \in there /\ \A s \in Connected : where[s] \in there
    BY <1>7, ViewOfServer DEF Agrees, View
  <2>2. view(0) = v
    <3>1. first(0) = {}
      BY <1>3
    <3>2. place(0) = where /\ rooms(0) = there
      BY <1>2, <1>3, <3>1
    <3> HIDE DEF place, rooms
    <3> QED
      BY <2>1, <3>2 DEF View
  <2>3. ASSUME NEW k \in 0 .. n PROVE view(k + 1) = Told(view(k), ms[k + 1])
    <3>1. CASE k < n
      <4>1. k + 1 \in 1 .. n /\ rooms(k) = there /\ rooms(k + 1) = there
        BY <1>3, <3>1
      <4>2. first(k + 1) = first(k) \cup {us[k + 1]}
        <5>1. {i \in 1 .. n : i <= k + 1} = {i \in 1 .. n : i <= k} \cup {k + 1}
          BY <1>3, <3>1
        <5> QED
          BY <5>1
      <4>3. us[k + 1] \in Users /\ where[us[k + 1]] # None
        BY <1>2, <1>3, <4>1
      <4>4. place(k + 1) = [place(k) EXCEPT ![us[k + 1]] = Root]
        BY <4>2, <4>3
      <4>5. place(k)[us[k + 1]] # None
        BY <1>2, <4>3
      <4> HIDE DEF place, rooms
      <4>6. /\ ms[k + 1].type = "UserState" /\ ms[k + 1].user = us[k + 1]
            /\ ms[k + 1].channel = Root /\ ms[k + 1].adjusts = {}
        BY <1>5, <4>1
      <4>7. Root # None
        BY <1>2
      <4> QED
        BY <4>1, <4>4, <4>5, <4>6, <4>7 DEF Told, Placed
    <3>2. CASE k = n
      <4>1. rooms(k) = there /\ rooms(k + 1) = there \ {c}
        BY <1>3, <3>2
      <4>2. first(k + 1) = first(k)
        BY <1>3, <3>2
      <4>3. place(k + 1) = place(k)
        BY <4>2
      <4> HIDE DEF place, rooms
      <4> QED
        BY <1>5, <3>2, <4>1, <4>3 DEF Told, WithRooms
    <3>3. k < n \/ k = n
      <4>1. n \in Nat
        BY <1>3
      <4> HIDE DEF n
      <4> QED
        BY <4>1
    <3> HIDE DEF view
    <3> QED
      BY <3>1, <3>2, <3>3
  <2>4. ASSUME NEW k \in 1 .. n + 1 PROVE view(k) \in View /\ Fine(view(k))
    <3>1. first(k) \subseteq moved /\ moved \subseteq Connected /\ moved \subseteq Users
      BY <1>2, <1>3 DEF Connected
    <3>2. place(k) \in [Users -> Channels \cup {None}] /\ rooms(k) \subseteq Channels
      BY <1>2
    <3>3. Present(view(k)) = Connected
      BY <1>2, <3>1 DEF Present, Connected
    <3>4. \A s \in Connected : place(k)[s] \in rooms(k)
      <4> SUFFICES ASSUME NEW s \in Users, where[s] # None PROVE place(k)[s] \in rooms(k)
        BY DEF Connected
      <4>1. where[s] \in there
        BY <2>1 DEF Connected
      <4>2. CASE k <= n
        BY <2>1, <4>1, <4>2
      <4>3. CASE k > n
        <5>1. first(k) = moved
          BY <1>3, <4>3
        <5>2. rooms(k) = there \ {c}
          BY <1>3, <4>3
        <5>3. s \notin moved => where[s] # c
          OBVIOUS
        <5> HIDE DEF first, rooms, moved
        <5> QED
          BY <1>2, <2>1, <4>1, <5>1, <5>2, <5>3
      <4> QED
        BY <1>3, <4>2, <4>3
    <3>5. Root \in rooms(k)
      BY <1>2, <2>1
    <3>6. /\ view(k).rooms = rooms(k) /\ view(k).place = place(k) /\ view(k).synced = TRUE
          /\ view(k).met = v.met /\ view(k).named = v.named
      OBVIOUS
    <3>7. view(k) \in View
      <4> HIDE DEF place, rooms
      <4> QED
        BY <2>1, <3>2 DEF View
    <3>8. v.met \subseteq Present(v) /\ v.named = Present(v) \ v.met
      BY <1>7, <2>1 DEF Fine
    <3> HIDE DEF view, place, rooms
    <3> QED
      BY <2>1, <3>3, <3>4, <3>5, <3>6, <3>7, <3>8 DEF Fine
  <2>5. view(n + 1).rooms = there' /\ view(n + 1).place = where'
    <3>1. first(n + 1) = moved
      BY <1>3
    <3>2. rooms(n + 1) = there \ {c}
      BY <1>3
    <3> HIDE DEF first, rooms
    <3> QED
      BY <1>2, <3>1, <3>2
  <2>6. view(n + 1).synced
    OBVIOUS
  <2> HIDE DEF view
  <2>7. /\ ws \in Seq(View) /\ Len(ws) = n + 1 /\ DOMAIN ws = 1 .. n + 1
        /\ \A k \in 1 .. n + 1 : ws[k] = view(k)
    BY <1>3, <2>4
  <2> HIDE DEF ws
  <2>8. ws[1] = Told(v, ms[1])
    <3>1. view(0 + 1) = Told(view(0), ms[0 + 1])
      BY <1>3, <2>3
    <3> QED
      BY <1>3, <2>2, <2>7, <3>1
  <2>9. \A k \in 1 .. Len(ms) - 1 : ws[k + 1] = Told(ws[k], ms[k + 1])
    <3> SUFFICES ASSUME NEW k \in 1 .. n PROVE ws[k + 1] = Told(ws[k], ms[k + 1])
      BY <1>3, <1>4
    <3>1. k \in 0 .. n /\ k \in 1 .. n + 1 /\ k + 1 \in 1 .. n + 1
      BY <1>3
    <3> QED
      BY <2>3, <2>7, <3>1
  <2>10. Len(ws) = Len(ms) /\ \A k \in DOMAIN ms : Fine(ws[k])
    BY <1>4, <2>4, <2>7
  <2>11. LET last == ws[Len(ws)] IN last.synced /\ last.rooms = there' /\ last.place = where'
    BY <1>3, <2>5, <2>6, <2>7
  <2>12. ms # <<>>
    BY <1>3, <1>4
  <2>13. More(v, ms, ws)
    BY <1>4, <1>6, <2>7, <2>8, <2>9, <2>10, <2>12 DEF More
  <2> QED
    BY <2>11, <2>13
<1>8. Sent(ms)
  BY <1>2, <1>7 DEF Sent
<1> QED
  BY <1>8

-----------------------------------------------------------------------------
(* A step that leaves net alone leaves the views alone, if it changes      *)
(* nothing that the client knows or soon will.                             *)
LEMMA SameViews ==
    ASSUME UpToDate, net' = net, UNCHANGED <<where, there>>, online' => online,
           Upcoming' = Upcoming
    PROVE  UpToDate'
<1> SUFFICES ASSUME online' PROVE \E v : Leads(v)'
  BY DEF UpToDate
<1>1. PICK v : Leads(v)
  BY DEF UpToDate
<1>2. Leads(v)'
  BY <1>1 DEF Leads, Agrees
<1> QED
  BY <1>2

(* ... and what the client knows is in its tables and flags.               *)
LEMMA SameView ==
    ASSUME UNCHANGED <<users, channels, synced, announced, present>>
    PROVE  ClientView' = ClientView
BY DEF ClientView

(* A packet that is taken off the network: what is known of it, and of the *)
(* client's view before and after it.                                      *)
LEMMA Taken ==
    ASSUME ServerInv, online, pc = "idle", net # <<>>, net' = Tail(net)
    PROVE  /\ Head(net) \in Packets /\ AdjustsAlone(Head(net)) /\ net' \in Seq(Packets)
           /\ ClientView \in View /\ Fine(ClientView)
           /\ Told(ClientView, Head(net)) \in View /\ Fine(Told(ClientView, Head(net)))
           /\ UNCHANGED <<where, there>> /\ Upcoming' = Told(ClientView, Head(net)) => UpToDate'
<1>1. PICK v : Leads(v)
  BY DEF ServerInv, UpToDate
<1>2. Chain(v, net) /\ v[1] = ClientView /\ Agrees(v[Len(v)])
  BY <1>1 DEF Leads, Upcoming
<1> DEFINE w == Tail(v)
<1>3. /\ Chain(w, net')
      /\ w[1] = Told(v[1], Head(net)) /\ w[Len(w)] = v[Len(v)]
      /\ Told(v[1], Head(net)) \in View /\ Fine(Told(v[1], Head(net)))
      /\ Head(net) \in Packets /\ AdjustsAlone(Head(net))
  BY <1>2, TailChain
<1> HIDE DEF w
<1>4. ClientView \in View /\ Fine(ClientView)
  BY <1>2, LastOfChain
<1>5. ASSUME UNCHANGED <<where, there>>, Upcoming' = Told(ClientView, Head(net))
      PROVE  UpToDate'
  <2>1. Leads(w)'
    BY <1>2, <1>3, <1>5 DEF Leads, Agrees
  <2> QED
    BY <2>1 DEF UpToDate
<1>6. net' \in Seq(Packets)
  BY <1>3 DEF Chain
<1> QED
  BY <1>2, <1>3, <1>4, <1>5, <1>6

(* The view of a client that handles nothing is fine.                      *)
LEMMA IdleIsFine ==
    ASSUME ServerInv, online, pc \notin {"assign", "removeUser", "removeChannel"}
    PROVE  ClientView \in View /\ Fine(ClientView)
<1>1. PICK v : Leads(v)
  BY DEF ServerInv, UpToDate
<1>2. Chain(v, net) /\ v[1] = ClientView
  BY <1>1 DEF Leads, Upcoming
<1> QED
  BY <1>2, LastOfChain

(* The tables and the lists after a step that does not touch them.         *)
LEMMA TablesKept ==
    ASSUME ServerInv, UNCHANGED <<tables, online>>
    PROVE  ListsFit' /\ RootIsDefault' /\ Known' = Known /\ Speaking' = Speaking
BY DEF ServerInv, ListsFit, RootIsDefault, Known, Speaking, tables, IndexedOnce, NodesOf

(* ... and after mumble_disconnect.                                        *)
LEMMA DisconnectEmpties ==
    ASSUME ServerInv, Disconnect
    PROVE  /\ ListsFit' /\ RootIsDefault' /\ Talking' /\ MoveIsKnown' /\ UpToDate'
           /\ users' \in [Users -> UserRecord \cup {None}] /\ channels' \subseteq Channels
           /\ user_list' \in Seq([index : Users, data : Users])
           /\ channel_list' \in Seq([index : Channels, data : Channels])
           /\ net' \in Seq(Packets) /\ audio' \subseteq AudioPackets
           /\ ~online'
<1>1. /\ online' = FALSE /\ users' = [s \in Users |-> None] /\ channels' = {}
      /\ user_list' = <<>> /\ channel_list' = <<>> /\ net' = <<>> /\ audio' = {}
  BY DEF Disconnect
<1>2. Known' = {}
  BY <1>1 DEF Known
<1>3. ListsFit'
  BY <1>1, <1>2 DEF ListsFit, IndexedOnce, NodesOf
<1> QED
  BY <1>1, <1>2, <1>3 DEF RootIsDefault, Talking, MoveIsKnown, UpToDate

-----------------------------------------------------------------------------
(* The server's changes.                                                   *)
LEMMA ChangeIsGood ==
    ASSUME ServerInv, NEW ms, Sent(ms), Waiting,
           where' \in [Users -> Channels \cup {None}], there' \subseteq Channels,
           events' \in 0 .. MaxEvents,
           UNCHANGED <<audios, audio, client, handler, ghosts>>
    PROVE  ServerInv'
<1> USE DEF client, tables, handler, ghosts
<1>1. PICK v : Leads(v)
  BY DEF ServerInv, UpToDate, Waiting
<1>2. Chain(v, net) /\ v[1] = Upcoming /\ Agrees(v[Len(v)])
  BY <1>1 DEF Leads
<1>3. v[Len(v)] \in View /\ Fine(v[Len(v)])
  BY <1>2, LastOfChain
<1>4. net' = net \o ms
  BY DEF Sent
<1>5. PICK ws :
        /\ More(v[Len(v)], ms, ws)
        /\ LET last == ws[Len(ws)]
           IN  last.synced /\ last.rooms = there' /\ last.place = where'
  BY <1>2, <1>3 DEF Sent
<1> DEFINE w == v \o ws
<1>6. Chain(w, net') /\ w[1] = v[1] /\ w[Len(w)] = ws[Len(ws)]
  <2>1. Chain(w, net \o ms) /\ w[1] = v[1] /\ w[Len(w)] = ws[Len(ws)]
    <3>1. Chain(v, net) /\ More(v[Len(v)], ms, ws)
      BY <1>2, <1>5
    <3>2. Prolongs(v, net \o ms, ws)
      BY <3>1, MoreChain, Zenon
    <3> QED
      BY <3>2 DEF Prolongs
  <2> HIDE DEF w
  <2> QED
    BY <1>4, <2>1
<1> HIDE DEF w
<1>7. Upcoming' = Upcoming
  BY DEF Upcoming, ClientView
<1>8. Leads(w)'
  BY <1>2, <1>5, <1>6, <1>7 DEF Leads, Agrees
<1>9. UpToDate'
  BY <1>8 DEF UpToDate
<1>11. TypeOK'
  BY DEF ServerInv, TypeOK
<1>12. Shape'
  BY <1>6 DEF ServerInv, Shape, Waiting, Chain
<1>13. Pointed' /\ ListsFit' /\ RootIsDefault' /\ Talking' /\ MoveIsKnown'
  BY DEF ServerInv, Pointed, ListsFit, RootIsDefault, Talking, MoveIsKnown, Known,
         Speaking, IndexedOnce, NodesOf
<1> QED
  BY <1>9, <1>11, <1>12, <1>13 DEF ServerInv

(* The server forwards audio.                                              *)
LEMMA ForwardsIsGood ==
    ASSUME ServerInv, NEW s \in Users, NEW last \in BOOLEAN, Forwards(s, last)
    PROVE  ServerInv'
<1> USE DEF client, tables, handler, ghosts
<1>1. /\ UNCHANGED <<where, there, events, net, client, handler, ghosts>>
      /\ audios < MaxAudio /\ audios' = audios + 1 /\ audio' = audio \cup {Audio(s, last)}
  BY DEF Forwards
<1>2. audio' \subseteq AudioPackets
  <2>1. Audio(s, last) \in AudioPackets
    BY DEF Audio, AudioPackets
  <2> QED
    BY <1>1, <2>1 DEF ServerInv, Shape
<1>3. audios' \in 0 .. MaxAudio
  BY <1>1, ServerAssumption DEF ServerInv, TypeOK
<1>4. TypeOK'
  BY <1>1, <1>3 DEF ServerInv, TypeOK
<1>5. Shape'
  BY <1>1, <1>2 DEF ServerInv, Shape
<1>6. Upcoming' = Upcoming
  BY <1>1 DEF Upcoming, ClientView
<1>7. UpToDate'
  BY <1>1, <1>6, SameViews DEF ServerInv
<1>8. Pointed' /\ ListsFit' /\ RootIsDefault' /\ Talking' /\ MoveIsKnown'
  BY <1>1 DEF ServerInv, Pointed, ListsFit, RootIsDefault, Talking, MoveIsKnown, Known,
         Speaking, IndexedOnce, NodesOf
<1> QED
  BY <1>4, <1>5, <1>7, <1>8 DEF ServerInv

(* All that the server does.                                               *)
LEMMA ServerIsGood == ASSUME ServerInv, Server PROVE ServerInv'
<1>types. /\ TypeOK /\ None \notin Channels /\ Root \in Channels /\ MaxEvents \in Nat
          /\ where \in [Users -> Channels \cup {None}] /\ there \subseteq Channels
          /\ events \in 0 .. MaxEvents
  BY ServerAssumption DEF ServerInv, TypeOK
<1>change. ASSUME NEW messages, Change(messages)
           PROVE  /\ Waiting /\ events' \in 0 .. MaxEvents
                  /\ UNCHANGED <<audios, audio, client, handler, ghosts>>
  BY <1>types, <1>change DEF Change
<1>1. ASSUME NEW s \in Users, NEW c \in Channels, Joins(s, c) PROVE ServerInv'
  <2>1. PICK ms : Sent(ms)
    BY <1>types, <1>1, JoinsSends
  <2> QED
    BY <1>types, <1>1, <1>change, <2>1, ChangeIsGood DEF Joins
<1>2. ASSUME NEW s \in Users, NEW c \in Channels, Moves(s, c) PROVE ServerInv'
  <2>1. PICK ms : Sent(ms)
    BY <1>types, <1>2, MovesSends
  <2> QED
    BY <1>types, <1>2, <1>change, <2>1, ChangeIsGood DEF Moves
<1>3. ASSUME NEW s \in Users, Updates(s) PROVE ServerInv'
  <2>1. PICK ms : Sent(ms)
    BY <1>types, <1>3, UpdatesSends
  <2> QED
    BY <1>types, <1>3, <1>change, <2>1, ChangeIsGood DEF Updates
<1>4. ASSUME NEW s \in Users, Leaves(s) PROVE ServerInv'
  <2>1. PICK ms : Sent(ms)
    BY <1>types, <1>4, LeavesSends
  <2> QED
    BY <1>types, <1>4, <1>change, <2>1, ChangeIsGood DEF Leaves
<1>5. ASSUME NEW c \in Channels, Creates(c) PROVE ServerInv'
  <2>1. PICK ms : Sent(ms)
    BY <1>types, <1>5, CreatesSends
  <2> QED
    BY <1>types, <1>5, <1>change, <2>1, ChangeIsGood DEF Creates
<1>6. ASSUME NEW c \in Channels, Removes(c) PROVE ServerInv'
  <2>1. PICK ms : Sent(ms)
    BY <1>types, <1>6, RemovesSends
  <2>2. there' \subseteq Channels /\ where' \in [Users -> Channels \cup {None}]
    BY <1>types, <1>6 DEF Removes
  <2>3. PICK messages : Change(messages)
    BY <1>6 DEF Removes
  <2> QED
    BY <1>change, <2>1, <2>2, <2>3, ChangeIsGood
<1>7. ASSUME NEW c \in Channels, Answers(c) PROVE ServerInv'
  <2>1. PICK ms : Sent(ms)
    BY <1>types, <1>7, AnswersSends
  <2> QED
    BY <1>types, <1>7, <1>change, <2>1, ChangeIsGood DEF Answers
<1> QED
  BY <1>1, <1>2, <1>3, <1>4, <1>5, <1>6, <1>7, ForwardsIsGood DEF Server

-----------------------------------------------------------------------------
(* The handlers, and the script in a hook: one lemma for each.             *)

(* mumble_user_get: who is made anew is not connected, and in the root     *)
(* channel.                                                                *)
LEMMA GetsUser ==
    ASSUME ServerInv, NEW s \in Users, mumble_user_get(s)
    PROVE  /\ users' \in [Users -> UserRecord \cup {None}] /\ users'[s] # None
           /\ \A u \in Users : u # s => users'[u] = users[u]
           /\ users[s] # None => users'[s] = users[s]
           /\ users[s] = None => users'[s] = NewUser
           /\ Known' = Known \cup {s} /\ Fits(user_list', Users, Known')
<1> DEFINE rec == IF users[s] = None THEN NewUser ELSE users[s]
<1>1. /\ users \in [Users -> UserRecord \cup {None}] /\ Fits(user_list, Users, Known)
  BY DEF ServerInv, TypeOK, ListsFit, Fits
<1>2. NewUser \in UserRecord /\ None \notin UserRecord
  BY ServerAssumption DEF NewUser, UserRecord
<1>3. users' = [users EXCEPT ![s] = rec] /\ rec \in UserRecord /\ rec # None
  BY <1>1, <1>2 DEF mumble_user_get
<1>4. Known' = Known \cup {s}
  BY <1>1, <1>3 DEF Known
<1>5. Fits(user_list', Users, Known')
  <2>1. CASE users[s] = None
    <3>1. user_list' = list_add(user_list, s, s) /\ s \notin Known
      BY <2>1 DEF mumble_user_get, Known
    <3> QED
      BY <1>1, <1>4, <3>1, AddFits
  <2>2. CASE users[s] # None
    <3>1. user_list' = user_list /\ s \in Known
      BY <2>2 DEF mumble_user_get, Known
    <3>2. Known \cup {s} = Known
      BY <3>1
    <3> QED
      BY <1>1, <1>4, <3>1, <3>2
  <2> QED
    BY <2>1, <2>2
<1> QED
  BY <1>1, <1>3, <1>4, <1>5

(* mumble_channel_get.                                                     *)
LEMMA GetsChannels ==
    ASSUME ServerInv, NEW cs \in SUBSET Channels, mumble_channel_get(cs)
    PROVE  /\ channels' = channels \cup cs /\ channels' \subseteq Channels
           /\ Fits(channel_list', Channels, channels')
<1>1. Fits(channel_list, Channels, channels) /\ channels \subseteq Channels
  BY DEF ServerInv, TypeOK, ListsFit, Fits
<1>2. PICK new \in SetToSeqs(cs \ channels) :
        channel_list' = [k \in DOMAIN new |-> Node(new[k], new[k])] \o channel_list
  BY DEF mumble_channel_get
<1>3. channels' = channels \cup cs
  BY DEF mumble_channel_get
<1> QED
  BY <1>1, <1>2, <1>3, PrependFits, ServerAssumption

(* ListsFit in these terms.                                                *)
LEMMA FitsBoth ==
    ASSUME ServerInv
    PROVE  Fits(user_list, Users, Known) /\ Fits(channel_list, Channels, channels)
BY DEF ServerInv, TypeOK, ListsFit, Fits

(* ... and back.                                                           *)
LEMMA BothFit ==
    ASSUME Fits(user_list', Users, Known'), Fits(channel_list', Channels, channels')
    PROVE  ListsFit'
BY DEF ListsFit, Fits, IndexedOnce, NodesOf

(* packet_user_state, up to OnUserChannel: the move it tells is known.     *)
LEMMA HandleUserStateIsGood == ASSUME ServerInv, HandleUserState PROVE ServerInv'
<1> DEFINE s == packet'.user
           c == packet'.channel
<1>1. /\ pc = "idle" /\ online /\ net # <<>> /\ packet' = Head(net) /\ net' = Tail(net)
      /\ Head(net).type = "UserState" /\ hook = "none"
      /\ UNCHANGED <<serverVars, audio, online, orphan, fault>>
      /\ UNCHANGED <<channels, channel_list, synced, announced, present, talking>>
      /\ mumble_user_get(s) /\ pc' = "assign"
  BY DEF HandleUserState, Handle, Call, ServerInv, Shape, OfUser, OfAudio
<1>2. /\ Head(net) \in Packets /\ AdjustsAlone(Head(net)) /\ net' \in Seq(Packets)
      /\ ClientView \in View /\ Fine(ClientView)
      /\ Told(ClientView, Head(net)) \in View /\ Fine(Told(ClientView, Head(net)))
      /\ UNCHANGED <<where, there>> /\ Upcoming' = Told(ClientView, Head(net)) => UpToDate'
  BY <1>1, Taken
<1>3. packet' \in UserStates /\ AdjustsAlone(packet') /\ s \in Users /\ c \in Channels \cup {None}
  BY <1>1, <1>2 DEF Packets, UserStates, UserRemoves, ChannelPackets
<1> HIDE DEF s, c
<1>4. /\ users' \in [Users -> UserRecord \cup {None}] /\ users'[s] # None
      /\ \A u \in Users : u # s => users'[u] = users[u]
      /\ users[s] # None => users'[s] = users[s]
      /\ users[s] = None => users'[s] = NewUser
      /\ Known' = Known \cup {s} /\ Fits(user_list', Users, Known')
  BY <1>1, <1>3, GetsUser
<1>5. ListsFit'
  <2>1. Fits(channel_list', Channels, channels')
    <3>1. channel_list' = channel_list /\ channels' = channels
      BY <1>1
    <3> QED
      BY <3>1, FitsBoth
  <2> QED
    BY <1>1, <1>4, <2>1, BothFit
<1>6. /\ RootIsDefault' /\ Talking'
  BY <1>1, <1>4 DEF ServerInv, RootIsDefault, Talking, Known, Speaking, NewUser
<1>7. ClientView' = ClientView
  BY <1>1, <1>4 DEF ClientView, NewUser
<1>8. UpToDate'
  <2>1. Upcoming' = Told(ClientView, Head(net))
    BY <1>1, <1>7 DEF Upcoming
  <2> QED
    BY <1>1, <1>2, <2>1 DEF serverVars
<1>moved. CASE Moved(users'[s], c)
  <2>1. hook' = "OnUserChannel" /\ move' = [user |-> s, from |-> users'[s].channel_id, to |-> c]
    BY <1>1, <1>moved DEF HandleUserState, Call, s, c
  <2>2. /\ c # None /\ users'[s].connected /\ synced /\ users'[s].channel_id # c
    BY <1>moved DEF Moved
  <2>3. users[s] # None /\ users'[s] = users[s]
    BY <1>4, <2>2 DEF NewUser
  <2>4. /\ s \in Present(ClientView) /\ ClientView.place[s] = users[s].channel_id
        /\ ClientView.rooms = channels /\ ClientView.synced = synced
        /\ ClientView.met = present /\ ClientView.named = announced
    <3>1. users[s] \in UserRecord /\ users[s].channel_id # None
      BY <1>3, <2>3, ServerAssumption DEF ServerInv, TypeOK, UserRecord
    <3> QED
      BY <1>3, <2>2, <2>3, <3>1 DEF Present, ClientView
  <2>5. users[s].channel_id \in channels /\ s \in announced \cup present
    BY <1>2, <2>2, <2>4 DEF Fine
  <2>6. c \in channels
    <3> DEFINE w == Told(ClientView, Head(net))
    <3>1. w = Placed(ClientView, s, c, {})
      <4>1. /\ Head(net).type = "UserState" /\ Head(net).user = s /\ Head(net).channel = c
            /\ Head(net).adjusts = {}
        BY <1>1, <1>2, <2>2 DEF AdjustsAlone, s, c
      <4> QED
        BY <4>1 DEF Told
    <3>2. w.rooms = channels /\ w.place[s] = c
      BY <1>3, <2>2, <2>4, <3>1 DEF Placed, ClientView
    <3> HIDE DEF w
    <3>3. w.place[s] \in w.rooms
      BY <1>2, <1>3, <2>2, <3>2 DEF Fine, Present, w
    <3> QED
      BY <3>2, <3>3
  <2> QED
    <3>1. MoveIsKnown'
      <4>1. /\ move'.user = s /\ move'.from = users[s].channel_id /\ move'.to = c
        BY <2>1, <2>3
      <4> QED
        BY <1>1, <2>2, <2>3, <2>5, <2>6, <4>1 DEF MoveIsKnown
    <3>2. TypeOK'
      BY <1>1, <1>4, <1>5 DEF ServerInv, TypeOK, serverVars, Fits
    <3>3. Shape'
      BY <1>1, <1>2, <1>3, <2>1, <2>2 DEF ServerInv, Shape, OfUser, c
    <3>4. Pointed'
      BY <1>1, <1>4 DEF ServerInv, Pointed, s
    <3> QED
      BY <1>5, <1>6, <1>8, <3>1, <3>2, <3>3, <3>4 DEF ServerInv
<1>stays. CASE ~Moved(users'[s], c)
  <2>1. hook' = "none" /\ move' = move
    BY <1>1, <1>stays DEF HandleUserState, Call, s, c
  <2>2. MoveIsKnown'
    BY <2>1 DEF MoveIsKnown
  <2>3. TypeOK'
    BY <1>1, <1>4, <1>5 DEF ServerInv, TypeOK, serverVars, Fits
  <2>4. Shape'
    BY <1>1, <1>2, <1>3, <2>1 DEF ServerInv, Shape, OfUser
  <2>5. Pointed'
    BY <1>1, <1>4 DEF ServerInv, Pointed, s
  <2> QED
    BY <1>5, <1>6, <1>8, <2>2, <2>3, <2>4, <2>5 DEF ServerInv
<1> QED
  BY <1>moved, <1>stays

(* ... up to OnUserConnect: who was not known is named,                    *)
LEMMA AssignIsGood == ASSUME ServerInv, Assign PROVE ServerInv'
<1> DEFINE s    == packet.user
           c    == packet.channel
           user == User
           rec  == [user EXCEPT !.channel_id = ChannelOf(user, c), !.connected = Connects(user)]
<1>1. /\ pc = "assign" /\ hook = "none"
      /\ UNCHANGED <<net, audio, online, serverVars, synced>>
      /\ packet \in UserStates /\ AdjustsAlone(packet)
      /\ s \in Users /\ c \in Channels \cup {None}
      /\ packet.adjusts \in SUBSET Channels /\ packet.type = "UserState"
      /\ ~online => c # None
  BY DEF Assign, Continue, Rest, ServerInv, Shape, OfUser, OfAudio, UserStates
<1>2. CASE /\ ~online /\ orphan # None
           /\ fault' = TRUE /\ pc' = "idle" /\ packet' = NoPacket /\ orphan' = None
           /\ UNCHANGED <<hook, tables, ghosts>>
  <2>1. ListsFit' /\ RootIsDefault'
    BY <1>1, <1>2, TablesKept
  <2>2. UpToDate' /\ Talking' /\ MoveIsKnown' /\ Pointed'
    BY <1>1, <1>2 DEF UpToDate, Talking, MoveIsKnown, Pointed, OfUser, OfAudio
  <2>3. TypeOK'
    BY <1>1, <1>2 DEF ServerInv, TypeOK, serverVars, tables, ghosts
  <2>4. Shape'
    BY <1>1, <1>2 DEF ServerInv, Shape
  <2> QED
    BY <2>1, <2>2, <2>3, <2>4 DEF ServerInv
<1>3. CASE /\ Write(rec)
           /\ IF ~user.connected /\ synced
              THEN /\ Call("OnUserConnect", "state")
                   /\ announced' = announced \cup {s}
              ELSE Call("none", "state") /\ UNCHANGED announced
           /\ mumble_channel_get(packet.adjusts)
           /\ UNCHANGED <<packet, user_list, present, talking, move>>
           /\ UNCHANGED fault
  <2>1. user \in UserRecord /\ user # None
    BY <1>1 DEF User, ServerInv, TypeOK, Pointed, OfUser
  <2>2. /\ rec \in UserRecord /\ rec # None /\ rec.connected = TRUE
        /\ rec.speaking = user.speaking /\ rec.channel_id = ChannelOf(user, c)
    BY <1>1, <2>1, ServerAssumption DEF UserRecord, ChannelOf, Connects
  <2>3. /\ pc' = "state" /\ packet' = packet /\ announced' \subseteq Users
        /\ hook' \in {"none", "OnUserConnect"}
    BY <1>1, <1>3 DEF Call, ServerInv, TypeOK
  <2>4. /\ channels' = channels \cup packet.adjusts /\ channels' \subseteq Channels
        /\ Fits(channel_list', Channels, channels')
    BY <1>1, <1>3, GetsChannels
  <2>5. Shape'
    BY <1>1, <2>3 DEF ServerInv, Shape, OfUser
  <2>6. MoveIsKnown'
    BY <2>3 DEF MoveIsKnown
  <2> HIDE DEF rec
  <2>on. CASE online
    <3>1. /\ users' = [users EXCEPT ![s] = rec] /\ orphan' = orphan /\ user = users[s]
          /\ users[s] # None /\ users \in [Users -> UserRecord \cup {None}]
      BY <1>1, <1>3, <2>on DEF Write, User, ServerInv, Pointed, OfUser, TypeOK
    <3>2. /\ users' \in [Users -> UserRecord \cup {None}] /\ Known' = Known
          /\ Speaking' = Speaking /\ users'[s] = rec
          /\ \A u \in Users : u # s => users'[u] = users[u]
      <4>1. /\ users' \in [Users -> UserRecord \cup {None}] /\ users'[s] = rec
            /\ \A u \in Users : u # s => users'[u] = users[u]
        BY <1>1, <2>2, <3>1
      <4> QED
        BY <2>2, <3>1, <4>1 DEF Known, Speaking
    <3>3. TypeOK'
      BY <1>1, <1>3, <2>3, <2>4, <3>1, <3>2 DEF ServerInv, TypeOK, serverVars, Fits
    <3>4. Pointed'
      BY <1>1, <2>2, <2>3, <2>on, <3>1, <3>2 DEF ServerInv, Pointed
    <3>5. ListsFit'
      <4>1. Fits(user_list', Users, Known')
        <5>1. user_list' = user_list
          BY <1>3
        <5> QED
          BY <3>2, <5>1, FitsBoth
      <4> QED
        BY <1>1, <2>4, <2>on, <4>1, BothFit
    <3>6. RootIsDefault' /\ Talking'
      <4>1. RootIsDefault'
        BY <2>2, <3>2 DEF ServerInv, RootIsDefault, Known
      <4>2. talking' = talking
        BY <1>3
      <4> QED
        BY <1>1, <2>3, <2>on, <3>2, <4>1, <4>2 DEF ServerInv, Talking
    <3>7. ClientView' = Told(ClientView, packet)
      <4> DEFINE v == ClientView
      <4>1. Told(v, packet) = Placed(v, s, c, packet.adjusts)
        BY <1>1 DEF Told
      <4>2. /\ v.rooms = channels /\ v.synced = synced /\ v.met = present /\ v.named = announced
            /\ DOMAIN v.place = Users
            /\ \A u \in Users : v.place[u] = IF users[u] # None /\ users[u].connected
                                             THEN users[u].channel_id ELSE None
        BY DEF ClientView
      <4>3. v.place[s] = (IF user.connected THEN user.channel_id ELSE None)
        BY <1>1, <3>1, <4>2
      <4>4. user.channel_id # None /\ (~user.connected => user.channel_id = Root)
        BY <1>1, <2>1, <3>1, ServerAssumption DEF ServerInv, RootIsDefault, Known, UserRecord
      <4>5. announced' = IF v.synced /\ v.place[s] = None THEN announced \cup {s} ELSE announced
        <5>1. v.place[s] = None <=> ~user.connected
          BY <2>1, <4>3, <4>4 DEF UserRecord
        <5> QED
          BY <1>3, <4>2, <5>1
      <4>6. [u \in Users |-> IF users'[u] # None /\ users'[u].connected
                              THEN users'[u].channel_id ELSE None]
            = [v.place EXCEPT ![s] = IF c # None THEN c ELSE IF @ = None THEN Root ELSE @]
        <5>1. rec.channel_id = IF c # None THEN c ELSE IF v.place[s] = None THEN Root ELSE v.place[s]
          BY <2>1, <2>2, <4>3, <4>4 DEF ChannelOf, UserRecord
        <5> HIDE DEF v
        <5> QED
          BY <1>1, <2>2, <3>2, <4>2, <5>1
      <4>7. synced' = synced /\ present' = present
        BY <1>1, <1>3
      <4> HIDE DEF v
      <4>8. Placed(v, s, c, packet.adjusts) = ClientView'
        BY <2>4, <4>2, <4>5, <4>6, <4>7 DEF Placed, ClientView
      <4> QED
        BY <4>1, <4>8 DEF v
    <3>8. UpToDate'
      <4>1. Upcoming' = Upcoming
        BY <1>1, <2>3, <3>7 DEF Upcoming
      <4> QED
        BY <1>1, <4>1, SameViews DEF ServerInv, serverVars
    <3> QED
      BY <2>5, <2>6, <3>3, <3>4, <3>5, <3>6, <3>8 DEF ServerInv
  <2>off. CASE ~online
    <3>1. users' = users /\ orphan' = rec /\ packet.adjusts = {}
      BY <1>1, <1>3, <2>off DEF Write, AdjustsAlone
    <3>2. TypeOK'
      BY <1>1, <1>3, <2>2, <2>3, <2>4, <3>1 DEF ServerInv, TypeOK, serverVars, Fits
    <3>3. Pointed'
      BY <1>1, <2>2, <2>off, <3>1 DEF Pointed
    <3>4. Known' = Known
      BY <3>1 DEF Known
    <3>5. ListsFit'
      <4>1. Fits(user_list', Users, Known')
        <5>1. user_list' = user_list /\ Known' = Known
          BY <1>3, <3>1, <3>4
        <5> QED
          BY <5>1, FitsBoth
      <4> QED
        BY <2>4, <4>1, BothFit
    <3>6. RootIsDefault' /\ Talking' /\ UpToDate'
      BY <1>1, <2>off, <3>1, <3>4 DEF ServerInv, RootIsDefault, Talking, UpToDate
    <3> QED
      BY <2>5, <2>6, <3>2, <3>3, <3>5, <3>6 DEF ServerInv
  <2> QED
    BY <2>on, <2>off
<1> QED
  BY <1>2, <1>3 DEF Assign, Uses

(* ... and OnUserState.                                                    *)
LEMMA OnUserStateIsGood == ASSUME ServerInv, OnUserState PROVE ServerInv'
<1>1. /\ pc = "state" /\ pc' = "end" /\ hook' \in {"none", "OnUserState"}
      /\ UNCHANGED <<net, audio, online, serverVars, synced>>
      /\ UNCHANGED <<packet, orphan, fault, tables, ghosts>>
      /\ packet \in UserStates
  BY DEF OnUserState, Continue, Rest, Call, ServerInv, Shape, OfUser, OfAudio
<1>2. ListsFit' /\ RootIsDefault' /\ Speaking' = Speaking
  BY <1>1, TablesKept
<1>3. Talking' /\ MoveIsKnown' /\ Pointed'
  BY <1>1, <1>2 DEF ServerInv, Talking, MoveIsKnown, Pointed, OfUser, OfAudio, ghosts
<1>4. ClientView' = ClientView
  BY <1>1, SameView DEF tables, ghosts
<1>5. UpToDate'
  BY <1>1, <1>4, SameViews DEF ServerInv, Upcoming, serverVars
<1>6. TypeOK'
  BY <1>1 DEF ServerInv, TypeOK, serverVars, tables, ghosts
<1>7. Shape'
  BY <1>1 DEF ServerInv, Shape, Packets
<1> QED
  BY <1>2, <1>3, <1>5, <1>6, <1>7 DEF ServerInv

(* packet_user_remove, up to OnUserRemove,                                 *)
LEMMA HandleUserRemoveIsGood == ASSUME ServerInv, HandleUserRemove PROVE ServerInv'
<1>1. /\ pc = "idle" /\ online /\ net # <<>> /\ packet' = Head(net) /\ net' = Tail(net)
      /\ Head(net).type = "UserRemove"
      /\ UNCHANGED <<serverVars, audio, online, orphan, fault>>
      /\ UNCHANGED <<tables, synced, ghosts>>
      /\ hook' = "OnUserRemove" /\ pc' = "removeUser"
  BY DEF HandleUserRemove, Handle, Call
<1>2. /\ Head(net) \in Packets /\ net' \in Seq(Packets)
      /\ UNCHANGED <<where, there>> /\ Upcoming' = Told(ClientView, Head(net)) => UpToDate'
  BY <1>1, Taken
<1>3. packet' \in UserRemoves
  BY <1>1, <1>2 DEF Packets, UserStates, UserRemoves, ChannelPackets
<1>4. ListsFit' /\ RootIsDefault' /\ Speaking' = Speaking
  BY <1>1, TablesKept
<1>5. Talking' /\ MoveIsKnown' /\ Pointed'
  BY <1>1, <1>4 DEF ServerInv, Talking, MoveIsKnown, Pointed, OfUser, OfAudio, ghosts
<1>6. ClientView' = ClientView
  BY <1>1, SameView DEF tables, ghosts
<1>7. UpToDate'
  <2>1. Upcoming' = Told(ClientView, Head(net))
    BY <1>1, <1>6 DEF Upcoming
  <2> QED
    BY <1>1, <1>2, <2>1 DEF serverVars
<1>8. TypeOK'
  BY <1>1 DEF ServerInv, TypeOK, serverVars, tables, ghosts
<1>9. Shape'
  BY <1>1, <1>2, <1>3 DEF ServerInv, Shape
<1> QED
  BY <1>4, <1>5, <1>7, <1>8, <1>9 DEF ServerInv

(* ... and after it.                                                       *)
LEMMA RemoveUserIsGood == ASSUME ServerInv, RemoveUser PROVE ServerInv'
<1> DEFINE s == packet.user
<1>1. /\ pc = "removeUser" /\ hook = "none" /\ pc' = "end"
      /\ announced' = announced \ {s} /\ present' = present \ {s} /\ talking' = talking \ {s}
      /\ UNCHANGED <<packet, hook, orphan, fault, move>> /\ UNCHANGED <<serverVars, synced>>
      /\ packet \in UserRemoves /\ s \in Users /\ packet.type = "UserRemove"
  BY DEF RemoveUser, Rest, ServerInv, Shape, OfUser, OfAudio, UserRemoves
<1>2. /\ announced' \subseteq Users /\ present' \subseteq Users /\ talking' \subseteq Users
  BY <1>1 DEF ServerInv, TypeOK
<1>3. MoveIsKnown'
  BY <1>1 DEF MoveIsKnown
<1>4. packet' \in Packets
  BY <1>1 DEF Packets
<1>5. CASE s = Me /\ online
  <2>1. Disconnect
    BY <1>5 DEF RemoveUser, KickedOut
  <2>2. /\ ListsFit' /\ RootIsDefault' /\ Talking' /\ UpToDate'
        /\ users' \in [Users -> UserRecord \cup {None}] /\ channels' \subseteq Channels
        /\ user_list' \in Seq([index : Users, data : Users])
        /\ channel_list' \in Seq([index : Channels, data : Channels])
        /\ net' \in Seq(Packets) /\ audio' \subseteq AudioPackets
        /\ ~online' /\ online' \in BOOLEAN
    BY <2>1, DisconnectEmpties DEF Disconnect
  <2>3. TypeOK'
    BY <1>1, <1>2, <2>2 DEF ServerInv, TypeOK, serverVars
  <2>4. Shape' /\ Pointed'
    BY <1>1, <1>4, <2>2 DEF Shape, Pointed, OfUser, OfAudio
  <2> QED
    BY <1>3, <2>2, <2>3, <2>4 DEF ServerInv
<1>6. CASE s = Me /\ ~online
  <2>1. /\ UNCHANGED <<channels, channel_list, online, net, audio>>
        /\ UNCHANGED <<users, user_list>> \/ (packet.actor # None /\ mumble_user_get(packet.actor))
    BY <1>6 DEF RemoveUser, KickedOut
  <2>2. /\ users' \in [Users -> UserRecord \cup {None}] /\ Fits(user_list', Users, Known')
        /\ RootIsDefault'
    <3>1. CASE UNCHANGED <<users, user_list>>
      BY <3>1, FitsBoth DEF ServerInv, TypeOK, RootIsDefault, Known
    <3>2. CASE packet.actor # None /\ mumble_user_get(packet.actor)
      <4>1. packet.actor \in Users
        BY <1>1, <3>2 DEF UserRemoves
      <4> DEFINE a == packet.actor
      <4>2. /\ users' \in [Users -> UserRecord \cup {None}] /\ users'[a] # None
            /\ \A u \in Users : u # a => users'[u] = users[u]
            /\ users[a] # None => users'[a] = users[a]
            /\ users[a] = None => users'[a] = NewUser
            /\ Known' = Known \cup {a} /\ Fits(user_list', Users, Known')
        BY <3>2, <4>1, GetsUser
      <4> HIDE DEF a
      <4> QED
        BY <4>2 DEF ServerInv, RootIsDefault, Known, NewUser
    <3> QED
      BY <2>1, <3>1, <3>2
  <2>3. Fits(channel_list', Channels, channels') /\ channels' \subseteq Channels
    BY <2>1, FitsBoth DEF ServerInv, TypeOK
  <2>4. ListsFit'
    BY <2>2, <2>3, BothFit
  <2>5. Talking' /\ UpToDate'
    BY <1>6, <2>1 DEF Talking, UpToDate
  <2>6. TypeOK'
    BY <1>1, <1>2, <2>1, <2>2, <2>3 DEF ServerInv, TypeOK, serverVars, Fits
  <2>7. Shape' /\ Pointed'
    BY <1>1, <1>4, <2>1 DEF ServerInv, Shape, Pointed, OfUser, OfAudio
  <2> QED
    BY <1>3, <2>2, <2>4, <2>5, <2>6, <2>7 DEF ServerInv
<1>7. CASE s # Me
  <2>1. /\ users' = [users EXCEPT ![s] = None] /\ user_list' = list_remove(user_list, s)
        /\ UNCHANGED <<channels, channel_list, online, net, audio>>
    BY <1>7 DEF RemoveUser, mumble_user_remove
  <2>2. /\ users' \in [Users -> UserRecord \cup {None}] /\ users'[s] = None
        /\ \A u \in Users : u # s => users'[u] = users[u]
    BY <1>1, <2>1 DEF ServerInv, TypeOK
  <2>3. Known' = Known \ {s} /\ Speaking' = Speaking \ {s}
    BY <2>2 DEF Known, Speaking
  <2>4. Fits(user_list', Users, Known')
    BY <2>1, <2>3, FitsBoth, RemoveFits
  <2>5. Fits(channel_list', Channels, channels')
    BY <2>1, FitsBoth
  <2>6. ListsFit'
    BY <2>4, <2>5, BothFit
  <2>7. RootIsDefault' /\ Talking'
    BY <1>1, <2>1, <2>2, <2>3 DEF ServerInv, RootIsDefault, Talking, Known
  <2>8. ClientView' = Told(ClientView, packet)
    <3> DEFINE v == ClientView
    <3>1. Told(v, packet) = Without(v, s)
      BY <1>1 DEF Told
    <3>2. /\ v.rooms = channels /\ v.synced = synced /\ v.met = present /\ v.named = announced
          /\ v.place = [u \in Users |-> IF users[u] # None /\ users[u].connected
                                         THEN users[u].channel_id ELSE None]
      BY DEF ClientView
    <3>3. [u \in Users |-> IF users'[u] # None /\ users'[u].connected
                            THEN users'[u].channel_id ELSE None]
          = [v.place EXCEPT ![s] = None]
      BY <1>1, <2>2, <3>2
    <3>4. channels' = channels /\ synced' = synced
      BY <1>1, <2>1
    <3> HIDE DEF v
    <3>5. Without(v, s) = ClientView'
      BY <1>1, <3>2, <3>3, <3>4 DEF Without, ClientView
    <3> QED
      BY <3>1, <3>5 DEF v
  <2>9. UpToDate'
    <3>1. Upcoming' = Upcoming
      BY <1>1, <2>8 DEF Upcoming
    <3> QED
      BY <1>1, <2>1, <3>1, SameViews DEF ServerInv, serverVars
  <2>10. TypeOK'
    BY <1>1, <1>2, <2>1, <2>2, <2>4 DEF ServerInv, TypeOK, serverVars, Fits
  <2>11. Shape' /\ Pointed'
    BY <1>1, <1>4, <2>1 DEF ServerInv, Shape, Pointed, OfUser, OfAudio
  <2> QED
    BY <1>3, <2>6, <2>7, <2>9, <2>10, <2>11 DEF ServerInv
<1> QED
  BY <1>5, <1>6, <1>7

(* The handlers that make a channel: what they have in common.             *)
LEMMA GetsRoomIsGood ==
    ASSUME ServerInv, pc = "idle", online, net # <<>>, packet' = Head(net), net' = Tail(net),
           UNCHANGED <<serverVars, audio, online, orphan, fault, users, user_list, ghosts>>,
           NEW c \in Channels, mumble_channel_get({c}), synced' \in BOOLEAN,
           Told(ClientView, Head(net)) = WithRooms(ClientView, channels \cup {c}, synced'),
           hook' \in {"OnChannelState", "OnPermissionQuery", "OnServerSync"}, pc' = "end"
    PROVE  ServerInv'
<1>1. /\ Head(net) \in Packets /\ net' \in Seq(Packets)
      /\ UNCHANGED <<where, there>> /\ Upcoming' = Told(ClientView, Head(net)) => UpToDate'
  BY Taken
<1>2. /\ channels' = channels \cup {c} /\ channels' \subseteq Channels
      /\ Fits(channel_list', Channels, channels')
  BY GetsChannels
<1>3. Known' = Known /\ Speaking' = Speaking /\ RootIsDefault'
  BY DEF Known, Speaking, ServerInv, RootIsDefault
<1>4. ListsFit'
  <2>1. Fits(user_list', Users, Known')
    BY <1>3, FitsBoth
  <2> QED
    BY <1>2, <2>1, BothFit
<1>5. UpToDate'
  <2>1. ClientView' = Told(ClientView, Head(net))
    BY <1>2 DEF ClientView, WithRooms, ghosts
  <2> QED
    BY <1>1, <2>1 DEF Upcoming, serverVars
<1>6. Talking' /\ MoveIsKnown' /\ Pointed'
  BY <1>3 DEF ServerInv, Talking, MoveIsKnown, Pointed, OfUser, OfAudio, ghosts
<1>7. TypeOK'
  BY <1>2 DEF ServerInv, TypeOK, serverVars, ghosts, Fits
<1>8. Shape'
  BY <1>1 DEF ServerInv, Shape
<1> QED
  BY <1>3, <1>4, <1>5, <1>6, <1>7, <1>8 DEF ServerInv

(* packet_channel_state and packet_permission_query.                       *)
LEMMA HandleChannelIsGood ==
    ASSUME ServerInv, HandleChannelState \/ HandlePermissionQuery
    PROVE  ServerInv'
<1>1. /\ pc = "idle" /\ online /\ net # <<>> /\ packet' = Head(net) /\ net' = Tail(net)
      /\ Head(net).type \in {"ChannelState", "PermissionQuery"}
      /\ UNCHANGED <<serverVars, audio, online, orphan, fault, users, user_list, ghosts>>
      /\ mumble_channel_get({packet'.channel}) /\ synced' = synced
      /\ hook' \in {"OnChannelState", "OnPermissionQuery"} /\ pc' = "end"
  BY DEF HandleChannelState, HandlePermissionQuery, HandleChannel, Handle, Call
<1>2. Head(net) \in Packets
  BY <1>1, Taken
<1>3. Head(net).channel \in Channels
  BY <1>1, <1>2 DEF Packets, UserStates, UserRemoves, ChannelPackets
<1>4. Told(ClientView, Head(net)) = WithRooms(ClientView, channels \cup {packet'.channel}, synced')
  BY <1>1 DEF Told, ClientView
<1>5. synced' \in BOOLEAN
  BY <1>1 DEF ServerInv, TypeOK
<1> QED
  BY <1>1, <1>3, <1>4, <1>5, GetsRoomIsGood

(* packet_server_sync.                                                     *)
LEMMA HandleServerSyncIsGood == ASSUME ServerInv, HandleServerSync PROVE ServerInv'
<1>1. /\ pc = "idle" /\ online /\ net # <<>> /\ packet' = Head(net) /\ net' = Tail(net)
      /\ Head(net).type = "ServerSync"
      /\ UNCHANGED <<serverVars, audio, online, orphan, fault, users, user_list, ghosts>>
      /\ mumble_channel_get({Root}) /\ synced' = TRUE
      /\ hook' = "OnServerSync" /\ pc' = "end"
  BY DEF HandleServerSync, Handle, Call
<1>2. Told(ClientView, Head(net)) = WithRooms(ClientView, channels \cup {Root}, synced')
  BY <1>1 DEF Told, ClientView
<1> QED
  BY <1>1, <1>2, GetsRoomIsGood, ServerAssumption

(* packet_channel_remove, up to OnChannelRemove,                           *)
LEMMA HandleChannelRemoveIsGood == ASSUME ServerInv, HandleChannelRemove PROVE ServerInv'
<1>1. /\ pc = "idle" /\ online /\ net # <<>> /\ packet' = Head(net) /\ net' = Tail(net)
      /\ Head(net).type = "ChannelRemove"
      /\ UNCHANGED <<serverVars, audio, online, orphan, fault>>
      /\ UNCHANGED <<tables, synced, ghosts>>
      /\ hook' = "OnChannelRemove" /\ pc' = "removeChannel"
  BY DEF HandleChannelRemove, Handle, Call
<1>2. /\ Head(net) \in Packets /\ net' \in Seq(Packets)
      /\ UNCHANGED <<where, there>> /\ Upcoming' = Told(ClientView, Head(net)) => UpToDate'
  BY <1>1, Taken
<1>3. packet' \in ChannelPackets
  BY <1>1, <1>2 DEF Packets, UserStates, UserRemoves, ChannelPackets
<1>4. ListsFit' /\ RootIsDefault' /\ Speaking' = Speaking
  BY <1>1, TablesKept
<1>5. Talking' /\ MoveIsKnown' /\ Pointed'
  BY <1>1, <1>4 DEF ServerInv, Talking, MoveIsKnown, Pointed, OfUser, OfAudio, ghosts
<1>6. ClientView' = ClientView
  BY <1>1, SameView DEF tables, ghosts
<1>7. UpToDate'
  <2>1. Upcoming' = Told(ClientView, Head(net))
    BY <1>1, <1>6 DEF Upcoming
  <2> QED
    BY <1>1, <1>2, <2>1 DEF serverVars
<1>8. TypeOK'
  BY <1>1 DEF ServerInv, TypeOK, serverVars, tables, ghosts
<1>9. Shape'
  BY <1>1, <1>2, <1>3 DEF ServerInv, Shape
<1> QED
  BY <1>4, <1>5, <1>7, <1>8, <1>9 DEF ServerInv

(* ... and after it.                                                       *)
LEMMA RemoveChannelIsGood == ASSUME ServerInv, RemoveChannel PROVE ServerInv'
<1> DEFINE c == packet.channel
<1>1. /\ pc = "removeChannel" /\ hook = "none" /\ pc' = "end"
      /\ UNCHANGED <<net, audio, online, serverVars, synced>>
      /\ UNCHANGED <<packet, hook, orphan, fault, users, user_list, ghosts>>
      /\ channels' = channels \ {c} /\ channel_list' = list_remove(channel_list, c)
      /\ packet \in ChannelPackets
  BY DEF RemoveChannel, mumble_channel_remove, Continue, Rest, ServerInv, Shape, OfUser, OfAudio
<1>2. Known' = Known /\ Speaking' = Speaking /\ RootIsDefault'
  BY <1>1 DEF Known, Speaking, ServerInv, RootIsDefault
<1>3. Fits(channel_list', Channels, channels')
  BY <1>1, FitsBoth, RemoveFits
<1>4. ListsFit'
  <2>1. Fits(user_list', Users, Known')
    BY <1>1, <1>2, FitsBoth
  <2> QED
    BY <1>3, <2>1, BothFit
<1>5. UpToDate'
  <2>1. CASE online
    <3>1. packet.type = "ChannelRemove"
      BY <1>1, <2>1 DEF ServerInv, Shape, OfUser, OfAudio
    <3>2. ClientView' = Told(ClientView, packet)
      BY <1>1, <3>1 DEF ClientView, Told, WithRooms, ghosts
    <3>3. Upcoming' = Upcoming
      BY <1>1, <3>2 DEF Upcoming
    <3> QED
      BY <1>1, <3>3, SameViews DEF ServerInv, serverVars
  <2>2. CASE ~online
    BY <1>1, <2>2 DEF UpToDate
  <2> QED
    BY <2>1, <2>2
<1>6. Talking' /\ MoveIsKnown' /\ Pointed'
  BY <1>1, <1>2 DEF ServerInv, Talking, MoveIsKnown, Pointed, OfUser, OfAudio, ghosts
<1>7. TypeOK'
  BY <1>1, <1>3 DEF ServerInv, TypeOK, serverVars, ghosts, Fits
<1>8. Shape'
  BY <1>1 DEF ServerInv, Shape, Packets
<1> QED
  BY <1>2, <1>4, <1>5, <1>6, <1>7, <1>8 DEF ServerInv

(* An audio packet looks its user up, too; it may make one.                *)
LEMMA HandleAudioIsGood == ASSUME ServerInv, HandleAudio PROVE ServerInv'
<1>1. /\ pc = "idle" /\ hook = "none" /\ online
      /\ UNCHANGED <<net, channels, channel_list, orphan, fault, announced, present, move>>
      /\ UNCHANGED <<online, serverVars, synced>>
  BY DEF HandleAudio, Rest, ServerInv, Shape, OfUser, OfAudio
<1>2. PICK a \in audio :
        /\ packet' = a /\ audio' = audio \ {a}
        /\ LET user == IF users[a.user] = None THEN NewUser ELSE users[a.user]
               next == IF Stops(user, a.speaking) THEN "speakAndStop" ELSE "speak"
           IN  /\ users' = [users EXCEPT ![a.user] = [user EXCEPT !.speaking = a.speaking]]
               /\ user_list' = IF users[a.user] = None
                               THEN list_add(user_list, a.user, a.user) ELSE user_list
               /\ IF Starts(user, a.speaking)
                  THEN /\ Call("OnUserStartSpeaking", next)
                       /\ talking' = talking \cup {a.user}
                  ELSE Call("none", next) /\ UNCHANGED talking
  BY DEF HandleAudio
<1> DEFINE s == a.user
           user == IF users[s] = None THEN NewUser ELSE users[s]
           rec == [user EXCEPT !.speaking = a.speaking]
<1>3. a \in AudioPackets /\ s \in Users /\ a.speaking \in BOOLEAN /\ audio' \subseteq AudioPackets
  BY <1>2 DEF ServerInv, Shape, AudioPackets
<1>4. user \in UserRecord /\ None \notin UserRecord
  BY <1>3, ServerAssumption DEF ServerInv, TypeOK, NewUser, UserRecord
<1>5. /\ rec \in UserRecord /\ rec # None /\ rec.speaking = a.speaking
      /\ rec.connected = user.connected /\ rec.channel_id = user.channel_id
  BY <1>3, <1>4 DEF UserRecord
<1>6. /\ pc' = (IF a.speaking THEN "speak" ELSE "speakAndStop")
      /\ hook' \in {"none", "OnUserStartSpeaking"}
      /\ talking' = IF user.speaking THEN talking ELSE talking \cup {s}
  BY <1>1, <1>2, <1>3 DEF Starts, Stops, Call
<1>7. /\ users' \in [Users -> UserRecord \cup {None}] /\ users'[s] = rec
      /\ \A u \in Users : u # s => users'[u] = users[u]
  BY <1>2, <1>3, <1>5 DEF ServerInv, TypeOK
<1>8. Known' = Known \cup {s} /\ Fits(user_list', Users, Known')
  <2>1. Known' = Known \cup {s}
    BY <1>3, <1>5, <1>7 DEF Known
  <2>2. CASE users[s] = None
    <3>1. user_list' = list_add(user_list, s, s) /\ s \notin Known
      BY <1>2, <2>2 DEF Known
    <3> QED
      BY <1>3, <2>1, <3>1, FitsBoth, AddFits
  <2>3. CASE users[s] # None
    <3>1. user_list' = user_list /\ s \in Known
      BY <1>2, <1>3, <2>3 DEF Known
    <3>2. Known' = Known
      BY <2>1, <3>1
    <3> QED
      BY <2>1, <3>1, <3>2, FitsBoth
  <2> QED
    BY <2>1, <2>2, <2>3
<1>9. Speaking' = IF a.speaking THEN Speaking \cup {s} ELSE Speaking \ {s}
  BY <1>3, <1>5, <1>7 DEF Speaking
<1>10. user.speaking <=> s \in Speaking
  BY <1>3 DEF Speaking, NewUser
<1>11. user.connected => users[s] # None /\ user = users[s]
  BY DEF NewUser
<1>12. ~user.connected => user.channel_id = Root
  BY <1>3 DEF NewUser, ServerInv, RootIsDefault, Known
<1>13. users[s] # None => user = users[s]
  OBVIOUS
<1> HIDE DEF s, user, rec
<1>14. ListsFit'
  <2>1. Fits(channel_list', Channels, channels')
    <3>1. channel_list' = channel_list /\ channels' = channels
      BY <1>1
    <3> QED
      BY <3>1, FitsBoth
  <2> QED
    BY <1>1, <1>8, <2>1, BothFit
<1>15. RootIsDefault'
  BY <1>5, <1>7, <1>12 DEF ServerInv, RootIsDefault, Known
<1>16. Talking'
  <2>1. talking = Speaking
    BY <1>1 DEF ServerInv, Talking
  <2>2. packet'.user = s
    BY <1>2 DEF s
  <2> QED
    BY <1>1, <1>3, <1>6, <1>9, <1>10, <2>1, <2>2 DEF Talking
<1>17. ClientView' = ClientView
  <2>1. ASSUME NEW u \in Users
        PROVE  (IF users'[u] # None /\ users'[u].connected THEN users'[u].channel_id ELSE None)
               = (IF users[u] # None /\ users[u].connected THEN users[u].channel_id ELSE None)
    BY <1>5, <1>7, <1>11, <1>13
  <2> QED
    BY <1>1, <2>1 DEF ClientView
<1>18. UpToDate'
  <2>1. Upcoming' = Upcoming
    BY <1>1, <1>6, <1>17 DEF Upcoming
  <2> QED
    BY <1>1, <2>1, SameViews DEF ServerInv, serverVars
<1>19. MoveIsKnown'
  BY <1>6 DEF MoveIsKnown
<1>20. Pointed'
  BY <1>1, <1>2, <1>5, <1>7 DEF ServerInv, Pointed, s
<1>21. TypeOK'
  <2>1. talking' \subseteq Users
    BY <1>3, <1>6 DEF ServerInv, TypeOK
  <2> QED
    BY <1>1, <1>7, <1>8, <2>1 DEF ServerInv, TypeOK, serverVars, Fits
<1>22. Shape'
  BY <1>1, <1>2, <1>3, <1>6 DEF ServerInv, Shape, OfAudio
<1> QED
  BY <1>14, <1>15, <1>16, <1>18, <1>19, <1>20, <1>21, <1>22 DEF ServerInv

(* Where a handler ends that is done, or that used a user too late.        *)
LEMMA EndIsGood ==
    ASSUME ServerInv, hook = "none", hook' = "none", pc' = "idle", packet' = NoPacket,
           orphan' = None, fault' \in BOOLEAN,
           pc = "end" \/ ~online,
           UNCHANGED <<net, audio, online, serverVars, synced, tables, ghosts>>
    PROVE  ServerInv'
<1>1. ListsFit' /\ RootIsDefault' /\ Known' = Known /\ Speaking' = Speaking
  BY TablesKept
<1>2. Talking' /\ MoveIsKnown' /\ Pointed'
  BY <1>1 DEF ServerInv, Talking, MoveIsKnown, Pointed, OfUser, OfAudio, ghosts
<1>3. UpToDate'
  <2>1. CASE online
    <3>1. ClientView' = ClientView
      BY SameView DEF tables, ghosts
    <3>2. Upcoming' = Upcoming
      BY <2>1, <3>1 DEF Upcoming
    <3> QED
      BY <2>1, <3>2, SameViews DEF ServerInv, serverVars
  <2>2. CASE ~online
    BY <2>2 DEF UpToDate
  <2> QED
    BY <2>1, <2>2
<1>4. TypeOK'
  BY DEF ServerInv, TypeOK, serverVars, tables, ghosts
<1>5. Shape'
  BY DEF ServerInv, Shape
<1> QED
  BY <1>1, <1>2, <1>3, <1>4, <1>5 DEF ServerInv

(* A handler of audio that goes on.                                        *)
LEMMA GoesOnIsGood ==
    ASSUME ServerInv, pc \in OfAudio, pc' \in {"stop", "lastSpoke", "end"},
           hook' \in {"none", "OnUserSpeak", "OnUserStopSpeaking"},
           UNCHANGED <<net, audio, online, serverVars, synced, packet, orphan, fault, tables>>,
           UNCHANGED <<announced, present, move>>, talking' \subseteq Users, Talking'
    PROVE  ServerInv'
<1>1. ListsFit' /\ RootIsDefault' /\ Known' = Known
  BY TablesKept
<1>2. ClientView' = ClientView
  BY SameView DEF tables
<1>3. UpToDate'
  <2>1. Upcoming' = Upcoming
    BY <1>2 DEF Upcoming, OfAudio
  <2> QED
    BY <2>1, SameViews DEF ServerInv, serverVars
<1>4. MoveIsKnown'
  BY DEF MoveIsKnown
<1>5. Pointed'
  BY DEF ServerInv, Pointed, OfUser, OfAudio, tables
<1>6. TypeOK'
  BY DEF ServerInv, TypeOK, serverVars, tables
<1>7. packet' \in AudioPackets
  BY DEF ServerInv, Shape, OfUser, OfAudio
<1>8. Shape'
  BY <1>7 DEF ServerInv, Shape, OfUser, OfAudio
<1> QED
  BY <1>1, <1>3, <1>4, <1>5, <1>6, <1>8 DEF ServerInv

(* The three hooks of audio: OnUserSpeak,                                  *)
LEMMA SpeakIsGood == ASSUME ServerInv, Speak PROVE ServerInv'
<1>1. /\ pc \in {"speak", "speakAndStop"} /\ hook = "none"
      /\ UNCHANGED <<net, audio, online, serverVars, synced>>
  BY DEF Speak, Continue, Rest
<1>2. CASE ~online /\ fault' = TRUE /\ pc' = "idle" /\ packet' = NoPacket /\ orphan' = None
           /\ UNCHANGED <<hook, tables, ghosts>>
  BY <1>1, <1>2, EndIsGood
<1>3. CASE /\ Call("OnUserSpeak", IF pc = "speak" THEN "end" ELSE "stop")
           /\ UNCHANGED <<packet, orphan, tables, ghosts>> /\ UNCHANGED fault
  <2>1. hook' \in {"none", "OnUserSpeak"} /\ pc' = (IF pc = "speak" THEN "end" ELSE "stop")
    BY <1>3 DEF Call
  <2>2. Speaking' = Speaking
    BY <1>1, <1>3, TablesKept
  <2>3. Talking'
    BY <1>1, <1>3, <2>1, <2>2 DEF ServerInv, Talking, ghosts
  <2>4. talking' \subseteq Users /\ UNCHANGED <<announced, present, move>>
    BY <1>3 DEF ServerInv, TypeOK, ghosts
  <2>5. pc \in OfAudio
    BY <1>1 DEF OfAudio
  <2>6. pc' \in {"stop", "lastSpoke", "end"}
    BY <2>1
  <2> QED
    BY <1>1, <1>3, <2>1, <2>3, <2>4, <2>5, <2>6, GoesOnIsGood
<1> QED
  BY <1>2, <1>3 DEF Speak, Uses

(* ... OnUserStopSpeaking,                                                 *)
LEMMA StopSpeakingIsGood == ASSUME ServerInv, StopSpeaking PROVE ServerInv'
<1>1. /\ pc = "stop" /\ pc' = "lastSpoke" /\ hook' \in {"none", "OnUserStopSpeaking"}
      /\ UNCHANGED <<net, audio, online, serverVars, synced>>
      /\ talking' = talking \ {packet.user}
      /\ UNCHANGED <<packet, orphan, fault, tables, announced, present, move>>
  BY DEF StopSpeaking, Continue, Rest, Call
<1>2. Speaking' = Speaking
  BY <1>1, TablesKept
<1>3. pc \in OfAudio /\ talking' \subseteq Users
  BY <1>1 DEF OfAudio, ServerInv, TypeOK
<1>4. Talking'
  BY <1>1, <1>2 DEF ServerInv, Talking
<1> QED
  BY <1>1, <1>3, <1>4, GoesOnIsGood

(* ... and what follows it.                                                *)
LEMMA LastSpokeIsGood == ASSUME ServerInv, LastSpoke PROVE ServerInv'
<1>1. /\ pc = "lastSpoke" /\ hook = "none"
      /\ UNCHANGED <<net, audio, online, serverVars, synced>>
  BY DEF LastSpoke, Continue, Rest
<1>2. CASE ~online /\ fault' = TRUE /\ pc' = "idle" /\ packet' = NoPacket /\ orphan' = None
           /\ UNCHANGED <<hook, tables, ghosts>>
  BY <1>1, <1>2, EndIsGood
<1>3. CASE pc' = "end" /\ UNCHANGED <<packet, hook, orphan, tables, ghosts>> /\ UNCHANGED fault
  <2>1. Speaking' = Speaking
    BY <1>1, <1>3, TablesKept
  <2>2. Talking'
    BY <1>1, <1>3, <2>1 DEF ServerInv, Talking, ghosts
  <2>3. talking' \subseteq Users /\ UNCHANGED <<announced, present, move>>
    BY <1>3 DEF ServerInv, TypeOK, ghosts
  <2>4. pc \in OfAudio
    BY <1>1 DEF OfAudio
  <2> QED
    BY <1>1, <1>3, <2>2, <2>3, <2>4, GoesOnIsGood
<1> QED
  BY <1>2, <1>3 DEF LastSpoke, Uses

(* A handler returns.                                                      *)
LEMMA FinishIsGood == ASSUME ServerInv, Finish PROVE ServerInv'
<1>1. /\ pc = "end" /\ hook = "none" /\ hook' = "none" /\ pc' = "idle" /\ packet' = NoPacket
      /\ orphan' = None /\ fault' \in BOOLEAN
      /\ UNCHANGED <<net, audio, online, serverVars, synced, tables, ghosts>>
  BY DEF Finish, Continue, Rest, ServerInv, TypeOK
<1> QED
  BY <1>1, EndIsGood

-----------------------------------------------------------------------------
(* The script returns from a hook, having done nothing.                    *)
LEMMA HookReturnIsGood == ASSUME ServerInv, HookReturn PROVE ServerInv'
<1>1. /\ hook' = "none"
      /\ UNCHANGED <<serverVars, net, audio, client, pc, packet, orphan, fault, ghosts>>
  BY DEF HookReturn
<1>2. ListsFit' /\ RootIsDefault' /\ Speaking' = Speaking
  BY <1>1, TablesKept DEF client
<1>3. Talking' /\ MoveIsKnown' /\ Pointed'
  BY <1>1, <1>2 DEF ServerInv, Talking, MoveIsKnown, Pointed, client, tables, ghosts
<1>4. ClientView' = ClientView
  BY <1>1, SameView DEF client, tables, ghosts
<1>5. UpToDate'
  <2>1. Upcoming' = Upcoming
    BY <1>1, <1>4 DEF Upcoming
  <2> QED
    BY <1>1, <2>1, SameViews DEF ServerInv, serverVars, client
<1>6. TypeOK'
  BY <1>1 DEF ServerInv, TypeOK, serverVars, client, tables, ghosts
<1>7. Shape'
  BY <1>1 DEF ServerInv, Shape, client
<1> QED
  BY <1>2, <1>3, <1>5, <1>6, <1>7 DEF ServerInv

(* The script disconnects in a hook: the user that the handler points to   *)
(* stays what it was.                                                      *)
LEMMA HookDisconnectIsGood == ASSUME ServerInv, HookDisconnect PROVE ServerInv'
<1>1. /\ hook # "none" /\ online /\ Disconnect
      /\ orphan' = IF packet.type \in {"UserState", "Audio"} THEN users[packet.user] ELSE None
      /\ UNCHANGED <<serverVars, synced, pc, packet, hook, fault, ghosts>>
  BY DEF HookDisconnect
<1>2. /\ ListsFit' /\ RootIsDefault' /\ Talking' /\ MoveIsKnown' /\ UpToDate'
      /\ users' \in [Users -> UserRecord \cup {None}] /\ channels' \subseteq Channels
      /\ user_list' \in Seq([index : Users, data : Users])
      /\ channel_list' \in Seq([index : Channels, data : Channels])
      /\ net' \in Seq(Packets) /\ audio' \subseteq AudioPackets
      /\ ~online' /\ online' \in BOOLEAN
  BY <1>1, DisconnectEmpties DEF Disconnect
<1>3. packet.type \in {"UserState", "Audio"} => packet.user \in Users
  BY <1>1 DEF ServerInv, Shape, OfUser, OfAudio, Packets, UserStates, UserRemoves, ChannelPackets,
              AudioPackets
<1>4. orphan' \in UserRecord \cup {None}
  BY <1>1, <1>3 DEF ServerInv, TypeOK
<1>5. pc \in OfUser \cup OfAudio => packet.type \in {"UserState", "Audio"}
  BY DEF ServerInv, Shape, OfUser, OfAudio, UserStates, AudioPackets
<1>6. Pointed'
  BY <1>1, <1>2, <1>5 DEF ServerInv, Pointed
<1>7. TypeOK'
  BY <1>1, <1>2, <1>4 DEF ServerInv, TypeOK, serverVars, ghosts
<1>8. Shape'
  <2>1. pc = "assign" /\ hook # "none" => packet.channel # None
    BY DEF ServerInv, Shape
  <2> QED
    BY <1>1, <1>2, <2>1 DEF ServerInv, Shape
<1> QED
  BY <1>2, <1>6, <1>7, <1>8 DEF ServerInv

-----------------------------------------------------------------------------
(* Where nothing happens, the invariant stays.                             *)
LEMMA StutterIsGood == ASSUME ServerInv, UNCHANGED vars PROVE ServerInv'
<1>1. /\ UNCHANGED <<serverVars, net, audio, online, synced, tables, handler, ghosts>>
      /\ UNCHANGED <<pc, packet, hook, orphan, fault>>
  BY DEF vars, client, handler
<1>2. ListsFit' /\ RootIsDefault' /\ Speaking' = Speaking
  BY <1>1, TablesKept
<1>3. Talking' /\ MoveIsKnown' /\ Pointed'
  BY <1>1, <1>2 DEF ServerInv, Talking, MoveIsKnown, Pointed, tables, ghosts
<1>4. ClientView' = ClientView
  BY <1>1, SameView DEF tables, ghosts
<1>5. UpToDate'
  <2>1. Upcoming' = Upcoming
    BY <1>1, <1>4 DEF Upcoming
  <2> QED
    BY <1>1, <2>1, SameViews DEF ServerInv, serverVars
<1>6. TypeOK'
  BY <1>1 DEF ServerInv, TypeOK, serverVars, tables, ghosts
<1>7. Shape'
  BY <1>1 DEF ServerInv, Shape
<1> QED
  BY <1>2, <1>3, <1>5, <1>6, <1>7 DEF ServerInv

(* Every step keeps the invariant.                                         *)
LEMMA StepIsGood == ServerInv /\ [Next]_vars => ServerInv'
<1> SUFFICES ASSUME ServerInv, [Next]_vars PROVE ServerInv'
  OBVIOUS
<1>1. CASE Server
  BY <1>1, ServerIsGood
<1>2. CASE Handlers
  <2>1. CASE HandleUserState \/ Assign \/ OnUserState
    BY <2>1, HandleUserStateIsGood, AssignIsGood, OnUserStateIsGood
  <2>2. CASE HandleUserRemove \/ RemoveUser
    BY <2>2, HandleUserRemoveIsGood, RemoveUserIsGood
  <2>3. CASE HandleChannelState \/ HandlePermissionQuery
    BY <2>3, HandleChannelIsGood DEF HandleChannelState, HandlePermissionQuery
  <2>4. CASE HandleChannelRemove \/ RemoveChannel \/ HandleServerSync
    BY <2>4, HandleChannelRemoveIsGood, RemoveChannelIsGood, HandleServerSyncIsGood
  <2>5. CASE HandleAudio \/ Speak \/ StopSpeaking \/ LastSpoke \/ Finish
    BY <2>5, HandleAudioIsGood, SpeakIsGood, StopSpeakingIsGood, LastSpokeIsGood, FinishIsGood
  <2> QED
    BY <1>2, <2>1, <2>2, <2>3, <2>4, <2>5 DEF Handlers
<1>3. CASE HookReturn \/ HookDisconnect
  BY <1>3, HookReturnIsGood, HookDisconnectIsGood
<1>4. CASE UNCHANGED vars
  BY <1>4, StutterIsGood
<1> QED
  BY <1>1, <1>2, <1>3, <1>4 DEF Next

(* What is on the way leads from the client to the server, throughout.     *)
LEMMA Invariance == Spec => []ServerInv
BY InitIsGood, StepIsGood, PTL DEF Spec

-----------------------------------------------------------------------------
(* The end of the connection: the server tells of this client's removal    *)
(* last, and a client that is off knows nobody, but the user that kicked   *)
(* it (packet.c:585).                                                      *)
Harmless == {m \in Packets : ~(m.type = "UserRemove" /\ m.user = Me)}

KickIsLast ==
    where[Me] # None => net \in Seq(Harmless) /\ ~(pc = "removeUser" /\ packet.user = Me)

OffKnows ==
    ~online =>
        /\ channels = {}
        /\ \/ Known = {}
           \/ where[Me] = None /\ pc \in {"end", "idle"} /\ \E s \in Users : Known = {s}

OffInv == KickIsLast /\ OffKnows

(* What the server sends first is about users and channels that are there. *)
LEMMA FirstIsHarmless == ASSUME Init, ServerInv PROVE OffInv
<1>1. online /\ pc = "idle" /\ net \in Seq(Packets)
  BY DEF Init, ServerInv, Shape
<1> DEFINE us == SetToSeq(Connected)
           cs == SetToSeq(there)
           a  == Len(cs)
           b  == Len(us)
<1>2. /\ us \in SetToSeqs(Connected) /\ cs \in SetToSeqs(there)
      /\ IsFiniteSet(Connected) /\ IsFiniteSet(there) /\ Len(net) = a + b + 1
      /\ \A k \in DOMAIN cs : net[k] = ChannelState(cs[k])
      /\ \A k \in DOMAIN us : net[a + k] = InChannel(us[k], where[us[k]])
      /\ net[a + b + 1] = ServerSync
  BY FirstPackets
<1>3. us \in Seq(Connected) /\ cs \in Seq(there)
  BY <1>2, OrderOf, Zenon
<1> HIDE DEF us, cs
<1>4. a \in Nat /\ b \in Nat /\ DOMAIN us = 1 .. b /\ DOMAIN cs = 1 .. a
  BY <1>3, LenProperties
<1>5. DOMAIN net = 1 .. a + b + 1 /\ \A k \in DOMAIN net : net[k] \in Packets
  BY <1>1, <1>2, LenProperties, ElementOfSeq
<1>6. ASSUME NEW k \in DOMAIN net PROVE net[k].type # "UserRemove"
  <2>1. CASE k \in 1 .. a
    <3>1. net[k] = ChannelState(cs[k])
      BY <1>2, <1>4, <2>1, Zenon
    <3> QED
      BY <3>1 DEF ChannelState
  <2>2. CASE k \in a + 1 .. a + b
    <3>1. k - a \in 1 .. b /\ a + (k - a) = k
      BY <1>4, <2>2
    <3> HIDE DEF a, b
    <3>2. net[k] = InChannel(us[k - a], where[us[k - a]])
      BY <1>2, <1>4, <3>1
    <3> QED
      BY <3>2 DEF InChannel, UserState
  <2>3. CASE k = a + b + 1
    BY <1>2, <2>3 DEF ServerSync
  <2> QED
    BY <1>4, <1>5, <2>1, <2>2, <2>3
<1>7. net \in Seq(Harmless)
  <2>1. \A k \in 1 .. Len(net) : net[k] \in Harmless
    BY <1>1, <1>5, <1>6, LenProperties DEF Harmless
  <2> QED
    BY <1>1, <2>1, LenProperties, SeqDef
<1> QED
  BY <1>1, <1>7 DEF OffInv, KickIsLast, OffKnows

(* The server is silent about a client that it has removed.                *)
LEMMA ServerKicksLast == ASSUME ServerInv, OffInv, Server PROVE OffInv'
<1>1. ASSUME NEW ms, Change(ms), where'[Me] # None => ms \in Seq(Harmless)
      PROVE  OffInv'
  <2>1. /\ net' = net \o ms /\ pc = "idle" /\ pc' = "idle" /\ online' = online /\ online
        /\ where[Me] # None
    BY <1>1 DEF Change, Waiting, handler, client
  <2>2. net \in Seq(Harmless)
    BY <2>1 DEF OffInv, KickIsLast
  <2> QED
    BY <1>1, <2>1, <2>2 DEF OffInv, KickIsLast, OffKnows
<1> USE DEF Harmless, Packets, UserStates, UserRemoves, ChannelPackets
<1>2. ASSUME NEW s \in Users, NEW c \in Channels, Joins(s, c) \/ Moves(s, c) PROVE OffInv'
  <2>1. PICK m \in {InChannel(s, c), UserState(s, c, {})} : Change(<<m>>)
    BY <1>2 DEF Joins, Moves
  <2>2. m \in Harmless
    BY DEF InChannel, UserState
  <2>3. <<m>> \in Seq(Harmless)
    BY <2>2
  <2> QED
    BY <1>1, <2>1, <2>3
<1>3. ASSUME NEW s \in Users, Updates(s) PROVE OffInv'
  <2>1. PICK adjusts \in SUBSET Channels : Change(<<UserState(s, None, adjusts)>>)
    BY <1>3 DEF Updates, ServerInv, TypeOK
  <2>2. UserState(s, None, adjusts) \in Harmless
    BY DEF UserState
  <2>3. <<UserState(s, None, adjusts)>> \in Seq(Harmless)
    BY <2>2
  <2> QED
    BY <1>1, <2>1, <2>3
<1>4. ASSUME NEW s \in Users, Leaves(s) PROVE OffInv'
  <2>1. PICK actor \in Users \cup {None} : Change(<<UserRemove(s, actor)>>)
    BY <1>4 DEF Leaves, Connected
  <2>2. CASE s = Me
    <3>1. where'[Me] = None
      BY <1>4, <2>2 DEF Leaves, ServerInv, TypeOK
    <3> QED
      BY <1>1, <2>1, <3>1
  <2>3. CASE s # Me
    <3>1. UserRemove(s, actor) \in Harmless
      BY <2>3 DEF UserRemove
    <3>2. <<UserRemove(s, actor)>> \in Seq(Harmless)
      BY <3>1
    <3> QED
      BY <1>1, <2>1, <3>2
  <2> QED
    BY <2>2, <2>3
<1>5. ASSUME NEW c \in Channels, Creates(c) \/ Answers(c) PROVE OffInv'
  <2>1. PICK m \in {ChannelState(c), PermissionQuery(c)} : Change(<<m>>)
    BY <1>5 DEF Creates, Answers
  <2>2. m \in Harmless
    BY DEF ChannelState, PermissionQuery
  <2>3. <<m>> \in Seq(Harmless)
    BY <2>2
  <2> QED
    BY <1>1, <2>1, <2>3
<1>6. ASSUME NEW c \in Channels, Removes(c) PROVE OffInv'
  <2> DEFINE moved == {s \in Users : where[s] = c}
  <2>1. PICK us \in SetToSeqs(moved) :
          Change([k \in DOMAIN us |-> UserState(us[k], Root, {})] \o <<ChannelRemove(c)>>)
    BY <1>6 DEF Removes
  <2>2. IsFiniteSet(moved)
    BY FS_Subset, ServerAssumption, moved \in SUBSET Users, Zenon
  <2>3. us \in Seq(moved)
    <3> HIDE DEF moved
    <3> QED
      BY <2>1, <2>2, OrderOf, Zenon
  <2> DEFINE A == [k \in DOMAIN us |-> UserState(us[k], Root, {})]
             C == <<ChannelRemove(c)>>
  <2>4. A \in Seq(Harmless)
    <3>1. DOMAIN us = 1 .. Len(us) /\ Len(us) \in Nat /\ \A k \in DOMAIN us : us[k] \in Users
      BY <2>3, LenProperties, ElementOfSeq
    <3>2. \A k \in 1 .. Len(us) : UserState(us[k], Root, {}) \in Harmless
      BY <3>1, ServerAssumption DEF UserState
    <3> HIDE DEF Harmless
    <3> QED
      BY <3>1, <3>2, SeqDef
  <2>5. C \in Seq(Harmless)
    <3>1. ChannelRemove(c) \in Harmless
      BY DEF ChannelRemove
    <3> QED
      BY <3>1
  <2>6. A \o C \in Seq(Harmless)
    <3> HIDE DEF A, C, Harmless
    <3> QED
      BY <2>4, <2>5, ConcatProperties
  <2> QED
    BY <1>1, <2>1, <2>6
<1>7. ASSUME NEW s \in Users, NEW last \in BOOLEAN, Forwards(s, last) PROVE OffInv'
  BY <1>7 DEF Forwards, OffInv, KickIsLast, OffKnows, Known, client, tables, handler
<1> QED
  BY <1>2, <1>3, <1>4, <1>5, <1>6, <1>7 DEF Server

(* A handler takes a packet while the client is on; its later steps, after *)
(* a disconnect, add nobody to the tables except in KickedOut.             *)
LEMMA StepKeepsOff == ServerInv /\ OffInv /\ [Next]_vars => OffInv'
<1> SUFFICES ASSUME ServerInv, OffInv, [Next]_vars PROVE OffInv'
  OBVIOUS
<1> USE DEF OffInv, serverVars
<1>1. ASSUME NEW type, Handle(type), pc' = "removeUser" => type = "UserRemove" PROVE OffInv'
  <2>1. /\ online' = online /\ online /\ net # <<>> /\ net' = Tail(net) /\ packet' = Head(net)
        /\ where' = where /\ Head(net).type = type
    BY <1>1 DEF Handle
  <2>2. where[Me] # None => Head(net) \in Harmless /\ net' \in Seq(Harmless)
    BY <2>1, HeadTailProperties DEF KickIsLast
  <2>3. where[Me] # None => ~(type = "UserRemove" /\ packet'.user = Me)
    BY <2>1, <2>2 DEF Harmless
  <2> QED
    BY <1>1, <2>1, <2>2, <2>3 DEF KickIsLast, OffKnows
<1>2. ASSUME UNCHANGED <<where, net, online>>, online \/ UNCHANGED <<channels, users>>,
             pc' # "removeUser" \/ (pc = "removeUser" /\ packet' = packet),
             pc \in {"end", "idle"} => pc' \in {"end", "idle"}
      PROVE  OffInv'
  BY <1>2 DEF KickIsLast, OffKnows, Known
<1>3. CASE Server
  BY <1>3, ServerKicksLast
<1>4. CASE Handlers
  <2>1. CASE HandleUserState
    BY <1>1, <2>1 DEF HandleUserState, Call
  <2>2. CASE Assign
    <3>1. /\ UNCHANGED <<where, net, online>> /\ pc = "assign" /\ pc' \in {"idle", "state"}
      BY <2>2 DEF Assign, Continue, Rest, Uses, Call
    <3>2. CASE online
      BY <1>2, <3>1, <3>2
    <3>3. CASE ~online
      <4>1. packet.adjusts = {}
        BY <2>2, <3>3 DEF Assign, Continue, ServerInv, Shape, OfUser, OfAudio, AdjustsAlone,
                          UserStates
      <4>2. UNCHANGED <<channels, users>>
        BY <2>2, <3>3, <4>1 DEF Assign, Uses, Write, mumble_channel_get, tables
      <4> QED
        BY <1>2, <3>1, <4>2
    <3> QED
      BY <3>2, <3>3
  <2>3. CASE OnUserState
    BY <1>2, <2>3 DEF OnUserState, Continue, Rest, Call, tables
  <2>4. CASE HandleUserRemove
    BY <1>1, <2>4 DEF HandleUserRemove, Call
  <2>5. CASE RemoveUser
    <3>1. pc = "removeUser" /\ pc' = "end" /\ where' = where /\ packet \in UserRemoves
      BY <2>5 DEF RemoveUser, Rest, ServerInv, Shape, OfUser, OfAudio
    <3>2. CASE packet.user = Me /\ online
      <4>1. Disconnect
        BY <2>5, <3>2 DEF RemoveUser, KickedOut
      <4>2. channels' = {} /\ net' = <<>> /\ users' = [s \in Users |-> None]
        BY <4>1 DEF Disconnect
      <4> QED
        BY <3>1, <4>2 DEF KickIsLast, OffKnows, Known
    <3>3. CASE packet.user = Me /\ ~online
      <4>1. /\ UNCHANGED <<channels, online, net>>
            /\ users' = users \/ (packet.actor # None /\ mumble_user_get(packet.actor))
        BY <2>5, <3>3 DEF RemoveUser, KickedOut
      <4>2. where'[Me] = None /\ channels' = {} /\ Known = {}
        BY <3>1, <3>3, <4>1 DEF KickIsLast, OffKnows
      <4>3. Known' = {} \/ \E s \in Users : Known' = {s}
        <5>1. CASE users' = users
          BY <4>2, <5>1 DEF Known
        <5>2. CASE packet.actor # None /\ mumble_user_get(packet.actor)
          <6>1. packet.actor \in Users
            BY <3>1, <5>2 DEF UserRemoves
          <6>2. Known' = Known \cup {packet.actor}
            BY <5>2, <6>1, GetsUser
          <6> QED
            BY <4>2, <6>1, <6>2
        <5> QED
          BY <4>1, <5>1, <5>2
      <4> QED
        BY <3>1, <4>2, <4>3 DEF KickIsLast, OffKnows
    <3>4. CASE packet.user # Me
      <4>1. UNCHANGED <<channels, online, net>> /\ users' = [users EXCEPT ![packet.user] = None]
        BY <2>5, <3>4 DEF RemoveUser, mumble_user_remove
      <4>2. Known' \subseteq Known
        BY <3>1, <4>1 DEF Known, ServerInv, TypeOK, UserRemoves
      <4> QED
        BY <3>1, <4>1, <4>2 DEF KickIsLast, OffKnows
    <3> QED
      BY <3>2, <3>3, <3>4
  <2>6. CASE HandleChannelState \/ HandlePermissionQuery
    <3>1. PICK type : Handle(type) /\ pc' = "end"
      BY <2>6 DEF HandleChannelState, HandlePermissionQuery, HandleChannel, Call
    <3> QED
      BY <1>1, <3>1
  <2>7. CASE HandleChannelRemove \/ HandleServerSync
    <3>1. PICK type : Handle(type) /\ pc' # "removeUser"
      BY <2>7 DEF HandleChannelRemove, HandleServerSync, Call
    <3> QED
      BY <1>1, <3>1
  <2>8. CASE RemoveChannel
    <3>1. /\ pc = "removeChannel" /\ pc' = "end" /\ UNCHANGED <<where, net, online, users>>
          /\ channels' \subseteq channels
      BY <2>8 DEF RemoveChannel, Continue, Rest, mumble_channel_remove
    <3> QED
      BY <3>1 DEF KickIsLast, OffKnows, Known
  <2>9. CASE HandleAudio
    <3>1. online /\ UNCHANGED <<where, net, online>> /\ pc' \in {"speak", "speakAndStop"}
          /\ pc = "idle"
      BY <2>9 DEF HandleAudio, Rest, Call
    <3> QED
      BY <3>1 DEF KickIsLast, OffKnows
  <2>10. CASE Speak \/ StopSpeaking \/ LastSpoke
    <3>1. /\ UNCHANGED <<where, net, online, users, channels>> /\ pc' # "removeUser"
          /\ pc \notin {"end", "idle"}
      BY <2>10 DEF Speak, StopSpeaking, LastSpoke, Continue, Rest, Uses, Call, tables
    <3> QED
      BY <1>2, <3>1
  <2>11. CASE Finish
    <3>1. UNCHANGED <<where, net, online, users, channels>> /\ pc' = "idle"
      BY <2>11 DEF Finish, Continue, Rest, tables
    <3> QED
      BY <1>2, <3>1
  <2> QED
    BY <1>4, <2>1, <2>2, <2>3, <2>4, <2>5, <2>6, <2>7, <2>8, <2>9, <2>10, <2>11 DEF Handlers
<1>5. CASE HookReturn
  BY <1>2, <1>5 DEF HookReturn, client, tables
<1>6. CASE HookDisconnect
  <2>1. /\ where' = where /\ net' = <<>> /\ channels' = {} /\ users' = [s \in Users |-> None]
        /\ UNCHANGED <<pc, packet>>
    BY <1>6 DEF HookDisconnect, Disconnect
  <2> QED
    BY <2>1 DEF KickIsLast, OffKnows, Known
<1>7. CASE UNCHANGED vars
  BY <1>2, <1>7 DEF vars, client, tables, handler
<1> QED
  BY <1>3, <1>4, <1>5, <1>6, <1>7 DEF Next

(* It holds throughout.                                                    *)
LEMMA EndsKnowingNobody == Spec => []OffInv
<1>1. Init => OffInv
  BY InitIsGood, FirstIsHarmless
<1> QED
  BY <1>1, StepKeepsOff, Invariance, PTL DEF Spec

-----------------------------------------------------------------------------
(* The lists hold what the tables hold, each once, and nothing after a     *)
(* disconnect, though the handler around the hook goes on                  *)
(* (mumble_disconnect, mumble_user_remove, mumble_channel_get), unless it  *)
(* is the one of this client's own kick, which looks the actor up again    *)
(* (packet.c:585).                                                         *)
THEOREM ServerStateListsMatch == Spec => []ListsMatch
<1>1. ServerInv /\ OffInv => ListsMatch
  <2> SUFFICES ASSUME ServerInv, OffInv PROVE ListsMatch
    OBVIOUS
  <2>1. TypeOK /\ Known \in SUBSET Users /\ channels \in SUBSET Channels
    BY DEF ServerInv, TypeOK, Known
  <2>2. Lists(user_list, Known) /\ Lists(channel_list, channels)
    BY <2>1, FitsBoth, FitsLists, ServerAssumption
  <2>3. ASSUME ~online
        PROVE  /\ channel_list = <<>>
               /\ user_list = <<>> \/ (where[Me] = None /\ Len(user_list) = 1)
    <3>1. Len(channel_list) = 0
      BY <2>2, <2>3, FS_EmptySet DEF OffInv, OffKnows, Lists
    <3>2. CASE Known = {}
      <4>1. Len(user_list) = 0
        BY <2>2, <3>2, FS_EmptySet DEF Lists
      <4> QED
        BY <2>1, <3>1, <4>1, EmptySeq DEF TypeOK
    <3>3. CASE where[Me] = None /\ \E s \in Users : Known = {s}
      <4>1. PICK s \in Users : Known = {s}
        BY <3>3
      <4>2. Len(user_list) = 1
        BY <2>2, <4>1, FS_Singleton DEF Lists
      <4> QED
        BY <2>1, <3>1, <3>3, <4>2, EmptySeq DEF TypeOK
    <3> QED
      BY <2>3, <3>2, <3>3 DEF OffInv, OffKnows
  <2> QED
    BY <2>1, <2>2, <2>3 DEF ListsMatch, Known
<1> QED
  BY <1>1, Invariance, EndsKnowingNobody, PTL

(* When all is handled that the server sent, the client knows the server's *)
(* channels, its users and where each of them is, whatever order the       *)
(* changes came in and whatever audio was lost or late (packet.c:618).     *)
THEOREM ServerStateMirror == Spec => []Mirror
<1>1. ServerInv => Mirror
  <2> SUFFICES ASSUME ServerInv, online, pc = "idle", net = <<>>
               PROVE  /\ channels = there
                      /\ \A s \in Users :
                          /\ where[s] = None => users[s] = None \/ ~users[s].connected
                          /\ where[s] # None => /\ users[s] # None /\ users[s].connected
                                                /\ users[s].channel_id = where[s]
    BY DEF Mirror
  <2>1. PICK v : Leads(v)
    BY DEF ServerInv, UpToDate
  <2>2. Len(v) = 1 /\ v[1] = ClientView
    BY <2>1 DEF Leads, Chain, Upcoming
  <2>3. channels = there /\ ClientView.place = where
    BY <2>1, <2>2 DEF Leads, Agrees, ClientView
  <2>4. ASSUME NEW s \in Users
        PROVE  where[s] = IF users[s] # None /\ users[s].connected THEN users[s].channel_id ELSE None
    BY <2>3 DEF ClientView
  <2>5. ASSUME NEW s \in Users, users[s] # None PROVE users[s].channel_id # None
    BY <2>5, ServerAssumption DEF ServerInv, TypeOK, UserRecord
  <2> QED
    BY <2>3, <2>4, <2>5
<1> QED
  BY <1>1, Invariance, PTL

(* OnUserConnect named those who came after the client and no other,       *)
(* OnUserChannel two different and known channels of a user that the       *)
(* script knows, and the hooks of speech take turns (packet.c:641, 771,    *)
(* mumble.c:1449).                                                         *)
THEOREM ServerStateHooksAreTrue == Spec => []HooksAreTrue
<1>1. ServerInv => HooksAreTrue
  <2> SUFFICES ASSUME ServerInv PROVE HooksAreTrue
    OBVIOUS
  <2>1. ASSUME online, pc = "idle", synced
        PROVE  announced = {s \in Users : users[s] # None /\ users[s].connected} \ present
    <3>1. ClientView.synced /\ Fine(ClientView)
      BY <2>1, IdleIsFine DEF ClientView
    <3>2. announced = Present(ClientView) \ present
      BY <3>1 DEF Fine, ClientView
    <3>3. Present(ClientView) = {s \in Users : users[s] # None /\ users[s].connected}
      BY ServerAssumption DEF Present, ClientView, ServerInv, TypeOK, UserRecord
    <3> QED
      BY <3>2, <3>3
  <2>2. online /\ hook = "OnUserChannel" =>
          /\ move.from # move.to /\ {move.from, move.to} \subseteq channels
          /\ move.user \in announced \cup present
    BY DEF ServerInv, MoveIsKnown
  <2>3. online /\ pc = "idle" => talking = {s \in Users : users[s] # None /\ users[s].speaking}
    BY DEF ServerInv, Talking, Speaking
  <2> QED
    BY <2>1, <2>2, <2>3 DEF HooksAreTrue
<1> QED
  BY <1>1, Invariance, PTL
=============================================================================
