----------------------------- MODULE ServerState -----------------------------
(***************************************************************************)
(* What the client knows of the server's users and channels: the handlers  *)
(* of packet.c that keep the Lua tables client->users and client->channels *)
(* and the lists user_list and channel_list, the handlers of audio, which  *)
(* look users up too, and the hooks called on the way, in any of which the *)
(* script may disconnect.                                                  *)
(*                                                                         *)
(* The server is external: it sends its state when the client joins, then  *)
(* one message per change, over TCP and so in order; audio comes over UDP, *)
(* late or never.  A handler is a few actions, one from each hook to the   *)
(* next.  Of the fields of users and channels only those are kept that a   *)
(* handler decides on.  The script keeps its client.                       *)
(***************************************************************************)
EXTENDS Integers, LinkedList, SequencesExt

CONSTANTS
    Users,      \* session numbers
    Me,         \* the session of this client
    Channels,   \* channel numbers
    Root,       \* channel 0
    None,       \* no user, no channel
    MaxEvents,  \* bound: the changes on the server
    MaxAudio    \* bound: the audio packets it forwards

ASSUME ServerAssumption ==
    /\ IsFiniteSet(Users) /\ IsFiniteSet(Channels)
    /\ Me \in Users /\ Root \in Channels
    /\ None \notin Users \cup Channels
    /\ None \notin [channel_id : Channels, connected : BOOLEAN, speaking : BOOLEAN]
    /\ MaxEvents \in Nat /\ MaxAudio \in Nat

VARIABLES
    \* the server: the channel of each user, its channels, what it did
    where, there, events, audios,
    \* the network
    net, audio,
    \* the client: its tables, its lists, and two flags
    users, channels, user_list, channel_list, online, synced,
    \* the handler: where it is, for what packet, the hook it calls, and the
    \* user it points to, which after a disconnect is in no table any more
    pc, packet, hook, orphan,
    fault,      \* a user was written after it may have been freed
    \* ghosts: users that OnUserConnect named, users present when the client
    \* joined, users whose last speaking hook was OnUserStartSpeaking, and
    \* what the last OnUserChannel said
    announced, present, talking, move

serverVars == <<where, there, events, audios>>
tables     == <<users, channels, user_list, channel_list>>
client     == <<tables, online, synced>>
handler    == <<pc, packet, hook, orphan, fault>>
ghosts     == <<announced, present, talking, move>>
vars == <<serverVars, net, audio, client, handler, ghosts>>

UserState(s, c, adjusts) == [type |-> "UserState", user |-> s, channel |-> c, adjusts |-> adjusts]
UserRemove(s, actor) == [type |-> "UserRemove", user |-> s, actor |-> actor]
ChannelState(c)  == [type |-> "ChannelState", channel |-> c]
ChannelRemove(c) == [type |-> "ChannelRemove", channel |-> c]
PermissionQuery(c) == [type |-> "PermissionQuery", channel |-> c]
ServerSync       == [type |-> "ServerSync"]
Audio(s, last)   == [type |-> "Audio", user |-> s, speaking |-> ~last]
NoPacket         == [type |-> "none"]
NoMove           == [user |-> None, from |-> None, to |-> None]

(* A server leaves the channel of a user in the root channel out.          *)
InChannel(s, c) == UserState(s, IF c = Root THEN None ELSE c, {})

Connected == {s \in Users : where[s] # None}

Init ==
    /\ there \in {T \in SUBSET Channels : Root \in T}
    /\ where \in [Users -> there \cup {None}] /\ where[Me] # None
    /\ events = 0 /\ audios = 0
    /\ LET us == SetToSeq(Connected)
           cs == SetToSeq(there)
       IN  net = [k \in DOMAIN cs |-> ChannelState(cs[k])]
                 \o [k \in DOMAIN us |-> InChannel(us[k], where[us[k]])]
                 \o <<ServerSync>>
    /\ audio = {}
    /\ users = [s \in Users |-> None] /\ channels = {}
    /\ user_list = <<>> /\ channel_list = <<>>
    /\ online = TRUE /\ synced = FALSE
    /\ pc = "idle" /\ packet = NoPacket /\ hook = "none" /\ orphan = None
    /\ fault = FALSE
    /\ announced = {} /\ present = Connected /\ talking = {} /\ move = NoMove

-----------------------------------------------------------------------------
(* The server.  A handler looks at the network only when it is called, so  *)
(* that a step of the server while it runs is as good as one before it:    *)
(* the server waits.                                                       *)

Waiting == pc = "idle" /\ online /\ where[Me] # None

Change(messages) ==
    /\ events < MaxEvents /\ events' = events + 1
    /\ Waiting /\ net' = net \o messages
    /\ UNCHANGED <<audios, audio, client, handler, ghosts>>

Joins(s, c) ==
    /\ where[s] = None /\ c \in there
    /\ where' = [where EXCEPT ![s] = c]
    /\ Change(<<InChannel(s, c)>>)
    /\ UNCHANGED there

Moves(s, c) ==
    /\ where[s] \notin {None, c} /\ c \in there
    /\ where' = [where EXCEPT ![s] = c]
    /\ Change(<<UserState(s, c, {})>>)
    /\ UNCHANGED there

(* A change of a user's own state, or of how this client listens.          *)
Updates(s) ==
    /\ where[s] # None
    /\ \E adjusts \in {{}} \cup (IF s = Me THEN {{c} : c \in there} ELSE {}) : Change(<<UserState(s, None, adjusts)>>)
    /\ UNCHANGED <<where, there>>

(* A user leaves, or is kicked or banned by another (packet.c:584 looks at *)
(* who did it, if this client is meant).                                   *)
Leaves(s) ==
    /\ where[s] # None
    /\ where' = [where EXCEPT ![s] = None]
    /\ \E actor \in {None} \cup (IF s = Me THEN Connected \ {Me} ELSE {}) : Change(<<UserRemove(s, actor)>>)
    /\ UNCHANGED there

Creates(c) ==
    /\ c \notin there
    /\ there' = there \cup {c}
    /\ Change(<<ChannelState(c)>>)
    /\ UNCHANGED where

(* The users of a channel are moved before it is removed.                  *)
Removes(c) ==
    LET moved == {s \in Users : where[s] = c}
    IN  /\ c \in there \ {Root}
        /\ there' = there \ {c}
        /\ where' = [s \in Users |-> IF s \in moved THEN Root ELSE where[s]]
        /\ \E us \in SetToSeqs(moved) :
            Change([k \in DOMAIN us |-> UserState(us[k], Root, {})] \o <<ChannelRemove(c)>>)

Answers(c) ==
    /\ c \in there
    /\ Change(<<PermissionQuery(c)>>)
    /\ UNCHANGED <<where, there>>

Forwards(s, last) ==
    /\ Waiting /\ where[s] # None /\ s # Me
    /\ audios < MaxAudio /\ audios' = audios + 1
    /\ audio' = audio \cup {Audio(s, last)}
    /\ UNCHANGED <<where, there, events, net, client, handler, ghosts>>

Server ==
    \/ \E s \in Users, c \in Channels : Joins(s, c) \/ Moves(s, c)
    \/ \E s \in Users : Updates(s) \/ Leaves(s)
    \/ \E c \in Channels : Creates(c) \/ Removes(c) \/ Answers(c)
    \/ \E s \in Users, last \in BOOLEAN : Forwards(s, last)

-----------------------------------------------------------------------------
(* The tables and lists.                                                   *)

NewUser == [channel_id |-> Root, connected |-> FALSE, speaking |-> FALSE]

(* mumble_user_get, for the user that a handler goes on to write to.       *)
mumble_user_get(s) ==
    /\ users' = [users EXCEPT ![s] = IF @ = None THEN NewUser ELSE @]
    /\ user_list' = IF users[s] = None THEN list_add(user_list, s, s) ELSE user_list

(* Defect: a user is taken out of the table and left in the list.          *)
RemoveFromTable(s) ==
    /\ users' = [users EXCEPT ![s] = None]
    /\ UNCHANGED user_list

mumble_user_remove(s) ==
    /\ users' = [users EXCEPT ![s] = None]
    /\ user_list' = list_remove(user_list, s)

(* mumble_channel_get, of each of the channels.                            *)
mumble_channel_get(cs) ==
    \E new \in SetToSeqs(cs \ channels) :
        /\ channels' = channels \cup cs
        /\ channel_list' = [k \in DOMAIN new |-> Node(new[k], new[k])] \o channel_list

mumble_channel_remove(c) ==
    /\ channels' = channels \ {c}
    /\ channel_list' = list_remove(channel_list, c)

(* The user of the packet, as the handler's pointer sees it.               *)
User == IF online THEN users[packet.user] ELSE orphan

(* A write through that pointer.                                           *)
Write(user) ==
    IF online
    THEN users' = [users EXCEPT ![packet.user] = user] /\ UNCHANGED orphan
    ELSE orphan' = user /\ UNCHANGED users

(* Nothing but the garbage collector's pace keeps a user alive that is in  *)
(* no table: it may have been freed when it is used.                       *)
Uses(continue) ==
    \/ /\ ~online /\ orphan # None
       /\ fault' = TRUE /\ pc' = "idle" /\ packet' = NoPacket /\ orphan' = None
       /\ UNCHANGED <<hook, tables, ghosts>>
    \/ continue /\ UNCHANGED fault

-----------------------------------------------------------------------------
(* The handlers.                                                           *)

Rest == UNCHANGED <<serverVars, synced>>

Handle(type) ==
    /\ pc = "idle" /\ online /\ ~fault
    /\ net # <<>> /\ Head(net).type = type
    /\ packet' = Head(net) /\ net' = Tail(net)
    /\ UNCHANGED <<serverVars, audio, online, orphan, fault>>

(* After a hook the handler goes on at pc.  A client that is disconnected  *)
(* calls no hook.                                                          *)
Call(h, next) == hook' = (IF online THEN h ELSE "none") /\ pc' = next

Continue(from) ==
    /\ pc = from /\ hook = "none"
    /\ UNCHANGED <<net, audio, online>> /\ Rest

Finish ==
    /\ Continue("end")
    /\ pc' = "idle" /\ packet' = NoPacket /\ orphan' = None
    /\ UNCHANGED <<hook, fault, tables, ghosts>>

Moved(user, c) ==
    c # None /\ user.connected /\ synced /\ user.channel_id # c

(* packet_user_state, up to OnUserChannel.                                 *)
HandleUserState ==
    /\ Handle("UserState")
    /\ LET s == packet'.user
           c == packet'.channel
       IN  /\ mumble_user_get(s)
           /\ IF Moved(users'[s], c)
              THEN /\ Call("OnUserChannel", "assign")
                   /\ move' = [user |-> s, from |-> users'[s].channel_id, to |-> c]
              ELSE Call("none", "assign") /\ UNCHANGED move
    /\ UNCHANGED <<channels, channel_list, synced, announced, present, talking>>

ChannelOf(user, c) == IF c = None THEN user.channel_id ELSE c

(* Defect: a user is only marked as connected once the client is synced.   *)
ConnectsSynced(user) == user.connected \/ synced

Connects(user) == TRUE

(* ... up to OnUserConnect, with the channels that are listened to.        *)
Assign ==
    /\ Continue("assign")
    /\ Uses(LET user == User
                c    == packet.channel
            IN  /\ Write([user EXCEPT !.channel_id = ChannelOf(user, c),
                                      !.connected = Connects(user)])
                /\ IF ~user.connected /\ synced
                   THEN /\ Call("OnUserConnect", "state")
                        /\ announced' = announced \cup {packet.user}
                   ELSE Call("none", "state") /\ UNCHANGED announced
                /\ mumble_channel_get(packet.adjusts)
                /\ UNCHANGED <<packet, user_list, present, talking, move>>)

OnUserState ==
    /\ Continue("state")
    /\ Call("OnUserState", "end")
    /\ UNCHANGED <<packet, orphan, fault, tables, ghosts>>

(* packet_user_remove, up to OnUserRemove and after it.                    *)
HandleUserRemove ==
    /\ Handle("UserRemove")
    /\ Call("OnUserRemove", "removeUser")
    /\ UNCHANGED <<tables, synced, ghosts>>

(* mumble_disconnect: the tables and the lists are emptied.  The user that *)
(* a handler points to is then an orphan.                                  *)
Disconnect ==
    /\ online' = FALSE
    /\ users' = [s \in Users |-> None] /\ channels' = {}
    /\ user_list' = <<>> /\ channel_list' = <<>>
    /\ net' = <<>> /\ audio' = {}

(* The client itself was removed: the actor is looked up for the message,  *)
(* which makes the user anew if the script disconnected in OnUserRemove,   *)
(* and mumble_disconnect does nothing then.                                *)
KickedOut ==
    IF online THEN Disconnect
    ELSE /\ IF packet.actor = None THEN UNCHANGED <<users, user_list>>
            ELSE mumble_user_get(packet.actor)
         /\ UNCHANGED <<channels, channel_list, online, net, audio>>

RemoveUser ==
    /\ pc = "removeUser" /\ hook = "none"
    /\ pc' = "end"
    /\ IF packet.user = Me THEN KickedOut
       ELSE /\ mumble_user_remove(packet.user)
            /\ UNCHANGED <<channels, channel_list, online, net, audio>>
    /\ announced' = announced \ {packet.user}
    /\ present' = present \ {packet.user} /\ talking' = talking \ {packet.user}
    /\ UNCHANGED <<packet, hook, orphan, fault, move>>
    /\ Rest

(* packet_channel_state, packet_permission_query.                          *)
HandleChannel(type, h) ==
    /\ Handle(type)
    /\ mumble_channel_get({packet'.channel})
    /\ Call(h, "end")
    /\ UNCHANGED <<users, user_list, synced, ghosts>>

HandleChannelState    == HandleChannel("ChannelState", "OnChannelState")
HandlePermissionQuery == HandleChannel("PermissionQuery", "OnPermissionQuery")

(* packet_channel_remove.                                                  *)
HandleChannelRemove ==
    /\ Handle("ChannelRemove")
    /\ Call("OnChannelRemove", "removeChannel")
    /\ UNCHANGED <<tables, synced, ghosts>>

(* Defect: the channel stays in the table.                                 *)
RemoveChannelFromList ==
    /\ Continue("removeChannel")
    /\ channel_list' = list_remove(channel_list, packet.channel)
    /\ pc' = "end"
    /\ UNCHANGED <<packet, hook, orphan, fault, users, channels, user_list, ghosts>>

RemoveChannel ==
    /\ Continue("removeChannel")
    /\ mumble_channel_remove(packet.channel)
    /\ pc' = "end"
    /\ UNCHANGED <<packet, hook, orphan, fault, users, user_list, ghosts>>

(* packet_server_sync, with the permissions of the root channel.           *)
HandleServerSync ==
    /\ Handle("ServerSync")
    /\ synced' = TRUE
    /\ mumble_channel_get({Root})
    /\ Call("OnServerSync", "end")
    /\ UNCHANGED <<users, user_list, ghosts>>

-----------------------------------------------------------------------------
(* mumble_handle_speaking_hooks_protobuf and its legacy twin.              *)

(* Defect: an audio packet that is alone starts, and does not stop.        *)
StopsAfterStart(user, speaking) == user.speaking /\ ~speaking

Starts(user, speaking) == ~user.speaking
Stops(user, speaking)  == ~speaking

(* The user speaks or has ended; a packet that is the last and the only    *)
(* one both starts and stops.                                              *)
HandleAudio ==
    /\ pc = "idle" /\ online /\ ~fault
    /\ \E a \in audio :
        /\ packet' = a /\ audio' = audio \ {a}
        /\ LET user == IF users[a.user] = None THEN NewUser ELSE users[a.user]
               next == IF Stops(user, a.speaking) THEN "speakAndStop" ELSE "speak"
           IN  /\ users' = [users EXCEPT ![a.user] = [user EXCEPT !.speaking = a.speaking]]
               /\ user_list' = IF users[a.user] = None
                               THEN list_add(user_list, a.user, a.user) ELSE user_list
               /\ IF Starts(user, a.speaking)
                  THEN /\ Call("OnUserStartSpeaking", next)
                       /\ talking' = talking \cup {a.user}
                  ELSE Call("none", next) /\ UNCHANGED talking
    /\ UNCHANGED <<net, channels, channel_list, orphan, fault, announced, present, move>>
    /\ UNCHANGED online /\ Rest

(* mumble_handle_record_silence and mumble_handle_record read the user.    *)
Speak ==
    /\ Continue(pc) /\ pc \in {"speak", "speakAndStop"}
    /\ Uses(/\ Call("OnUserSpeak", IF pc = "speak" THEN "end" ELSE "stop")
            /\ UNCHANGED <<packet, orphan, tables, ghosts>>)

StopSpeaking ==
    /\ Continue("stop")
    /\ Call("OnUserStopSpeaking", "lastSpoke")
    /\ talking' = talking \ {packet.user}
    /\ UNCHANGED <<packet, orphan, fault, tables, announced, present, move>>

LastSpoke ==
    /\ Continue("lastSpoke")
    /\ Uses(/\ pc' = "end"
            /\ UNCHANGED <<packet, hook, orphan, tables, ghosts>>)

-----------------------------------------------------------------------------
(* The script, in a hook.                                                  *)

HookReturn ==
    /\ hook # "none" /\ hook' = "none"
    /\ UNCHANGED <<serverVars, net, audio, client, pc, packet, orphan, fault, ghosts>>

HookDisconnect ==
    /\ hook # "none" /\ online
    /\ orphan' = IF packet.type \in {"UserState", "Audio"} THEN users[packet.user] ELSE None
    /\ Disconnect
    /\ UNCHANGED <<serverVars, synced, pc, packet, hook, fault, ghosts>>

Handlers ==
    \/ HandleUserState \/ Assign \/ OnUserState
    \/ HandleUserRemove \/ RemoveUser
    \/ HandleChannelState \/ HandlePermissionQuery
    \/ HandleChannelRemove \/ RemoveChannel
    \/ HandleServerSync
    \/ HandleAudio \/ Speak \/ StopSpeaking \/ LastSpoke
    \/ Finish

Next == Server \/ Handlers \/ HookReturn \/ HookDisconnect

Spec == Init /\ [][Next]_vars

-----------------------------------------------------------------------------
UserRecord == [channel_id : Channels, connected : BOOLEAN, speaking : BOOLEAN]

(* The nodes of both lists are LinkNodes, and each user is in a channel.   *)
TypeOK ==
    /\ where \in [Users -> Channels \cup {None}] /\ there \subseteq Channels
    /\ events \in 0 .. MaxEvents /\ audios \in 0 .. MaxAudio
    /\ users \in [Users -> UserRecord \cup {None}] /\ channels \subseteq Channels
    /\ user_list \in Seq([index : Users, data : Users])
    /\ channel_list \in Seq([index : Channels, data : Channels])
    /\ online \in BOOLEAN /\ synced \in BOOLEAN /\ fault \in BOOLEAN
    /\ orphan \in UserRecord \cup {None}
    /\ announced \subseteq Users /\ present \subseteq Users /\ talking \subseteq Users

Lists(list, indices) ==
    /\ Len(list) = Cardinality(indices)
    /\ {list[k].index : k \in DOMAIN list} = indices

(* client:getUsers and client:getChannels walk the lists and look up each  *)
(* index in the tables, whose userdata the nodes point to (client.c:564):  *)
(* the lists name what the tables hold, each once.  They stay empty when a *)
(* hook has disconnected, though the handler around it goes on; only after *)
(* a kick of this client does it leave a user, the actor (packet.c:585).   *)
ListsMatch ==
    /\ TypeOK
    /\ Lists(user_list, {s \in Users : users[s] # None})
    /\ Lists(channel_list, channels)
    /\ ~online => /\ channel_list = <<>>
                  /\ user_list = <<>> \/ (where[Me] = None /\ Len(user_list) = 1)

(* A client that is not connected has no users in its list.                *)
OfflineIsEmpty == ~online => user_list = <<>>

(* When the client has handled all that the server sent, it knows the      *)
(* server's channels, its users, and the channel each is in; users that    *)
(* it has only heard are told apart by `connected` (packet.c:768).         *)
Mirror ==
    online /\ pc = "idle" /\ net = <<>> =>
        /\ channels = there
        /\ \A s \in Users :
            /\ where[s] = None => users[s] = None \/ ~users[s].connected
            /\ where[s] # None =>
                 users[s] # None /\ users[s].connected /\ users[s].channel_id = where[s]

(* The hooks tell of users what happened.  OnUserConnect names those who   *)
(* came after the client, and never those it met on the server             *)
(* (packet.c:771); OnUserChannel is called with two different channels,    *)
(* both known to the client, so that neither is nil in the event           *)
(* (packet.c:641), and for a user that the script was told of or met.  The *)
(* hooks of a user's speech take turns, and agree with user->speaking,     *)
(* while the user is known: each OnUserStartSpeaking is followed by one    *)
(* OnUserStopSpeaking before the next (mumble.c:1449).                     *)
HooksAreTrue ==
    /\ online /\ pc = "idle" /\ synced =>
        announced = {s \in Users : users[s] # None /\ users[s].connected} \ present
    /\ online /\ hook = "OnUserChannel" =>
        /\ move.from # move.to /\ {move.from, move.to} \subseteq channels
        /\ move.user \in announced \cup present
    /\ online /\ pc = "idle" =>
        talking = {s \in Users : users[s] # None /\ users[s].speaking}

(* README.md:258, "client:getUsers": every user it lists is on the server, *)
(* if the client has handled all that the server sent.                     *)
NoPhantoms ==
    online /\ pc = "idle" /\ net = <<>> =>
        \A s \in Users : users[s] # None => where[s] # None

(* Nothing is used that a hook has freed.                                  *)
NoUseAfterFree == ~fault
=============================================================================
