------------------------------- MODULE Requests -------------------------------
(***************************************************************************)
(* What the methods of mumble.client, mumble.user, mumble.channel and      *)
(* mumble.voicetarget ask of the server: the message each packs, the       *)
(* SSL_write of packet_sendex on a socket that may be full, and what the   *)
(* server does then.  A message is a record of the fields that are packed: *)
(* an optional field that is set without its has_ flag is not.             *)
(*                                                                         *)
(* OpenSSL and the server are external.  When the socket is full OpenSSL   *)
(* keeps the record it has made, and completes it at a later SSL_write     *)
(* that is given the same buffer again, which for the client is up to      *)
(* malloc.  Voice in the tunnel and pings are written like requests, and   *)
(* are not followed here.                                                  *)
(***************************************************************************)
EXTENDS Integers, SequencesExt

CONSTANTS
    Users, Channels,
    Self,       \* the client's own user
    Root,       \* a channel
    None,
    MaxCalls    \* bound: the calls of a script

VARIABLES
    target, group,  \* a mumble.voicetarget, and the string it points to
    recorded,       \* the users of user_list whose recording_file is open
    recording,      \* client->recording
    left,           \* ghost: a recorded user went, and nothing was started or
                    \* stopped since
    connected,
    pending,        \* the message that OpenSSL keeps
    torn,           \* the server cannot read on
    world,          \* what the server has made of the messages
    heard,          \* the numbers of the requests it has read
    calls, asked,   \* how many calls there were, and how many requests
    wish,           \* ghost: what the requests mean, by the README
    astray,         \* ghost: a call did not ask what the README says
    blocked,        \* ghost: the socket was full once
    fault           \* freed memory was used, or an assertion failed

objects == <<target, group, recorded, recording, left, connected>>
wire    == <<pending, torn, world, heard, blocked>>
ghosts  == <<calls, asked, wish, astray>>
vars    == <<objects, wire, ghosts, fault>>

(* Nobody but the client changes anything on the server, and everyone is   *)
(* in the root channel.  `told` is the last thing the server was asked that*)
(* changes nothing.                                                        *)
World == [here |-> Users, muted |-> {}, deaf |-> {}, registered |-> {},
          place |-> [u \in Users |-> Root], listens |-> {}, rooms |-> Channels,
          links |-> {}, made |-> {}, recording |-> FALSE,
          target |-> None, told |-> None]

(* The script may record users from the start.                             *)
Init ==
    /\ target = [session |-> {}, channel_id |-> None] /\ group = "none"
    /\ recorded \in SUBSET Users /\ recording = (recorded # {}) /\ left = FALSE
    /\ connected = TRUE
    /\ pending = None /\ torn = FALSE
    /\ world = [World EXCEPT !.recording = recording] /\ wish = world /\ heard = <<>>
    /\ calls = 0 /\ asked = 0 /\ astray = FALSE /\ blocked = FALSE /\ fault = FALSE

-----------------------------------------------------------------------------
(* The server.                                                             *)

Put(set, x, on) == IF on THEN set \cup {x} ELSE set \ {x}

Has(m, field) == field \in DOMAIN m

(* Who is deaf is mute, and who may speak may hear.                        *)
UserState(w, m) ==
    LET u       == m.session
        deafens == IF Has(m, "deaf") THEN m.deaf ELSE u \in w.deaf
        muted   == IF Has(m, "mute") THEN m.mute \/ (Has(m, "deaf") /\ m.deaf)
                   ELSE u \in w.muted \/ deafens
    IN  [w EXCEPT
            !.muted = Put(@, u, muted),
            !.deaf = Put(@, u, deafens /\ muted),
            !.registered = Put(@, u, u \in @ \/ Has(m, "user_id")),
            !.place = IF Has(m, "channel_id") THEN [@ EXCEPT ![u] = m.channel_id] ELSE @,
            !.listens = (@ \cup {<<u, c>> : c \in m.listening_channel_add})
                        \ {<<u, c>> : c \in m.listening_channel_remove},
            !.recording = IF Has(m, "recording") THEN m.recording ELSE @]

(* A channel needs a parent to be made.                                    *)
ChannelState(w, m) ==
    IF Has(m, "channel_id")
    THEN [w EXCEPT !.links = (@ \cup {{m.channel_id, c} : c \in m.links_add})
                             \ {{m.channel_id, c} : c \in m.links_remove}]
    ELSE IF Has(m, "parent") THEN [w EXCEPT !.made = @ \cup {m.parent}] ELSE w

RemoveChannel(w, c) ==
    [w EXCEPT !.rooms = @ \ {c},
              !.place = [u \in Users |-> IF @[u] = c THEN Root ELSE @[u]],
              !.links = {l \in @ : c \notin l},
              !.listens = {l \in @ : l[2] # c}]

Obeys(w, message) ==
    LET m == message.body
    IN  CASE m.type = "UserState"     -> IF m.session \in w.here THEN UserState(w, m) ELSE w
          [] m.type = "ChannelState"  -> ChannelState(w, m)
          [] m.type = "UserRemove"    -> [w EXCEPT !.here = @ \ {m.session}]
          [] m.type = "ChannelRemove" -> RemoveChannel(w, m.channel_id)
          [] m.type = "VoiceTarget"   -> [w EXCEPT !.target = m.targets]
          [] m.type = "Other"         -> w
          [] OTHER                    -> [w EXCEPT !.told = m]

-----------------------------------------------------------------------------
(* packet_sendex, from the call of SSL_write on: a message that is not     *)
(* written is freed, and its sender takes no notice.                       *)

Delivered(m) ==
    /\ world' = Obeys(world, m)
    /\ heard' = IF m.number = 0 THEN heard ELSE Append(heard, m.number)

NotWritten == UNCHANGED wire

(* Defect: a message that was completed is kept and written again.         *)
packet_sendexAgain(m) ==
    IF pending = None
    THEN \/ Delivered(m) /\ UNCHANGED <<pending, torn, blocked>>
         \/ pending' = m /\ blocked' = TRUE /\ UNCHANGED <<torn, world, heard>>
    ELSE \/ ~pending.long /\ Delivered(pending) /\ UNCHANGED <<pending, torn, blocked>>
         \/ NotWritten

(* A long message needs two records, of which one SSL_write writes one     *)
(* (mumble.c:740); so the server cannot read on, be the socket full or not.*)
(* One that follows a message that OpenSSL keeps is refused, or goes under *)
(* in it when it has its buffer and its length, or does so in part.        *)
packet_sendex(m) ==
    IF pending = None
    THEN \/ ~m.long /\ Delivered(m) /\ UNCHANGED <<pending, torn, blocked>>
         \/ m.long /\ torn' = TRUE /\ UNCHANGED <<pending, world, heard, blocked>>
         \/ pending' = m /\ blocked' = TRUE /\ UNCHANGED <<torn, world, heard>>
    ELSE \/ NotWritten
         \/ /\ pending.long /\ torn' = TRUE /\ pending' = None
            /\ UNCHANGED <<world, heard, blocked>>
         \/ /\ ~pending.long /\ Delivered(pending) /\ pending' = None
            /\ torn' \in BOOLEAN
            /\ UNCHANGED blocked

-----------------------------------------------------------------------------
(* A call of the script, with what it means by the README.                 *)

Called == calls < MaxCalls /\ calls' = calls + 1

(* What carries text or data of the script may be longer than a record.    *)
Lengths(body) ==
    IF \/ body.type \in {"TextMessage", "PluginData", "ContextAction", "Authenticate",
                          "UserRemove"}
       \/ \E field \in {"texture", "comment", "description", "name"} : Has(body, field)
    THEN BOOLEAN ELSE {FALSE}

(* A request: is it `right`, that is what the README says?                 *)
Ask(body, meant, right) ==
    /\ connected /\ Called /\ asked' = asked + 1
    /\ \E long \in Lengths(body) :
        packet_sendex([number |-> asked + 1, long |-> long, body |-> body])
    /\ wish' = meant /\ astray' = (astray \/ ~right)

Asks(body, meant) == Ask(body, meant, TRUE)

(* One that changes nothing on the server.                                 *)
Tells(body) == Asks(body, [wish EXCEPT !.told = body])

Voice == [type |-> "Other"]

(* A ping, or a frame of voice in the tunnel.                              *)
Other ==
    /\ connected
    /\ packet_sendex([number |-> 0, long |-> FALSE, body |-> Voice])
    /\ UNCHANGED <<objects, ghosts, fault>>

(* Lists are given as a table, or as plain arguments; where the code takes *)
(* the last of these for each of them, it is only right with one.          *)
Lists(S) == UNION {{list \in [1 .. n -> S] : IsInjective(list)} : n \in 1 .. 2}

OfLast(list) == [i \in DOMAIN list |-> Last(list)]

Listed(list, plain) == IF plain THEN ToSet(OfLast(list)) ELSE ToSet(list)

Right(list, plain) == ~plain \/ Len(list) = 1

(* A message with more fields set, and their has_ flags.                   *)
With(m, fields) ==
    [f \in DOMAIN m \cup DOMAIN fields |->
        IF f \in DOMAIN fields THEN fields[f] ELSE m[f]]

(* A boolean argument may be left out, and is false then.                  *)
Given == {"true", "false", "none"}
toboolean(b) == b = "true"

-----------------------------------------------------------------------------
(* user.c, for users who are there.                                        *)

NewUserState(u) ==
    [type |-> "UserState", session |-> u,
     listening_channel_add |-> {}, listening_channel_remove |-> {}]

user_kick(u)      == [type |-> "UserRemove", session |-> u]
user_ban(u)       == With(user_kick(u), [ban |-> TRUE])
user_move(u, c)   == With(NewUserState(u), [channel_id |-> c])
user_setMuted(u, b) == With(NewUserState(u), [mute |-> toboolean(b)])

(* Defect: who is no longer deaf stays mute.                               *)
DeafOnly(u, b) == With(NewUserState(u), [deaf |-> toboolean(b)])

user_setDeaf(u, b) == With(NewUserState(u), [mute |-> toboolean(b), deaf |-> toboolean(b)])

user_register(u)  == With(NewUserState(u), [user_id |-> 0])

user_listen(u, list, plain) ==
    [NewUserState(u) EXCEPT !.listening_channel_add = Listed(list, plain)]

user_unlisten(u, list, plain) ==
    [NewUserState(u) EXCEPT !.listening_channel_remove = Listed(list, plain)]

UserChanges(u) ==
    \/ Asks(user_kick(u), [wish EXCEPT !.here = @ \ {u}])
    \/ Asks(user_ban(u), [wish EXCEPT !.here = @ \ {u}])
    \/ \E c \in world.rooms : Asks(user_move(u, c), [wish EXCEPT !.place[u] = c])
    \/ \E b \in Given :
        \/ Ask(user_setMuted(u, b),
               [wish EXCEPT !.muted = Put(@, u, b # "false"),
                            !.deaf = IF b # "false" THEN @ ELSE @ \ {u}], b # "none")
        \/ Ask(user_setDeaf(u, b),
               [wish EXCEPT !.muted = Put(@, u, b # "false"),
                            !.deaf = Put(@, u, b # "false")], b # "none")
    \/ Asks(user_register(u), [wish EXCEPT !.registered = @ \cup {u}])
    \/ \E list \in Lists(world.rooms), plain \in BOOLEAN :
        \/ Ask(user_listen(u, list, plain),
               [wish EXCEPT !.listens = @ \cup ({u} \X ToSet(list))], Right(list, plain))
        \/ Ask(user_unlisten(u, list, plain),
               [wish EXCEPT !.listens = @ \ ({u} \X ToSet(list))], Right(list, plain))

user_message(u)     == [type |-> "TextMessage", session |-> {u}]
user_setTexture(u)  == With(NewUserState(u), [texture |-> TRUE])
user_sendPluginData(u)      == [type |-> "PluginData", receiversessions |-> {u}]
user_requestTextureBlob(u)  == [type |-> "RequestBlob", session_texture |-> {u}]
user_requestCommentBlob(u)  == [type |-> "RequestBlob", session_comment |-> {u}]
user_contextAction(u)       == [type |-> "ContextAction", session |-> u]

(* stats_only is set without has_stats_only.                               *)
user_request_stats(u)       == [type |-> "UserStats", session |-> u]

UserTells(u) ==
    \/ Tells(user_message(u)) \/ Asks(user_setTexture(u), wish)
    \/ Tells(user_sendPluginData(u)) \/ Tells(user_contextAction(u))
    \/ Tells(user_requestTextureBlob(u)) \/ Tells(user_requestCommentBlob(u))
    \/ \E only \in BOOLEAN :
        Ask(user_request_stats(u), [wish EXCEPT !.told = user_request_stats(u)], ~only)

(* mumble_update_recording_status, after a start or a stop: the server is  *)
(* told when the first is recorded and when none is any more.              *)
Records(users) ==
    /\ recorded' = users /\ left' = FALSE
    /\ LET any == users # {}
       IN  IF any = recording THEN Called /\ UNCHANGED <<recording, wire, asked, wish, astray>>
           ELSE /\ recording' = any
                /\ Asks(With(NewUserState(Self), [recording |-> any]),
                        IF Self \in wish.here THEN [wish EXCEPT !.recording = any] ELSE wish)
    /\ UNCHANGED <<target, group, connected>>

user_startRecord(u) == connected /\ u \notin recorded /\ Records(recorded \cup {u})

user_stopRecord(u) == connected /\ u \in recorded /\ Records(recorded \ {u})

(* The client hears that a user was removed.  user_gc closes the file of a *)
(* recorded one, and does not update the status.                           *)
UserGoes(u) ==
    /\ connected /\ u # Self /\ u \in recorded \ world.here
    /\ recorded' = recorded \ {u} /\ left' = TRUE
    /\ UNCHANGED <<target, group, recording, connected, wire, ghosts, fault>>

(* A start or a stop on the object of a recorded user that went.           *)
RecordsGone == left /\ connected /\ Records(recorded) /\ UNCHANGED fault

UserCalls(u) ==
    /\ u \in wish.here
    /\ \/ (UserChanges(u) \/ UserTells(u)) /\ UNCHANGED objects
       \/ user_startRecord(u) \/ user_stopRecord(u)
    /\ UNCHANGED fault

-----------------------------------------------------------------------------
(* channel.c, for channels that are there.                                 *)

NewChannelState(c) ==
    [type |-> "ChannelState", channel_id |-> c, links_add |-> {}, links_remove |-> {}]

channel_link(c, list, plain) ==
    [NewChannelState(c) EXCEPT !.links_add = Listed(list, plain)]

channel_unlink(c, list, plain) ==
    [NewChannelState(c) EXCEPT !.links_remove = Listed(list, plain)]

channel_setDescription(c) == With(NewChannelState(c), [description |-> TRUE])
channel_remove(c) == [type |-> "ChannelRemove", channel_id |-> c]

(* The parent is set without has_parent, as are position, temporary and    *)
(* max_users; client_createChannel does the same for the root.             *)
channel_create(c) == [type |-> "ChannelState", name |-> TRUE]

ChannelChanges(c) ==
    \/ \E list \in Lists(world.rooms \ {c}), plain \in BOOLEAN :
        \/ Ask(channel_link(c, list, plain),
               [wish EXCEPT !.links = @ \cup {{c, d} : d \in ToSet(list)}], Right(list, plain))
        \/ Ask(channel_unlink(c, list, plain),
               [wish EXCEPT !.links = @ \ {{c, d} : d \in ToSet(list)}], Right(list, plain))
    \/ Asks(channel_setDescription(c), wish)
    \/ c # Root /\ Asks(channel_remove(c), RemoveChannel(wish, c))
    \/ Ask(channel_create(c), [wish EXCEPT !.made = @ \cup {c}], FALSE)

channel_message(c)      == [type |-> "TextMessage", channel_id |-> {c}]
channel_requestACL(c)   == [type |-> "ACL", channel_id |-> c, query |-> TRUE]
channel_contextAction(c) == [type |-> "ContextAction", channel_id |-> c]
channel_requestPermissions(c)     == [type |-> "PermissionQuery", channel_id |-> c]
channel_requestDescriptionBlob(c) == [type |-> "RequestBlob", channel_description |-> {c}]

ChannelTells(c) ==
    \/ Tells(channel_message(c)) \/ Tells(channel_requestACL(c))
    \/ Tells(channel_contextAction(c)) \/ Tells(channel_requestPermissions(c))
    \/ Tells(channel_requestDescriptionBlob(c))

ChannelCalls(c) ==
    /\ c \in wish.rooms
    /\ ChannelChanges(c) \/ ChannelTells(c)
    /\ UNCHANGED <<objects, fault>>

(* The wrong packer is given a VolumeAdjustment, and asserts its type.     *)
channel_setListeningVolumeAdjustment ==
    /\ Called /\ fault' = TRUE
    /\ UNCHANGED <<objects, wire, asked, wish, astray>>

-----------------------------------------------------------------------------
(* target.c, and registerVoiceTarget, which sends what the target holds.   *)

target_addUser(u) == target' = [target EXCEPT !.session = @ \cup {u}] /\ UNCHANGED group

target_setChannel(c) == target' = [target EXCEPT !.channel_id = c] /\ UNCHANGED group

(* The target points into a string of Lua, and does not keep it.           *)
target_setGroup == group' = "set" /\ UNCHANGED target

TargetCalls ==
    /\ Called
    /\ \/ \E u \in world.here : target_addUser(u)
       \/ \E c \in world.rooms : target_setChannel(c)
       \/ target_setGroup
    /\ UNCHANGED <<recorded, recording, left, connected, wire, asked, wish, astray, fault>>

CollectGroup ==
    /\ group = "set" /\ group' = "freed"
    /\ UNCHANGED <<target, recorded, recording, left, connected, wire, ghosts, fault>>

Whispers == With(target, [group |-> group # "none"])

client_registerVoiceTarget ==
    IF group = "freed"
    THEN /\ connected /\ Called /\ fault' = TRUE
         /\ UNCHANGED <<objects, wire, asked, wish, astray>>
    ELSE /\ Asks([type |-> "VoiceTarget", id |-> 1, targets |-> Whispers],
                 [wish EXCEPT !.target = Whispers])
         /\ UNCHANGED <<objects, fault>>

-----------------------------------------------------------------------------
(* client.c, which asks of every method that the client is connected.      *)

client_auth          == [type |-> "Authenticate"]
client_setTokens     == [type |-> "Authenticate", tokens |-> TRUE]
client_setComment    == With(NewUserState(Self), [comment |-> TRUE])
client_requestBanList  == [type |-> "BanList", query |-> TRUE]
client_requestUserList == [type |-> "UserList"]

client_sendPluginData(list) == [type |-> "PluginData", receiversessions |-> ToSet(list)]
client_requestTextureBlob(list) == [type |-> "RequestBlob", session_texture |-> ToSet(list)]
client_requestCommentBlob(list) == [type |-> "RequestBlob", session_comment |-> ToSet(list)]
client_requestDescriptionBlob(list) ==
    [type |-> "RequestBlob", channel_description |-> ToSet(list)]

ClientCalls ==
    /\ \/ Tells(client_auth) \/ Tells(client_setTokens) \/ Asks(client_setComment, wish)
       \/ Tells(client_requestBanList) \/ Tells(client_requestUserList)
       \/ Ask(channel_create(Root), [wish EXCEPT !.made = @ \cup {Root}], FALSE)
       \/ \E list \in Lists(Users) :
            \/ Tells(client_sendPluginData(list)) \/ Tells(client_requestTextureBlob(list))
            \/ Tells(client_requestCommentBlob(list))
       \/ \E list \in Lists(world.rooms) : Tells(client_requestDescriptionBlob(list))
    /\ UNCHANGED <<objects, fault>>

(* The connection ends, and the TLS object is freed.                       *)
Ends ==
    /\ connected /\ connected' = FALSE
    /\ UNCHANGED <<target, group, recorded, recording, left, wire, ghosts, fault>>

(* The methods of users and channels send nonetheless.                     *)
SendsAfterEnd ==
    /\ ~connected /\ Called /\ fault' = TRUE
    /\ UNCHANGED <<objects, wire, asked, wish, astray>>

-----------------------------------------------------------------------------
Next ==
    /\ ~fault /\ ~torn
    /\ \/ \E u \in Users : UserCalls(u) \/ UserGoes(u)
       \/ RecordsGone
       \/ \E c \in Channels : ChannelCalls(c)
       \/ channel_setListeningVolumeAdjustment
       \/ TargetCalls \/ CollectGroup \/ client_registerVoiceTarget
       \/ ClientCalls \/ Other \/ Ends \/ SendsAfterEnd

Spec == Init /\ [][Next]_vars

-----------------------------------------------------------------------------
TypeOK ==
    /\ target.session \subseteq Users /\ target.channel_id \in Channels \cup {None}
    /\ group \in {"none", "set", "freed"}
    /\ recorded \subseteq Users /\ recording \in BOOLEAN
    /\ left \in BOOLEAN /\ connected \in BOOLEAN
    /\ torn \in BOOLEAN /\ blocked \in BOOLEAN /\ astray \in BOOLEAN /\ fault \in BOOLEAN
    /\ calls \in 0 .. MaxCalls /\ asked \in 0 .. calls
    /\ heard \in Seq(1 .. asked)
    /\ DOMAIN world = DOMAIN World /\ DOMAIN wish = DOMAIN World

(* Requests reach the server in order and at most once, between pings and  *)
(* voice, also when the socket was full and OpenSSL completes an old       *)
(* message under a new one (packet.c:234).  All do if the socket never was *)
(* full and no message was cut; a cut one is lost, with all that follow.   *)
HeardInOrder ==
    /\ TypeOK
    /\ \A i, j \in DOMAIN heard : i < j => heard[i] < heard[j]
    /\ ~blocked /\ ~torn => Len(heard) = asked

(* When all requests were heard the server has done what they mean by the  *)
(* README, each at its turn, with what a voice target held when it was     *)
(* registered; if none was one that does not ask what it should.  It is    *)
(* told then whether anybody is recorded (mumble.c:1378), unless a recorded*)
(* user went and nothing was started or stopped since (user.c:588).        *)
RequestsMeant ==
    Len(heard) = asked /\ ~astray =>
        /\ world = wish
        /\ Self \in wish.here /\ ~left => world.recording = (recorded # {})

(* The same of a recorded user that went.                                  *)
RecordingTold ==
    Len(heard) = asked /\ ~astray /\ Self \in wish.here =>
        world.recording = (recorded # {})

(* The same of all requests: channel.c:428, 204, 267, client.c:927,        *)
(* user.c:87, 102, 137, 328, 392.                                          *)
AllMeant == Len(heard) = asked => world = wish

(* No request is lost (README.md).  Not so when the socket is full, or a   *)
(* message is longer than a record (mumble.c:740).                         *)
AllHeard == Len(heard) = asked

(* Nothing freed is used: not so for the group of a voice target           *)
(* (target.c:63), and for users and channels after a disconnect.           *)
NoFault == ~fault
=============================================================================
