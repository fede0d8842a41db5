----------------------------- MODULE ChannelTree -----------------------------
(***************************************************************************)
(* The channels as the script sees them: where each hangs in the tree,     *)
(* what it is called, what it is linked with and what the script may do in *)
(* it, kept by packet_channel_state, packet_channel_remove and             *)
(* packet_permission_query, and read by the methods of channel.c.          *)
(*                                                                         *)
(* The server is external.  Channels that share a parent have different    *)
(* names, a channel is removed after those below it, and a change of the   *)
(* access rules flushes what clients know of them.  A link is mutual, and  *)
(* is made and ended with one message about either of the two channels.    *)
(***************************************************************************)
EXTENDS Integers, LinkedList, SequencesExt

CONSTANTS
    Channels, Root,
    Names,
    None,       \* no channel
    Reuse,      \* may the server give a number to a channel again?
    MaxChanges  \* bound: the changes on the server

ASSUME TreeAssumption ==
    /\ Root \in Channels /\ None \notin Channels \cup Names
    /\ Names \cap {".", ".."} = {}
    /\ Reuse \in BOOLEAN /\ MaxChanges \in Nat

VARIABLES
    \* the server: parents, names, links, and rights
    above, named, linked, allowed,
    announced,          \* ghost: the links its messages have named, by their channel
    elsewhere,          \* ghost: the links some message named by the other channel
    past, changes,      \* the numbers it has used; how much it has changed
    net,                \* its messages, in order
    channels            \* client->channels

linking  == <<linked, announced, elsewhere>>
server   == <<above, named, linking, allowed, past, changes>>
treeVars == <<server, net, channels>>

there == {c \in Channels : above[c] # None}

(* The fields a ChannelState may have: `links` replaces what is known.     *)
State(c, p, n, links, add, remove) ==
    [type |-> "ChannelState", channel |-> c, parent |-> p, name |-> n,
     links |-> links, links_add |-> add, links_remove |-> remove]

Remove_(c)       == [type |-> "ChannelRemove", channel |-> c]
Permission(c, p) == [type |-> "PermissionQuery", channel |-> c, permissions |-> p]
Flush            == [type |-> "PermissionQuery", channel |-> None]

(* The root channel has no parent that a message would name, and an empty  *)
(* name here.  What the client does not know yet is sent in one message.   *)
TreeInit ==
    /\ \E c \in Channels \ {Root}, both \in BOOLEAN, n \in Names :
        /\ above = [d \in Channels |-> IF d \in {Root, c} THEN Root ELSE None]
        /\ named = [d \in Channels |-> IF d = c THEN n ELSE None]
        /\ announced = [d \in Channels |-> IF d = c /\ both THEN {Root} ELSE {}]
        /\ elsewhere = [d \in Channels |-> IF d = Root /\ both THEN {c} ELSE {}]
        /\ linked = [d \in Channels |-> announced[d] \cup elsewhere[d]]
        /\ net = <<State(Root, None, None, <<>>, <<>>, <<>>),
                   State(c, Root, n, IF both THEN <<Root>> ELSE <<>>, <<>>, <<>>)>>
    /\ allowed = [c \in Channels |-> 1]
    /\ past = there /\ changes = 0
    /\ channels = <<>>

-----------------------------------------------------------------------------
(* The server.                                                             *)

Change(message) ==
    /\ changes < MaxChanges /\ changes' = changes + 1
    /\ net' = Append(net, message)
    /\ UNCHANGED channels

NameFree(p, n) == \A c \in there \ {Root} : above[c] = p => named[c] # n

(* c is in the part of the tree that hangs on d: in every set with d and,  *)
(* for each of its channels, those below it.                               *)
Below(c, d) ==
    \A part \in SUBSET there :
        d \in part /\ (\A e \in there : above[e] \in part => e \in part) => c \in part

Creates(c, p, n) ==
    /\ c \notin there /\ (Reuse \/ c \notin past)
    /\ p \in there /\ NameFree(p, n)
    /\ above' = [above EXCEPT ![c] = p] /\ named' = [named EXCEPT ![c] = n]
    /\ past' = past \cup {c}
    /\ Change(State(c, p, n, <<>>, <<>>, <<>>))
    /\ UNCHANGED <<linking, allowed>>

Moves(c, p) ==
    /\ c \in there \ {Root} /\ p \in there /\ above[c] # p
    /\ ~Below(p, c) /\ NameFree(p, named[c])
    /\ above' = [above EXCEPT ![c] = p]
    /\ Change(State(c, p, None, <<>>, <<>>, <<>>))
    /\ UNCHANGED <<named, linking, allowed, past>>

Renames(c, n) ==
    /\ c \in there \ {Root} /\ NameFree(above[c], n)
    /\ named' = [named EXCEPT ![c] = n]
    /\ Change(State(c, None, n, <<>>, <<>>, <<>>))
    /\ UNCHANGED <<above, linking, allowed, past>>

(* The message is about c: that it speaks of d is known of c only.         *)
ByOne(c, d) == elsewhere' = [elsewhere EXCEPT ![d] = @ \cup {c}]

Links(c, d) ==
    /\ c \in there /\ d \in there \ (linked[c] \cup {c})
    /\ linked' = [linked EXCEPT ![c] = @ \cup {d}, ![d] = @ \cup {c}]
    /\ announced' = [announced EXCEPT ![c] = @ \cup {d}] /\ ByOne(c, d)
    /\ Change(State(c, None, None, <<>>, <<d>>, <<>>))
    /\ UNCHANGED <<above, named, allowed, past>>

Unlinks(c, d) ==
    /\ c \in there /\ d \in linked[c]
    /\ linked' = [linked EXCEPT ![c] = @ \ {d}, ![d] = @ \ {c}]
    /\ announced' = [announced EXCEPT ![c] = @ \ {d}] /\ ByOne(c, d)
    /\ Change(State(c, None, None, <<>>, <<>>, <<d>>))
    /\ UNCHANGED <<above, named, allowed, past>>

Removes(c) ==
    /\ c \in there \ {Root} /\ \A d \in there : above[d] # c
    /\ above' = [above EXCEPT ![c] = None] /\ named' = [named EXCEPT ![c] = None]
    /\ linked' = [d \in Channels |-> IF d = c THEN {} ELSE linked[d] \ {c}]
    /\ announced' = [d \in Channels |-> IF d = c THEN {} ELSE announced[d] \ {c}]
    /\ Change(Remove_(c))
    /\ UNCHANGED <<elsewhere, allowed, past>>

Answers(c) ==
    /\ c \in there
    /\ Change(Permission(c, allowed[c]))
    /\ UNCHANGED <<above, named, linking, allowed, past>>

Rules(c) ==
    /\ c \in there
    /\ allowed' = [allowed EXCEPT ![c] = 3 - @]
    /\ Change(Flush)
    /\ UNCHANGED <<above, named, linking, past>>

Server ==
    \/ \E c, d \in Channels : Moves(c, d) \/ Links(c, d) \/ Unlinks(c, d)
    \/ \E c, p \in Channels, n \in Names : Creates(c, p, n)
    \/ \E c \in Channels, n \in Names : Renames(c, n)
    \/ \E c \in Channels : Removes(c) \/ Answers(c) \/ Rules(c)

-----------------------------------------------------------------------------
(* The client.                                                             *)

(* mumble_channel_get makes the channels it does not find.                 *)
NewChannel == [parent |-> Root, name |-> None, links |-> <<>>, permissions |-> 0]

mumble_channel_get(c) == IF c \in DOMAIN channels THEN channels[c] ELSE NewChannel

Stored(c, channel) == [d \in DOMAIN channels \cup {c} |-> IF d = c THEN channel ELSE channels[d]]

(* list_add for each id: the last one comes first.                         *)
Added(list, ids) == [k \in DOMAIN ids |-> Node(Reverse(ids)[k], None)] \o list

(* list_remove for each id.                                                *)
Removed(list, ids) ==
    LET left[k \in 0 .. Len(ids)] == IF k = 0 THEN list ELSE list_remove(left[k - 1], ids[k])
    IN  left[Len(ids)]

(* Defect: new links are taken for all links.                              *)
LinksOnlyAdded(links, m) ==
    IF m.links_add # <<>> THEN Added(<<>>, m.links_add)
    ELSE Removed(links, m.links_remove)

(* What is added, what is removed, and then the list that replaces both.   *)
LinksAfter(links, m) ==
    IF m.links # <<>> THEN Added(<<>>, m.links)
    ELSE Removed(Added(links, m.links_add), m.links_remove)

Given(value, old) == IF value = None THEN old ELSE value

(* Defect: a channel that is known stays where it is.                      *)
NeverMoved(m) ==
    LET channel == mumble_channel_get(m.channel)
    IN  channels' = Stored(m.channel, [channel EXCEPT
                        !.parent = IF m.channel \in DOMAIN channels THEN @ ELSE Given(m.parent, @),
                        !.name = Given(m.name, @), !.links = LinksAfter(@, m)])

packet_channel_state(m) ==
    LET channel == mumble_channel_get(m.channel)
    IN  channels' = Stored(m.channel, [channel EXCEPT
                        !.parent = Given(m.parent, @), !.name = Given(m.name, @),
                        !.links = LinksAfter(@, m)])

packet_channel_remove(m) ==
    channels' = [c \in DOMAIN channels \ {m.channel} |-> channels[c]]

(* Defect: a flush does nothing.                                           *)
FlushForgotten(m) ==
    channels' = IF m.channel = None THEN channels
                ELSE Stored(m.channel, [mumble_channel_get(m.channel) EXCEPT
                                           !.permissions = m.permissions])

packet_permission_query(m) ==
    channels' = IF m.channel = None
                THEN [c \in DOMAIN channels |-> [channels[c] EXCEPT !.permissions = 0]]
                ELSE Stored(m.channel, [mumble_channel_get(m.channel) EXCEPT
                                           !.permissions = m.permissions])

Handle(m) ==
    CASE m.type = "ChannelState"    -> packet_channel_state(m)
      [] m.type = "ChannelRemove"   -> packet_channel_remove(m)
      [] m.type = "PermissionQuery" -> packet_permission_query(m)

(* The next message is handled.                                            *)
Receive ==
    /\ net # <<>> /\ net' = Tail(net)
    /\ Handle(Head(net))
    /\ UNCHANGED server

-----------------------------------------------------------------------------
(* What the script reads.                                                  *)

raw_get(c) == IF c \in DOMAIN channels THEN c ELSE None

getParent(c) == IF channels[c].parent = c THEN None ELSE raw_get(channels[c].parent)

getChildren(c) == {d \in DOMAIN channels : d # channels[d].parent /\ channels[d].parent = c}

(* A table of the channels that are linked and there.                      *)
getLinks(c) == {channels[c].links[k].index : k \in DOMAIN channels[c].links} \cap DOMAIN channels

(* Defect: a name is looked for in the whole tree.                         *)
StepAnywhere(c, part) ==
    IF c = None \/ part = "." THEN c
    ELSE IF part = ".." THEN raw_get(channels[c].parent)
    ELSE LET found == {d \in DOMAIN channels : channels[d].name = part}
         IN  IF found = {} THEN None ELSE CHOOSE d \in found : TRUE

(* channel_call: one turn of its loop.  The last child of that name is     *)
(* taken; the server sees to it that there is one at most.                 *)
Step(c, part) ==
    IF c = None \/ part = "." THEN c
    ELSE IF part = ".." THEN raw_get(channels[c].parent)
    ELSE LET found == {d \in getChildren(c) : channels[d].name = part}
         IN  IF found = {} THEN None ELSE CHOOSE d \in found : TRUE

(* strtok ends the first part with a zero in the string itself, which Lua  *)
(* keeps once for all who use it: a second call reads the first part only. *)
Parts(path, again) == IF again THEN SubSeq(path, 1, 1) ELSE path

channel_call(c, path, again) ==
    LET parts == Parts(path, again)
        at[k \in 0 .. Len(parts)] == IF k = 0 THEN c ELSE Step(at[k - 1], parts[k])
    IN  at[Len(parts)]

(* The paths of a script, as the parts between their slashes.              *)
PathParts == Names \cup {".", ".."}

ShortPaths == UNION {[1 .. n -> PathParts] : n \in 0 .. 2}

TreeNext == Server \/ Receive

TreeSpec == TreeInit /\ [][TreeNext]_treeVars

-----------------------------------------------------------------------------
TreeTypeOK ==
    /\ above \in [Channels -> Channels \cup {None}] /\ named \in [Channels -> Names \cup {None}]
    /\ linked \in [Channels -> SUBSET Channels] /\ announced \in [Channels -> SUBSET Channels]
    /\ elsewhere \in [Channels -> SUBSET Channels] /\ allowed \in [Channels -> {1, 2}]
    /\ past \subseteq Channels /\ changes \in 0 .. MaxChanges
    /\ DOMAIN channels \subseteq Channels
    /\ \A c \in DOMAIN channels :
        /\ channels[c].parent \in Channels /\ channels[c].name \in Names \cup {None}
        /\ channels[c].permissions \in {0, 1, 2}

(* The tree that the script walks with getParent and getChildren is the    *)
(* server's, and what is known of the rights is true.  getLinks of c tells *)
(* for d whether they are linked, as long as the server has spoken of that *)
(* link by messages about c only: a message is kept for the channel it is  *)
(* about (packet.c:501-520), so the other one does not have the link, or   *)
(* keeps it when it is gone.                                               *)
Mirrored ==
    /\ DOMAIN channels = there
    /\ \A c \in there :
        /\ getParent(c) = IF c = Root THEN None ELSE above[c]
        /\ getChildren(c) = {d \in there \ {Root} : above[d] = c}
        /\ getLinks(c) \ elsewhere[c] = linked[c] \ elsewhere[c]
        /\ channels[c].permissions \in {0, allowed[c]}

(* Whatever the server has changed meanwhile, what the script sees is a    *)
(* tree: each channel hangs on the root by getParent, over channels that   *)
(* are there (channel.c:73-103).  So a set with the root and, for each of  *)
(* its channels, those below it has them all.                              *)
AlwaysATree ==
    \A part \in SUBSET DOMAIN channels :
        /\ Root \in DOMAIN channels => Root \in part
        /\ \A c \in DOMAIN channels : getParent(c) \in part => c \in part
        => part = DOMAIN channels

(* At every moment the script sees such a tree; when every message was     *)
(* handled, it is the server's (packet.c:503-536, channel.c:288,           *)
(* packet.c:1219).  Not so when a number is used again.                    *)
TreeMirrors ==
    /\ TreeTypeOK /\ AlwaysATree
    /\ net = <<>> => Mirrored

(* README.md:515: getLinks returns all linked channels.                    *)
AllLinked == net = <<>> => \A c \in there : getLinks(c) = linked[c]

(* The channels on the server that a path leads to, one route of channels  *)
(* after the other.                                                        *)
Down(c, n) == {d \in there \ {Root} : above[d] = c /\ named[d] = n}

LeadsTo(c, part) ==
    IF part = "." THEN {c} ELSE IF part = ".." THEN {above[c]} ELSE Down(c, part)

Routes(c, path) ==
    {route \in [0 .. Len(path) -> Channels] :
        /\ route[0] = c
        /\ \A k \in DOMAIN path : route[k] \in LeadsTo(route[k - 1], path[k])}

Resolved(c, path) == {route[Len(path)] : route \in Routes(c, path)}

WalkedTo(c) == IF c = None THEN {} ELSE {c}

(* A path leads the script to the server's channel of that path, or to     *)
(* none if there is none (README.md:277, channel.c:369), the first time a  *)
(* string is looked up.                                                    *)
LooksUp(path, again) ==
    net = <<>> => \A c \in there : WalkedTo(channel_call(c, path, again)) = Resolved(c, path)

PathsWalk == \A path \in ShortPaths : LooksUp(path, FALSE)

(* README.md:277: getChannel(path) returns the channel of the path, again  *)
(* and again.                                                              *)
PathsWalkAgain == \A path \in ShortPaths : LooksUp(path, TRUE)
=============================================================================
