------------------------------- MODULE Incoming -------------------------------
(***************************************************************************)
(* What the server sends over TCP, from its socket to the script: the      *)
(* channel messages of ChannelTree travel as the packets of TcpReader, and *)
(* a packet's handler runs when its last byte was read.  Between them are  *)
(* packets without a body, which is what a message without fields is.      *)
(***************************************************************************)
EXTENDS TcpReader, ChannelTree

CONSTANT MaxBacklog  \* bound: the messages on their way

ASSUME IncomingAssumption == MaxBacklog \in Nat /\ {0, 1, 3} \subseteq Lengths

(* A message about one channel with one field is the shortest.             *)
BodyOf(m) == IF m.type = "ChannelRemove" \/ m.channel = None THEN 1 ELSE 3

Packed(at, m) == [at |-> at, length |-> BodyOf(m), known |-> TRUE]

(* The first messages of the server are on their way.                      *)
IncomingInit ==
    /\ TreeInit
    /\ packets = <<Packed(0, net[1]), Packed(HeaderSize + BodyOf(net[1]), net[2])>>
    /\ size = packets[2].at + HeaderSize + packets[2].length
    /\ Unread

(* The server changes something and sends the message about it.            *)
ServerSends ==
    /\ Len(net) < MaxBacklog
    /\ Server
    /\ LET m == Last(net')
       IN  /\ packets' = Append(packets, Packed(size, m))
           /\ size' = size + HeaderSize + BodyOf(m)
    /\ UNCHANGED received

(* Bound: not when more than MaxPackets are sent.                          *)
ServerSendsEmpty ==
    /\ Len(packets) < MaxPackets
    /\ packets' = Append(packets, [at |-> size, length |-> 0, known |-> TRUE])
    /\ size' = size + HeaderSize
    /\ UNCHANGED <<received, treeVars>>

Carries == Record /\ UNCHANGED treeVars

(* A read event that completes a packet calls the packet's handler.        *)
Reads ==
    /\ ReadEvent
    /\ IF handled' = handled THEN UNCHANGED treeVars ELSE Receive

IncomingNext == ServerSends \/ ServerSendsEmpty \/ Carries \/ Reads

IncomingSpec == IncomingInit /\ [][IncomingNext]_<<readerVars, treeVars>>

-----------------------------------------------------------------------------
(* When every byte was read, whatever packets without a body there were,   *)
(* the script sees the server's channels: no message waits for a byte that *)
(* does not come (mumble.c:372-440, packet.c:420).                         *)
ReadIsShown == pos = size => Mirrored
=============================================================================
