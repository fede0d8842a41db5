------------------------------ MODULE TcpReader ------------------------------
(***************************************************************************)
(* How socket_read_event_tcp cuts the TLS stream of the server into        *)
(* packets.  The server writes packets, TLS carries them in records, and   *)
(* one SSL_read yields at most what is left of one record.  An event does  *)
(* at most one read for the header and one for the body, into a copy of    *)
(* client->tcp_read_packet that is never stored back: what an event read   *)
(* of an unfinished packet is gone at the next one.                        *)
(*                                                                         *)
(* A byte is its position in the stream, a record where it ends.  Records  *)
(* may split a packet.  When the reader has come to a position where no    *)
(* packet starts, nothing is said of what it does next: it takes for a     *)
(* header what is none.                                                    *)
(***************************************************************************)
EXTENDS Integers, SequencesExt

CONSTANTS
    HeaderSize,   \* PACKET_HEADER_SIZE, 6
    Lengths,      \* the lengths of the packets' bodies
    MaxRecord,    \* how many bytes one TLS record holds
    UnknownTypes, \* may the server send a type the client does not know?
    MaxPackets    \* bound: the packets sent

ASSUME ReaderAssumption ==
    /\ HeaderSize \in Nat \ {0} /\ MaxRecord \in Nat \ {0} /\ MaxPackets \in Nat
    /\ Lengths \subseteq Nat /\ UnknownTypes \in BOOLEAN

VARIABLES
    packets,   \* what the server has sent, each with the position it starts at
    size,      \* the bytes of these packets
    carried,   \* how many of them TLS records have carried
    cuts,      \* ghost: where records have ended
    records,   \* where each record on the socket ends
    pending,   \* the bytes of the last record that were decrypted and not read
    pos,       \* the position of the reader
    handled,   \* the packets that were given to packet_handler
    cleared    \* was the memory of client->tcp_read_packet zero?

received   == <<carried, cuts, records, pending, pos, handled, cleared>>
readerVars == <<packets, size, received>>

(* Before the first read.  mumble_client_new gives tcp_read_packet no      *)
(* value, and the memory of a userdata may hold anything.                  *)
Unread ==
    /\ carried = 0 /\ cuts = {0} /\ records = <<>> /\ pending = 0
    /\ pos = 0 /\ handled = <<>>
    /\ cleared \in BOOLEAN

ReaderInit == packets = <<>> /\ size = 0 /\ Unread

(* Where a packet starts, or the next one will.                            *)
Boundary(n) == n = size \/ \E k \in DOMAIN packets : packets[k].at = n

End(p) == p.at + HeaderSize + p.length

-----------------------------------------------------------------------------
(* The server, and TLS: a record ends where a packet ends, or is full.     *)

SendPacket ==
    /\ Len(packets) < MaxPackets
    /\ \E length \in Lengths, known \in {TRUE, ~UnknownTypes} :
        /\ packets' = Append(packets, [at |-> size, length |-> length, known |-> known])
        /\ size' = size + HeaderSize + length
    /\ UNCHANGED received

Record ==
    /\ \E n \in 1 .. MaxRecord :
        /\ carried + n <= size
        /\ Boundary(carried + n) \/ n = MaxRecord
        /\ carried' = carried + n
        /\ records' = Append(records, carried + n) /\ cuts' = cuts \cup {carried + n}
    /\ UNCHANGED <<packets, size, pending, pos, handled, cleared>>

-----------------------------------------------------------------------------
(* SSL_read of at most n bytes, on what is decrypted and on the socket.    *)
SSL_read(n, ssl) ==
    LET fresh == ssl.pending = 0 /\ ssl.records # <<>>
        have  == IF fresh THEN Head(ssl.records) - ssl.pos ELSE ssl.pending
        ret   == IF n < have THEN n ELSE have
    IN  [ret |-> ret, pos |-> ssl.pos + ret, pending |-> have - ret,
         records |-> IF fresh THEN Tail(ssl.records) ELSE ssl.records]

(* The packet whose header starts at pos.                                  *)
Packet == CHOOSE p \in {packets[k] : k \in DOMAIN packets} : p.at = pos

Took(ssl) == pending' = ssl.pending /\ records' = ssl.records /\ pos' = ssl.pos

(* The bytes of an unfinished packet that client->tcp_read_packet holds    *)
(* between two events: the copy an event works on is never stored.         *)
Kept == 0

(* Defect: the length in the header is taken to count the header.          *)
LengthWithHeader(p) == HeaderSize + p.length
BodyLength(p) == p.length

(* One read event: the header, and the body if the header is complete, of  *)
(* a known type and not of an empty packet.  A reader that finds a header  *)
(* begun by nobody in tcp_read_packet does nothing that could be told.     *)
ReadEvent ==
    /\ cleared /\ records # <<>> /\ Boundary(pos)
    /\ LET header == SSL_read(HeaderSize, [pending |-> pending, records |-> records, pos |-> pos])
           whole  == header.ret = HeaderSize
           body   == SSL_read(BodyLength(Packet), header)
       IN  IF ~whole \/ ~Packet.known \/ BodyLength(Packet) = 0
           THEN Took(header) /\ UNCHANGED handled
           ELSE /\ Took(body)
                /\ handled' = IF body.ret = Packet.length THEN Append(handled, Packet) ELSE handled
    /\ UNCHANGED <<packets, size, carried, cuts, cleared>>

-----------------------------------------------------------------------------
ReaderNext == SendPacket \/ Record \/ ReadEvent

ReaderSpec == ReaderInit /\ [][ReaderNext]_readerVars

-----------------------------------------------------------------------------
PacketRecord == [at : Nat, length : Lengths, known : BOOLEAN]

(* Every byte that TLS carried was read, or waits to be read.              *)
ReaderTypeOK ==
    /\ packets \in Seq(PacketRecord) /\ handled \in Seq(PacketRecord)
    /\ size \in Nat /\ carried \in 0 .. size /\ pos \in Nat /\ pending \in 0 .. MaxRecord
    /\ records \in Seq(Nat) /\ cuts \subseteq Nat /\ cleared \in BOOLEAN
    /\ \A k \in DOMAIN records :
        LET from == IF k = 1 THEN pos + pending ELSE records[k - 1]
        IN  records[k] - from \in 1 .. MaxRecord
    /\ carried = IF records = <<>> THEN pos + pending ELSE records[Len(records)]

(* The handlers are called with what the server sent, in its order, and    *)
(* miss none of the packets that were read to their end but those without  *)
(* a body, however packets share records or are split by them.  The reader *)
(* stops inside of a packet only where a TLS record has ended in it: until *)
(* then it keeps its place (mumble.c:372-440).                             *)
HandledInOrder ==
    /\ ReaderTypeOK
    /\ Boundary(pos) \/ pos \in cuts
    /\ \A j, k \in DOMAIN handled : j < k => handled[j].at < handled[k].at
    /\ {handled[k] : k \in DOMAIN handled}
       = {packets[k] : k \in {j \in DOMAIN packets :
              packets[j].length > 0 /\ End(packets[j]) <= pos}}

(* "This process might take a few read events to fully complete"           *)
(* (mumble.c:374): after every event the reader is at the start of a       *)
(* packet, or past that start by the bytes it has kept.                    *)
Framed == Boundary(pos - Kept)
=============================================================================
