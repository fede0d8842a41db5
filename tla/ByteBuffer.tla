------------------------------ MODULE ByteBuffer ------------------------------
(***************************************************************************)
(* mumble.buffer: bytes with a read head and a write head, of which a      *)
(* script writes and reads numbers and strings, and which grows.           *)
(*                                                                         *)
(* Scripts here move the heads within what was written, the read head not  *)
(* past the write head, and memory does not run out.  Writing one buffer   *)
(* into another, the tie to a client (buffer_free) and lengths next to     *)
(* 2^64, which wrap around in buffer_available, are left out.              *)
(***************************************************************************)
EXTENDS VarInt

CONSTANTS
    Capacities,   \* sizes that buffers are made with
    Numbers,      \* numbers that are written, with their complements
    Strings,      \* lengths of the strings that are written
    Sizes,        \* sizes of the plain values: bytes, shorts, ints, floats
    Places,       \* places to seek to
    MaxWrites,    \* bound: values written
    MaxMoves      \* bound: calls that move the heads without reading

(* TLC's integers end here; the numbers beyond them are those of Wide.     *)
MaxInt31 == 2147483647

ASSUME BufferAssumption ==
    /\ Capacities \subseteq Nat /\ Numbers \subseteq 0 .. MaxInt31
    /\ Strings \subseteq 0 .. 255 /\ Sizes \subseteq Nat \ {0}
    /\ Places \subseteq Nat /\ MaxWrites \in Nat /\ MaxMoves \in Nat

VARIABLES
    data,                   \* of `capacity` bytes
    read_head, write_head,
    items,                  \* ghost: the values in the buffer, and where
    writes, moves           \* ghost: how many were written, and moves made

bufferVars == <<data, read_head, write_head, items, writes, moves>>

Unknown == 256   \* a byte that was never written

(* A number as its eight bytes, and the numbers beyond 31 bits.            *)
U(n) == <<0, 0, 0, 0, n \div 16777216, (n \div 65536) % 256, (n \div 256) % 256, n % 256>>

Wide == {<<0, 0, 0, 0, 255, 255, 255, 255>>, <<0, 0, 0, 1, 0, 0, 0, 0>>,
         <<127, 255, 255, 255, 255, 255, 255, 255>>}

Unsigned == {U(n) : n \in Numbers} \cup Wide

(* Text of n bytes, and a plain value of n bytes.                          *)
Text(n) == [k \in 1 .. n |-> k % 256]

Items ==
    [kind : {"varint"}, value : Unsigned \cup {Complement(v) : v \in Unsigned}]
        \cup {[kind |-> "string", value |-> Text(n)] : n \in Strings}
        \cup {[kind |-> "plain", value |-> Text(n)] : n \in Sizes}

(* The two pieces in which a value is written; a length needs no flag.     *)
Pieces(item) ==
    CASE item.kind = "plain"  -> << <<>>, item.value>>
      [] item.kind = "varint" -> Encode(item.value)
      [] item.kind = "string" -> <<Encode(U(Len(item.value)))[2], item.value>>

Bytes(item) == Pieces(item)[1] \o Pieces(item)[2]

Size(item) == Len(Bytes(item))

-----------------------------------------------------------------------------
(* Defect: there is no third choice.                                       *)
DoubledAtMost(capacity, head) ==
    IF capacity + capacity \div 2 >= head THEN capacity + capacity \div 2 ELSE capacity * 2

(* buffer_adjust.                                                          *)
NewCapacity(capacity, head) ==
    IF capacity + capacity \div 2 >= head THEN capacity + capacity \div 2
    ELSE IF capacity * 2 >= head THEN capacity * 2
    ELSE head + head \div 2

Adjusted(bytes, head) ==
    IF head <= Len(bytes) THEN bytes
    ELSE bytes \o [k \in 1 .. (NewCapacity(Len(bytes), head) - Len(bytes)) |-> Unknown]

(* buffer_write of a piece.                                                *)
Put(buffer, piece) ==
    LET head  == buffer.head + Len(piece)
        bytes == Adjusted(buffer.bytes, head)
    IN  [head  |-> head,
         bytes |-> [k \in DOMAIN bytes |-> IF k \in (buffer.head + 1) .. head
                                           THEN piece[k - buffer.head] ELSE bytes[k]]]

Blank(capacity) == [k \in 1 .. capacity |-> Unknown]

(* mumble_buffer_new, of a size or of a string.                            *)
BufferInit ==
    /\ writes = 0 /\ moves = 0 /\ read_head = 0
    /\ \/ /\ \E capacity \in Capacities : data = Blank(capacity)
          /\ write_head = 0 /\ items = {}
       \/ \E n \in Sizes :
          /\ data = Text(n) /\ write_head = n
          /\ items = {[at |-> 0, item |-> [kind |-> "plain", value |-> Text(n)]]}

(* luabuffer_write, writeByte to writeDouble, writeVarInt and writeString. *)
Write(item) ==
    /\ writes < MaxWrites /\ writes' = writes + 1
    /\ LET buffer == Put(Put([bytes |-> data, head |-> write_head], Pieces(item)[1]), Pieces(item)[2])
       IN  /\ data' = buffer.bytes /\ write_head' = buffer.head
           /\ items' = {i \in items : i.at + Size(i.item) <= write_head \/ i.at >= buffer.head}
                           \cup {[at |-> write_head, item |-> item]}
    /\ UNCHANGED <<read_head, moves>>

-----------------------------------------------------------------------------
Result(size, value, head) == [ok |-> size > 0, value |-> value, head |-> head]

(* buffer_read of n bytes: its callers take the 0 it returns for an error, *)
(* which is also what it returns when n is 0.                              *)
ReadPlain(at, n) ==
    IF at + n > write_head THEN Result(0, <<>>, at)
    ELSE Result(n, SubSeq(data, at + 1, at + n), at + n)

ReadVarInt(at) ==
    LET number == Decode(data, at, write_head)
    IN  Result(number.size, number.value, number.head)

(* luabuffer_readString.                                                   *)
ReadString(at) ==
    LET length == ReadVarInt(at)
    IN  IF ~length.ok THEN Result(0, <<>>, length.head)
        ELSE IF Fits(length.value, 2, 256)
             THEN ReadPlain(length.head, length.value[7] * 256 + length.value[8])
             ELSE Result(0, <<>>, length.head)

(* What a call that reads a value such as `item` finds at the head.        *)
Read(item, at) ==
    CASE item.kind = "plain"  -> ReadPlain(at, Len(item.value))
      [] item.kind = "varint" -> ReadVarInt(at)
      [] item.kind = "string" -> ReadString(at)

Reads(result) ==
    /\ read_head' = result.head
    /\ UNCHANGED <<data, write_head, items, writes, moves>>

(* luabuffer_read and readByte to readDouble; "*a" is all that is left.    *)
ReadSome == \E n \in Sizes \cup {write_head - read_head} : Reads(ReadPlain(read_head, n))

ReadNumber == Reads(ReadVarInt(read_head))

ReadText ==
    /\ ReadVarInt(read_head).value[1] < 128
    /\ Reads(ReadString(read_head))

-----------------------------------------------------------------------------
Moved(read, write) ==
    /\ read_head' = read /\ write_head' = write
    /\ moves < MaxMoves /\ moves' = moves + 1

(* buffer_pack: what was not read moves to the front.                      *)
Pack ==
    /\ IF read_head = write_head THEN Moved(0, 0) /\ UNCHANGED <<data, items>>
       ELSE /\ Moved(0, write_head - read_head)
            /\ data' = [k \in DOMAIN data |->
                            IF k <= write_head - read_head THEN data[k + read_head] ELSE data[k]]
            /\ items' = {[i EXCEPT !.at = @ - read_head] :
                             i \in {i \in items : /\ i.at >= read_head
                                                  /\ i.at + Size(i.item) <= write_head}}
    /\ UNCHANGED writes

Reset == Moved(0, 0) /\ UNCHANGED <<data, items, writes>>

Flip == Moved(0, write_head) /\ UNCHANGED <<data, items, writes>>

(* luabuffer_seek, to a place below which all was written.                 *)
Written(p) == p <= Len(data) /\ \A k \in 1 .. p : data[k] # Unknown

Seek ==
    /\ \E p \in Places :
        /\ Written(p)
        /\ \/ p <= write_head /\ Moved(p, write_head)
           \/ p >= read_head /\ Moved(read_head, p)
           \/ Moved(p, p)
    /\ UNCHANGED <<data, items, writes>>

BufferNext ==
    \/ \E item \in Items : Write(item)
    \/ ReadSome \/ ReadNumber \/ ReadText
    \/ Pack \/ Reset \/ Flip \/ Seek

BufferSpec == BufferInit /\ [][BufferNext]_bufferVars

-----------------------------------------------------------------------------
BufferTypeOK ==
    /\ data \in Seq(Byte \cup {Unknown})
    /\ read_head \in Nat /\ write_head \in Nat /\ writes \in 0 .. MaxWrites /\ moves \in 0 .. MaxMoves
    /\ items \subseteq [at : Nat, item : Items]

(* The heads stay in the memory of the buffer, however it is made, grown   *)
(* and packed, and bytes that were never written are not read              *)
(* (buffer.c:36-51).                                                       *)
HeadsInMemory ==
    /\ BufferTypeOK
    /\ read_head <= write_head /\ write_head <= Len(data)
    /\ Written(write_head)

(* Whatever was written and not written over is read back as it was, and   *)
(* leaves the read head at what follows, at every boundary of the formats  *)
(* of numbers, and after the buffer has grown or was packed.  The empty    *)
(* string is not covered: reading it is an error (buffer.c:577).           *)
ReadsBack ==
    \A i \in items :
        i.at + Size(i.item) <= write_head /\ i.item.value # <<>> =>
            Read(i.item, i.at) = [ok |-> TRUE, value |-> i.item.value, head |-> i.at + Size(i.item)]

(* A read that fails leaves the read head where it was, so that it can be  *)
(* tried again when more was written.                                      *)
FailedReadKeepsHead ==
    \A item \in Items : ~Read(item, read_head).ok => Read(item, read_head).head = read_head

(* luabuffer_index: buffer[p] is the byte at p.                            *)
Index(p) == IF p >= read_head /\ p < write_head - read_head THEN data[p + 1] ELSE Unknown

(* Every byte that is still to be read can be looked up.                   *)
IndexSeesAll == \A p \in read_head .. (write_head - 1) : Index(p) = data[p + 1]
=============================================================================
