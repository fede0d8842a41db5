-------------------------------- MODULE VarInt --------------------------------
(***************************************************************************)
(* The variable-length integers of buffer.c:163-313.  A uint64_t is the    *)
(* sequence of its eight bytes, the most significant first.                *)
(***************************************************************************)
EXTENDS Integers, SequencesExt

Byte   == 0 .. 255
UInt64 == [1 .. 8 -> Byte]
Zero   == <<0, 0, 0, 0, 0, 0, 0, 0>>

(* ~v                                                                      *)
Complement(v) == [k \in 1 .. 8 |-> 255 - v[k]]

(* v < high * 256^(bytes - 1)                                              *)
Fits(v, bytes, high) ==
    /\ \A k \in 1 .. (8 - bytes) : v[k] = 0
    /\ v[9 - bytes] < high

(* The last bytes of v.                                                    *)
LastBytes(v, bytes) == SubSeq(v, 9 - bytes, 8)

-----------------------------------------------------------------------------
(* The forms whose first byte holds a prefix and the highest bits.         *)
Forms == {[bytes |-> 1, prefix |->   0, high |-> 128],
          [bytes |-> 2, prefix |-> 128, high |->  64],
          [bytes |-> 3, prefix |-> 192, high |->  32],
          [bytes |-> 4, prefix |-> 224, high |->  16]}

FormsOf(v) == {f \in Forms : Fits(v, f.bytes, f.high)}

EncodePositive(v) ==
    IF FormsOf(v) # {}
    THEN LET f == CHOOSE f \in FormsOf(v) : \A g \in FormsOf(v) : f.bytes <= g.bytes
         IN  [LastBytes(v, f.bytes) EXCEPT ![1] = f.prefix + @]
    ELSE IF Fits(v, 4, 256) THEN <<240>> \o LastBytes(v, 4)
    ELSE <<244>> \o v

IsNegative(v) == v[1] >= 128 /\ Fits(Complement(v), 4, 256)

(* buffer_writeVarInt: a flag and a number, each of which it makes room    *)
(* for; most numbers need no flag.                                         *)
Encode(v) ==
    IF ~IsNegative(v) THEN << <<>>, EncodePositive(v)>>
    ELSE IF Fits(Complement(v), 1, 4) THEN << <<>>, <<252 + Complement(v)[8]>> >>
    ELSE <<<<248>>, EncodePositive(Complement(v))>>

-----------------------------------------------------------------------------
(* The bytes that follow the first one, and what the first one adds.       *)
Following(first) ==
    IF first < 240
    THEN (CHOOSE f \in Forms : f.prefix <= first /\ first < f.prefix + f.high).bytes - 1
    ELSE IF first < 244 THEN 4 ELSE 8

FirstBits(first) ==
    IF first >= 240 THEN 0
    ELSE first - (CHOOSE f \in Forms : f.prefix <= first /\ first < f.prefix + f.high).prefix

Pad(bytes) == SubSeq(Zero, 1, 8 - Len(bytes)) \o bytes

Positive(first, bytes) ==
    IF Len(bytes) = 8 THEN bytes ELSE Pad(<<FirstBits(first)>> \o bytes)

(* Defect: the number is negated, not complemented.                        *)
NegatedTwos(v) ==
    LET not == Complement(v) IN [not EXCEPT ![8] = (@ + 1) % 256]

Negated(v) == Complement(v)

(* Where the flags that stand at `at` end.                                 *)
AfterFlags(data, at, end) ==
    Min({r \in at .. end : r = end \/ data[r + 1] \notin 248 .. 251})

(* buffer_readVarInt at read_head `at` of a buffer that ends at `end`: what*)
(* it returns (0 for an error), the number, and the read head after.  Each *)
(* flag is a call of itself for the rest, which negates what that found.   *)
Decode(data, at, end) ==
    LET r           == AfterFlags(data, at, end)
        first       == data[r + 1]
        more        == Following(first)
        Signed(v)   == IF (r - at) % 2 = 1 THEN Negated(v) ELSE v
        Error(head) == [size |-> 0, value |-> Zero, head |-> head]
        Number(n, v) == [size |-> n, value |-> Signed(v), head |-> r + n]
    IN  IF r = end THEN Error(end)
        ELSE IF first >= 252 THEN Number(1, Negated(Pad(<<first % 4>>)))
        ELSE IF r + 1 + more > end THEN Error(r + 1)
        ELSE Number(1 + more, Positive(first, SubSeq(data, r + 2, r + 1 + more)))
=============================================================================
