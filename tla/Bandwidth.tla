------------------------------- MODULE Bandwidth -------------------------------
(***************************************************************************)
(* How a client keeps its audio within the bandwidth that the server       *)
(* names in its ServerSync: mumble_adjust_audio_bandwidth takes bitrate    *)
(* from the Opus encoder and makes packets longer.  The script sets both   *)
(* as well, before and after.                                              *)
(***************************************************************************)
EXTENDS Integers, FiniteSetsExt

CONSTANTS
    Limits,     \* what servers allow; NoLimit is -1 in an uint32_t
    NoLimit,
    Bitrates    \* what scripts set

VARIABLES
    max_bandwidth,
    bitrate,        \* of the encoder
    audio_frames,   \* the length of a packet in milliseconds
    before          \* ghost: the bitrate before the last sync, 0 once a script sets one

vars == <<max_bandwidth, bitrate, audio_frames, before>>

Sizes == {10, 20, 40, 60}

(* mumble_client_new and mumble_client_connect.                            *)
Init ==
    /\ max_bandwidth = NoLimit
    /\ bitrate = 128000 /\ audio_frames = 20
    /\ before = 0

-----------------------------------------------------------------------------
(* The length of a packet is multiplied and divided away.                  *)
getNetworkBandwidth(rate) == rate + 61 + (rate \div 8) * 2

Over(rate, limit) == limit # NoLimit /\ getNetworkBandwidth(rate) > limit

(* In tens of milliseconds.                                                *)
Longer(frames, limit) ==
    CASE frames <= 4 /\ limit <= 32000 -> 4
      [] frames = 1 /\ limit > 32000 /\ limit <= 64000 -> 2
      [] frames = 2 /\ limit > 32000 /\ limit <= 48000 -> 4
      [] OTHER -> frames

(* Defect: nothing is taken off below the rate of good music.              *)
StopsBelow(rate, limit) == rate < 64000 \/ ~Over(rate, limit)

Stops(rate, limit) == rate <= 8000 \/ ~Over(rate, limit)

(* The loop: thousands are taken off, one at least, until it may stop.     *)
Lowered(rate, limit) ==
    Max({r \in {rate - 1000 * k : k \in 1 .. (rate \div 1000) + 1} : Stops(r, limit)})

AtLeast(rate) == IF rate < 8000 THEN 8000 ELSE rate

(* mumble_adjust_audio_bandwidth.  The longer packets are only kept when   *)
(* the bitrate has changed.                                                *)
Adjust(limit) ==
    LET over   == Over(bitrate, limit)
        frames == IF over THEN Longer(audio_frames \div 10, limit) ELSE audio_frames \div 10
        rate   == AtLeast(IF over THEN Lowered(bitrate, limit) ELSE bitrate)
    IN  /\ bitrate' = rate
        /\ audio_frames' = IF rate = bitrate THEN audio_frames ELSE frames * 10

(* packet_server_sync, with or without a limit.  That of a ServerConfig    *)
(* is only told to the script.                                             *)
ServerSync ==
    \/ UNCHANGED vars
    \/ \E limit \in Limits :
        /\ max_bandwidth' = limit
        /\ Adjust(limit)
        /\ before' = bitrate

(* encoder_setBitRate, and client_setAudioPacketSize.                      *)
SetBitRate(rate) ==
    /\ bitrate' = rate /\ before' = 0
    /\ UNCHANGED <<max_bandwidth, audio_frames>>

SetPacketSize(size) ==
    /\ audio_frames' = size
    /\ UNCHANGED <<max_bandwidth, bitrate, before>>

Script == (\E rate \in Bitrates : SetBitRate(rate)) \/ (\E size \in Sizes : SetPacketSize(size))

Next == ServerSync \/ Script

Spec == Init /\ [][Next]_vars

-----------------------------------------------------------------------------
TypeOK ==
    /\ max_bandwidth \in Limits \cup {NoLimit}
    /\ bitrate \in Nat \ {0} /\ audio_frames \in Sizes /\ before \in Nat

(* After a ServerSync the audio fits in what the server allows, or has the *)
(* least bitrate there is, and was not lowered by a thousand more than is  *)
(* needed; as long as the script sets no other bitrate (mumble.c:805-817). *)
FitsTheLimit ==
    /\ TypeOK
    /\ before # 0 =>
        /\ bitrate >= 8000
        /\ bitrate > 8000 => ~Over(bitrate, max_bandwidth)
        /\ bitrate + 1000 <= before => Over(bitrate + 1000, max_bandwidth)

(* The limit of a ServerSync holds whatever the script sets later.  Not so *)
(* (encoder.c:144).                                                        *)
LimitIsKept == max_bandwidth # NoLimit /\ bitrate > 8000 => ~Over(bitrate, max_bandwidth)
=============================================================================
