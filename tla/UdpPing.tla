------------------------------- MODULE UdpPing -------------------------------
(***************************************************************************)
(* How a client decides between UDP and the TCP tunnel for its voice: it   *)
(* starts in the tunnel, pings the server over UDP every PING_TIME and     *)
(* whenever a CryptSetup was handled, leaves the tunnel at a UDP answer,   *)
(* and goes back when UDP_TCP_FALLBACK pings had none.                     *)
(*                                                                         *)
(* The network carries pings and pongs, loses and delays them, and goes    *)
(* down and up again.  Statistics of the delays are left out.              *)
(***************************************************************************)
EXTENDS Integers

CONSTANTS
    Byte,            \* 256: udp_ping_acc is a uint8_t
    UdpTcpFallback,  \* UDP_TCP_FALLBACK, 2
    MaxFlight,       \* bound: the pings, and the pongs, under way at once
    MaxSilent        \* bound: silent is not counted further

ASSUME PingAssumption ==
    /\ UdpTcpFallback \in Nat /\ Byte \in Nat /\ UdpTcpFallback < Byte
    /\ MaxFlight \in Nat /\ MaxSilent \in Nat /\ UdpTcpFallback < MaxSilent

VARIABLES
    valid,           \* crypt_isValid
    synced,          \* packet_server_sync has started ping_timer
    tcp_udp_tunnel, udp_ping_acc,
    up,              \* does UDP get through?
    pings, pongs,    \* how many are under way
    silent           \* ghost: pings since the last pong, without wrapping

client  == <<valid, synced>>
network == <<up, pings, pongs>>
vars    == <<client, tcp_udp_tunnel, udp_ping_acc, network, silent>>

(* mumble_client_new.                                                      *)
Init ==
    /\ valid = FALSE /\ synced = FALSE
    /\ tcp_udp_tunnel = TRUE /\ udp_ping_acc = 0
    /\ up \in BOOLEAN /\ pings = 0 /\ pongs = 0
    /\ silent = 0

-----------------------------------------------------------------------------
(* packet_sendudp: a datagram that may not get through.                    *)
SendUdp ==
    /\ pings' \in IF up /\ pings < MaxFlight THEN {pings + 1} ELSE {pings}
    /\ UNCHANGED <<up, pongs>>

(* Defect: one ping more may go unanswered.                                *)
FallsBackLate == udp_ping_acc > UdpTcpFallback

FallsBack == udp_ping_acc >= UdpTcpFallback

Counted == (udp_ping_acc + 1) % Byte

(* mumble_ping_udp.                                                        *)
Ping ==
    /\ SendUdp
    /\ tcp_udp_tunnel' = (tcp_udp_tunnel \/ FallsBack)
    /\ udp_ping_acc' = Counted
    /\ silent' = IF silent < MaxSilent THEN silent + 1 ELSE silent

NoPing == UNCHANGED <<tcp_udp_tunnel, udp_ping_acc, network, silent>>

(* mumble_ping_timer: nothing goes out over UDP before there is a key.     *)
PingTimer ==
    /\ synced
    /\ IF valid THEN Ping ELSE NoPing
    /\ UNCHANGED client

ServerSync ==
    /\ ~synced /\ synced' = TRUE
    /\ UNCHANGED <<valid, tcp_udp_tunnel, udp_ping_acc, network, silent>>

(* packet_crypt_setup, with a key that crypt_setKey accepts or not.        *)
CryptSetup ==
    /\ \E accepted \in BOOLEAN :
        /\ valid' = (valid \/ accepted)
        /\ IF valid' THEN Ping ELSE NoPing
    /\ UNCHANGED synced

(* Defect: the tunnel is not left.                                         *)
PongKeepsTunnel(udp) ==
    /\ UNCHANGED tcp_udp_tunnel
    /\ udp_ping_acc' = 0
    /\ silent' = 0

(* mumble_update_ping_udp.                                                 *)
Pong(udp) ==
    /\ tcp_udp_tunnel' = (tcp_udp_tunnel /\ ~udp)
    /\ udp_ping_acc' = 0
    /\ silent' = 0

(* socket_read_event_udp, and packet_tcp_udp_tunnel.                       *)
ReceiveUdp ==
    /\ pongs > 0 /\ pongs' = pongs - 1
    /\ Pong(TRUE)
    /\ UNCHANGED <<client, up, pings>>

ReceiveTunnel ==
    /\ pongs > 0 /\ pongs' = pongs - 1
    /\ Pong(FALSE)
    /\ UNCHANGED <<client, up, pings>>

-----------------------------------------------------------------------------
(* The server answers each ping it gets.                                   *)
Answer ==
    /\ up /\ pings > 0 /\ pongs < MaxFlight
    /\ pings' = pings - 1 /\ pongs' = pongs + 1
    /\ UNCHANGED <<client, tcp_udp_tunnel, udp_ping_acc, up, silent>>

LosePing ==
    /\ ~up /\ pings > 0 /\ pings' = pings - 1
    /\ UNCHANGED <<client, tcp_udp_tunnel, udp_ping_acc, up, pongs, silent>>

LosePong ==
    /\ ~up /\ pongs > 0 /\ pongs' = pongs - 1
    /\ UNCHANGED <<client, tcp_udp_tunnel, udp_ping_acc, up, pings, silent>>

UpOrDown ==
    /\ up' = ~up
    /\ UNCHANGED <<client, tcp_udp_tunnel, udp_ping_acc, pings, pongs, silent>>

-----------------------------------------------------------------------------
Next ==
    \/ PingTimer \/ ServerSync \/ CryptSetup
    \/ ReceiveUdp \/ ReceiveTunnel
    \/ Answer \/ LosePing \/ LosePong \/ UpOrDown

Spec == Init /\ [][Next]_vars

(* The timer goes off, the server synchronises and sets a key that is      *)
(* good, and what gets through is answered and read.                       *)
FairSpec ==
    /\ Spec
    /\ WF_vars(PingTimer) /\ WF_vars(ServerSync) /\ WF_vars(~valid /\ CryptSetup /\ valid')
    /\ SF_vars(Answer) /\ SF_vars(ReceiveUdp)

-----------------------------------------------------------------------------
TypeOK ==
    /\ valid \in BOOLEAN /\ synced \in BOOLEAN
    /\ tcp_udp_tunnel \in BOOLEAN /\ udp_ping_acc \in 0 .. (Byte - 1)
    /\ up \in BOOLEAN /\ pings \in 0 .. MaxFlight /\ pongs \in 0 .. MaxFlight
    /\ silent \in 0 .. MaxSilent

(* Voice goes out over UDP only while at most UDP_TCP_FALLBACK pings went  *)
(* unanswered, however often the counter wrapped in the tunnel before.     *)
UdpIsAnswered ==
    /\ TypeOK
    /\ ~tcp_udp_tunnel => silent = udp_ping_acc /\ silent <= UdpTcpFallback

(* "We didn't get a response from a ping 3 times in a row" (mumble.c:179): *)
(* that many were sent and not answered before the one that falls back.    *)
FallbackAfterThree == [][~tcp_udp_tunnel /\ tcp_udp_tunnel' => silent >= 3]_vars

(* A client whose UDP stays dead ends up in the tunnel for good, and one   *)
(* whose UDP works leaves the tunnel again and again.                      *)
TunnelFollowsPath ==
    /\ <>[]~up => <>[]tcp_udp_tunnel
    /\ <>[]up => []<>~tcp_udp_tunnel
=============================================================================
