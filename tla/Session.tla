-------------------------------- MODULE Session --------------------------------
(***************************************************************************)
(* A connection from the side of the client: its voice, which goes over    *)
(* UDP or through the TCP tunnel, and is kept within the bandwidth that    *)
(* the server names; and its requests, which share the TCP socket with the *)
(* pings and with the voice in the tunnel.                                 *)
(***************************************************************************)
EXTENDS UdpPing

CONSTANTS
    Limits, NoLimit, Bitrates,
    Users, Channels, Self, Root, None, MaxCalls

ASSUME SessionAssumption ==
    /\ Limits \subseteq Nat /\ NoLimit \notin Limits /\ Bitrates \subseteq Nat \ {0}
    /\ Self \in Users /\ Root \in Channels /\ MaxCalls \in Nat

VARIABLES
    max_bandwidth, bitrate, audio_frames, before,
    target, group, recorded, recording, left, connected,
    pending, torn, world, heard, calls, asked, wish, astray, blocked, fault,
    asking      \* bound: requests are followed where UDP stays down

Audio == INSTANCE Bandwidth
Tcp   == INSTANCE Requests

audioVars == <<max_bandwidth, bitrate, audio_frames, before>>
tcpVars   == <<target, group, recorded, recording, left, connected, pending, torn, world,
               heard, calls, asked, wish, astray, blocked, fault>>
allVars   == <<vars, audioVars, tcpVars, asking>>

SessionInit ==
    /\ Init /\ Audio!Init /\ Tcp!Init
    /\ asking \in BOOLEAN /\ (asking => ~up) /\ (~asking => recorded = {})

-----------------------------------------------------------------------------
(* Steps of the connection with the voice over UDP.                        *)

OverUdp(step) == ~asking /\ step /\ UNCHANGED <<audioVars, tcpVars, asking>>

Pings == OverUdp(PingTimer)

Keyed == OverUdp(CryptSetup)

(* The handler of the ServerSync starts the pings, and then adjusts the    *)
(* audio.                                                                  *)
Synced ==
    /\ ~asking
    /\ ServerSync /\ Audio!ServerSync
    /\ UNCHANGED <<tcpVars, asking>>

Answers  == OverUdp(Answer)
Receives == OverUdp(ReceiveUdp)

(* mumble_client_connecting: the encoder is given to a script once the     *)
(* client connects.                                                        *)
SetsAudio ==
    /\ ~asking /\ Audio!Script
    /\ UNCHANGED <<vars, tcpVars, asking>>

Requests == asking /\ Tcp!Next /\ UNCHANGED <<vars, audioVars, asking>>

SessionNext ==
    \/ Pings \/ Keyed \/ Synced \/ Answers \/ Receives
    \/ OverUdp(ReceiveTunnel) \/ OverUdp(LosePing) \/ OverUdp(LosePong) \/ OverUdp(UpOrDown)
    \/ SetsAudio \/ Requests

(* The fairness of UdpPing.                                                *)
SessionSpec ==
    /\ SessionInit /\ [][SessionNext]_allVars
    /\ WF_allVars(Pings) /\ WF_allVars(Synced) /\ WF_allVars(~valid /\ Keyed /\ valid')
    /\ SF_allVars(Answers) /\ SF_allVars(Receives)

-----------------------------------------------------------------------------
(* Bandwidth's property (mumble.c:805).                                    *)
FitsTheLimit == Audio!FitsTheLimit

(* Those of Requests: the server hears requests in order (packet.c:234) ...*)
HeardInOrder == Tcp!HeardInOrder

(* ... and does what they mean (user.c:97), and is told of the recording   *)
(* (mumble.c:1378, user.c:588).                                            *)
RequestsMeant == Tcp!RequestsMeant
=============================================================================
